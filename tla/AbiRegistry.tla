---------------------------- MODULE AbiRegistry ----------------------------
(***************************************************************************)
(* lib/abiRegistry.ts and the routes app/api/contracts/** and              *)
(* app/api/abi/batch: the table `contracts` of the database, a cache of    *)
(* its rows, a cache of addresses that no source knew, and lookups under   *)
(* way at Sourcify and Etherscan.                                          *)
(*                                                                         *)
(* An ABI is told apart by where it comes from: the user, or the sources'  *)
(* answer for one chain.  Table and caches are keyed by the address alone. *)
(* clearAbiCache has no caller.                                            *)
(***************************************************************************)
EXTENDS Database

CONSTANTS
    Addr,       \* contract addresses
    Chain,      \* chain ids
    Lookup,     \* slots for lookups under way: a batch runs several, for different addresses
    User,       \* an ABI that a user saved
    None,
    HasKey      \* TRUE when ETHERSCAN_API_KEY is set

ASSUME RegistryAssumption ==
    /\ HasKey \in BOOLEAN /\ User \notin Chain /\ None \notin Addr \cup Chain \cup {User}

VARIABLES
    contracts,  \* contracts[a]: the ABI in the table of the open file, or None
    abiCache,   \* abiCache[a]: the cached ABI, or None
    missCache,  \* missCache[a]: "fresh" for MISS_TTL_MS after a lookup failed, then "stale"
    lookup,     \* lookup[l]: where autoFetchABI is suspended
    verified    \* verified[a]: the chains for which some source has the contract (external)

registryVars == <<contracts, abiCache, missCache, lookup, verified>>
vars == <<dbVars, registryVars>>

Abi == Chain \cup {User}

\* `crossed` is history: the user saved or deleted the contract after the lookup began.
Idle == [at |-> "idle", addr |-> None, chain |-> None, crossed |-> FALSE]
LookupState == [at : {"idle", "full_match", "partial_match", "explorer"},
                addr : Addr \cup {None}, chain : Chain \cup {None}, crossed : BOOLEAN]

TypeOK ==
    /\ DatabaseTypeOK
    /\ contracts \in [Addr -> Abi \cup {None}] /\ abiCache \in [Addr -> Abi \cup {None}]
    /\ missCache \in [Addr -> {"none", "fresh", "stale"}]
    /\ lookup \in [Lookup -> LookupState]
    /\ verified \in [Addr -> SUBSET Chain]

Forgotten == [a \in Addr |-> None]

Init ==
    /\ DatabaseInit
    /\ contracts = Forgotten /\ abiCache = Forgotten /\ missCache = [a \in Addr |-> "none"]
    /\ lookup = [l \in Lookup |-> Idle]
    /\ verified = [a \in Addr |-> {}]

-----------------------------------------------------------------------------
(* The table and its caches.                                               *)

saveContract(a, abi) ==
    /\ contracts' = [contracts EXCEPT ![a] = abi]
    /\ abiCache' = [abiCache EXCEPT ![a] = abi]
    /\ missCache' = [missCache EXCEPT ![a] = "none"]

\* Mutant: the row goes, the cached one stays.
deleteContractRow(a) ==
    /\ contracts' = [contracts EXCEPT ![a] = None]
    /\ UNCHANGED abiCache
    /\ missCache' = [missCache EXCEPT ![a] = "none"]

deleteContract(a) ==
    /\ contracts' = [contracts EXCEPT ![a] = None]
    /\ abiCache' = [abiCache EXCEPT ![a] = None]
    /\ missCache' = [missCache EXCEPT ![a] = "none"]

\* getContract: the cache, else the table, which fills the cache.
getContract(a) == IF abiCache[a] # None THEN abiCache[a] ELSE contracts[a]
Filled(a)      == [abiCache EXCEPT ![a] = getContract(a)]

Cross(a) == lookup' = [l \in Lookup |-> [lookup[l] EXCEPT !.crossed = @ \/ lookup[l].addr = a]]

\* POST /api/contracts.
PostContract(a) ==
    /\ Ready /\ saveContract(a, User) /\ Cross(a)
    /\ UNCHANGED <<dbVars, verified>>

\* DELETE /api/contracts/[address].
DeleteRoute(a) ==
    /\ Ready /\ deleteContract(a) /\ Cross(a)
    /\ UNCHANGED <<dbVars, verified>>

\* GET /api/contracts: getAllContracts.
ListContracts ==
    /\ Ready
    /\ abiCache' = [a \in Addr |-> IF contracts[a] # None THEN contracts[a] ELSE abiCache[a]]
    /\ UNCHANGED <<dbVars, contracts, missCache, lookup, verified>>

\* decodeInput, decodeEvent and getName, for rows and dry runs: an address that is not
\* known is not looked up.
Decode(a) ==
    /\ Ready
    /\ abiCache' = Filled(a)
    /\ UNCHANGED <<dbVars, contracts, missCache, lookup, verified>>

-----------------------------------------------------------------------------
(* autoFetchABI.                                                           *)

\* The address is known: its ABI is the answer.
Known(a) ==
    /\ Ready /\ getContract(a) # None
    /\ abiCache' = Filled(a)
    /\ UNCHANGED <<dbVars, contracts, missCache, lookup, verified>>

\* Mutants: ask whatever the registry has; never ask again.
AskAnyway(l, a, c) ==
    /\ Ready /\ lookup[l] = Idle /\ missCache[a] # "fresh"
    /\ lookup' = [lookup EXCEPT ![l] = [at |-> "full_match", addr |-> a, chain |-> c, crossed |-> FALSE]]
    /\ UNCHANGED <<dbVars, contracts, abiCache, missCache, verified>>

AskOnce(l, a, c) == AskAnyway(l, a, c) /\ getContract(a) = None /\ missCache[a] = "none"

\* It is not, and was not missed lately: ask Sourcify.
Ask(l, a, c) ==
    /\ Ready /\ lookup[l] = Idle
    /\ getContract(a) = None /\ missCache[a] # "fresh"
    /\ lookup' = [lookup EXCEPT ![l] = [at |-> "full_match", addr |-> a, chain |-> c, crossed |-> FALSE]]
    /\ UNCHANGED <<dbVars, contracts, abiCache, missCache, verified>>

\* GET /api/contracts/[address], and each address of a batch: batchFetchABIs looks up
\* several side by side.
Request(l, a, c) == Known(a) \/ Ask(l, a, c)

\* The source that was asked has it: fetchFromSourcify and fetchFromExplorer save what they return.
Hit(l) ==
    LET a == lookup[l].addr
        c == lookup[l].chain
    IN  /\ Ready /\ lookup[l].at # "idle" /\ c \in verified[a]
        /\ saveContract(a, c)
        /\ lookup' = [lookup EXCEPT ![l] = Idle]
        /\ UNCHANGED <<dbVars, verified>>

\* It has not, or fails, or takes longer than its timeout: ask the next one.
NextSource(at) ==
    IF at = "full_match" THEN "partial_match" ELSE IF at = "partial_match" /\ HasKey THEN "explorer" ELSE "idle"

Miss(l) ==
    LET next == NextSource(lookup[l].at)
    IN  /\ Ready /\ lookup[l].at # "idle"
        /\ \/ /\ next # "idle"
              /\ lookup' = [lookup EXCEPT ![l].at = next]
              /\ UNCHANGED missCache
           \/ /\ next = "idle"
              /\ lookup' = [lookup EXCEPT ![l] = Idle]
              /\ missCache' = [missCache EXCEPT ![lookup[l].addr] = "fresh"]
        /\ UNCHANGED <<dbVars, contracts, abiCache, verified>>

\* MISS_TTL_MS passes.
Expire(a) ==
    /\ missCache[a] = "fresh" /\ missCache' = [missCache EXCEPT ![a] = "stale"]
    /\ UNCHANGED <<dbVars, contracts, abiCache, lookup, verified>>

\* Somebody verifies the contract at a source.
Verify(a, c) ==
    /\ verified' = [verified EXCEPT ![a] = @ \cup {c}] /\ c \notin verified[a]
    /\ UNCHANGED <<dbVars, contracts, abiCache, missCache, lookup>>

-----------------------------------------------------------------------------
(* The database below: a new process has no caches, a new file no rows.    *)

Restart ==
    /\ Crash
    /\ abiCache' = Forgotten /\ missCache' = [a \in Addr |-> "none"]
    /\ lookup' = [l \in Lookup |-> Idle]
    /\ UNCHANGED <<contracts, verified>>

Reopen ==
    /\ getDB
    /\ contracts' = IF linked THEN contracts ELSE Forgotten
    /\ UNCHANGED <<abiCache, missCache, lookup, verified>>

DatabaseStep ==
    /\ Migrate \/ Throw \/ ResetDb \/ Begin \/ Insert \/ Commit \/ Rollback
    /\ UNCHANGED registryVars

Next ==
    \/ Restart \/ Reopen \/ DatabaseStep \/ ListContracts
    \/ \E a \in Addr : PostContract(a) \/ DeleteRoute(a) \/ Decode(a) \/ Expire(a)
    \/ \E a \in Addr, c \in Chain : Verify(a, c)
    \/ \E l \in Lookup : Hit(l) \/ Miss(l)
    \/ \E l \in Lookup, a \in Addr, c \in Chain : Request(l, a, c)

Spec == Init /\ [][Next]_vars

\* A started upgrade or transaction goes on, a fetch ends by its timeout at the latest, time passes.
\* A page that shows the address asks for it again and again, and a source that has it does not
\* fail every time.
FairSpec ==
    /\ Spec
    /\ WF_vars(Migrate /\ UNCHANGED registryVars)
    /\ WF_vars((Insert \/ Commit) /\ UNCHANGED registryVars)
    /\ \A a \in Addr : WF_vars(Expire(a))
    /\ \A l \in Lookup : WF_vars(Hit(l) \/ Miss(l)) /\ SF_vars(Hit(l))
    /\ \A a \in Addr, c \in Chain : SF_vars(\E l \in Lookup : Ask(l, a, c))

-----------------------------------------------------------------------------
(* Properties.                                                             *)

\* The cache says of no contract what the table does not, however saves, deletes, late answers,
\* restarts and a deleted file follow each other.
CacheIsTable == handle = "open" => \A a \in Addr : abiCache[a] # None => abiCache[a] = contracts[a]

\* The answer of a source replaces the ABI a user saved only if the user saved it while that lookup
\* was under way; an ABI the registry has is otherwise never looked up.
UserAbiStands ==
    [][\A a \in Addr :
         contracts[a] = User /\ contracts'[a] \in Chain
           => \E l \in Lookup : lookup[l].addr = a /\ lookup[l].crossed /\ lookup'[l] = Idle]_vars

\* A contract that a source has is found in the end, although earlier lookups missed it and were
\* remembered, if the database stays usable.
VerifiedIsFound ==
    \A a \in Addr, c \in Chain :
        <>[](handle = "open") => (c \in verified[a] ~> contracts[a] # None)
=============================================================================
