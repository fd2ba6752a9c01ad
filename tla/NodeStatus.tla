------------------------------ MODULE NodeStatus ------------------------------
(***************************************************************************)
(* What the control page shows of the node: the poll of useDevnet.ts, the  *)
(* handler of /anvil/status, the target lib/activeProject.ts resolves for  *)
(* it and the settings lib/nodeObserver.ts reads off the node.             *)
(*                                                                         *)
(* A request lives in a slot.  The handler awaits the answers of the ports *)
(* it probes, the blocks it samples and a balance, and the nodes, the      *)
(* caches and other requests move on meanwhile.  A settings record is      *)
(* abstracted to the port, the chain id and the block time.                *)
(***************************************************************************)
EXTENDS Integers, Sequences, FiniteSets, FiniteSetsExt

CONSTANTS
    Port, DefaultPort,      \* DEVNET_RPC_PORT, probed whatever is running
    Chain, DefaultChain,    \* DEVNET_CHAIN_ID
    Every, Gap,             \* block times; gaps between blocks mined on demand
    Project,                \* keys of `instances` besides the legacy one, None
    None,
    Samples,                \* BLOCK_TIME_SAMPLES, 4
    MaxStopped,             \* bound on the polls of stopped effects still in flight
    MaxHeight,              \* bound on the blocks of a node
    MaxEvents,              \* bound on what is counted below, together
    Holes                   \* TRUE when a batch may lack a block between two others

\* A node is its chain id, its block time and the timestamps of its blocks.
Node == [chain : Chain, every : Every \cup {None}, times : Seq(Nat)]

ASSUME StatusAssumption ==
    /\ Port \subseteq Nat /\ DefaultPort \in Port /\ DefaultChain \in Chain
    /\ Every \cup Gap \subseteq Nat \ {0} /\ Samples \in Nat \ {0}
    /\ MaxStopped \in Nat /\ MaxHeight \in Nat
    /\ None \notin Project \cup Nat /\ None \notin Node
    /\ Holes \in BOOLEAN

VARIABLES
    node,           \* node[p]: the anvil that listens on p, or None
    instance,       \* instance[k]: the configuration of the child the server has a handle to
    listing,        \* the cached listing of anvil processes
    lastBlockTime,  \* by port and chain id
    request,        \* the poll of the page's effect, 0, and those of stopped effects
    shown,          \* the status on the page
    changes,        \* starts, stops and reloads so far
    faults          \* refetches, and calls that failed or came back in part

world  == <<node, instance, changes>>
caches == <<listing, lastBlockTime>>
vars   == <<world, caches, request, shown, faults>>

Key  == Project \cup {None}
Slot == 0..MaxStopped

Config == [port : Port, chain : Chain, every : Every \cup {None}]

Free == [stage |-> "free", outdated |-> FALSE]

\* By stage, a request holds what the handler keeps over the await it is at.
TypeOK ==
    /\ node \in [Port -> Node \cup {None}]
    /\ instance \in [Key -> Config \cup {None}]
    /\ listing.fresh \in BOOLEAN /\ listing.found \subseteq [port : Port, key : Key]
    /\ DOMAIN lastBlockTime = Port \X Chain
    /\ \A i \in Slot :
         /\ request[i].stage \in {"free", "sent", "probing", "balance", "answered"}
         /\ request[i].stage = "probing" => request[i].waits \subseteq DOMAIN request[i].probe
    /\ shown.port \in Port /\ shown.chain \in Chain /\ shown.late \in BOOLEAN
    /\ changes \in Nat /\ faults \in Nat

-----------------------------------------------------------------------------
(* The nodes, and what the server and its database remember of them.       *)

\* A new node has one block.
Genesis(chain, every) == [chain |-> chain, every |-> every, times |-> <<0>>]

NothingShown ==
    [running |-> FALSE, port |-> DefaultPort, chain |-> DefaultChain,
     observed |-> FALSE, every |-> None, late |-> FALSE]

Init ==
    /\ \E g \in Config, kept \in SUBSET {None} :
         /\ node = [q \in Port |-> IF q = g.port THEN Genesis(g.chain, g.every) ELSE None]
         /\ instance = [k \in Key |-> IF k \in kept THEN g ELSE None]
    /\ listing = [found |-> {}, fresh |-> FALSE]
    /\ lastBlockTime = [k \in Port \X Chain |-> None]
    /\ request = [i \in Slot |-> Free]
    /\ shown = NothingShown
    /\ changes = 0 /\ faults = 0

Change == changes + faults < MaxEvents /\ changes' = changes + 1
Fault  == changes + faults < MaxEvents /\ faults' = faults + 1

\* A node with no block time mines when a transaction asks it to.
Mine(p) ==
    /\ node[p] # None /\ Len(node[p].times) <= MaxHeight
    /\ \E gap \in (IF node[p].every = None THEN Gap ELSE {node[p].every}) :
         node' = [node EXCEPT ![p].times = Append(@, @[Len(@)] + gap)]
    /\ UNCHANGED <<instance, changes, caches, request, shown, faults>>

\* From a terminal.
StartByHand(p, c, e) ==
    /\ Change /\ node[p] = None
    /\ node' = [node EXCEPT ![p] = Genesis(c, e)]
    /\ UNCHANGED <<instance, caches, request, shown, faults>>

KillByHand(p) ==
    /\ Change /\ node[p] # None
    /\ node' = [node EXCEPT ![p] = None]
    /\ UNCHANGED <<instance, caches, request, shown, faults>>

\* Mutant: the handle of a child that died on its own is kept.
ExitUnheard(k) ==
    /\ instance[k] # None /\ node[instance[k].port] = None
    /\ UNCHANGED vars

\* The "exit" event of a child that was killed.
Exit(k) ==
    /\ instance[k] # None /\ node[instance[k].port] = None
    /\ instance' = [instance EXCEPT ![k] = None]
    /\ UNCHANGED <<node, changes, caches, request, shown, faults>>

\* By the control API.
StartManaged(k, g) ==
    /\ Change /\ instance[k] = None /\ node[g.port] = None
    /\ node' = [node EXCEPT ![g.port] = Genesis(g.chain, g.every)]
    /\ instance' = [instance EXCEPT ![k] = g]
    /\ UNCHANGED <<listing, lastBlockTime, request, shown, faults>>

StopManaged(k) ==
    /\ Change /\ instance[k] # None
    /\ node' = [node EXCEPT ![instance[k].port] = None]
    /\ instance' = [instance EXCEPT ![k] = None]
    /\ UNCHANGED <<listing, lastBlockTime, request, shown, faults>>

\* The server restarts: its requests fail and its nodes go on without it.
Reload ==
    /\ Change
    /\ instance' = [k \in Key |-> None]
    /\ listing' = [listing EXCEPT !.fresh = FALSE]
    /\ lastBlockTime' = [k \in Port \X Chain |-> None]
    /\ request' = [i \in Slot |-> Free]
    /\ UNCHANGED <<node, shown, faults>>

\* PROCESS_CACHE_TTL_MS passes.
ExpireListing ==
    /\ listing.fresh
    /\ listing' = [listing EXCEPT !.fresh = FALSE]
    /\ UNCHANGED <<world, lastBlockTime, request, shown, faults>>

-----------------------------------------------------------------------------
(* activeProject.ts, for a request that names no project.                  *)

Owner(p) ==
    IF \E k \in Project : instance[k] # None /\ instance[k].port = p
    THEN CHOOSE k \in Project : instance[k] # None /\ instance[k].port = p
    ELSE None

\* listAnvilProcessesCached
Listed ==
    IF listing.fresh THEN listing.found
    ELSE {[port |-> p, key |-> Owner(p)] : p \in {q \in Port : node[q] # None}}

\* The first of a listing, which is sorted.
Lowest(S) == CHOOSE l \in S : \A m \in S : l.port <= m.port

Target(p, c, k) == [port |-> p, chain |-> c, key |-> k]

\* Handles first, in the order in which their keys were first used, then what
\* listens.  With neither it is a project whose row says "running", any of them here,
\* or the default.
Targets ==
    LET held  == {k \in Key : instance[k] # None}
        usual == {l \in Listed : l.port = DefaultPort}
    IN  IF held # {} THEN {Target(instance[k].port, instance[k].chain, k) : k \in held}
        ELSE IF Listed # {} THEN
            LET l == IF usual # {} THEN CHOOSE u \in usual : TRUE ELSE Lowest(Listed)
            IN  {Target(l.port, DefaultChain, l.key)}
        ELSE {Target(DefaultPort, DefaultChain, None)}
             \cup {Target(p, c, k) : p \in Port, c \in Chain, k \in Project}

-----------------------------------------------------------------------------
(* usePolledResource.                                                      *)

InFlight(i) == request[i].stage # "free"

Asked == [Free EXCEPT !.stage = "sent"]

\* The effect's timer fires.
Ask ==
    /\ ~InFlight(0)
    /\ request' = [request EXCEPT ![0] = Asked]
    /\ UNCHANGED <<world, caches, shown, faults>>

\* The effect restarts: what is under way is stopped, and a request sent at once.
Refetch(i) ==
    /\ Fault /\ InFlight(0) /\ i # 0 /\ ~InFlight(i)
    /\ request' = [request EXCEPT ![0] = Asked, ![i] = request[0]]
    /\ UNCHANGED <<world, caches, shown>>

\* Mutant: any answer is shown.
DeliverAny(i) ==
    /\ request[i].stage = "answered"
    /\ request' = [j \in Slot |-> IF j = i \/ ~InFlight(j) THEN Free
                                  ELSE [request[j] EXCEPT !.outdated = @ \/ i = 0]]
    /\ shown' = [request[i].status EXCEPT !.late = request[i].outdated]
    /\ UNCHANGED <<world, caches, faults>>

\* The answer of a stopped effect is dropped.  Any other is shown, and the requests
\* that were sent before it are out of date from then on.
Deliver(i) ==
    /\ request[i].stage = "answered"
    /\ IF i = 0
       THEN /\ request' = [j \in Slot |-> IF j = 0 \/ ~InFlight(j) THEN Free
                                          ELSE [request[j] EXCEPT !.outdated = TRUE]]
            /\ shown' = [request[0].status EXCEPT !.late = request[0].outdated]
       ELSE request' = [request EXCEPT ![i] = Free] /\ UNCHANGED shown
    /\ UNCHANGED <<world, caches, faults>>

\* An error leaves the last value on the page.
Fail(i) ==
    /\ Fault /\ InFlight(i)
    /\ request' = [request EXCEPT ![i] = Free]
    /\ UNCHANGED <<world, caches, shown>>

-----------------------------------------------------------------------------
(* The handler of /anvil/status.                                           *)

Goes(i, r) == request' = [request EXCEPT ![i] = r]

\* Every port is probed at once.
Begin(i) ==
    /\ request[i].stage = "sent"
    /\ \E target \in Targets :
         LET found == {l.port : l \in Listed}
             ports == found \cup {target.port, DefaultPort}
         IN  Goes(i, [stage |-> "probing", outdated |-> request[i].outdated, target |-> target,
                      found |-> found, waits |-> ports, probe |-> [p \in ports |-> None]])
    /\ listing' = [found |-> Listed, fresh |-> TRUE]
    /\ UNCHANGED <<world, lastBlockTime, shown, faults>>

\* A port answers, or nothing does in 800 ms.  A chain id that is missing from the
\* batch reads as 31337.
ProbePort(i, p) ==
    /\ request[i].stage = "probing" /\ p \in request[i].waits
    /\ LET answer(probe) == request' = [request EXCEPT ![i].probe[p] = probe,
                                                       ![i].waits = @ \ {p}]
           height == Len(node[p].times) - 1
       IN  \/ node[p] = None /\ answer(None) /\ UNCHANGED faults
           \/ node[p] # None /\ answer([height |-> height, chain |-> node[p].chain])
                             /\ UNCHANGED faults
           \/ node[p] # None /\ Fault
                             /\ (answer(None) \/ answer([height |-> height, chain |-> DefaultChain]))
    /\ UNCHANGED <<world, caches, shown>>

\* What the server itself remembers of the target's node.
Remembered(key) == IF instance[key] = None THEN None ELSE instance[key].every

Answer(i, running, port, chain, observed, every) ==
    Goes(i, [stage |-> "answered", outdated |-> request[i].outdated,
             status |-> [running |-> running, port |-> port, chain |-> chain,
                         observed |-> observed, every |-> every, late |-> FALSE]])

\* Blocks that come back from a batch that asked for those in S.
Partial(S) ==
    {got \in SUBSET S : Holes \/ \A a, c \in got, b \in S : a < b /\ b < c => b \in got}

\* The sampled timestamps, newest first: missing ones are filtered out.
Timestamps(n, got) ==
    LET ids == CHOOSE q \in [1..Cardinality(got) -> got] :
                  /\ \A b \in got : \E j \in DOMAIN q : q[j] = b
                  /\ \A j, k \in DOMAIN q : j < k => q[j] > q[k]
    IN  [j \in DOMAIN ids |-> n.times[ids[j] + 1]]

\* The ports in the order in which they are looked through: the target's, those found, the default.
FirstAnswer(r, alive) ==
    IF r.target.port \in alive THEN r.target.port
    ELSE IF r.found \cap alive # {} THEN Min(r.found \cap alive)
    ELSE DefaultPort

\* Once every probe is back, the first port that answered is the node, whichever was
\* resolved, and its blocks are sampled, the first batch of observeConfig: the node
\* may have been replaced meanwhile, or give no answer.
Observe(i) ==
    /\ request[i].stage = "probing" /\ request[i].waits = {}
    /\ LET r     == request[i]
           alive == {p \in DOMAIN r.probe : r.probe[p] # None}
           port  == FirstAnswer(r, alive)
           found == r.probe[port]
           n     == node[port]
           asked == {found.height - back : back \in 0..Samples - 1} \cap Nat
           held  == asked \cap 0..Len(n.times) - 1
           read(chain, got) == Goes(i, [stage |-> "balance", outdated |-> r.outdated,
                                        key |-> r.target.key, found |-> found,
                                        node |-> <<port, chain>>, times |-> Timestamps(n, got)])
       IN  \/ /\ alive = {}
              /\ Answer(i, instance[r.target.key] # None, r.target.port, r.target.chain,
                        FALSE, Remembered(r.target.key))
              /\ UNCHANGED faults
           \/ /\ alive # {} /\ n # None
              /\ \/ read(n.chain, held) /\ UNCHANGED faults
                 \/ Fault /\ \E got \in Partial(held), c \in {n.chain, found.chain} : read(c, got)
           \/ /\ alive # {}
              /\ \/ n = None /\ UNCHANGED faults
                 \/ n # None /\ Fault
              /\ Answer(i, TRUE, port, found.chain, FALSE, Remembered(r.target.key))
    /\ UNCHANGED <<world, caches, shown>>

\* Mutant: the time between the newest and the oldest.
InferBlockTimeSpan(times) == IF Len(times) >= 2 THEN times[1] - times[Len(times)] ELSE None

InferBlockTime(times) ==
    LET gap(j) == times[j] - times[j + 1]
    IN  IF Len(times) >= 2 /\ \A j \in 1..Len(times) - 1 : gap(j) = gap(1) /\ gap(j) > 0
        THEN gap(1) ELSE None

\* After the second batch, for a balance.  A sample that came back short leaves the
\* memory of the node alone and is answered from it, any other replaces it.
Reading(i) ==
    LET r == request[i]
    IN  IF Len(r.times) < 2 /\ r.found.height >= 1 /\ Samples >= 2 THEN lastBlockTime[r.node] ELSE InferBlockTime(r.times)

Settle(i) ==
    /\ request[i].stage = "balance"
    /\ LET r == request[i]
           same  == instance[r.key] # None /\ instance[r.key].port = r.node[1]
           every == IF Reading(i) = None /\ same THEN Remembered(r.key) ELSE Reading(i)
       IN  /\ lastBlockTime' = [lastBlockTime EXCEPT ![r.node] = Reading(i)]
           /\ Answer(i, TRUE, r.node[1], r.found.chain, TRUE, every)
    /\ UNCHANGED <<world, listing, shown, faults>>

-----------------------------------------------------------------------------
Serve(i) ==
    \/ Begin(i) \/ Observe(i) \/ Settle(i) \/ Deliver(i)
    \/ \E p \in Port : ProbePort(i, p)

Environment ==
    \/ \E p \in Port :
         \/ Mine(p) \/ KillByHand(p)
         \/ \E c \in Chain, e \in Every \cup {None} : StartByHand(p, c, e)
    \/ \E k \in Key : StopManaged(k) \/ \E g \in Config : StartManaged(k, g)
    \/ Reload

Next ==
    \/ Environment
    \/ \E k \in Key : Exit(k)
    \/ Ask \/ \E i \in Slot : Refetch(i) \/ Fail(i) \/ Serve(i)
    \/ ExpireListing

Fairness ==
    /\ \A i \in Slot : WF_vars(Serve(i))
    /\ WF_vars(Ask)
    /\ \A k \in Key : WF_vars(Exit(k))
    /\ WF_vars(ExpireListing)

Spec     == Init /\ [][Next]_vars
FairSpec == Spec /\ Fairness

-----------------------------------------------------------------------------
(* Properties.                                                             *)

\* usePolledResource: "if (!stopped) setData": whatever the order in which the
\* answers arrive, the page never goes back to that of an earlier request.
NewestAnswerShown == ~shown.late

\* "Identical gaps mean --block-time" (nodeObserver.ts:45): while one node that was
\* started with a block time runs the page shows that block time or none, although
\* requests cross and batches come back short.  OnDemandStaysBlank is about the others.
BlockTimeIsTrue ==
    LET n == node[shown.port]
    IN  n # None /\ n.every # None /\ changes = 0 /\ shown.observed =>
            shown.every \in {n.every, None}

\* What the page shows is the newest answer, and the block time it shows of a node that
\* was started with one is that.
AnswersAreTrue == NewestAnswerShown /\ BlockTimeIsTrue

\* "anything else is on-demand mining and the field stays blank rather than inventing a
\* number" (README.md:565), "anything else is on-demand mining and stays unknown"
\* (nodeObserver.ts:46).  It is violated: with a gap or several equal ones, so after the
\* first transaction, the sample of an on-demand node looks like that of an interval.
OnDemandStaysBlank ==
    LET n == node[shown.port]
    IN  n # None /\ n.every = None /\ changes = 0 /\ shown.observed => shown.every = None

\* "blanking the field on it made the reading flicker" (nodeObserver.ts:62): ... and
\* once the page has shown it, every later reading of the node shows it.  It is
\* violated: a request that is older than the first block clears the memory.
BlockTimeIsSteady ==
    [][ LET n == node[shown'.port]
        IN  n # None /\ n.every # None /\ changes' = 0 /\ shown.every = n.every
                /\ shown'.observed => shown'.every = n.every ]_vars

\* The page shows a node that is there, its chain id and, once it has mined at a
\* fixed block time, that.
ShownIsTrue ==
    LET n == node[shown.port]
    IN  /\ shown.running <=> \E p \in Port : node[p] # None
        /\ shown.running =>
             /\ n # None /\ shown.chain = n.chain /\ shown.observed
             /\ n.every # None /\ Len(n.times) > 1 => shown.every = n.every

\* "Relying on the configured port alone made a node started on any other port look
\* stopped" (status/route.ts:66): once the nodes are left alone the page comes to
\* show the truth and stays with it, wherever the node was started and whatever was
\* cached or in flight.
StatusSettles == <>[][~Environment]_world => <>[]ShownIsTrue
=============================================================================
