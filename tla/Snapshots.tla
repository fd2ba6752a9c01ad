----------------------------- MODULE Snapshots -----------------------------
(***************************************************************************)
(* Who takes and reverts snapshots of a node: the dry run of               *)
(* app/api/simulate/route.ts, the slot probe of lib/tokenBalances.ts       *)
(* (detectBalanceSlot, the same session), and the user's own snapshots of  *)
(* app/api/anvil/{snapshot,revert}/route.ts, which the table `snapshots`   *)
(* lists.  The node keeps one stack for all of them.                       *)
(*                                                                         *)
(* The chain is the set of writes it holds.  Anvil numbers the snapshots   *)
(* of one run upwards and uses no number twice; a restart begins again at  *)
(* the first.  The table is keyed by that number alone.  Reads inside a    *)
(* session (eth_call, traces, receipts) change nothing and are left out.   *)
(***************************************************************************)
EXTENDS Naturals, Sequences

CONSTANTS
    Scope,      \* projects, each with a node of its own
    Write,      \* what users write to a chain
    Req,        \* slots for requests under way, also the simulated writes
    None,
    MaxId,      \* bound on the snapshots of one run of a node
    MaxLife,    \* bound on the starts of a node
    Serial      \* TRUE when users keep apart what shares the stack (Alone, Quiet)

ASSUME SnapshotsAssumption ==
    /\ MaxId \in Nat /\ MaxLife \in Nat
    /\ Serial \in BOOLEAN
    /\ Req \cap Write = {}
    /\ None \notin Scope

VARIABLES
    content,    \* content[s]: the writes the chain of s holds
    due,        \* due[s]: those the users' own writes, reverts and resets left (history)
    taken,      \* taken[s]: the snapshots of this run of the node, by number
    life,       \* life[s]: how often the node of s was started
    rows,       \* table snapshots, by number
    clock,      \* Date.now(), which grows with every row stored
    stamp,      \* stamp[s][i]: the created_at by which the table knew snapshot i of
                \* this run, when its row was stored or when a revert to it went by
                \* an older row; 0 for neither (history)
    req         \* the requests under way

node  == <<content, due, taken, life>>
table == <<rows, clock, stamp>>
vars  == <<node, table, req>>

Id       == 1..MaxId
Content  == SUBSET (Write \cup Req)

Snapshot == [live : BOOLEAN, content : Content, due : SUBSET Write]

\* `at` is created_at; `saved` is history: what the chain held when the row's snapshot was taken.
Row      == [scope : Scope \cup {None}, saved : Content, at : Nat]
NoStamp  == [i \in Id |-> 0]
NoRow    == [scope |-> None, saved |-> {}, at |-> 0]

Idle     == [kind |-> "none", scope |-> None, id |-> 0, saved |-> {}, ok |-> FALSE]
Request  == [kind : {"none", "write", "undo", "store", "forget"}, scope : Scope \cup {None},
             id : 0..MaxId, saved : Content, ok : BOOLEAN]

TypeOK ==
    /\ content \in [Scope -> Content] /\ due \in [Scope -> SUBSET Write]
    /\ taken \in [Scope -> Seq(Snapshot)] /\ \A s \in Scope : Len(taken[s]) <= MaxId
    /\ life \in [Scope -> 0..MaxLife]
    /\ rows \in [Id -> Row] /\ clock \in Nat /\ stamp \in [Scope -> [Id -> Nat]]
    /\ req \in [Req -> Request]

Init ==
    /\ content = [s \in Scope |-> {}] /\ due = content
    /\ taken = [s \in Scope |-> <<>>]
    /\ life = [s \in Scope |-> 0]
    /\ rows = [i \in Id |-> NoRow] /\ clock = 1 /\ stamp = [s \in Scope |-> NoStamp]
    /\ req = [r \in Req |-> Idle]

\* A session is open from its evm_snapshot to its evm_revert.
Session(s) == \E r \in Req : req[r].scope = s /\ req[r].kind \in {"write", "undo"}
Storing(s) == \E r \in Req : req[r].scope = s /\ req[r].kind = "store"
Forgets(s) == \E r \in Req : req[r].scope = s /\ req[r].kind = "forget"
\* What a user waits for, with Serial: before a write or a dry run, until no dry run
\* and no revert is under way; before a revert, a restart or a reset, also until no
\* snapshot request waits for its block number.
Alone(s)   == Serial => ~Session(s) /\ ~Forgets(s)
Quiet(s)   == Serial => ~Session(s) /\ ~Forgets(s) /\ ~Storing(s)

-----------------------------------------------------------------------------
(* The node.                                                               *)

\* evm_snapshot.
Take(s) ==
    /\ Len(taken[s]) < MaxId
    /\ taken' = [taken EXCEPT ![s] = Append(@, [live |-> TRUE, content |-> content[s], due |-> due[s]])]
    /\ UNCHANGED <<content, due, life>>

Live(s, i) == i \in DOMAIN taken[s] /\ taken[s][i].live

\* What evm_revert consumes: the snapshot and every one taken after it.
Consumed(s, i) == [j \in DOMAIN taken[s] |-> [taken[s][j] EXCEPT !.live = @ /\ j < i]]

\* evm_revert, which answers false for a snapshot that is not there.
RevertTo(s, i) ==
    IF Live(s, i)
    THEN /\ content' = [content EXCEPT ![s] = taken[s][i].content]
         /\ taken' = [taken EXCEPT ![s] = Consumed(s, i)]
    ELSE UNCHANGED <<content, taken>>

UserWrites(s, w) ==
    /\ Alone(s)
    /\ w \notin content[s]
    /\ content' = [content EXCEPT ![s] = @ \cup {w}]
    /\ due' = [due EXCEPT ![s] = @ \cup {w}]
    /\ UNCHANGED <<taken, life, table, req>>

\* The node is stopped and started with the state it dumped.  Snapshots are
\* lost and their numbers begin again.
NodeRestarts(s) ==
    /\ Quiet(s)
    /\ life[s] < MaxLife
    /\ life' = [life EXCEPT ![s] = @ + 1]
    /\ taken' = [taken EXCEPT ![s] = <<>>]
    /\ stamp' = [stamp EXCEPT ![s] = NoStamp]
    /\ UNCHANGED <<content, due, rows, clock, req>>

\* The reset route stops the node, deletes the project's rows and its state file.
Reset(s) ==
    /\ Quiet(s)
    /\ life[s] < MaxLife
    /\ life' = [life EXCEPT ![s] = @ + 1]
    /\ taken' = [taken EXCEPT ![s] = <<>>]
    /\ stamp' = [stamp EXCEPT ![s] = NoStamp]
    /\ content' = [content EXCEPT ![s] = {}]
    /\ due' = [due EXCEPT ![s] = {}]
    /\ rows' = [i \in Id |-> IF rows[i].scope = s THEN NoRow ELSE rows[i]]
    /\ UNCHANGED <<clock, req>>

-----------------------------------------------------------------------------
(* A session: snapshot, write, revert.                                     *)

SessionBegins(r, s) ==
    /\ req[r] = Idle
    /\ Alone(s)
    /\ Take(s)
    /\ req' = [req EXCEPT ![r] = [Idle EXCEPT !.kind = "write", !.scope = s, !.id = Len(taken[s]) + 1]]
    /\ UNCHANGED table

\* The catch returns before the revert.
SessionWritesUncaught(r) ==
    /\ req[r].kind = "write"
    /\ content' = [content EXCEPT ![req[r].scope] = @ \cup {r}]
    /\ req' \in {[req EXCEPT ![r].kind = "undo"], [req EXCEPT ![r] = Idle]}
    /\ UNCHANGED <<due, taken, life, table>>

\* The send or the probe may throw, which skips the write but not the `finally`.
SessionWrites(r) ==
    /\ req[r].kind = "write"
    /\ content' \in {content, [content EXCEPT ![req[r].scope] = @ \cup {r}]}
    /\ req' = [req EXCEPT ![r].kind = "undo"]
    /\ UNCHANGED <<due, taken, life, table>>

\* The answer of evm_revert, an error included, is ignored.
SessionEnds(r) ==
    /\ req[r].kind = "undo"
    /\ RevertTo(req[r].scope, req[r].id)
    /\ req' = [req EXCEPT ![r] = Idle]
    /\ UNCHANGED <<due, life, table>>

-----------------------------------------------------------------------------
(* The user's snapshots.                                                   *)

SnapshotTakes(r, s) ==
    /\ req[r] = Idle
    /\ Serial => ~Forgets(s)
    /\ Take(s)
    /\ req' = [req EXCEPT ![r] = [Idle EXCEPT !.kind = "store", !.scope = s,
                                              !.id = Len(taken[s]) + 1, !.saved = content[s]]]
    /\ UNCHANGED table

StoredIfNew(i, row) == IF rows[i] = NoRow THEN [rows EXCEPT ![i] = row] ELSE rows

\* INSERT OR REPLACE: the number is the key, whichever project it belongs to.
Stored(i, row) == [rows EXCEPT ![i] = row]

\* After the awaited block number, for which requests may wait side by side.
SnapshotStores(r) ==
    LET s == req[r].scope  i == req[r].id IN
    /\ req[r].kind = "store"
    /\ rows' = Stored(i, [scope |-> s, saved |-> req[r].saved, at |-> clock])
    /\ stamp' = [stamp EXCEPT ![s][i] = clock]
    /\ clock' = clock + 1
    /\ req' = [req EXCEPT ![r] = Idle]
    /\ UNCHANGED node

\* The block number does not come, or the label is too long: the node has a snapshot
\* that the table does not know.
SnapshotFails(r) ==
    /\ req[r].kind = "store"
    /\ req' = [req EXCEPT ![r] = Idle]
    /\ UNCHANGED <<node, table>>

\* The request names any number.
RevertAsks(r, s, i) ==
    /\ req[r] = Idle
    /\ Quiet(s)
    /\ RevertTo(s, i)
    /\ due' = IF Live(s, i) THEN [due EXCEPT ![s] = taken[s][i].due] ELSE due
    /\ req' = [req EXCEPT ![r] = [Idle EXCEPT !.kind = "forget", !.scope = s, !.id = i, !.ok = Live(s, i)]]
    /\ UNCHANGED <<life, table>>

ForgottenAll(s, i, ok) ==
    [j \in Id |-> IF j = i \/ (ok /\ rows[j].scope = s) THEN NoRow ELSE rows[j]]

\* A refused revert deletes the row, whose ever it is; one that worked the rows of
\* the project that are not older than the row.
Forgotten(s, i, ok) ==
    IF ok /\ rows[i] # NoRow
    THEN [j \in Id |-> IF rows[j].scope = s /\ rows[j].at >= rows[i].at THEN NoRow ELSE rows[j]]
    ELSE [rows EXCEPT ![i] = NoRow]

RevertForgets(r) ==
    LET s == req[r].scope  i == req[r].id IN
    /\ req[r].kind = "forget"
    /\ rows' = Forgotten(s, i, req[r].ok)
    /\ stamp' = IF req[r].ok /\ rows[i] # NoRow THEN [stamp EXCEPT ![s][i] = rows[i].at] ELSE stamp
    /\ req' = [req EXCEPT ![r] = Idle]
    /\ UNCHANGED <<node, clock>>

Next ==
    \/ \E s \in Scope, w \in Write : UserWrites(s, w)
    \/ \E s \in Scope : NodeRestarts(s) \/ Reset(s)
    \/ \E r \in Req, s \in Scope : SessionBegins(r, s) \/ SnapshotTakes(r, s)
    \/ \E r \in Req, s \in Scope, i \in Id : RevertAsks(r, s, i)
    \/ \E r \in Req : SessionWrites(r) \/ SessionEnds(r)
    \/ \E r \in Req : SnapshotStores(r) \/ SnapshotFails(r) \/ RevertForgets(r)

Spec == Init /\ [][Next]_vars
-----------------------------------------------------------------------------
(* Properties.                                                             *)

\* "Simulate it with zero effect on chain state" (README.md), "a simulation must not
\* leave state behind" (app/api/simulate/route.ts): while no session is open, the
\* chain holds what the users' own writes, reverts and resets left, no more and no less.
ZeroEffect == \A s \in Scope : ~Session(s) => content[s] = due[s]

\* The list is how a user finds a snapshot again: one that a row was stored for and
\* that the node still has is listed.
EveryLiveIsListed ==
    \A s \in Scope : \A i \in DOMAIN taken[s] :
        taken[s][i].live /\ stamp[s][i] # 0 => rows[i].scope = s

\* No snapshot taken after i was stored before it, or reverted to by an older row.
InOrder(s, i) == \A j \in Id : j > i /\ stamp[s][j] # 0 => stamp[s][i] < stamp[s][j]

\* So it is when the rows of a run are stored in the order of its snapshots and no
\* revert of it goes by a row of an earlier run: failed requests, reverts and
\* refused reverts then delete the rows of what they consume and no other.
LiveIsListed ==
    \A s \in Scope : \A i \in DOMAIN taken[s] :
        taken[s][i].live /\ stamp[s][i] # 0 /\ InOrder(s, i) => rows[i].scope = s

\* A revert to a listed row is refused or restores what the row was stored for.
ListedRestores ==
    [][\A r \in Req :
         /\ req[r] = Idle /\ req'[r].kind = "forget" /\ req'[r].ok
         /\ rows[req'[r].id].scope = req'[r].scope
         => content'[req'[r].scope] = rows[req'[r].id].saved]_vars

\* So it does for a row stored in this run of the node, whatever rows of earlier
\* runs, of failed requests' numbers and of other projects are in the table.
RevertRestores ==
    [][\A r \in Req :
         /\ req[r] = Idle /\ req'[r].kind = "forget" /\ req'[r].ok
         /\ stamp[req'[r].scope][req'[r].id] # 0
         /\ rows[req'[r].id].scope = req'[r].scope
         => content'[req'[r].scope] = rows[req'[r].id].saved]_vars

=============================================================================
