---------------------------- MODULE ExplorerSync ----------------------------
(***************************************************************************)
(* How the Blockscout stack is kept on the node: lib/explorerStack.ts, the *)
(* watcher of instrumentation.ts, and the routes that call syncExplorer.   *)
(*                                                                         *)
(* syncExplorer only queues a job on a promise chain; a job awaits one     *)
(* docker command after another, and an action is the stretch between two  *)
(* of those awaits.  The node, the containers and Blockscout's indexer are *)
(* the environment.  The model is of a machine where autosync is on and    *)
(* the compose files exist: otherwise syncExplorer only reports a status.  *)
(***************************************************************************)
EXTENDS Naturals, Sequences

CONSTANTS
    Identity,   \* what nodes may be: their chain ids and ports
    Fork,       \* {FALSE}, or BOOLEAN when nodes may be forks
    None,
    DefaultPort,    \* the port in the compose file's RPC URL
    Ways,       \* how devnet.sh may have published the explorer
    MaxRun,     \* bound on the starts of nodes and the explicit requests for a sync
    Terminal,   \* TRUE when nodes are also started behind the API's back
    MaxFailures \* bound on the commands that fail and the restarts of the API

ChainId == {i.chain : i \in Identity}
Port    == {i.port : i \in Identity}

\* A way to publish: whether the API and the UI run in containers, the host browsers use, whether
\* the RPC URL is a path ("https://host/rpc") rather than a port, and whether there is a front door.
Way == [stack : BOOLEAN, host : {"localhost", "public"}, path : BOOLEAN, door : BOOLEAN]

VARIABLES
    node,       \* the node the listing shows: its identity and the run it is in
    owed,       \* the syncExplorer call a start or reset route has yet to make
    asks,       \* how many explicit requests were made
    failed,     \* how often a command failed or the API restarted
    state,      \* store.state
    queue,      \* store.pending: the jobs not finished, the first one running
    stage,      \* what the running job awaits
    backend,    \* the configuration of the backend container, None without one
    index,      \* the runs of nodes whose blocks Blockscout's database holds
    published,  \* how the explorer was published; it stays so
    frontend,   \* the chain and the addresses the explorer's UI is built for, None without a UI
    door,       \* the single-origin front door, and where Blockscout's nginx sends "/"
    withFrontDoor,  \* whether the running job's commands include the front door
    lastSeen,   \* followNode's memory of the last identity
    cooling,    \* TRUE for FOLLOW_COOLDOWN_MS after a follow
    cache,      \* the value readExplorerConfig cached, as a set: {} once it is old
    tick        \* the port whose identity the watcher awaits

watcher == <<lastSeen, cooling, cache, tick>>
site    == <<published, frontend, door>>
docker  == <<backend, index, site>>
job     == <<state, queue, stage, withFrontDoor>>
vars    == <<node, owed, asks, failed, job, docker, watcher>>

\* A request: the identity and whether the indexer starts at the fork block.
Target == {[chain |-> i.chain, port |-> i.port, fork |-> f] : i \in Identity, f \in Fork}

NodeState == [up : BOOLEAN, run : 0..MaxRun, is : Target \cup {None}, told : BOOLEAN]

\* The UI's chain, the host of its URLs and the port of its RPC URL, "path" without one.
Addresses == [chain : ChainId, host : {"localhost", "public"}, rpc : Port \cup {"path"}]

ASSUME ExplorerAssumption ==
    /\ \A i \in Identity : i = [chain |-> i.chain, port |-> i.port]
    /\ None \notin ChainId \cup Port \cup Identity \cup Target \cup Addresses
    /\ DefaultPort \in Port /\ "path" \notin Port /\ Ways \subseteq Way
    /\ FALSE \in Fork /\ Fork \subseteq BOOLEAN
    /\ MaxRun \in Nat
    /\ Terminal \in BOOLEAN /\ MaxFailures \in Nat

\* The UI for node t, published as w.
PublishedAs(w, t) == [chain |-> t.chain, host |-> w.host, rpc |-> IF w.path THEN "path" ELSE t.port]

Stage == {"none", "down", "up", "wait", "ready", "late"}

TypeOK ==
    /\ node \in NodeState
    /\ owed \in Target \cup {None}
    /\ asks \in 0..MaxRun /\ failed \in 0..MaxFailures
    /\ state \in [status : {"idle", "syncing", "ready", "error"}, of : Identity \cup {None}]
    /\ queue \in Seq(Target)
    /\ stage \in Stage /\ (stage = "none" <=> queue = <<>>)
    /\ backend \in Target \cup {None}
    /\ index \subseteq 1..MaxRun
    /\ published \in Ways
    /\ frontend \in Addresses \cup {None}
    /\ door \in [up : BOOLEAN, pass : {"devnet-ui", "stock", None}]
    /\ withFrontDoor \in BOOLEAN
    /\ lastSeen \in Identity \cup {None}
    /\ cooling \in BOOLEAN
    /\ \E v \in Identity \cup {None} : cache \subseteq {v}
    /\ tick \in Port \cup {None}

IdOf(t) == IF t = None THEN None ELSE [chain |-> t.chain, port |-> t.port]

\* The stack is up for some chain and nothing was indexed yet.
Init ==
    /\ node = [up |-> FALSE, run |-> 0, is |-> None, told |-> TRUE]
    /\ owed = None
    /\ asks = 0 /\ failed = 0
    /\ state = [status |-> "idle", of |-> None]
    /\ queue = <<>>
    /\ stage = "none"
    /\ published \in Ways
    /\ \E t \in Target : backend = t /\ frontend = PublishedAs(published, t)
    /\ door = [up |-> published.door, pass |-> IF published.door THEN "devnet-ui" ELSE "stock"]
    /\ withFrontDoor = FALSE
    /\ index = {}
    /\ lastSeen = None
    /\ cooling = FALSE
    /\ cache = {}
    /\ tick = None

-----------------------------------------------------------------------------
(* syncExplorer.                                                           *)

EnqueuedFirst(t) == <<t>> \o queue

\* store.pending.then(...): the job waits for those before it.
Enqueued(t) == Append(queue, t)

\* Mutant: the commands never include the front door.
JobStartsBare(d) == stage' = "down" /\ withFrontDoor' = FALSE

\* frontDoorRunning decides on the job's compose files, and `compose down` begins.
JobStarts(d) == stage' = "down" /\ withFrontDoor' = d.up

\* The call itself: the state is set at once and the job is chained.  A chain
\* with nothing on it starts the job in the same turn.
SyncExplorer(t) ==
    /\ state' = [status |-> "syncing", of |-> IdOf(t)]
    /\ queue' = Enqueued(t)
    /\ IF queue = <<>> THEN JobStarts(door) ELSE UNCHANGED <<stage, withFrontDoor>>

Failure == failed < MaxFailures /\ failed' = failed + 1

\* The running job is over and the next one starts in the same turn, over front door d.
EndJob(status, d) ==
    /\ state' = [status |-> status, of |-> IdOf(Head(queue))]
    /\ queue' = Tail(queue)
    /\ IF Tail(queue) # <<>> THEN JobStarts(d) ELSE stage' = "none" /\ withFrontDoor' = FALSE

WipedNothing == index

\* wipeDataDirs
Wiped == {}

\* What `compose down` and `compose up` make of the front door and of Blockscout's nginx, which
\* is in every file set: without the front door's file "/" goes to the stock frontend.
DoorDown == [up |-> door.up /\ ~withFrontDoor, pass |-> None]
DoorUp   == IF withFrontDoor THEN [up |-> TRUE, pass |-> "devnet-ui"] ELSE [door EXCEPT !.pass = "stock"]

\* `compose down` returns; the bind mounts are wiped and `compose up` begins.
DownReturns ==
    /\ stage = "down"
    /\ backend' = None
    /\ index' = Wiped
    /\ door' = DoorDown
    /\ stage' = "up"
    /\ UNCHANGED <<failed, node, owed, asks, state, queue, withFrontDoor, published, frontend, watcher>>

\* `compose up` returns with the containers configured for the request.
UpReturns ==
    /\ stage = "up"
    /\ backend' = Head(queue)
    /\ door' = DoorUp
    /\ stage' = "wait"
    /\ UNCHANGED <<failed, node, owed, asks, state, queue, withFrontDoor, index, published, frontend, watcher>>

\* waitForBackend ends with an answer or at its deadline.
WaitEnds ==
    /\ stage = "wait"
    /\ stage' \in {"ready", "late"}
    /\ UNCHANGED <<failed, node, owed, asks, state, queue, withFrontDoor, docker, watcher>>

\* The compose file's addresses.
ComposeDefaults(t) == [chain |-> t.chain, host |-> "localhost", rpc |-> DefaultPort]

\* Mutant: the RPC URL is carried over with the old port in it.
CarriedWhole(t) == [frontend EXCEPT !.chain = t.chain]

\* currentPublicEnv: the addresses of the UI's container go over to its successor, the RPC URL
\* with the new port unless it has none.
Carried(t) ==
    [frontend EXCEPT !.chain = t.chain, !.rpc = IF @ = "path" THEN @ ELSE t.port]

\* syncFrontend rewrites the network and the port in .env.local; a UI in a container is recreated.
Rewritten(t) == IF frontend = None THEN ComposeDefaults(t) ELSE Carried(t)

\* What is left of the UI when one of the commands fails: `inspect` finds no addresses, or the UI
\* is left as it was or, in a container, removed.
Botched(t) == {frontend} \cup (IF published.stack THEN {ComposeDefaults(t), None} ELSE {})

\* The proxies were restarted, and the UI rewritten or recreated, which may fail unnoticed;
\* the cached configuration is dropped and the outcome is reported.
JobEnds ==
    /\ stage \in {"ready", "late"}
    /\ \/ frontend' = Rewritten(Head(queue)) /\ UNCHANGED failed
       \/ Failure /\ frontend' \in Botched(Head(queue))
    /\ cache' = {}
    /\ EndJob(IF stage = "ready" THEN "ready" ELSE "error", door)
    /\ UNCHANGED <<node, owed, asks, backend, index, published, door, lastSeen, cooling, tick>>

\* A docker command fails or times out, with or without effect.
CommandFails ==
    /\ Failure
    /\ \/ stage = "down" /\ backend' \in {backend, None} /\ door' \in {door, DoorDown}
       \/ stage = "up" /\ backend' \in {None, Head(queue)} /\ door' \in {door, DoorUp}
    /\ EndJob("error", door')
    /\ UNCHANGED <<node, owed, asks, index, published, frontend, watcher>>

-----------------------------------------------------------------------------
(* The watcher.                                                            *)

\* A tick finds a listening node and asks it for its identity.
TickBegins ==
    /\ tick = None
    /\ node.up
    /\ tick' = node.is.port
    /\ UNCHANGED <<failed, node, owed, asks, job, docker, lastSeen, cooling, cache>>

\* readExplorerConfig()
Config == IF cache = {} THEN IdOf(backend) ELSE CHOOSE v \in cache : TRUE

FollowsAlways(seen) ==
    /\ lastSeen = seen
    /\ Config \notin {None}

\* followNode recreates the stack for a node seen twice that is not the one the
\* backend is configured for, once per cooldown, and only over a running backend.
Follows(seen) ==
    /\ lastSeen = seen
    /\ Config \notin {None, seen}
    /\ ~cooling

\* followNode(node), when no sync is reported to be under way.
FollowNode ==
    LET seen == IdOf(node.is) IN
    /\ lastSeen' = seen
    /\ cache' = IF lastSeen = seen THEN {Config} ELSE cache
    /\ IF Follows(seen)
       THEN cooling' = TRUE /\ SyncExplorer(node.is)
       ELSE UNCHANGED <<cooling, job>>

\* The answer arrives, if the node is still on that port.
TickEnds ==
    /\ tick # None
    /\ tick' = None
    /\ IF node.up /\ node.is.port = tick /\ state.status # "syncing"
       THEN FollowNode
       ELSE UNCHANGED <<lastSeen, cache, cooling, job>>
    /\ UNCHANGED <<failed, node, owed, asks, docker>>

CooldownEnds ==
    /\ cooling
    /\ cooling' = FALSE
    /\ UNCHANGED <<failed, node, owed, asks, job, docker, lastSeen, cache, tick>>

CacheExpires ==
    /\ cache # {}
    /\ cache' = {}
    /\ UNCHANGED <<failed, node, owed, asks, job, docker, lastSeen, cooling, tick>>

-----------------------------------------------------------------------------
(* The node and the routes.                                                *)

\* The request without a third argument, from the first block.
Unforked(i) == [chain |-> i.chain, port |-> i.port, fork |-> FALSE]

\* The three ways a node comes up, with the call each owes the explorer: the
\* legacy start passes the fork block, a project's start does not.
Owes(t, way) ==
    CASE way = "legacy"   -> t
      [] way = "project"  -> Unforked(t)
      [] way = "terminal" -> None

NodeStarts(t, way) ==
    /\ ~node.up /\ owed = None
    /\ node.run + asks < MaxRun
    /\ way = "terminal" => Terminal
    /\ node' = [up |-> TRUE, run |-> node.run + 1, is |-> t, told |-> way # "terminal"]
    /\ owed' = Owes(t, way)
    /\ UNCHANGED <<failed, asks, job, docker, watcher>>

\* The start route sees its node up, or the reset route its node gone.
RouteSyncs ==
    /\ owed # None
    /\ SyncExplorer(owed)
    /\ owed' = None
    /\ UNCHANGED <<failed, node, asks, docker, watcher>>

NodeStops ==
    /\ node.up /\ owed = None
    /\ node' = [node EXCEPT !.up = FALSE]
    /\ UNCHANGED <<failed, owed, asks, job, docker, watcher>>

\* POST /api/anvil/reset stops the node and syncs for the identity it had.
Reset ==
    /\ node.up /\ owed = None
    /\ node' = [node EXCEPT !.up = FALSE]
    /\ owed' = Unforked(node.is)
    /\ UNCHANGED <<failed, asks, job, docker, watcher>>

\* POST /api/anvil/explorer-sync, for the node or for what the body names.
AskSync(i) ==
    /\ node.run + asks < MaxRun
    /\ asks' = asks + 1
    /\ SyncExplorer(Unforked(i))
    /\ UNCHANGED <<failed, node, owed, docker, watcher>>

\* Blockscout's indexer stores blocks of whatever answers on its port.
IndexBlocks ==
    /\ backend # None /\ node.up
    /\ backend.port = node.is.port
    /\ index' = index \cup {node.run}
    /\ UNCHANGED <<failed, node, owed, asks, job, backend, site, watcher>>

\* The API restarts: jobs and memory are lost, a command under way may still
\* have taken effect.
Restart ==
    /\ Failure
    /\ state' = [status |-> "idle", of |-> None]
    /\ queue' = <<>>
    /\ stage' = "none" /\ withFrontDoor' = FALSE
    /\ owed' = None
    /\ \/ UNCHANGED <<backend, frontend, door>>
       \/ stage = "down" /\ backend' = None /\ door' = DoorDown /\ UNCHANGED frontend
       \/ stage = "up" /\ backend' = Head(queue) /\ door' = DoorUp /\ UNCHANGED frontend
       \/ /\ stage \in {"ready", "late"}
          /\ frontend' \in {Rewritten(Head(queue))} \cup Botched(Head(queue)) /\ UNCHANGED <<backend, door>>
    /\ lastSeen' = None
    /\ cooling' = FALSE
    /\ cache' = {}
    /\ tick' = None
    /\ UNCHANGED <<node, asks, index, published>>

-----------------------------------------------------------------------------
Next ==
    \/ DownReturns \/ UpReturns \/ WaitEnds \/ JobEnds \/ CommandFails
    \/ TickBegins \/ TickEnds \/ CooldownEnds \/ CacheExpires
    \/ \E t \in Target, way \in {"legacy", "project", "terminal"} : NodeStarts(t, way)
    \/ RouteSyncs \/ NodeStops \/ Reset
    \/ \E i \in Identity : AskSync(i)
    \/ IndexBlocks \/ Restart

Spec == Init /\ [][Next]_vars

\* Awaited commands return, timers fire, a route that saw its node goes on.
\* Users owe nothing.
Fairness ==
    /\ WF_vars(DownReturns \/ UpReturns \/ WaitEnds \/ JobEnds \/ CommandFails)
    /\ WF_vars(TickBegins) /\ WF_vars(TickEnds)
    /\ WF_vars(CooldownEnds) /\ WF_vars(CacheExpires)
    /\ WF_vars(RouteSyncs)

FairSpec == Spec /\ Fairness

-----------------------------------------------------------------------------
(* Properties.                                                             *)

\* While "ready" is reported and no later job has torn it down, the backend runs
\* with the very configuration that is reported.
ReadyIsTrue ==
    state.status = "ready" /\ stage \in {"none", "down"} =>
        backend # None /\ IdOf(backend) = state.of

\* Nothing is queued and no route is about to queue.
Settled == queue = <<>> /\ owed = None

\* Once a sync is reported ready, the database holds blocks of the latest chain
\* only, if the API started it: its starts and resets empty it in time, whatever was
\* started behind its back before.
ServesOneChain ==
    Settled /\ state.status = "ready" /\ node.told => index \subseteq {node.run}

\* A fork is indexed from its fork block, not from the upstream chain's genesis.
\* No run checks it: with Fork = BOOLEAN it is violated (README, other behaviours).
ForkBlockKept ==
    Settled /\ state.status = "ready" /\ node.up /\ IdOf(backend) = IdOf(node.is) =>
        backend.fork = node.is.fork

\* The explorer follows the node: if a node stays up with one identity for good in a calm
\* environment, the backend and the UI end up configured for it, and where they were published:
\* recreating them does not move a devnet "published on a domain or a tunnel back to localhost"
\* (explorerStack.ts:191), and a front door in use goes on serving this explorer.
FollowsNode ==
    \A i \in Identity :
        [](failed = 0) /\ <>[](node.up /\ IdOf(node.is) = i) =>
            <>[]( /\ backend # None /\ IdOf(backend) = i
                  /\ frontend = PublishedAs(published, i)
                  /\ door.up = published.door /\ (door.up => door.pass = "devnet-ui") )

=============================================================================
