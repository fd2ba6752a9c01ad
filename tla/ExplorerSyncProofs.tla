------------------------ MODULE ExplorerSyncProofs ------------------------
(***************************************************************************)
(* Proofs about ExplorerSync, for any identities, ways to publish, number  *)
(* of starts, requests and failures.                                       *)
(***************************************************************************)
EXTENDS ExplorerSync, SequenceTheorems, TLAPS

\* A node that is up is one that was started.
UpKnown == node.up => node.is # None /\ node.run # 0

\* Once `compose up` has returned the backend is the running job's.
Built == stage \in {"wait", "ready", "late"} => backend = Head(queue)

\* Blocks of an older chain are only left while a sync that will wipe them is owed or queued, or
\* after the last job failed.
Wiping ==
    node.told /\ ~(index \subseteq {node.run}) =>
        \/ owed # None
        \/ stage = "down"
        \/ Len(queue) > 1
        \/ queue = <<>> /\ state.status # "ready"

\* While no command has failed, the UI's addresses and the front door are those that were published,
\* between the commands of a job as well.
AddressesCarried ==
    failed = 0 =>
        /\ frontend # None
        /\ frontend.host = published.host
        /\ frontend.rpc = "path" <=> published.path
        /\ stage # "none" => (withFrontDoor <=> published.door)
        /\ door.up => published.door
        /\ stage # "up" /\ published.door => door.up /\ door.pass = "devnet-ui"

Inv == TypeOK /\ UpKnown /\ Built /\ ReadyIsTrue /\ Wiping

-----------------------------------------------------------------------------
(* Identities, requests and the queue.                                     *)

\* What is known of a request.
LEMMA TargetFacts ==
  /\ \A t \in Target : /\ t # None /\ IdOf(t) \in Identity /\ IdOf(t) # None
                       /\ t.port \in Port /\ t.chain \in ChainId
                       /\ Unforked(t) \in Target
  /\ \A i \in Identity : Unforked(i) \in Target
<1>1. ASSUME NEW i \in Identity
      PROVE  /\ i.chain \in ChainId /\ i.port \in Port /\ i # None
             /\ i = [chain |-> i.chain, port |-> i.port]
             /\ Unforked(i) \in Target
  <2>1. i # None /\ i = [chain |-> i.chain, port |-> i.port] /\ FALSE \in Fork
    BY ExplorerAssumption
  <2>2. i.chain \in ChainId /\ i.port \in Port
    BY DEF Port, ChainId
  <2>3. \E j \in Identity, f \in Fork :
           Unforked(i) = [chain |-> j.chain, port |-> j.port, fork |-> f]
    BY <2>1, Zenon DEF Unforked
  <2>4. Unforked(i) \in Target
    BY <2>3 DEF Target
  <2>. QED BY <2>1, <2>2, <2>4
<1>2. ASSUME NEW t \in Target
      PROVE  /\ t # None /\ IdOf(t) \in Identity /\ IdOf(t) # None
             /\ t.port \in Port /\ t.chain \in ChainId
             /\ Unforked(t) \in Target
  <2>1. PICK i \in Identity, f \in Fork : t = [chain |-> i.chain, port |-> i.port, fork |-> f]
    BY DEF Target
  <2>2. t.chain = i.chain /\ t.port = i.port
    BY <2>1
  <2>3. t # None
    BY ExplorerAssumption
  <2>4. IdOf(t) = i
    BY <1>1, <2>2, <2>3, Zenon DEF IdOf
  <2>5. Unforked(t) = Unforked(i)
    BY <2>2, Zenon DEF Unforked
  <2>. QED BY <1>1, <2>2, <2>3, <2>4, <2>5, Zenon
<1>. QED BY <1>1, <1>2

\* A job is chained behind those before it.
LEMMA QueueFacts ==
  ASSUME NEW q \in Seq(Target), NEW t \in Target
  PROVE  /\ Append(q, t) \in Seq(Target) /\ Append(q, t) # <<>>
         /\ Len(Append(q, t)) = Len(q) + 1
         /\ q # <<>> => Head(Append(q, t)) = Head(q) /\ Len(Append(q, t)) > 1
         /\ q # <<>> => Head(q) \in Target /\ Tail(q) \in Seq(Target) /\ Len(Tail(q)) = Len(q) - 1
         /\ Len(q) \in Nat /\ (Len(q) = 0 <=> q = <<>>)
OBVIOUS

\* The cached configuration is one the backend had.
LEMMA ConfigTyped ==
  ASSUME TypeOK PROVE Config \in Identity \cup {None}
BY TargetFacts DEF TypeOK, Config, IdOf

\* A node starts, in whichever way, as one that is known.
LEMMA OwesTyped ==
  ASSUME NEW t \in Target, NEW way \in {"legacy", "project", "terminal"}
  PROVE  Owes(t, way) \in Target \cup {None} /\ (way # "terminal" => Owes(t, way) # None)
BY TargetFacts DEF Owes

\* The UI is rebuilt for some addresses, or gone, and so is the front door.
LEMMA SiteTyped ==
  ASSUME TypeOK
  PROVE  /\ \A t \in Target : /\ Rewritten(t) \in Addresses
                              /\ Botched(t) \subseteq Addresses \cup {None}
         /\ DoorDown \in [up : BOOLEAN, pass : {"devnet-ui", "stock", None}]
         /\ DoorUp \in [up : BOOLEAN, pass : {"devnet-ui", "stock", None}]
<1>1. ASSUME NEW t \in Target
      PROVE  Rewritten(t) \in Addresses /\ Botched(t) \subseteq Addresses \cup {None}
  <2>1. t.chain \in ChainId /\ t.port \in Port /\ DefaultPort \in Port
    BY TargetFacts, ExplorerAssumption
  <2>2. ComposeDefaults(t) \in Addresses
    BY <2>1 DEF ComposeDefaults, Addresses
  <2>3. frontend # None => Carried(t) \in Addresses
    BY <2>1 DEF TypeOK, Carried, Addresses
  <2>. QED BY <2>2, <2>3 DEF TypeOK, Rewritten, Botched
<1>2. DoorDown \in [up : BOOLEAN, pass : {"devnet-ui", "stock", None}]
  BY DEF TypeOK, DoorDown
<1>3. DoorUp \in [up : BOOLEAN, pass : {"devnet-ui", "stock", None}]
  BY DEF TypeOK, DoorUp
<1>. QED BY <1>1, <1>2, <1>3

-----------------------------------------------------------------------------
(* What a call of syncExplorer and the end of a job do to the queue.       *)

\* A queued sync is reported at once, and the job that runs stays the one that ran.
LEMMA Syncs ==
  ASSUME TypeOK, NEW t \in Target, SyncExplorer(t)
  PROVE  /\ state' \in [status : {"idle", "syncing", "ready", "error"}, of : Identity \cup {None}]
         /\ queue' \in Seq(Target) /\ queue' # <<>>
         /\ stage' \in Stage /\ stage' # "none"
         /\ withFrontDoor' \in BOOLEAN
         /\ state'.status = "syncing"
         /\ queue # <<>> => stage' = stage /\ Head(queue') = Head(queue)
         /\ queue = <<>> => stage' = "down"
         /\ stage' = "down" \/ Len(queue') > 1
<1>1. IdOf(t) \in Identity
  BY TargetFacts
<1>2. state' \in [status : {"idle", "syncing", "ready", "error"}, of : Identity \cup {None}]
      /\ state'.status = "syncing"
  BY <1>1 DEF SyncExplorer
<1>3. queue' = Append(queue, t) /\ queue \in Seq(Target)
  BY DEF SyncExplorer, Enqueued, TypeOK
<1>4. /\ queue' \in Seq(Target) /\ queue' # <<>>
      /\ queue # <<>> => Head(queue') = Head(queue) /\ Len(queue') > 1
  BY <1>3, QueueFacts
<1>5. /\ stage' \in Stage /\ stage' # "none" /\ withFrontDoor' \in BOOLEAN
      /\ queue # <<>> => stage' = stage
      /\ queue = <<>> => stage' = "down"
  BY DEF SyncExplorer, JobStarts, TypeOK, Stage
<1>. QED BY <1>2, <1>4, <1>5

\* A job that ends hands over to the next one, which begins with `compose down`.
LEMMA Ends ==
  ASSUME TypeOK, stage # "none", NEW status \in {"ready", "error"},
         NEW d, d \in [up : BOOLEAN, pass : {"devnet-ui", "stock", None}], EndJob(status, d)
  PROVE  /\ Head(queue) \in Target
         /\ state' \in [status : {"idle", "syncing", "ready", "error"}, of : Identity \cup {None}]
         /\ state'.status = status /\ state'.of = IdOf(Head(queue))
         /\ queue' \in Seq(Target)
         /\ stage' \in {"none", "down"} /\ (stage' = "none" <=> queue' = <<>>)
         /\ queue' = <<>> <=> Len(queue) <= 1
         /\ withFrontDoor' \in BOOLEAN
<1>1. queue \in Seq(Target) /\ queue # <<>>
  BY DEF TypeOK
<1>2. Head(queue) \in Target /\ Tail(queue) \in Seq(Target) /\ Len(Tail(queue)) = Len(queue) - 1
  BY <1>1, QueueFacts, TargetFacts
<1>3. IdOf(Head(queue)) \in Identity
  BY <1>2, TargetFacts
<1>4. /\ state' \in [status : {"idle", "syncing", "ready", "error"}, of : Identity \cup {None}]
      /\ state'.status = status /\ state'.of = IdOf(Head(queue))
  BY <1>3 DEF EndJob
<1>5. queue' = Tail(queue)
  BY DEF EndJob
<1>6. queue' \in Seq(Target) /\ (queue' = <<>> <=> Len(queue) <= 1)
  <2>1. Len(Tail(queue)) \in Nat /\ (Len(Tail(queue)) = 0 <=> Tail(queue) = <<>>) /\ Len(queue) \in Nat
    BY <1>1, <1>2, QueueFacts
  <2>2. Tail(queue) = <<>> <=> Len(queue) <= 1
    BY <1>2, <2>1
  <2>. QED BY <1>2, <1>5, <2>2
<1>7. stage' \in {"none", "down"} /\ (stage' = "none" <=> queue' = <<>>)
  BY <1>5, Zenon DEF EndJob, JobStarts
<1>8. d.up \in BOOLEAN
  OBVIOUS
<1>9. withFrontDoor' \in BOOLEAN
  BY <1>8, Zenon DEF EndJob, JobStarts
<1>. QED BY <1>2, <1>4, <1>6, <1>7, <1>9

-----------------------------------------------------------------------------
(* The invariant, one action at a time.                                    *)

\* The node's identity is a request while it is up.
LEMMA NodeFacts ==
  ASSUME Inv, node.up
  PROVE  /\ node.is \in Target /\ node.run \in 1..MaxRun /\ node.told \in BOOLEAN
         /\ [node EXCEPT !.up = FALSE] \in NodeState
<1>1. node \in NodeState /\ node.is # None /\ node.run # 0 /\ MaxRun \in Nat
  BY ExplorerAssumption DEF Inv, TypeOK, UpKnown
<1>2. node.is \in Target /\ node.run \in 1..MaxRun
  BY <1>1 DEF NodeState
<1>3. node.told \in BOOLEAN /\ [node EXCEPT !.up = FALSE] \in NodeState
  BY <1>1 DEF NodeState
<1>. QED BY <1>2, <1>3

LEMMA InitInv == Init => Inv
<1>. SUFFICES ASSUME Init PROVE Inv
  OBVIOUS
<1>1. PICK t \in Target : backend = t /\ frontend = PublishedAs(published, t)
  BY DEF Init
<1>2. published \in Ways /\ Ways \subseteq Way /\ MaxRun \in Nat /\ MaxFailures \in Nat
  BY ExplorerAssumption DEF Init
<1>3. frontend \in Addresses
  BY <1>1, <1>2, TargetFacts DEF PublishedAs, Addresses, Way
<1>4. published.door \in BOOLEAN
  BY <1>2 DEF Way
<1>5. door \in [up : BOOLEAN, pass : {"devnet-ui", "stock", None}]
  BY <1>4 DEF Init
<1>6. node \in NodeState
  BY <1>2 DEF Init, NodeState
<1>7. queue \in Seq(Target) /\ queue = <<>> /\ stage = "none" /\ withFrontDoor = FALSE /\ cooling = FALSE
      /\ cache = {} /\ index = {} /\ state = [status |-> "idle", of |-> None] /\ node.up = FALSE
  BY DEF Init
<1>8. state \in [status : {"idle", "syncing", "ready", "error"}, of : Identity \cup {None}]
  BY <1>7
<1>9. (\E v \in Identity \cup {None} : cache \subseteq {v}) /\ stage \in Stage
  BY <1>7 DEF Stage
<1>10. asks \in 0..MaxRun /\ failed \in 0..MaxFailures /\ index \subseteq 1..MaxRun
  BY <1>2 DEF Init
<1>11. /\ owed \in Target \cup {None} /\ backend \in Target \cup {None} /\ published \in Ways
       /\ frontend \in Addresses \cup {None} /\ withFrontDoor \in BOOLEAN /\ cooling \in BOOLEAN
       /\ lastSeen \in Identity \cup {None} /\ tick \in Port \cup {None}
  BY <1>1, <1>3, Zenon DEF Init
<1>12. TypeOK
  BY <1>5, <1>6, <1>7, <1>8, <1>9, <1>10, <1>11, Zenon DEF TypeOK
<1>. QED BY <1>7, <1>12 DEF Inv, UpKnown, Built, ReadyIsTrue, Wiping

LEMMA DownReturnsInv == Inv /\ DownReturns => Inv'
<1>. SUFFICES ASSUME Inv, DownReturns PROVE Inv'
  OBVIOUS
<1>1. TypeOK'
  BY SiteTyped DEF Inv, TypeOK, DownReturns, Stage, Wiped, watcher
<1>2. index' = {} /\ stage' = "up" /\ UNCHANGED node
  BY DEF DownReturns, Wiped
<1>3. UpKnown' /\ Built' /\ ReadyIsTrue' /\ Wiping'
  BY <1>2 DEF Inv, UpKnown, Built, ReadyIsTrue, Wiping
<1>. QED BY <1>1, <1>3 DEF Inv

LEMMA UpReturnsInv == Inv /\ UpReturns => Inv'
<1>. SUFFICES ASSUME Inv, UpReturns PROVE Inv'
  OBVIOUS
<1>1. Head(queue) \in Target
  BY QueueFacts, TargetFacts DEF Inv, TypeOK, UpReturns
<1>2. TypeOK'
  BY <1>1, SiteTyped DEF Inv, TypeOK, UpReturns, Stage, watcher
<1>3. UpKnown' /\ Built' /\ ReadyIsTrue' /\ Wiping'
  BY DEF Inv, UpReturns, UpKnown, Built, ReadyIsTrue, Wiping
<1>. QED BY <1>2, <1>3 DEF Inv

LEMMA WaitEndsInv == Inv /\ WaitEnds => Inv'
<1>. SUFFICES ASSUME Inv, WaitEnds PROVE Inv'
  OBVIOUS
<1>1. TypeOK'
  BY DEF Inv, TypeOK, WaitEnds, Stage, watcher, docker, site
<1>2. UpKnown' /\ Built' /\ ReadyIsTrue' /\ Wiping'
  BY DEF Inv, WaitEnds, docker, UpKnown, Built, ReadyIsTrue, Wiping
<1>. QED BY <1>1, <1>2 DEF Inv

\* The job reports ready only over the backend it brought up.
LEMMA JobEndsInv == Inv /\ JobEnds => Inv'
<1>. SUFFICES ASSUME Inv, JobEnds PROVE Inv'
  OBVIOUS
<1>. DEFINE status == IF stage = "ready" THEN "ready" ELSE "error"
<1>1. /\ TypeOK /\ stage \in {"ready", "late"} /\ EndJob(status, door)
      /\ door \in [up : BOOLEAN, pass : {"devnet-ui", "stock", None}]
      /\ status \in {"ready", "error"}
  BY DEF Inv, JobEnds, TypeOK
<1>2. /\ Head(queue) \in Target
      /\ state' \in [status : {"idle", "syncing", "ready", "error"}, of : Identity \cup {None}]
      /\ state'.status = status /\ state'.of = IdOf(Head(queue))
      /\ queue' \in Seq(Target)
      /\ stage' \in {"none", "down"} /\ (stage' = "none" <=> queue' = <<>>)
      /\ queue' = <<>> <=> Len(queue) <= 1
      /\ withFrontDoor' \in BOOLEAN
  <2>. HIDE DEF status
  <2>. QED BY <1>1, Ends
<1>3. failed' \in 0..MaxFailures /\ frontend' \in Addresses \cup {None}
  BY <1>2, SiteTyped, ExplorerAssumption DEF Inv, TypeOK, JobEnds, Failure
<1>4. TypeOK'
  BY <1>2, <1>3 DEF Inv, TypeOK, JobEnds, Stage
<1>5. UpKnown' /\ Built'
  BY <1>2 DEF Inv, UpKnown, Built, JobEnds
<1>6. backend' = Head(queue) /\ Head(queue) # None
  BY <1>1, <1>2, TargetFacts DEF Inv, Built, JobEnds
<1>7. ReadyIsTrue'
  BY <1>2, <1>6 DEF ReadyIsTrue
<1>8. Wiping'
  BY <1>1, <1>2 DEF Inv, TypeOK, Wiping, JobEnds
<1>. QED BY <1>4, <1>5, <1>7, <1>8 DEF Inv

LEMMA CommandFailsInv == Inv /\ CommandFails => Inv'
<1>. SUFFICES ASSUME Inv, CommandFails PROVE Inv'
  OBVIOUS
<1>1. /\ TypeOK /\ stage \in {"down", "up"} /\ EndJob("error", door')
  BY DEF Inv, CommandFails
<1>2. door' \in [up : BOOLEAN, pass : {"devnet-ui", "stock", None}]
  BY SiteTyped DEF Inv, TypeOK, CommandFails
<1>3. /\ Head(queue) \in Target
      /\ state' \in [status : {"idle", "syncing", "ready", "error"}, of : Identity \cup {None}]
      /\ state'.status = "error"
      /\ queue' \in Seq(Target)
      /\ stage' \in {"none", "down"} /\ (stage' = "none" <=> queue' = <<>>)
      /\ withFrontDoor' \in BOOLEAN
  BY <1>1, <1>2, Ends
<1>4. failed' \in 0..MaxFailures /\ backend' \in Target \cup {None}
  BY <1>3, ExplorerAssumption DEF Inv, TypeOK, CommandFails, Failure
<1>5. TypeOK'
  BY <1>2, <1>3, <1>4 DEF Inv, TypeOK, CommandFails, Stage, watcher
<1>6. UpKnown' /\ Built' /\ ReadyIsTrue' /\ Wiping'
  BY <1>3 DEF Inv, CommandFails, UpKnown, Built, ReadyIsTrue, Wiping
<1>. QED BY <1>5, <1>6 DEF Inv

\* A call that queues a sync keeps what is known of the queue, whoever makes it.
LEMMA SyncsInv ==
  ASSUME Inv, NEW t \in Target, SyncExplorer(t), UNCHANGED <<node, backend, index>>
  PROVE  UpKnown' /\ Built' /\ ReadyIsTrue' /\ Wiping'
<1>1. TypeOK
  BY DEF Inv
<1>2. /\ queue' # <<>> /\ state'.status = "syncing"
      /\ queue # <<>> => stage' = stage /\ Head(queue') = Head(queue)
      /\ queue = <<>> => stage' = "down"
      /\ stage' = "down" \/ Len(queue') > 1
  BY <1>1, Syncs
<1>3. UpKnown' /\ Built' /\ ReadyIsTrue'
  BY <1>2 DEF Inv, UpKnown, Built, ReadyIsTrue
<1>4. Wiping'
  BY <1>2 DEF Wiping
<1>. QED BY <1>3, <1>4

LEMMA TickBeginsInv == Inv /\ TickBegins => Inv'
<1>. SUFFICES ASSUME Inv, TickBegins PROVE Inv'
  OBVIOUS
<1>1. tick' \in Port
  BY NodeFacts, TargetFacts DEF TickBegins
<1>2. TypeOK'
  BY <1>1 DEF Inv, TypeOK, TickBegins, job, docker, site
<1>3. UpKnown' /\ Built' /\ ReadyIsTrue' /\ Wiping'
  BY DEF Inv, TickBegins, job, docker, UpKnown, Built, ReadyIsTrue, Wiping
<1>. QED BY <1>2, <1>3 DEF Inv

\* The watcher follows a node, or only remembers it.
LEMMA TickEndsInv == Inv /\ TickEnds => Inv'
<1>. SUFFICES ASSUME Inv, TickEnds PROVE Inv'
  OBVIOUS
<1>1. TypeOK /\ tick' = None
      /\ UNCHANGED <<failed, node, owed, asks, backend, index, published, frontend, door>>
  BY DEF Inv, TickEnds, docker, site
<1>2. CASE UNCHANGED <<lastSeen, cache, cooling, job>>
  <2>1. TypeOK'
    BY <1>1, <1>2 DEF TypeOK, job
  <2>2. UpKnown' /\ Built' /\ ReadyIsTrue' /\ Wiping'
    BY <1>1, <1>2 DEF Inv, job, UpKnown, Built, ReadyIsTrue, Wiping
  <2>. QED BY <2>1, <2>2 DEF Inv
<1>3. CASE node.up /\ FollowNode
  <2>1. node.is \in Target /\ IdOf(node.is) \in Identity
    BY <1>3, NodeFacts, TargetFacts
  <2>2. lastSeen' \in Identity \cup {None}
    BY <1>3, <2>1 DEF FollowNode
  <2>3. \E v \in Identity \cup {None} : cache' \subseteq {v}
    BY <1>1, <1>3, ConfigTyped DEF TypeOK, FollowNode
  <2>4. CASE Follows(IdOf(node.is))
    <3>1. cooling' = TRUE /\ SyncExplorer(node.is)
      BY <1>3, <2>4 DEF FollowNode
    <3>2. /\ state' \in [status : {"idle", "syncing", "ready", "error"}, of : Identity \cup {None}]
          /\ queue' \in Seq(Target) /\ queue' # <<>>
          /\ stage' \in Stage /\ stage' # "none"
          /\ withFrontDoor' \in BOOLEAN
      BY <1>1, <2>1, <3>1, Syncs
    <3>3. TypeOK'
      BY <1>1, <2>2, <2>3, <3>1, <3>2 DEF TypeOK
    <3>4. UpKnown' /\ Built' /\ ReadyIsTrue' /\ Wiping'
      BY <1>1, <2>1, <3>1, SyncsInv
    <3>. QED BY <3>3, <3>4 DEF Inv
  <2>5. CASE ~Follows(IdOf(node.is))
    <3>1. UNCHANGED <<cooling, job>>
      BY <1>3, <2>5 DEF FollowNode
    <3>2. TypeOK'
      BY <1>1, <2>2, <2>3, <3>1 DEF TypeOK, job
    <3>3. UpKnown' /\ Built' /\ ReadyIsTrue' /\ Wiping'
      BY <1>1, <3>1 DEF Inv, job, UpKnown, Built, ReadyIsTrue, Wiping
    <3>. QED BY <3>2, <3>3 DEF Inv
  <2>. QED BY <2>4, <2>5
<1>. QED BY <1>2, <1>3 DEF TickEnds

LEMMA TimersInv == Inv /\ (CooldownEnds \/ CacheExpires) => Inv'
<1>. SUFFICES ASSUME Inv, CooldownEnds \/ CacheExpires PROVE Inv'
  OBVIOUS
<1>1. /\ UNCHANGED <<failed, node, owed, asks, job, docker, lastSeen, tick>>
      /\ cooling' \in BOOLEAN
      /\ cache' \subseteq cache
  BY DEF Inv, TypeOK, CooldownEnds, CacheExpires
<1>2. \E v \in Identity \cup {None} : cache' \subseteq {v}
  BY <1>1 DEF Inv, TypeOK
<1>3. TypeOK'
  <2>1. TypeOK
    BY DEF Inv
  <2>. QED BY <1>1, <1>2, <2>1 DEF TypeOK, job, docker, site
<1>4. UpKnown' /\ Built' /\ ReadyIsTrue' /\ Wiping'
  BY <1>1 DEF Inv, job, docker, UpKnown, Built, ReadyIsTrue, Wiping
<1>. QED BY <1>3, <1>4 DEF Inv

\* A new run may leave the blocks of older ones behind only with a sync owed.
LEMMA NodeStartsInv ==
  ASSUME NEW t \in Target, NEW way \in {"legacy", "project", "terminal"}
  PROVE  Inv /\ NodeStarts(t, way) => Inv'
<1>. SUFFICES ASSUME Inv, NodeStarts(t, way) PROVE Inv'
  OBVIOUS
<1>1. /\ node' = [up |-> TRUE, run |-> node.run + 1, is |-> t, told |-> way # "terminal"]
      /\ owed' = Owes(t, way)
      /\ node.run + asks < MaxRun
      /\ UNCHANGED <<failed, asks, job, docker, watcher>>
  BY DEF NodeStarts
<1>2. owed' \in Target \cup {None} /\ (way # "terminal" => owed' # None) /\ t # None
  BY <1>1, OwesTyped, TargetFacts
<1>3. node.run \in Nat /\ asks \in Nat /\ MaxRun \in Nat
  BY ExplorerAssumption DEF Inv, TypeOK, NodeState
<1>4. node.run + 1 \in 0..MaxRun /\ node.run + 1 # 0
  BY <1>1, <1>3
<1>5. (way # "terminal") \in BOOLEAN
  OBVIOUS
<1>6. node' \in NodeState
  BY <1>1, <1>4, <1>5, Zenon DEF NodeState
<1>7. TypeOK'
  BY <1>1, <1>2, <1>6 DEF Inv, TypeOK, job, docker, site, watcher
<1>8. UpKnown' /\ Built' /\ ReadyIsTrue'
  BY <1>1, <1>2, <1>4 DEF Inv, job, docker, UpKnown, Built, ReadyIsTrue
<1>9. Wiping'
  BY <1>1, <1>2 DEF Wiping
<1>. QED BY <1>7, <1>8, <1>9 DEF Inv

LEMMA RouteSyncsInv == Inv /\ RouteSyncs => Inv'
<1>. SUFFICES ASSUME Inv, RouteSyncs PROVE Inv'
  OBVIOUS
<1>1. TypeOK /\ owed \in Target /\ SyncExplorer(owed) /\ owed' = None
      /\ UNCHANGED <<failed, node, asks, docker, watcher>>
  BY DEF Inv, TypeOK, RouteSyncs
<1>2. /\ state' \in [status : {"idle", "syncing", "ready", "error"}, of : Identity \cup {None}]
      /\ queue' \in Seq(Target) /\ queue' # <<>>
      /\ stage' \in Stage /\ stage' # "none"
      /\ withFrontDoor' \in BOOLEAN
  BY <1>1, Syncs
<1>3. TypeOK'
  BY <1>1, <1>2 DEF TypeOK, docker, site, watcher
<1>4. UpKnown' /\ Built' /\ ReadyIsTrue' /\ Wiping'
  BY <1>1, SyncsInv DEF docker
<1>. QED BY <1>3, <1>4 DEF Inv

LEMMA StopsInv == Inv /\ (NodeStops \/ Reset) => Inv'
<1>. SUFFICES ASSUME Inv, NodeStops \/ Reset PROVE Inv'
  OBVIOUS
<1>1. /\ node.up /\ node' = [node EXCEPT !.up = FALSE]
      /\ owed' \in {owed, Unforked(node.is)} /\ owed = None
      /\ UNCHANGED <<failed, asks, job, docker, watcher>>
  BY DEF NodeStops, Reset
<1>2. node' \in NodeState /\ Unforked(node.is) \in Target
  BY <1>1, NodeFacts, TargetFacts
<1>3. node.run = node'.run /\ node'.told = node.told /\ node'.up = FALSE
  BY <1>1 DEF Inv, TypeOK, NodeState
<1>4. TypeOK'
  BY <1>1, <1>2 DEF Inv, TypeOK, job, docker, site, watcher
<1>5. UpKnown' /\ Built' /\ ReadyIsTrue' /\ Wiping'
  BY <1>1, <1>3 DEF Inv, job, docker, UpKnown, Built, ReadyIsTrue, Wiping
<1>. QED BY <1>4, <1>5 DEF Inv

LEMMA AskSyncInv ==
  ASSUME NEW i \in Identity PROVE Inv /\ AskSync(i) => Inv'
<1>. SUFFICES ASSUME Inv, AskSync(i) PROVE Inv'
  OBVIOUS
<1>1. TypeOK /\ Unforked(i) \in Target /\ SyncExplorer(Unforked(i))
      /\ UNCHANGED <<failed, node, owed, docker, watcher>>
  BY TargetFacts DEF Inv, AskSync
<1>2. asks' \in 0..MaxRun
  BY ExplorerAssumption DEF Inv, TypeOK, NodeState, AskSync
<1>3. /\ state' \in [status : {"idle", "syncing", "ready", "error"}, of : Identity \cup {None}]
      /\ queue' \in Seq(Target) /\ queue' # <<>>
      /\ stage' \in Stage /\ stage' # "none"
      /\ withFrontDoor' \in BOOLEAN
  BY <1>1, Syncs
<1>4. TypeOK'
  BY <1>1, <1>2, <1>3 DEF TypeOK, docker, site, watcher
<1>5. UpKnown' /\ Built' /\ ReadyIsTrue' /\ Wiping'
  BY <1>1, SyncsInv DEF docker
<1>. QED BY <1>4, <1>5 DEF Inv

LEMMA IndexBlocksInv == Inv /\ IndexBlocks => Inv'
<1>. SUFFICES ASSUME Inv, IndexBlocks PROVE Inv'
  OBVIOUS
<1>1. index' = index \cup {node.run} /\ node.run \in 1..MaxRun
      /\ UNCHANGED <<failed, node, owed, asks, job, backend, site, watcher>>
  BY NodeFacts DEF IndexBlocks
<1>2. index' \subseteq 1..MaxRun
  BY <1>1, Zenon DEF Inv, TypeOK
<1>3. \E v \in Identity \cup {None} : cache' \subseteq {v}
  BY <1>1, Zenon DEF Inv, TypeOK, watcher
<1>4. TypeOK'
  BY <1>1, <1>2, <1>3 DEF Inv, TypeOK, job, site, watcher
<1>5. UpKnown' /\ Built' /\ ReadyIsTrue' /\ Wiping'
  BY <1>1 DEF Inv, job, UpKnown, Built, ReadyIsTrue, Wiping
<1>. QED BY <1>4, <1>5 DEF Inv

\* A restart forgets what was ready.
LEMMA RestartInv == Inv /\ Restart => Inv'
<1>. SUFFICES ASSUME Inv, Restart PROVE Inv'
  OBVIOUS
<1>1. /\ state' = [status |-> "idle", of |-> None] /\ queue' = <<>>
      /\ stage' = "none" /\ withFrontDoor' = FALSE /\ owed' = None
      /\ lastSeen' = None /\ cooling' = FALSE /\ cache' = {} /\ tick' = None
      /\ UNCHANGED <<node, asks, index, published>>
  BY DEF Restart
<1>2. stage # "none" => Head(queue) \in Target
  BY QueueFacts, TargetFacts DEF Inv, TypeOK
<1>3. /\ backend' \in Target \cup {None}
      /\ door' \in [up : BOOLEAN, pass : {"devnet-ui", "stock", None}]
      /\ frontend' \in Addresses \cup {None}
  BY <1>2, SiteTyped DEF Inv, TypeOK, Restart
<1>4. failed' \in 0..MaxFailures
  BY ExplorerAssumption DEF Inv, TypeOK, Restart, Failure
<1>5. state' \in [status : {"idle", "syncing", "ready", "error"}, of : Identity \cup {None}]
      /\ stage' \in Stage /\ queue' \in Seq(Target)
      /\ \E v \in Identity \cup {None} : cache' \subseteq {v}
  BY <1>1 DEF Stage
<1>6. TypeOK'
  BY <1>1, <1>3, <1>4, <1>5, Zenon DEF Inv, TypeOK
<1>7. UpKnown' /\ Built' /\ ReadyIsTrue' /\ Wiping'
  BY <1>1 DEF Inv, UpKnown, Built, ReadyIsTrue, Wiping
<1>. QED BY <1>6, <1>7 DEF Inv

LEMMA NextInv == Inv /\ [Next]_vars => Inv'
<1>. SUFFICES ASSUME Inv, [Next]_vars PROVE Inv'
  OBVIOUS
<1>1. CASE DownReturns \/ UpReturns \/ WaitEnds \/ JobEnds \/ CommandFails
  BY <1>1, DownReturnsInv, UpReturnsInv, WaitEndsInv, JobEndsInv, CommandFailsInv
<1>2. CASE TickBegins \/ TickEnds \/ CooldownEnds \/ CacheExpires
  BY <1>2, TickBeginsInv, TickEndsInv, TimersInv
<1>3. CASE \E t \in Target, way \in {"legacy", "project", "terminal"} : NodeStarts(t, way)
  BY <1>3, NodeStartsInv
<1>4. CASE RouteSyncs \/ NodeStops \/ Reset
  BY <1>4, RouteSyncsInv, StopsInv
<1>5. CASE \E i \in Identity : AskSync(i)
  BY <1>5, AskSyncInv
<1>6. CASE IndexBlocks \/ Restart
  BY <1>6, IndexBlocksInv, RestartInv
<1>7. CASE UNCHANGED vars
  <2>1. TypeOK'
    BY <1>7 DEF Inv, TypeOK, vars, job, docker, site, watcher
  <2>2. UpKnown' /\ Built' /\ ReadyIsTrue' /\ Wiping'
    BY <1>7 DEF Inv, vars, job, docker, UpKnown, Built, ReadyIsTrue, Wiping
  <2>. QED BY <2>1, <2>2 DEF Inv
<1>. QED BY <1>1, <1>2, <1>3, <1>4, <1>5, <1>6, <1>7 DEF Next

LEMMA InvHolds == Spec => []Inv
BY InitInv, NextInv, PTL DEF Spec

-----------------------------------------------------------------------------
(* The UI's addresses and the front door.                                  *)

\* A successor of the UI is published where it was.
LEMMA RewrittenKeeps ==
  ASSUME Inv, frontend # None, NEW t \in Target
  PROVE  /\ Rewritten(t) # None
         /\ Rewritten(t).host = frontend.host
         /\ Rewritten(t).rpc = "path" <=> frontend.rpc = "path"
<1>1. frontend \in Addresses /\ t.port \in Port /\ "path" \notin Port /\ None \notin Addresses
  BY TargetFacts, ExplorerAssumption DEF Inv, TypeOK
<1>2. Rewritten(t) \in Addresses
  BY SiteTyped DEF Inv
<1>3. Rewritten(t) = Carried(t)
  BY DEF Rewritten
<1>. QED BY <1>1, <1>2, <1>3 DEF Carried, Addresses

LEMMA InitAddresses == Init => AddressesCarried
<1>. SUFFICES ASSUME Init PROVE AddressesCarried
  OBVIOUS
<1>1. PICK t \in Target : frontend = PublishedAs(published, t)
  BY DEF Init
<1>2. t.port \in Port /\ t.chain \in ChainId /\ "path" \notin Port /\ None \notin Addresses /\ published \in Way
  BY TargetFacts, ExplorerAssumption DEF Init
<1>3. frontend \in Addresses
  BY <1>1, <1>2 DEF PublishedAs, Addresses, Way
<1>4. frontend # None /\ frontend.host = published.host /\ (frontend.rpc = "path" <=> published.path)
  BY <1>1, <1>2, <1>3 DEF PublishedAs
<1>5. door.up = published.door /\ (published.door => door.pass = "devnet-ui") /\ stage = "none"
  BY DEF Init
<1>. QED BY <1>4, <1>5 DEF AddressesCarried

\* The steps that touch neither the UI nor the containers may only start a job.
LEMMA QuietAddresses ==
  ASSUME Inv, AddressesCarried, UNCHANGED <<failed, site>>,
         \/ UNCHANGED <<stage, withFrontDoor>>
         \/ queue = <<>> /\ JobStarts(door)
         \/ stage = "wait" /\ stage' \in {"ready", "late"} /\ UNCHANGED withFrontDoor
  PROVE  AddressesCarried'
<1>1. queue = <<>> <=> stage = "none"
  BY DEF Inv, TypeOK
<1>. QED BY <1>1 DEF AddressesCarried, JobStarts, site

LEMMA JobEndsAddresses ==
  ASSUME Inv, AddressesCarried, JobEnds, failed' = 0
  PROVE  AddressesCarried'
<1>1. failed = 0 /\ frontend' = Rewritten(Head(queue))
  BY ExplorerAssumption DEF Inv, TypeOK, JobEnds, Failure
<1>2. Head(queue) \in Target
  BY QueueFacts, TargetFacts DEF Inv, TypeOK, JobEnds
<1>3. /\ frontend # None /\ frontend.host = published.host
      /\ frontend.rpc = "path" <=> published.path
      /\ door.up <=> published.door
      /\ published.door => door.pass = "devnet-ui"
  BY <1>1 DEF AddressesCarried, JobEnds
<1>4. /\ frontend' # None /\ frontend'.host = published.host
      /\ frontend'.rpc = "path" <=> published.path
  BY <1>1, <1>2, <1>3, RewrittenKeeps
<1>5. UNCHANGED <<published, door>>
  BY DEF JobEnds
<1>6. EndJob(IF stage = "ready" THEN "ready" ELSE "error", door)
  BY DEF JobEnds
<1>7. stage' = "none" \/ JobStarts(door)
  BY <1>6 DEF EndJob
<1>8. JobStarts(door) => stage' = "down" /\ (withFrontDoor' <=> door.up)
  BY DEF JobStarts
<1>. QED BY <1>3, <1>4, <1>5, <1>7, <1>8 DEF AddressesCarried

LEMMA NextAddresses == Inv /\ AddressesCarried /\ [Next]_vars => AddressesCarried'
<1>. SUFFICES ASSUME Inv, AddressesCarried, [Next]_vars PROVE AddressesCarried'
  OBVIOUS
<1>1. CASE DownReturns
  <2>1. /\ stage = "down" /\ stage' = "up" /\ (door'.up => door.up)
        /\ UNCHANGED <<failed, published, frontend, withFrontDoor>>
    BY <1>1 DEF DownReturns, DoorDown
  <2>. QED BY <2>1 DEF AddressesCarried
<1>2. CASE UpReturns
  <2>1. stage = "up" /\ stage' = "wait" /\ door' = DoorUp /\ UNCHANGED <<failed, published, frontend, withFrontDoor>>
    BY <1>2 DEF UpReturns
  <2>2. SUFFICES ASSUME failed = 0 PROVE AddressesCarried'
    BY <2>1 DEF AddressesCarried
  <2>3. withFrontDoor <=> published.door
    BY <2>1, <2>2 DEF AddressesCarried
  <2>4. published.door => door'.up /\ door'.pass = "devnet-ui"
    BY <2>1, <2>3 DEF DoorUp
  <2>5. door'.up => published.door
    BY <2>1, <2>2, <2>3 DEF DoorUp, AddressesCarried, Inv, TypeOK
  <2>. QED BY <2>1, <2>2, <2>3, <2>4, <2>5 DEF AddressesCarried
<1>3. CASE JobEnds
  BY <1>3, JobEndsAddresses DEF AddressesCarried
<1>4. CASE CommandFails \/ Restart
  <2>1. failed' # 0
    BY <1>4 DEF Inv, TypeOK, CommandFails, Restart, Failure
  <2>. QED BY <2>1 DEF AddressesCarried
<1>5. CASE WaitEnds
  BY <1>5, QuietAddresses DEF WaitEnds, docker
<1>6. CASE TickBegins \/ CooldownEnds \/ CacheExpires \/ NodeStops \/ Reset \/ IndexBlocks
  BY <1>6, QuietAddresses DEF TickBegins, CooldownEnds, CacheExpires, NodeStops, Reset, IndexBlocks, docker, job
<1>7. CASE \E t \in Target, way \in {"legacy", "project", "terminal"} : NodeStarts(t, way)
  BY <1>7, QuietAddresses DEF NodeStarts, docker, job
<1>8. CASE TickEnds \/ RouteSyncs \/ (\E i \in Identity : AskSync(i))
  BY <1>8, QuietAddresses DEF TickEnds, FollowNode, RouteSyncs, AskSync, SyncExplorer, docker, job
<1>9. CASE UNCHANGED vars
  BY <1>9, QuietAddresses DEF vars, docker, job
<1>. QED BY <1>1, <1>2, <1>3, <1>4, <1>5, <1>6, <1>7, <1>8, <1>9 DEF Next

-----------------------------------------------------------------------------
(* Theorems.                                                               *)

\* The state is what its type says in every reachable state.
THEOREM TypeCorrect == Spec => []TypeOK
BY InvHolds, PTL DEF Inv

\* While a sync is reported ready and no later job has begun to tear the stack down, the backend
\* container runs with the configuration that is reported.
THEOREM ReadyIsKept == Spec => []ReadyIsTrue
BY InvHolds, PTL DEF Inv

\* Once a sync is reported ready, Blockscout's database holds blocks of the latest chain only, if
\* the API started its node.
THEOREM OneChainServed == Spec => []ServesOneChain
<1>1. Inv => ServesOneChain
  <2>1. queue = <<>> /\ TypeOK => stage = "none" /\ ~(Len(queue) > 1)
    BY DEF TypeOK
  <2>. QED BY <2>1 DEF Inv, Wiping, ServesOneChain, Settled
<1>. QED BY <1>1, InvHolds, PTL

\* The safety behind FollowsNode: as long as no command fails, the UI stays published where it was
\* and the front door that was up is taken down and brought up with the stack.
THEOREM PublishedWhereItWas == Spec => []AddressesCarried
BY InvHolds, InitAddresses, NextAddresses, PTL DEF Spec

=============================================================================
