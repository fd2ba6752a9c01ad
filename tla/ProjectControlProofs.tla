------------------------ MODULE ProjectControlProofs ------------------------
(***************************************************************************)
(* Proofs about AnvilProcess and about ProjectControl on top of it, for    *)
(* any number of projects, ports, processes, calls in flight and requests. *)
(***************************************************************************)
EXTENDS ProjectControl, TLAPS

(***************************************************************************)
(* The inductive invariant behind HandleIsOwn and StopHearsExit.           *)
(***************************************************************************)

\* A suspended call names what it works on.
CallShape ==
    \A c \in Call :
        /\ call[c].step = "idle" => call[c] = Idle
        /\ call[c].step # "idle" => call[c].key \in Key /\ call[c].port \in Port
        /\ call[c].step \in {"poll", "wait"} =>
              call[c].pid \in Pid /\ node[call[c].pid].key = call[c].key

\* Only a process that exists has a port, an owner, a signal or an exit.
Born ==
    \A p \in Pid :
        /\ node[p].phase # "unborn" => node[p].port \in Port
        /\ node[p].phase = "unborn" => p \notin killed \cup doomed \cup exited /\ node[p].key = None
        /\ p \in exited => node[p].phase = "dead" /\ node[p].key \in Key

\* The child a stop waits for is no longer any instance's handle.
StopOwnsChild ==
    \A c \in Call, k \in Key : call[c].step = "wait" => proc[k] # call[c].pid

IInv ==
    /\ TypeOK
    /\ CallShape
    /\ Born
    /\ HandleIsOwn
    /\ StopHearsExit
    /\ StopOwnsChild


\* The invariant survives the boot of a node,
LEMMA BindPreserves ==
  ASSUME IInv, NEW p \in Pid, Bind(p)
  PROVE  IInv'
<1>. USE DEF IInv
<1>1. TypeOK'
  BY ConstantsAssumption DEF Bind, Felled, Reported, TypeOK, NodeRecord, Phase
<1>2. CallShape'
  BY ConstantsAssumption DEF Bind, Felled, TypeOK, NodeRecord, CallShape, Born
<1>3. Born'
  BY ConstantsAssumption DEF Bind, Felled, Reported, TypeOK, NodeRecord, Born
<1>4. HandleIsOwn'
  BY ConstantsAssumption DEF Bind, Felled, Reported, Alive, TypeOK,
     NodeRecord, HandleIsOwn, Present
<1>5. StopHearsExit' /\ StopOwnsChild'
  BY ConstantsAssumption DEF Bind, Felled, Reported, Alive, TypeOK,
     NodeRecord, CallShape, StopHearsExit, StopOwnsChild, Present
<1>. QED BY <1>1, <1>2, <1>3, <1>4, <1>5

\* its death,
LEMMA DiePreserves ==
  ASSUME IInv, NEW p \in Pid, Die(p)
  PROVE  IInv'
<1>. USE DEF IInv
<1>1. TypeOK'
  BY ConstantsAssumption DEF Die, Felled, Reported, TypeOK, NodeRecord, Phase
<1>2. CallShape'
  BY ConstantsAssumption DEF Die, Felled, CallShape
<1>3. Born'
  BY ConstantsAssumption DEF Die, Felled, Reported, Alive, TypeOK, NodeRecord,
     Born
<1>4. HandleIsOwn'
  BY ConstantsAssumption DEF Die, Felled, Reported, Alive, TypeOK,
     HandleIsOwn, Present
<1>5. StopHearsExit' /\ StopOwnsChild'
  BY ConstantsAssumption DEF Die, Felled, Reported, Alive, CallShape,
     StopHearsExit, StopOwnsChild, Present
<1>. QED BY <1>1, <1>2, <1>3, <1>4, <1>5

\* the beginning of a start,
LEMMA StartCallPreserves ==
  ASSUME IInv, NEW c \in Call, NEW k \in Key, NEW q \in Port, StartCall(c, k, q)
  PROVE  IInv'
<1>. USE DEF IInv
<1>1. TypeOK'
  BY ConstantsAssumption DEF StartCall, TypeOK, CallRecord, Step
<1>2. CallShape'
  BY ConstantsAssumption DEF StartCall, CallShape
<1>3. Born'
  BY ConstantsAssumption DEF StartCall, Born
<1>4. HandleIsOwn'
  BY ConstantsAssumption DEF StartCall, HandleIsOwn, Present, Alive
<1>5. StopHearsExit' /\ StopOwnsChild'
  BY ConstantsAssumption DEF StartCall, StopHearsExit, StopOwnsChild, Present,
     Alive
<1>. QED BY <1>1, <1>2, <1>3, <1>4, <1>5

\* the answer of the port probe,
LEMMA StartProbedPreserves ==
  ASSUME IInv, NEW c \in Call, StartProbed(c)
  PROVE  IInv'
BY ConstantsAssumption DEF IInv, StartProbed, TypeOK, CallRecord, Step, Idle,
   CallShape, Born, HandleIsOwn, StopHearsExit, StopOwnsChild, Present, Alive

\* a failed fork-block lookup,
LEMMA StartLookupFailsPreserves ==
  ASSUME IInv, NEW c \in Call, StartLookupFails(c)
  PROVE  IInv'
BY ConstantsAssumption DEF IInv, StartLookupFails, TypeOK, CallRecord, Step,
   Idle, CallShape, Born, HandleIsOwn, StopHearsExit, StopOwnsChild, Present,
   Alive

\* the spawn of the child,
LEMMA StartSpawnPreserves ==
  ASSUME IInv, NEW c \in Call, NEW p \in Pid, StartSpawn(c, p)
  PROVE  IInv'
<1>. USE DEF IInv
<1>1. TypeOK'
  BY ConstantsAssumption DEF StartSpawn, TypeOK, NodeRecord, Phase,
     CallRecord, Step
<1>2. CallShape'
  BY ConstantsAssumption DEF StartSpawn, TypeOK, CallShape, Born
<1>3. Born'
  BY ConstantsAssumption DEF StartSpawn, CallShape, Born
<1>4. HandleIsOwn'
  BY ConstantsAssumption DEF StartSpawn, TypeOK, Born, HandleIsOwn, Present,
     Alive
<1>5. StopHearsExit' /\ StopOwnsChild'
  BY ConstantsAssumption DEF StartSpawn, Born, StopHearsExit, StopOwnsChild,
     Present, Alive
<1>. QED BY <1>1, <1>2, <1>3, <1>4, <1>5

\* a spawn that fails,
LEMMA StartSpawnErrorPreserves ==
  ASSUME IInv, NEW c \in Call, StartSpawnError(c)
  PROVE  IInv'
<1>. USE DEF IInv
<1>1. TypeOK'
  BY ConstantsAssumption DEF StartSpawnError, TypeOK, CallRecord, Step, Idle
<1>2. CallShape'
  BY ConstantsAssumption DEF StartSpawnError, Idle, CallShape
<1>3. Born'
  BY ConstantsAssumption DEF StartSpawnError, Born
<1>4. HandleIsOwn'
  BY ConstantsAssumption DEF StartSpawnError, TypeOK, HandleIsOwn, Present,
     Alive
<1>5. StopHearsExit' /\ StopOwnsChild'
  BY ConstantsAssumption DEF StartSpawnError, Idle, CallShape, StopHearsExit,
     StopOwnsChild, Present, Alive
<1>. QED BY <1>1, <1>2, <1>3, <1>4, <1>5

\* a start that resolves
LEMMA StartReadyPreserves ==
  ASSUME IInv, NEW c \in Call, StartReady(c)
  PROVE  IInv'
BY ConstantsAssumption DEF IInv, StartReady, TypeOK, CallRecord, Step, Idle,
   CallShape, Born, HandleIsOwn, StopHearsExit, StopOwnsChild, Present, Alive

\* and one that gives up;
LEMMA StartDeadlinePreserves ==
  ASSUME IInv, NEW c \in Call, StartDeadline(c)
  PROVE  IInv'
BY ConstantsAssumption DEF IInv, StartDeadline, TypeOK, CallRecord, Step,
   Idle, CallShape, Born, HandleIsOwn, StopHearsExit, StopOwnsChild, Present,
   Alive

\* a stop with nothing to wait for,
LEMMA StopUntrackedPreserves ==
  ASSUME IInv, NEW k \in Key, NEW q \in Port \cup {None}, StopUntracked(k, q)
  PROVE  IInv'
<1>. USE DEF IInv
<1>1. TypeOK'
  BY ConstantsAssumption DEF StopUntracked, Felled, Reported, Orphans, TypeOK,
     NodeRecord, Phase
<1>2. CallShape'
  BY ConstantsAssumption DEF StopUntracked, Felled, CallShape
<1>3. Born'
  BY ConstantsAssumption DEF StopUntracked, Felled, Reported, Orphans,
     ListensOn, TypeOK, NodeRecord, Born
<1>4. HandleIsOwn'
  BY ConstantsAssumption DEF StopUntracked, Felled, Reported, TypeOK,
     HandleIsOwn, Present, Alive
<1>5. StopHearsExit' /\ StopOwnsChild'
  BY ConstantsAssumption DEF StopUntracked, Felled, Reported, CallShape,
     StopHearsExit, StopOwnsChild, Present, Alive
<1>. QED BY <1>1, <1>2, <1>3, <1>4, <1>5

\* a stop that waits,
LEMMA StopCallPreserves ==
  ASSUME IInv, NEW c \in Call, NEW k \in Key, NEW q \in Port \cup {None}, StopCall(c, k, q)
  PROVE  IInv'
<1>. USE DEF IInv
<1>1. TypeOK'
  BY ConstantsAssumption DEF StopCall, StopPort, IsRunning, TypeOK,
     CallRecord, Step
<1>2. CallShape'
  BY ConstantsAssumption DEF StopCall, StopPort, IsRunning, TypeOK, CallShape,
     Born, HandleIsOwn
<1>3. Born'
  BY ConstantsAssumption DEF StopCall, Born, HandleIsOwn
<1>4. HandleIsOwn'
  BY ConstantsAssumption DEF StopCall, TypeOK, HandleIsOwn, Present, Alive
<1>5. StopHearsExit' /\ StopOwnsChild'
  BY ConstantsAssumption DEF StopCall, IsRunning, TypeOK, CallShape,
     HandleIsOwn, StopHearsExit, StopOwnsChild, Present, Alive
<1>. QED BY <1>1, <1>2, <1>3, <1>4, <1>5

\* its SIGKILL timer,
LEMMA StopKillPreserves ==
  ASSUME IInv, NEW c \in Call, StopKill(c)
  PROVE  IInv'
<1>. USE DEF IInv
<1>1. TypeOK'
  BY ConstantsAssumption DEF StopKill, Felled, Reported, TypeOK, NodeRecord,
     Phase, CallShape
<1>2. CallShape'
  BY ConstantsAssumption DEF StopKill, Felled, CallShape
<1>3. Born'
  BY ConstantsAssumption DEF StopKill, Felled, Reported, CallShape, Born
<1>4. HandleIsOwn'
  BY ConstantsAssumption DEF StopKill, Felled, Reported, Alive, TypeOK,
     HandleIsOwn, Present
<1>5. StopHearsExit' /\ StopOwnsChild'
  BY ConstantsAssumption DEF StopKill, Felled, Reported, Alive, CallShape,
     StopHearsExit, StopOwnsChild, Present
<1>. QED BY <1>1, <1>2, <1>3, <1>4, <1>5

\* the termination of a listed process
LEMMA KillPidPreserves ==
  ASSUME IInv, NEW p \in Pid, KillPid(p)
  PROVE  IInv'
<1>. USE DEF IInv
<1>1. TypeOK'
  BY ConstantsAssumption DEF KillPid, TypeOK
<1>2. CallShape'
  BY ConstantsAssumption DEF KillPid, CallShape
<1>3. Born'
  BY ConstantsAssumption DEF KillPid, Alive, Born
<1>4. HandleIsOwn'
  BY ConstantsAssumption DEF KillPid, Alive, HandleIsOwn, Present
<1>5. StopHearsExit' /\ StopOwnsChild'
  BY ConstantsAssumption DEF KillPid, Alive, CallShape, StopHearsExit,
     StopOwnsChild, Present
<1>. QED BY <1>1, <1>2, <1>3, <1>4, <1>5

\* and its timer;
LEMMA KillTimerPreserves ==
  ASSUME IInv, NEW p \in Pid, KillTimer(p)
  PROVE  IInv'
<1>. USE DEF IInv
<1>1. TypeOK'
  BY ConstantsAssumption DEF KillTimer, Felled, Reported, TypeOK, NodeRecord,
     Phase
<1>2. CallShape'
  BY ConstantsAssumption DEF KillTimer, Felled, CallShape
<1>3. Born'
  BY ConstantsAssumption DEF KillTimer, Felled, Reported, TypeOK, NodeRecord,
     Born
<1>4. HandleIsOwn'
  BY ConstantsAssumption DEF KillTimer, Felled, Reported, Alive, TypeOK,
     HandleIsOwn, Present
<1>5. StopHearsExit' /\ StopOwnsChild'
  BY ConstantsAssumption DEF KillTimer, Felled, Reported, Alive, CallShape,
     StopHearsExit, StopOwnsChild, Present
<1>. QED BY <1>1, <1>2, <1>3, <1>4, <1>5

\* the "exit" event, with the sweep of the port,
LEMMA ExitEventPreserves ==
  ASSUME IInv, NEW p \in Pid, ExitEvent(p)
  PROVE  IInv'
<1>. USE DEF IInv
<1>1. TypeOK'
  <2>1. ASSUME NEW S PROVE Felled(S) \in [Pid -> NodeRecord]
    <3>1. \A o \in Pid : [node[o] EXCEPT !.phase = "dead"] \in NodeRecord /\ node[o] \in NodeRecord
      BY DEF TypeOK, NodeRecord, Phase
    <3>. QED BY <3>1 DEF Felled
  <2>. DEFINE swept == UNION {Orphans(call[c].port) :
                               c \in {c \in Call : call[c].step = "wait" /\ call[c].pid = p}}
  <2>2. node' = Felled(swept) /\ exited' = (exited \ {p}) \cup Reported(swept)
    BY DEF ExitEvent
  <2>6. swept \subseteq Pid
    BY DEF Orphans
  <2>. HIDE DEF swept
  <2>5. node' \in [Pid -> NodeRecord] /\ exited' \subseteq Pid
    BY <2>1, <2>2, <2>6 DEF Reported, TypeOK
  <2>3. call' \in [Call -> CallRecord]
    BY DEF ExitEvent, TypeOK, CallRecord, Step, Idle
  <2>4. /\ proc' \in [Key -> Pid \cup {None}] /\ config' \in [Key -> Port \cup {None}]
        /\ killed' \subseteq Pid /\ doomed' \subseteq Pid
    BY DEF ExitEvent, AfterExit, TypeOK
  <2>. QED BY <2>3, <2>4, <2>5 DEF TypeOK
<1>2. CallShape'
  BY ConstantsAssumption DEF ExitEvent, Felled, Idle, CallShape
<1>3. Born'
  BY ConstantsAssumption DEF ExitEvent, Felled, Reported, Orphans, ListensOn,
     TypeOK, NodeRecord, Born
<1>4. HandleIsOwn'
  BY ConstantsAssumption DEF ExitEvent, Felled, Reported, AfterExit, TypeOK,
     HandleIsOwn, Present, Alive
<1>5. StopHearsExit' /\ StopOwnsChild'
  BY ConstantsAssumption DEF ExitEvent, Felled, Reported, AfterExit, Idle,
     CallShape, StopHearsExit, StopOwnsChild, Present, Alive
<1>. QED BY <1>1, <1>2, <1>3, <1>4, <1>5

\* and a reload of the server.
LEMMA RestartPreserves ==
  ASSUME IInv, Restart
  PROVE  IInv'
<1>. USE DEF IInv
<1>1. TypeOK'
  <2>1. node' \in [Pid -> NodeRecord]
    BY DEF Restart, TypeOK, NodeRecord
  <2>2. Idle \in CallRecord
    BY ConstantsAssumption DEF Idle, CallRecord, Step
  <2>. QED BY <2>1, <2>2 DEF Restart, TypeOK
<1>2. CallShape'
  BY ConstantsAssumption DEF Restart, Idle, CallShape
<1>3. Born'
  BY ConstantsAssumption DEF Restart, TypeOK, NodeRecord, Born
<1>4. HandleIsOwn'
  BY ConstantsAssumption DEF Restart, HandleIsOwn
<1>5. StopHearsExit' /\ StopOwnsChild'
  BY ConstantsAssumption DEF Restart, Idle, StopHearsExit, StopOwnsChild
<1>. QED BY <1>1, <1>2, <1>3, <1>4, <1>5

\* The invariant holds at first,
LEMMA IInvInit == Init => IInv
BY ConstantsAssumption DEF Init, IInv, TypeOK, NodeRecord, Phase, CallRecord,
   Step, Idle, CallShape, Born, HandleIsOwn, StopHearsExit, StopOwnsChild

\* every step keeps it,
LEMMA IInvNext == IInv /\ [Next]_vars => IInv'
<1>1. ASSUME IInv, Next PROVE IInv'
  BY <1>1, BindPreserves, DiePreserves, StartCallPreserves,
     StartProbedPreserves, StartLookupFailsPreserves, StartSpawnPreserves,
     StartSpawnErrorPreserves, StartReadyPreserves, StartDeadlinePreserves,
     StopUntrackedPreserves, StopCallPreserves, StopKillPreserves,
     KillPidPreserves, KillTimerPreserves, ExitEventPreserves,
     RestartPreserves DEF Next
<1>2. ASSUME IInv, UNCHANGED vars PROVE IInv'
  BY <1>2 DEF vars, IInv, TypeOK, CallShape, Born, HandleIsOwn, StopHearsExit,
     StopOwnsChild, Present, Alive
<1>. QED BY <1>1, <1>2

\* so it holds for good.
LEMMA IInvAlways == Spec => []IInv
BY IInvInit, IInvNext, PTL DEF Spec

\* Every variable keeps its type.
THEOREM TypeCorrect == Spec => []TypeOK
BY IInvAlways, PTL DEF IInv

\* An instance never holds a child it has been told is gone, and no two
\* instances hold the same child.
THEOREM HandlesAreOwn == Spec => []HandleIsOwn
BY IInvAlways, PTL DEF IInv

\* A stop never waits for an "exit" event that has already been delivered.
THEOREM StopsHearTheExit == Spec => []StopHearsExit
BY IInvAlways, PTL DEF IInv

-----------------------------------------------------------------------------
(***************************************************************************)
(* What a stop has done when it resolves.                                  *)
(***************************************************************************)

\* Only the "exit" event of the child resolves a stop, and the sweep of the
\* port belongs to the same step.
LEMMA StopFreesPortStep ==
  ASSUME IInv, [Next]_vars, NEW c \in Call, StopResolves(c)
  PROVE  PortFreed(c)
<1>. USE DEF IInv
<1>1. PICK p \in Pid : ExitEvent(p)
  <2>. USE DEF StopResolves, TypeOK, CallRecord, Idle
  <2>1. ~Restart
    BY ConstantsAssumption DEF Restart, CallShape, NodeRecord
  <2>2. call' # call
    OBVIOUS
  <2>3. ASSUME NEW d \in Call
        PROVE  /\ \A k \in Key, q \in Port : ~StartCall(d, k, q)
               /\ ~StartProbed(d)
               /\ ~StartLookupFails(d)
               /\ ~StartSpawnError(d)
               /\ ~StartReady(d)
               /\ ~StartDeadline(d)
    BY DEF StartCall, StartProbed, StartLookupFails, StartSpawnError,
       StartReady, StartDeadline
  <2>4. ASSUME NEW d \in Call
        PROVE  /\ \A o \in Pid : ~StartSpawn(d, o)
               /\ \A k \in Key, q \in Port \cup {None} : ~StopCall(d, k, q)
    BY DEF StartSpawn, StopCall
  <2>. QED
    BY <2>1, <2>2, <2>3, <2>4 DEF Next, vars, Bind, Die, StopUntracked,
       StopKill, KillPid, KillTimer
<1>2. call[c].pid = p
  BY <1>1 DEF ExitEvent, StopResolves, Idle
<1>3. node'[p].phase = "dead"
  BY <1>1, <1>2 DEF ExitEvent, Felled, Born
<1>4. ASSUME NEW o \in Pid, node'[o].phase = "listening"
      PROVE  node'[o].port # call[c].port
  <2>1. o \notin Orphans(call[c].port)
    BY <1>1, <1>2, <1>4 DEF ExitEvent, StopResolves, Felled
  <2>2. call[c].port # None
    BY ConstantsAssumption DEF CallShape, StopResolves
  <2>3. node'[o] = node[o]
    BY <1>1, <1>4 DEF ExitEvent, Felled
  <2>. QED BY <1>4, <2>1, <2>2, <2>3 DEF Orphans, ListensOn
<1>. QED BY <1>2, <1>3, <1>4 DEF PortFreed

\* When stopAnvil returns from waiting for its child, no anvil listens on the
\* port any more.
THEOREM StopFreesItsPort == Spec => StopFreesPort
<1>1. IInv /\ [Next]_vars => [\A c \in Call : StopResolves(c) => PortFreed(c)]_vars
  BY StopFreesPortStep
<1>. QED BY <1>1, IInvAlways, PTL DEF Spec, StopFreesPort

-----------------------------------------------------------------------------
(***************************************************************************)
(* Callers that use a project one call at a time.                          *)
(***************************************************************************)

\* No two suspended calls share a key.
OneCallPerKey ==
    \A c, d \in Call : call[c].key # None /\ call[c].key = call[d].key => c = d

\* While a start has no child yet, or a stop waits for one, the instance holds none.
CallsAlone ==
    \A c \in Call : call[c].step \in {"probe", "spawn", "wait"} => proc[call[c].key] = None

SInv == OneCallPerKey /\ CallsAlone

\* Every step keeps it, if callers make one call at a time.
LEMMA SInvNext ==
  ASSUME Serial, IInv, SInv, [Next]_vars
  PROVE  SInv'
<1>. USE ConstantsAssumption DEF IInv, SInv, OneCallPerKey, CallsAlone
<1>1. ASSUME NEW p \in Pid, Bind(p) \/ Die(p) \/ KillTimer(p) PROVE SInv'
  BY <1>1 DEF Bind, Die, KillTimer
<1>2. ASSUME NEW c \in Call, NEW k \in Key, NEW q \in Port, StartCall(c, k, q) PROVE SInv'
  <2>1. proc[k] = None
    BY <1>2 DEF StartCall, MayStart, IsRunning, HandleIsOwn
  <2>. QED BY <1>2, <2>1 DEF StartCall, Quiet, TypeOK, Idle
<1>3. ASSUME NEW c \in Call,
             StartProbed(c) \/ StartLookupFails(c) \/ StartReady(c) \/ StartDeadline(c)
      PROVE  SInv'
  BY <1>3 DEF StartProbed, StartLookupFails, StartReady, StartDeadline, Idle, TypeOK, CallRecord
<1>4. ASSUME NEW c \in Call, NEW p \in Pid, StartSpawn(c, p) PROVE SInv'
  BY <1>4 DEF StartSpawn, TypeOK, CallShape
<1>5. ASSUME NEW c \in Call, StartSpawnError(c) PROVE SInv'
  BY <1>5 DEF StartSpawnError, Idle, TypeOK, CallShape
<1>6. ASSUME NEW k \in Key, NEW q \in Port \cup {None}, StopUntracked(k, q) PROVE SInv'
  BY <1>6 DEF StopUntracked, TypeOK
<1>7. ASSUME NEW c \in Call, NEW k \in Key, NEW q \in Port \cup {None}, StopCall(c, k, q) PROVE SInv'
  BY <1>7 DEF StopCall, Quiet, TypeOK, Idle
<1>8. ASSUME NEW c \in Call, StopKill(c) PROVE SInv'
  BY <1>8 DEF StopKill
<1>9. ASSUME NEW p \in Pid, KillPid(p) PROVE SInv'
  BY <1>9 DEF KillPid, CallShape
<1>10. ASSUME NEW p \in Pid, ExitEvent(p) PROVE SInv'
  BY <1>10 DEF ExitEvent, AfterExit, Idle, TypeOK, CallShape
<1>11. ASSUME Restart PROVE SInv'
  BY <1>11 DEF Restart, Idle
<1>12. CASE UNCHANGED vars
  BY <1>12 DEF vars
<1>. QED
  BY <1>1, <1>2, <1>3, <1>4, <1>5, <1>6, <1>7, <1>8, <1>9, <1>10, <1>11, <1>12 DEF Next

\* No step lets go of a node that is held, but a kill and a late exit.
LEMMA NodesKeptStep ==
  ASSUME Serial, IInv, SInv, [Next]_vars, NEW p \in Pid, Present(p), Held(p), Present(p)'
  PROVE  Held(p)' \/ p \in doomed' \/ LateExit(p)
<1>. USE ConstantsAssumption DEF IInv, SInv
<1>0. node[p].key \in Key /\ node[p].phase # "unborn"
  BY DEF TypeOK, NodeRecord, Present, Alive, Born
<1>1. ASSUME UNCHANGED <<proc, call>>, node'[p].key = node[p].key PROVE Held(p)'
  BY <1>1 DEF Held
<1>2. ASSUME NEW S, node' = Felled(S) PROVE node'[p].key = node[p].key
  BY <1>2 DEF Felled, TypeOK, NodeRecord
<1>3. ASSUME NEW o \in Pid, Bind(o) \/ Die(o) \/ KillTimer(o) PROVE Held(p)'
  BY <1>1, <1>2, <1>3 DEF Bind, Die, KillTimer, TypeOK, NodeRecord
<1>4. ASSUME NEW c \in Call,
             \/ StartProbed(c) \/ StartLookupFails(c) \/ StartReady(c) \/ StartDeadline(c)
             \/ \E k \in Key, q \in Port : StartCall(c, k, q)
      PROVE  Held(p)'
  <2>1. UNCHANGED <<proc, node>> /\ \A d \in Call : call[d].step = "wait" => call'[d] = call[d]
    BY <1>4 DEF StartProbed, StartLookupFails, StartReady, StartDeadline, StartCall, TypeOK, Idle
  <2>. QED BY <2>1 DEF Held
<1>5. ASSUME NEW c \in Call, NEW o \in Pid, StartSpawn(c, o) PROVE Held(p)'
  <2>1. o # p /\ node'[p] = node[p]
    BY <1>0, <1>5 DEF StartSpawn, TypeOK
  <2>2. proc[call[c].key] = None /\ call[c].key \in Key
    BY <1>5 DEF StartSpawn, CallsAlone, CallShape
  <2>3. \A k \in Key : proc[k] # None => proc'[k] = proc[k]
    BY <1>5, <2>2 DEF StartSpawn, TypeOK
  <2>4. \A d \in Call : call[d].step = "wait" => call'[d] = call[d]
    BY <1>5 DEF StartSpawn, TypeOK
  <2>. QED BY <1>0, <2>1, <2>3, <2>4 DEF Held
<1>6. ASSUME NEW c \in Call, StartSpawnError(c) PROVE Held(p)'
  <2>1. proc[call[c].key] = None /\ call[c].key \in Key
    BY <1>6 DEF StartSpawnError, CallsAlone, CallShape
  <2>2. /\ UNCHANGED <<proc, node>>
        /\ \A d \in Call : call[d].step = "wait" => call'[d] = call[d]
    BY <1>6, <2>1 DEF StartSpawnError, TypeOK
  <2>. QED BY <2>2 DEF Held
<1>7. ASSUME NEW k \in Key, NEW q \in Port \cup {None}, StopUntracked(k, q) PROVE Held(p)'
  <2>1. proc[k] = None
    BY <1>7 DEF StopUntracked, IsRunning, HandleIsOwn
  <2>2. UNCHANGED <<proc, call>> /\ node' = Felled(Orphans(StopPort(k, q)))
    BY <1>7, <2>1 DEF StopUntracked, TypeOK
  <2>. QED BY <1>1, <1>2, <2>2
<1>8. ASSUME NEW c \in Call, NEW k \in Key, NEW q \in Port \cup {None}, StopCall(c, k, q) PROVE Held(p)'
  <2>1. /\ call'[c].step = "wait" /\ call'[c].pid = proc[k] /\ UNCHANGED node
        /\ \A j \in Key \ {k} : proc'[j] = proc[j]
        /\ \A d \in Call : call[d].step = "wait" => call'[d] = call[d]
    BY <1>8 DEF StopCall, TypeOK, Idle
  <2>. QED BY <1>0, <2>1 DEF Held
<1>9. ASSUME NEW c \in Call, StopKill(c) PROVE Held(p)'
  BY <1>1, <1>2, <1>9 DEF StopKill
<1>10. ASSUME NEW o \in Pid, KillPid(o) PROVE Held(p)' \/ p \in doomed'
  <2>1. CASE o = p
    BY <1>10, <2>1 DEF KillPid
  <2>2. CASE o # p
    BY <1>0, <1>10, <2>2 DEF KillPid, Held
  <2>. QED BY <2>1, <2>2
<1>11. ASSUME NEW o \in Pid, ExitEvent(o) PROVE Held(p)' \/ LateExit(p)
  <2>. DEFINE stops  == {c \in Call : call[c].step = "wait" /\ call[c].pid = o}
              starts == {c \in Call : call[c].step = "poll" /\ call[c].pid = o}
              swept  == UNION {Orphans(call[c].port) : c \in stops}
  <2>1. /\ o \in exited /\ node' = Felled(swept) /\ exited' = (exited \ {o}) \cup Reported(swept)
        /\ proc' = [proc EXCEPT ![node[o].key] = None]
        /\ call' = [c \in Call |-> IF c \in stops \cup starts THEN Idle ELSE call[c]]
    BY <1>11 DEF ExitEvent, AfterExit
  <2>2. o \notin exited' /\ node[o].phase = "dead" /\ node[o].key \in Key
    BY <2>1 DEF Born, Reported, Orphans, ListensOn
  <2>3. o # p
    BY <2>1, <2>2 DEF Present, Alive, Felled, TypeOK, NodeRecord
  <2>4. node'[p].key = node[p].key
    BY <1>2, <2>1
  <2>5. ASSUME NEW c \in Call, call[c].step = "wait", call[c].pid = p PROVE Held(p)'
    BY <2>1, <2>3, <2>5 DEF Held
  <2>6. ASSUME proc[node[p].key] = p, node[o].key # node[p].key PROVE Held(p)'
    BY <1>0, <2>1, <2>4, <2>6 DEF Held, TypeOK
  <2>7. ASSUME proc[node[p].key] = p, node[o].key = node[p].key PROVE LateExit(p)
    <3>1. \A c \in Call : call[c].step = "wait" /\ call[c].pid = o => proc[node[o].key] = None
      BY DEF CallShape, CallsAlone
    <3>2. ~Held(o)
      BY <2>3, <2>7, <3>1 DEF Held
    <3>. QED BY <2>1, <2>2, <2>3, <2>7, <3>2 DEF LateExit
  <2>. QED BY <2>5, <2>6, <2>7 DEF Held
<1>12. ASSUME Restart PROVE FALSE
  BY <1>12 DEF Restart, Present, TypeOK, NodeRecord
<1>13. CASE UNCHANGED vars
  BY <1>1, <1>13 DEF vars
<1>. QED
  BY <1>3, <1>4, <1>5, <1>6, <1>7, <1>8, <1>9, <1>10, <1>11, <1>12, <1>13 DEF Next

\* If callers make one call at a time on an instance, a node that the server holds is lost only
\* to the late exit of one that was killed by pid.
THEOREM NodesStayKept ==
  ASSUME Serial
  PROVE  Spec => NodesAreKept
<1>1. Init => SInv
  BY DEF Init, SInv, OneCallPerKey, CallsAlone, Idle
<1>2. IInv /\ SInv /\ [Next]_vars => SInv'
  BY SInvNext
<1>3. IInv /\ SInv /\ [Next]_vars =>
        [\A p \in Pid : Present(p) /\ Held(p) /\ Present(p)' =>
           Held(p)' \/ p \in doomed' \/ LateExit(p)]_vars
  BY NodesKeptStep
<1>. QED BY <1>1, <1>2, <1>3, IInvAlways, PTL DEF Spec, NodesAreKept

-----------------------------------------------------------------------------
(***************************************************************************)
(* The routes.                                                             *)
(***************************************************************************)

\* The part of ControlTypeOK that the routes write.
RowsTyped ==
    /\ row \in [Project -> [port : Port \cup {None}, status : Status]]
    /\ route \in [Call -> Route]
    /\ edits \subseteq Project

\* A status is written to a row, whether or not it is there.
LEMMA WithStatusTyped ==
  ASSUME NEW r \in [port : Port \cup {None}, status : Status], NEW s \in Status
  PROVE  WithStatus(r, s) \in [port : Port \cup {None}, status : Status]
BY DEF WithStatus

\* What a request without a project is resolved to names an instance and a port.
LEMMA ActiveTargetsTyped ==
  ASSUME TypeOK, RowsTyped
  PROVE  ActiveTargets \subseteq Key \X (Port \cup {None})
BY ControlAssumption DEF ActiveTargets, TypeOK, NodeRecord, RowsTyped, Project

-----------------------------------------------------------------------------
(***************************************************************************)
(* The routes drive the nodes only through the life cycle.                 *)
(***************************************************************************)

\* Each route's step is a step of AnvilProcess or leaves its variables alone.
LEMMA StepIsLifecycleStep ==
  ASSUME TypeOK, RowsTyped, [ControlNext]_controlVars
  PROVE  [Next]_vars
<1>. USE ControlAssumption DEF Project
<1>1. ASSUME NEW k \in Project, NEW q \in Port, CreateProject(k, q) \/ PatchFinish(k, q) PROVE [Next]_vars
  BY <1>1 DEF CreateProject, PatchFinish, vars
<1>2. ASSUME NEW k \in Project, PatchBegin(k) \/ RouteStartRefused(k) PROVE [Next]_vars
  BY <1>2 DEF PatchBegin, RouteStartRefused, vars
<1>3. ASSUME ListProjects PROVE [Next]_vars
  BY <1>3 DEF ListProjects, vars
<1>4. ASSUME NEW c \in Call, NEW k \in Project, RouteStart(c, k) PROVE [Next]_vars
  <2>1. row[k].port \in Port
    BY <1>4 DEF RouteStart, Stored, RowsTyped
  <2>. QED BY <1>4, <2>1 DEF RouteStart, Next
<1>5. ASSUME NEW c \in Call, NEW q \in LegacyPort, LegacyStart(c, q) PROVE [Next]_vars
  BY <1>5 DEF LegacyStart, Next
<1>6. ASSUME NEW c \in Call, NEW k \in Project, RouteStop(c, k) PROVE [Next]_vars
  <2>1. row[k].port \in Port \cup {None}
    BY DEF RowsTyped
  <2>. QED BY <1>6, <2>1 DEF RouteStop, Next
<1>7. ASSUME NEW c \in Call, NEW k \in Project, RouteDelete(c, k) PROVE [Next]_vars
  <2>1. row[k].port \in Port \cup {None}
    BY DEF RowsTyped
  <2>. QED BY <1>7, <2>1 DEF RouteDelete, Next
<1>8. ASSUME NEW c \in Call, HaltActive(c) PROVE [Next]_vars
  <2>1. PICK t \in ActiveTargets : StopUntracked(t[1], t[2]) \/ StopCall(c, t[1], t[2])
    BY <1>8 DEF HaltActive
  <2>2. t[1] \in Key /\ t[2] \in Port \cup {None}
    BY ActiveTargetsTyped
  <2>. QED BY <2>1, <2>2 DEF Next
<1>9. ASSUME NEW p \in Pid, KillListed(p) PROVE [Next]_vars
  BY <1>9 DEF KillListed, Next
<1>10. ASSUME NEW c \in Call, StartGoesOn(c) PROVE [Next]_vars
  BY <1>10 DEF StartGoesOn, Next
<1>11. ASSUME NEW p \in Pid, ChildGone(p) PROVE [Next]_vars
  BY <1>11 DEF ChildGone, Next
<1>12. ASSUME NodeStep PROVE [Next]_vars
  BY <1>12 DEF NodeStep, Next
<1>13. ASSUME Reload PROVE [Next]_vars
  BY <1>13 DEF Reload, Next
<1>14. CASE UNCHANGED controlVars
  BY <1>14 DEF controlVars, vars
<1>. QED
  BY <1>1, <1>2, <1>3, <1>4, <1>5, <1>6, <1>7, <1>8, <1>9, <1>10, <1>11, <1>12, <1>13, <1>14
  DEF ControlNext

-----------------------------------------------------------------------------
(***************************************************************************)
(* What the routes write.                                                  *)
(***************************************************************************)

\* A row keeps its port through every write but an edit and a deletion.
PortKept(k) == row'[k].port = row[k].port \/ row'[k].port = None

RowRecord == [port : Port \cup {None}, status : Status]

\* What a step does to the rows: one project gets a port no other has, or no
\* project gets a port at all.
RowsWritten ==
    /\ row' \in [Project -> RowRecord]
    /\ \/ \A k \in Project : PortKept(k)
       \/ \E j \in Project, q \in Port :
            /\ row[j].port = q \/ ~PortTaken(q)
            /\ row'[j].port = q
            /\ \A k \in Project \ {j} : row'[k] = row[k]

\* Every step writes the rows in one of these two ways.
LEMMA RowsWrittenNext ==
  ASSUME RowsTyped, [ControlNext]_controlVars
  PROVE  RowsWritten
<1>0. row \in [Project -> RowRecord]
  BY DEF RowsTyped, RowRecord
<1>1. ASSUME UNCHANGED row PROVE RowsWritten
  BY <1>0, <1>1 DEF RowsWritten, PortKept
<1>2. ASSUME NEW r \in RowRecord, NEW s \in Status
      PROVE  WithStatus(r, s) \in RowRecord /\ WithStatus(r, s).port = r.port
  BY DEF RowRecord, WithStatus
<1>3. DeletedRow \in RowRecord /\ DeletedRow.port = None
  BY DEF DeletedRow, NoRow, RowRecord, Status
<1>4. ASSUME row' \in [Project -> RowRecord], \A k \in Project : PortKept(k) PROVE RowsWritten
  BY <1>4 DEF RowsWritten
<1>5. ASSUME NEW k \in Project, NEW s \in Status, SetStatus(k, s) PROVE RowsWritten
  BY <1>0, <1>2, <1>4, <1>5 DEF SetStatus, PortKept
<1>6. ASSUME NEW k \in Project, NEW q \in Port, CreateProject(k, q) PROVE RowsWritten
  BY <1>0, <1>6 DEF CreateProject, NewRow, RowsWritten, RowRecord, Status
<1>7. ASSUME NEW k \in Project, NEW q \in Port, PatchFinish(k, q) PROVE RowsWritten
  <2>1. CASE Stored(k) /\ (row[k].port = q \/ ~PortTaken(q))
    BY <1>0, <1>7, <2>1 DEF PatchFinish, RowsWritten, RowRecord
  <2>2. CASE ~(Stored(k) /\ (row[k].port = q \/ ~PortTaken(q)))
    BY <1>1, <1>7, <2>2 DEF PatchFinish
  <2>. QED BY <2>1, <2>2
<1>8. ASSUME ListProjects PROVE RowsWritten
  <2>1. ASSUME NEW k \in Project
        PROVE  Reconciled(k) \in RowRecord /\ Reconciled(k).port = row[k].port
    BY <1>0, <1>2 DEF Reconciled, Status
  <2>. QED BY <1>4, <1>8, <2>1 DEF ListProjects, PortKept
<1>9. ASSUME NEW k \in Project, (\E c \in Call : RouteStart(c, k)) \/ RouteStartRefused(k)
      PROVE  RowsWritten
  BY <1>5, <1>9 DEF RouteStart, RouteStartRefused, Status
<1>10. ASSUME NEW c \in Call, NEW k \in Project, RouteStop(c, k) PROVE RowsWritten
  BY <1>1, <1>5, <1>10 DEF RouteStop, Status
<1>11. ASSUME NEW c \in Call, NEW k \in Project, RouteDelete(c, k) PROVE RowsWritten
  <2>1. ASSUME row' = [row EXCEPT ![k] = DeletedRow] PROVE RowsWritten
    BY <1>0, <1>3, <1>4, <2>1 DEF PortKept
  <2>. QED BY <1>1, <1>11, <2>1 DEF RouteDelete
<1>12. ASSUME NEW c \in Call, NEW s \in Status, StartStep(c, s) PROVE RowsWritten
  BY <1>0, <1>1, <1>2, <1>4, <1>12 DEF StartStep, PortKept
<1>13. ASSUME NEW c \in Call, StartGoesOn(c) PROVE RowsWritten
  BY <1>12, <1>13 DEF StartGoesOn, Status
<1>14. ASSUME NEW p \in Pid, ChildGone(p) PROVE RowsWritten
  <2>1. ASSUME NEW k \in Project, NEW R
        PROVE  /\ AfterRoutes(k, R) \in RowRecord
               /\ AfterRoutes(k, R).port \in {row[k].port, None}
    <3>1. AfterRoutes(k, R) \in {DeletedRow, WithStatus(row[k], "stopped"),
                                 WithStatus(row[k], "error"), row[k]}
      BY DEF AfterRoutes
    <3>2. "stopped" \in Status /\ "error" \in Status
      BY DEF Status
    <3>. QED BY <1>0, <1>2, <1>3, <3>1, <3>2
  <2>. QED BY <1>4, <1>14, <2>1 DEF ChildGone, PortKept
<1>15. CASE UNCHANGED controlVars
  BY <1>1, <1>15 DEF controlVars
<1>16. ASSUME NEW k \in Project, PatchBegin(k) PROVE RowsWritten
  BY <1>1, <1>16 DEF PatchBegin
<1>17. ASSUME NEW c \in Call, NEW q \in LegacyPort, LegacyStart(c, q) PROVE RowsWritten
  BY <1>1, <1>17 DEF LegacyStart
<1>18. ASSUME NEW c \in Call, HaltActive(c) PROVE RowsWritten
  BY <1>1, <1>18 DEF HaltActive
<1>19. ASSUME (\E p \in Pid : KillListed(p)) \/ NodeStep \/ Reload PROVE RowsWritten
  BY <1>1, <1>19 DEF KillListed, NodeStep, Reload
<1>. QED
  BY <1>6, <1>7, <1>8, <1>9, <1>10, <1>11, <1>13, <1>14, <1>15, <1>16, <1>17, <1>18, <1>19
  DEF ControlNext

\* A step that gives a project a port gives it a free one.
LEMMA PortsUniqueNext ==
  ASSUME RowsTyped, PortsUnique, [ControlNext]_controlVars
  PROVE  PortsUnique'
<1>1. RowsWritten
  BY RowsWrittenNext
<1>2. CASE \A k \in Project : PortKept(k)
  BY <1>2 DEF PortKept, PortsUnique
<1>3. ASSUME NEW j \in Project, NEW q \in Port,
             row[j].port = q \/ ~PortTaken(q), row'[j].port = q,
             \A k \in Project \ {j} : row'[k] = row[k]
      PROVE  PortsUnique'
  BY <1>3, ConstantsAssumption DEF PortsUnique, PortTaken
<1>. QED BY <1>1, <1>2, <1>3 DEF RowsWritten

\* Every step keeps the types of rows, routes and edits.
LEMMA RowsTypedNext ==
  ASSUME RowsTyped, [ControlNext]_controlVars
  PROVE  RowsTyped'
<1>1. row' \in [Project -> [port : Port \cup {None}, status : Status]]
  BY RowsWrittenNext DEF RowsWritten, RowRecord
<1>2. edits' \subseteq Project
  BY DEF RowsTyped, ControlNext, controlVars, CreateProject, PatchBegin, PatchFinish, ListProjects,
     RouteStart, RouteStartRefused, LegacyStart, RouteStop, RouteDelete, HaltActive, KillListed,
     StartGoesOn, StartStep, ChildGone, NodeStep, Reload
<1>3. route' \in [Call -> Route]
  BY DEF RowsTyped, ControlNext, controlVars, CreateProject, PatchBegin, PatchFinish, ListProjects,
     RouteStart, RouteStartRefused, LegacyStart, RouteStop, RouteDelete, HaltActive, KillListed,
     StartGoesOn, StartStep, ChildGone, NodeStep, Reload, Route
<1>. QED BY <1>1, <1>2, <1>3 DEF RowsTyped

\* Types, the invariant of the life cycle and distinct ports.
ControlInv == IInv /\ RowsTyped /\ PortsUnique

\* It holds in every state: the steps are steps of AnvilProcess, and of its rows.
LEMMA ControlInvAlways == ControlSpec => []ControlInv
<1>1. ControlInit => ControlInv
  BY IInvInit DEF ControlInit, ControlInv, RowsTyped, PortsUnique, NoRow, Status, Route
<1>2. ControlInv /\ [ControlNext]_controlVars => ControlInv'
  BY StepIsLifecycleStep, IInvNext, RowsTypedNext, PortsUniqueNext DEF ControlInv, IInv
<1>. QED BY <1>1, <1>2, PTL DEF ControlSpec

\* The routes implement the life cycle of AnvilProcess, so whatever is proved of
\* startAnvil and stopAnvil holds of them however the requests overlap.
THEOREM RoutesRefineLifecycle == ControlSpec => LifecycleSpec
<1>1. ControlInit => Init
  BY DEF ControlInit
<1>2. ControlInv /\ [ControlNext]_controlVars => [Next]_vars
  BY StepIsLifecycleStep DEF ControlInv, IInv
<1>. QED BY <1>1, <1>2, ControlInvAlways, PTL DEF ControlSpec, LifecycleSpec, Spec

\* No two projects are ever assigned one port: an edit that waited for its body
\* checks the port again in the turn in which it writes it.
THEOREM PortsStayUnique == ControlSpec => []PortsUnique
BY ControlInvAlways, PTL DEF ControlInv

\* Every variable of the control plane keeps its type.
THEOREM ControlTypeCorrect == ControlSpec => []ControlTypeOK
<1>1. ControlInv => ControlTypeOK
  BY DEF ControlInv, IInv, RowsTyped, ControlTypeOK
<1>. QED BY <1>1, ControlInvAlways, PTL

-----------------------------------------------------------------------------
(***************************************************************************)
(* Rows and nodes, when a project is used by one request at a time.        *)
(***************************************************************************)

\* The row of a project that holds a node shows the node's port and not "stopped".
HandlesMatch ==
    \A k \in Project : proc[k] # None => row[k].port = config[k] /\ row[k].status # "stopped"

\* A suspended call works on the port of its project's row, which says "starting" until there is a
\* child; the child a stop waits for is on that port.
CallsMatch ==
    \A c \in Call : call[c].key \in Project =>
        /\ row[call[c].key].port = call[c].port
        /\ call[c].step \in {"probe", "spawn"} => row[call[c].key].status = "starting"
        /\ call[c].step = "wait" => node[call[c].pid].port = call[c].port

\* A PATCH under way has its project for itself.
EditsAlone == \A k \in edits : proc[k] = None /\ \A c \in Call : call[c].key # k

RowInv == HandlesMatch /\ CallsMatch /\ EditsAlone

\* In this step no instance takes a handle, and nodes stay on their ports.
NothingNew ==
    /\ \A k \in Key : proc'[k] # None => proc'[k] = proc[k] /\ config'[k] = config[k]
    /\ \A p \in Pid : node'[p].port = node[p].port

\* Only a spawn brings a handle.
LEMMA HandlesOnlyGo ==
  ASSUME IInv,
         \/ \E p \in Pid : Bind(p) \/ Die(p) \/ KillPid(p) \/ KillTimer(p) \/ ExitEvent(p)
         \/ \E c \in Call : \/ StartProbed(c) \/ StartLookupFails(c) \/ StartSpawnError(c)
                            \/ StartReady(c) \/ StartDeadline(c) \/ StopKill(c)
         \/ \E k \in Key, q \in Port \cup {None} :
               StopUntracked(k, q) \/ \E c \in Call : StopCall(c, k, q)
         \/ \E c \in Call, k \in Key, q \in Port : StartCall(c, k, q)
         \/ Restart \/ UNCHANGED vars
  PROVE  NothingNew
<1>. USE ConstantsAssumption DEF IInv, TypeOK, NodeRecord, NothingNew
<1>1. ASSUME NEW S, node' = Felled(S) PROVE \A p \in Pid : node'[p].port = node[p].port
  BY <1>1 DEF Felled
<1>2. ASSUME NEW p \in Pid, Bind(p) \/ Die(p) \/ KillTimer(p) PROVE NothingNew
  BY <1>1, <1>2 DEF Bind, Die, KillTimer
<1>3. ASSUME NEW p \in Pid, KillPid(p) PROVE NothingNew
  BY <1>3 DEF KillPid
<1>4. ASSUME NEW p \in Pid, ExitEvent(p) PROVE NothingNew
  <2>1. \A o \in Pid : node'[o].port = node[o].port
    BY <1>1, <1>4 DEF ExitEvent
  <2>2. \A k \in Key : proc'[k] # None => proc'[k] = proc[k] /\ config'[k] = config[k]
    BY <1>4 DEF ExitEvent, AfterExit
  <2>. QED BY <2>1, <2>2
<1>5. ASSUME NEW c \in Call, StopKill(c) PROVE NothingNew
  BY <1>1, <1>5 DEF StopKill
<1>6. ASSUME NEW k \in Key, NEW q \in Port \cup {None}, StopUntracked(k, q) PROVE NothingNew
  BY <1>1, <1>6 DEF StopUntracked
<1>7. ASSUME UNCHANGED <<proc, config, node>> PROVE NothingNew
  BY <1>7
<1>8. ASSUME Restart PROVE NothingNew
  BY <1>8 DEF Restart
<1>9. ASSUME NEW c \in Call,
             \/ StartProbed(c) \/ StartLookupFails(c) \/ StartReady(c) \/ StartDeadline(c)
             \/ \E k \in Key, q \in Port : StartCall(c, k, q)
      PROVE  NothingNew
  BY <1>7, <1>9 DEF StartProbed, StartLookupFails, StartReady, StartDeadline, StartCall
<1>10. ASSUME NEW c \in Call,
              \/ StartSpawnError(c) \/ \E k \in Key, q \in Port \cup {None} : StopCall(c, k, q)
       PROVE  NothingNew
  BY <1>10 DEF StartSpawnError, StopCall
<1>11. ASSUME UNCHANGED vars PROVE NothingNew
  BY <1>7, <1>11 DEF vars
<1>. QED BY <1>2, <1>3, <1>4, <1>5, <1>6, <1>8, <1>9, <1>10, <1>11

\* A step that brings neither a handle nor a call, that moves no project's port under either, and
\* that marks a project "stopped" only when its handle is gone.
LEMMA RowFrame ==
  ASSUME IInv, RowsTyped, RowInv, NothingNew, edits' \subseteq edits,
         \A k \in Project : proc'[k] # None =>
             /\ row'[k].port = row[k].port
             /\ row'[k].status = "stopped" => row[k].status = "stopped",
         \A c \in Call : call'[c].key \in Project =>
             /\ call'[c].key = call[c].key /\ call'[c].port = call[c].port
             /\ row'[call[c].key].port = row[call[c].key].port
             /\ call'[c].step = "wait" => call[c].step = "wait" /\ call'[c].pid = call[c].pid
             /\ call'[c].step \in {"probe", "spawn"} =>
                   /\ call[c].step \in {"probe", "spawn"}
                   /\ row'[call[c].key].status = row[call[c].key].status
  PROVE  RowInv'
<1>0. Project \subseteq Key
  BY DEF Project
<1>1. HandlesMatch'
  BY <1>0 DEF RowInv, HandlesMatch, NothingNew
<1>2. CallsMatch'
  BY DEF RowInv, CallsMatch, NothingNew, IInv, CallShape
<1>3. EditsAlone'
  <2>1. ASSUME NEW k \in edits', NEW c \in Call PROVE call'[c].key # k
    BY DEF RowsTyped, RowInv, EditsAlone
  <2>2. ASSUME NEW k \in edits' PROVE proc'[k] = None
    BY <1>0 DEF RowsTyped, RowInv, EditsAlone, NothingNew
  <2>. QED BY <2>1, <2>2 DEF EditsAlone
<1>. QED BY <1>1, <1>2, <1>3 DEF RowInv

\* Everything known of a state of the routes, used one at a time.
SerialInv == ControlInv /\ SInv /\ RowInv

\* A handle has a port, and so does a call.
LEMMA PortsKnown ==
  ASSUME IInv
  PROVE  /\ \A k \in Key : proc[k] # None =>
                /\ proc[k] \in Pid /\ node[proc[k]].port = config[k] /\ config[k] \in Port
         /\ \A c \in Call, k \in Key : call[c].key = k => call[c].port \in Port
         /\ \A k \in Key : ~IsRunning(k) => proc[k] = None
<1>1. ASSUME NEW k \in Key, proc[k] # None
      PROVE  proc[k] \in Pid /\ node[proc[k]].port = config[k] /\ config[k] \in Port
  BY <1>1 DEF IInv, TypeOK, HandleIsOwn, Present, Alive, Born
<1>2. \A c \in Call, k \in Key : call[c].key = k => call[c].port \in Port
  BY ConstantsAssumption DEF IInv, CallShape, Idle
<1>3. \A k \in Key : ~IsRunning(k) => proc[k] = None
  BY DEF IInv, HandleIsOwn, IsRunning
<1>. QED BY <1>1, <1>2, <1>3

\* A project without a row holds no node, and no call works on it.
LEMMA NoRowNoNode ==
  ASSUME SerialInv, NEW k \in Project, ~Stored(k)
  PROVE  proc[k] = None /\ \A c \in Call : call[c].key # k
<1>1. row[k].port = None /\ None \notin Port /\ k \in Key /\ IInv /\ RowInv
  BY ConstantsAssumption DEF SerialInv, ControlInv, Stored, Project
<1>2. \A c \in Call : call[c].key # k
  BY <1>1, PortsKnown DEF RowInv, CallsMatch
<1>3. proc[k] = None
  BY <1>1, PortsKnown DEF RowInv, HandlesMatch
<1>. QED BY <1>2, <1>3

\* The steps that write a row and leave the nodes alone,
LEMMA StoreSteps ==
  ASSUME Serial, SerialInv,
         \/ \E k \in Project, q \in Port : CreateProject(k, q) \/ PatchFinish(k, q)
         \/ \E k \in Project : PatchBegin(k) \/ RouteStartRefused(k)
         \/ ListProjects
  PROVE  RowInv'
<1>0. IInv /\ RowsTyped /\ RowInv /\ Project \subseteq Key
  BY DEF SerialInv, ControlInv, Project
<1>1. UNCHANGED vars => NothingNew
  BY <1>0, HandlesOnlyGo
<1>2. ASSUME NEW k \in Project, NEW q \in Port, CreateProject(k, q) PROVE RowInv'
  <2>1. ~Stored(k)
    BY <1>2 DEF CreateProject, NoRow, Stored
  <2>2. UNCHANGED <<vars, edits>> /\ row' = [row EXCEPT ![k] = NewRow(q)]
    BY <1>2 DEF CreateProject
  <2>3. proc[k] = None /\ \A c \in Call : call[c].key # k
    BY <2>1, NoRowNoNode
  <2>. QED
    BY <1>0, <1>1, <2>2, <2>3, RowFrame DEF vars, RowsTyped
<1>3. ASSUME NEW k \in Project, NEW q \in Port, PatchFinish(k, q) PROVE RowInv'
  <2>1. /\ k \in edits /\ edits' \subseteq edits /\ UNCHANGED vars
        /\ row' \in {row, [row EXCEPT ![k].port = q]}
    BY <1>3 DEF PatchFinish
  <2>2. proc[k] = None /\ \A c \in Call : call[c].key # k
    BY <1>0, <2>1 DEF RowInv, EditsAlone
  <2>3. \A j \in Project : row'[j].status = row[j].status /\ (j # k => row'[j] = row[j])
    BY <1>0, <2>1 DEF RowsTyped
  <2>. QED
    BY <1>0, <1>1, <2>1, <2>2, <2>3, RowFrame DEF vars
<1>4. ASSUME NEW k \in Project, PatchBegin(k) PROVE RowInv'
  <2>1. UNCHANGED <<vars, row>> /\ edits' = edits \cup {k} /\ Quiet(k) /\ ~IsRunning(k)
    BY <1>4 DEF PatchBegin, Undisturbed, EditMayBegin
  <2>2. proc[k] = None /\ \A c \in Call : call[c].key # k
    BY <1>0, <2>1, PortsKnown DEF Quiet
  <2>. QED
    BY <1>0, <2>1, <2>2 DEF vars, RowInv, HandlesMatch, CallsMatch, EditsAlone
<1>5. ASSUME NEW k \in Project, RouteStartRefused(k) PROVE RowInv'
  <2>1. UNCHANGED <<vars, edits>> /\ Quiet(k) /\ row' = [row EXCEPT ![k] = WithStatus(@, "error")]
    BY <1>5 DEF RouteStartRefused, Undisturbed, SetStatus
  <2>2. \A j \in Project : /\ row'[j].port = row[j].port /\ (j # k => row'[j] = row[j])
                           /\ row'[j].status = "stopped" => row[j].status = "stopped"
    BY <1>0, <2>1 DEF RowsTyped, WithStatus
  <2>3. \A c \in Call : call[c].key # k
    BY <2>1 DEF Quiet
  <2>. QED
    BY <1>0, <1>1, <2>1, <2>2, <2>3, RowFrame DEF vars
<1>6. ASSUME ListProjects PROVE RowInv'
  <2>1. UNCHANGED <<vars, edits>> /\ \A k \in Project : row'[k] = Reconciled(k)
    BY <1>6 DEF ListProjects
  <2>2. ASSUME NEW k \in Project
        PROVE  /\ row'[k].port = row[k].port
               /\ row'[k].status = "stopped" => row[k].status = "stopped" \/ proc[k] = None
    BY <1>0, <2>1, PortsKnown DEF Reconciled, WithStatus, RowsTyped
  <2>3. ASSUME NEW c \in Call, call[c].key \in Project, call[c].step \in {"probe", "spawn"}
        PROVE  row'[call[c].key].status = row[call[c].key].status
    <3>. DEFINE k == call[c].key
    <3>1. row[k].status = "starting"
      BY <1>0, <2>3 DEF RowInv, CallsMatch
    <3>2. ~IsRunning(k)
      BY <2>3 DEF SerialInv, SInv, CallsAlone, IsRunning
    <3>. QED BY <2>1, <2>3, <3>1, <3>2 DEF Reconciled
  <2>. QED BY <1>0, <1>1, <2>1, <2>2, <2>3, RowFrame DEF vars
<1>. QED BY <1>2, <1>3, <1>4, <1>5, <1>6

\* the steps that begin a start or carry it on,
LEMMA StartSteps ==
  ASSUME Serial, SerialInv,
         \/ \E c \in Call, k \in Project : RouteStart(c, k)
         \/ \E c \in Call, q \in LegacyPort : LegacyStart(c, q)
         \/ \E c \in Call : StartGoesOn(c)
  PROVE  RowInv'
<1>0. /\ IInv /\ RowsTyped /\ RowInv /\ Project \subseteq Key /\ Legacy \notin Project
      /\ None \notin Project /\ None \notin Port /\ LegacyPort \subseteq Port /\ Legacy \in Key
  BY ConstantsAssumption, ControlAssumption DEF SerialInv, ControlInv, Project
<1>1. ASSUME NEW c \in Call, NEW k \in Project, RouteStart(c, k) PROVE RowInv'
  <2>1. /\ row[k].port \in Port /\ StartCall(c, k, row[k].port) /\ k \notin edits
        /\ row' = [row EXCEPT ![k] = WithStatus(@, "starting")] /\ UNCHANGED edits
    BY <1>0, <1>1 DEF RouteStart, Stored, Undisturbed, SetStatus, RowsTyped
  <2>2. /\ UNCHANGED <<proc, config, node>> /\ proc[k] = None
        /\ call' = [call EXCEPT ![c] = [step |-> "probe", key |-> k, port |-> row[k].port, pid |-> None]]
    BY <1>0, <2>1, PortsKnown DEF StartCall, MayStart
  <2>3. /\ row'[k].port = row[k].port /\ row'[k].status = "starting"
        /\ \A j \in Project \ {k} : row'[j] = row[j]
    BY <1>0, <2>1 DEF RowsTyped, WithStatus
  <2>4. call \in [Call -> CallRecord] /\ Quiet(k)
    BY <1>0, <2>1 DEF StartCall, IInv, TypeOK
  <2>5. HandlesMatch'
    BY <1>0, <2>2, <2>3 DEF RowInv, HandlesMatch
  <2>6. CallsMatch'
    BY <1>0, <2>2, <2>3, <2>4 DEF RowInv, CallsMatch, Quiet
  <2>7. EditsAlone'
    BY <1>0, <2>1, <2>2, <2>4 DEF RowInv, EditsAlone
  <2>. QED BY <2>5, <2>6, <2>7 DEF RowInv
<1>2. ASSUME NEW c \in Call, NEW q \in LegacyPort, LegacyStart(c, q) PROVE RowInv'
  <2>1. /\ StartCall(c, Legacy, q) /\ UNCHANGED <<row, edits, proc>>
        /\ call' = [call EXCEPT ![c] = [step |-> "probe", key |-> Legacy, port |-> q, pid |-> None]]
    BY <1>2 DEF LegacyStart, StartCall
  <2>2. NothingNew
    BY <1>0, <2>1, HandlesOnlyGo
  <2>3. call \in [Call -> CallRecord]
    BY <1>0 DEF IInv, TypeOK
  <2>. QED BY <1>0, <2>1, <2>2, <2>3, RowFrame
<1>3. ASSUME NEW c \in Call, StartGoesOn(c), \A p \in Pid : ~StartSpawn(c, p) PROVE RowInv'
  <2>. DEFINE k == call[c].key
  <2>1. /\ \/ StartProbed(c) \/ StartLookupFails(c) \/ StartSpawnError(c) \/ StartReady(c) \/ StartDeadline(c)
        /\ (StartStep(c, "error") \/ StartStep(c, "running"))
    BY <1>3 DEF StartGoesOn
  <2>2. NothingNew
    BY <1>0, <2>1, HandlesOnlyGo
  <2>3. /\ call[c].step # "idle"
        /\ \/ call' = [call EXCEPT ![c] = Idle]
           \/ call' = [call EXCEPT ![c] = [call[c] EXCEPT !.step = "spawn"]] /\ call[c].step = "probe"
    BY <1>0, <2>1
    DEF StartProbed, StartLookupFails, StartSpawnError, StartReady, StartDeadline, IInv, TypeOK
  <2>4. /\ UNCHANGED edits /\ \A j \in Project : row'[j].port = row[j].port
        /\ \A j \in Project : row'[j].status = "stopped" => row[j].status = "stopped"
        /\ \A j \in Project : j # k => row'[j] = row[j]
    BY <1>0, <2>1 DEF StartStep, WithStatus, RowsTyped
  <2>5. call' # [call EXCEPT ![c] = Idle] => UNCHANGED row
    BY <1>0, <2>1, <2>3 DEF StartStep, IInv, TypeOK
  <2>6. k \in Project => \A d \in Call : call[d].key = k => d = c
    BY <1>0 DEF SerialInv, SInv, OneCallPerKey
  <2>7. call \in [Call -> CallRecord] /\ Idle.key = None /\ Idle.step = "idle"
    BY <1>0 DEF IInv, TypeOK, Idle
  <2>8. ASSUME NEW d \in Call, call'[d].key \in Project
        PROVE  /\ call'[d].key = call[d].key /\ call'[d].port = call[d].port
               /\ call'[d].step = "wait" => call[d].step = "wait" /\ call'[d].pid = call[d].pid
               /\ call'[d].step \in {"probe", "spawn"} =>
                     /\ call[d].step \in {"probe", "spawn"}
                     /\ row'[call[d].key].status = row[call[d].key].status
    <3>1. CASE call' = [call EXCEPT ![c] = Idle]
      <4>1. d # c /\ call'[d] = call[d]
        BY <1>0, <2>7, <2>8, <3>1
      <4>. QED BY <2>4, <2>6, <2>8, <4>1
    <3>2. CASE /\ call' # [call EXCEPT ![c] = Idle]
               /\ call' = [call EXCEPT ![c] = [call[c] EXCEPT !.step = "spawn"]] /\ call[c].step = "probe"
      BY <2>5, <2>7, <3>2 DEF CallRecord
    <3>. QED BY <2>3, <3>1, <3>2
  <2>. QED BY <1>0, <2>2, <2>4, <2>8, RowFrame
<1>4. ASSUME NEW c \in Call, NEW p \in Pid, StartGoesOn(c), StartSpawn(c, p) PROVE RowInv'
  <2>. DEFINE k == call[c].key  q == call[c].port
  <2>1. /\ call[c].step = "spawn" /\ node[p].phase = "unborn"
        /\ node' = [node EXCEPT ![p] = [phase |-> "booting", port |-> q, key |-> k, home |-> k]]
        /\ proc' = [proc EXCEPT ![k] = p] /\ config' = [config EXCEPT ![k] = q]
        /\ call' = [call EXCEPT ![c] = [step |-> "poll", key |-> k, port |-> q, pid |-> p]]
    BY <1>4 DEF StartSpawn
  <2>2. /\ call \in [Call -> CallRecord] /\ proc \in [Key -> Pid \cup {None}]
        /\ config \in [Key -> Port \cup {None}] /\ node \in [Pid -> NodeRecord] /\ k \in Key
    BY <1>0, <2>1 DEF IInv, TypeOK, CallShape
  <2>3. call'[c] # Idle
    BY <2>1, <2>2 DEF Idle
  <2>4. UNCHANGED <<row, edits>>
    BY <1>4, <2>1, <2>3 DEF StartGoesOn, StartProbed, StartLookupFails, StartSpawnError, StartReady,
       StartDeadline, StartStep
  <2>5. k \in Project => row[k].port = q /\ row[k].status = "starting"
    BY <1>0, <2>1 DEF RowInv, CallsMatch
  <2>6. HandlesMatch'
    BY <1>0, <2>1, <2>2, <2>4, <2>5 DEF RowInv, HandlesMatch
  <2>7. \A d \in Call : call[d].step = "wait" =>
          call[d].pid # p /\ call[d].pid \in Pid /\ node'[call[d].pid] = node[call[d].pid]
    BY <1>0, <2>1, <2>2 DEF IInv, CallShape, StopHearsExit, Present, Alive, Born
  <2>8. CallsMatch'
    BY <1>0, <2>1, <2>2, <2>4, <2>5, <2>7 DEF RowInv, CallsMatch
  <2>9. EditsAlone'
    BY <1>0, <2>1, <2>2, <2>4 DEF RowInv, EditsAlone
  <2>. QED BY <2>6, <2>8, <2>9 DEF RowInv
<1>. QED BY <1>1, <1>2, <1>3, <1>4

\* A stop that waits does so for the node, and over the port, of its project's row.
LEMMA StopBegins ==
  ASSUME Serial, SerialInv, NEW c \in Call, NEW k \in Key, NEW q \in Port \cup {None}, StopCall(c, k, q),
         UNCHANGED <<row, edits>>, k \notin edits,
         k \in Project => q = row[k].port
  PROVE  RowInv'
<1>0. IInv /\ RowsTyped /\ RowInv /\ Project \subseteq Key /\ None \notin Project /\ None \notin Port
  BY ConstantsAssumption DEF SerialInv, ControlInv, Project
<1>1. NothingNew
  BY <1>0, HandlesOnlyGo
<1>2. /\ call' = [call EXCEPT ![c] = [step |-> "wait", key |-> k, port |-> StopPort(k, q), pid |-> proc[k]]]
      /\ proc' = [proc EXCEPT ![k] = None] /\ proc[k] # None /\ UNCHANGED node
  BY DEF StopCall, IsRunning
<1>3. call \in [Call -> CallRecord] /\ proc \in [Key -> Pid \cup {None}]
  BY <1>0 DEF IInv, TypeOK
<1>4. k \in Project => StopPort(k, q) = row[k].port /\ node[proc[k]].port = row[k].port
  BY <1>0, <1>2, PortsKnown DEF StopPort, RowInv, HandlesMatch
<1>5. HandlesMatch'
  BY <1>0, <1>1 DEF RowInv, HandlesMatch, NothingNew
<1>6. CallsMatch'
  BY <1>0, <1>2, <1>3, <1>4 DEF RowInv, CallsMatch
<1>7. EditsAlone'
  BY <1>0, <1>2, <1>3 DEF RowInv, EditsAlone, RowsTyped
<1>. QED BY <1>5, <1>6, <1>7 DEF RowInv

\* the steps that stop a node,
LEMMA StopSteps ==
  ASSUME Serial, SerialInv,
         \/ \E c \in Call, k \in Project : RouteStop(c, k) \/ RouteDelete(c, k)
         \/ \E c \in Call : HaltActive(c)
  PROVE  RowInv'
<1>0. /\ IInv /\ RowsTyped /\ RowInv /\ Project \subseteq Key /\ Legacy \notin Project
      /\ None \notin Project /\ None \notin Port
  BY ConstantsAssumption DEF SerialInv, ControlInv, Project
<1>1. ASSUME NEW k \in Key, NEW q \in Port \cup {None}, StopUntracked(k, q)
      PROVE  NothingNew /\ UNCHANGED call /\ proc'[k] = None
  <2>1. proc \in [Key -> Pid \cup {None}]
    BY <1>0 DEF IInv, TypeOK
  <2>. QED BY <1>0, <1>1, <2>1, HandlesOnlyGo DEF StopUntracked
<1>2. ASSUME NEW c \in Call, NEW k \in Project, RouteStop(c, k) PROVE RowInv'
  <2>1. row[k].port \in Port \cup {None} /\ k \notin edits /\ UNCHANGED edits
    BY <1>0, <1>2 DEF RouteStop, Undisturbed, RowsTyped
  <2>2. CASE StopUntracked(k, row[k].port) /\ SetStatus(k, "stopped")
    <3>1. /\ \A j \in Project : row'[j].port = row[j].port
          /\ \A j \in Project \ {k} : row'[j] = row[j]
      BY <1>0, <2>2 DEF SetStatus, WithStatus, RowsTyped
    <3>2. \A c2 \in Call : call[c2].key # k
      BY <2>2 DEF StopUntracked, Quiet
    <3>. QED BY <1>0, <1>1, <2>1, <2>2, <3>1, <3>2, RowFrame
  <2>3. CASE StopCall(c, k, row[k].port) /\ UNCHANGED row
    BY <1>0, <2>1, <2>3, StopBegins
  <2>. QED BY <1>2, <2>2, <2>3 DEF RouteStop
<1>3. ASSUME NEW c \in Call, NEW k \in Project, RouteDelete(c, k) PROVE RowInv'
  <2>1. row[k].port \in Port \cup {None} /\ k \notin edits /\ Quiet(k) /\ UNCHANGED edits
    BY <1>0, <1>3 DEF RouteDelete, Undisturbed, RowsTyped
  <2>2. CASE IsRunning(k)
    BY <1>0, <1>3, <2>1, <2>2, StopBegins DEF RouteDelete
  <2>3. CASE ~IsRunning(k)
    <3>1. UNCHANGED vars /\ row' = [row EXCEPT ![k] = DeletedRow]
      BY <1>3, <2>3 DEF RouteDelete
    <3>2. NothingNew
      BY <1>0, <3>1, HandlesOnlyGo
    <3>3. proc[k] = None /\ \A c2 \in Call : call[c2].key # k
      BY <1>0, <2>1, <2>3, PortsKnown DEF Quiet
    <3>. QED
      BY <1>0, <2>1, <3>1, <3>2, <3>3, RowFrame DEF vars, RowsTyped
  <2>. QED BY <2>2, <2>3
<1>4. ASSUME NEW c \in Call, HaltActive(c) PROVE RowInv'
  <2>1. PICK t \in ActiveTargets :
          /\ t[1] # Legacy => Undisturbed(t[1])
          /\ StopUntracked(t[1], t[2]) \/ StopCall(c, t[1], t[2])
    BY <1>4 DEF HaltActive
  <2>2. t[1] \in Key /\ t[2] \in Port \cup {None} /\ UNCHANGED <<row, edits>>
    BY <1>0, <1>4, ActiveTargetsTyped DEF HaltActive, IInv
  <2>3. t[1] \notin edits
    BY <1>0, <2>1, <2>2 DEF Undisturbed, RowsTyped
  <2>4. CASE StopUntracked(t[1], t[2])
    BY <1>0, <1>1, <2>2, <2>4, RowFrame
  <2>5. CASE StopCall(c, t[1], t[2])
    <3>1. IsRunning(t[1])
      BY <2>5 DEF StopCall
    <3>2. ASSUME t[1] \in Project PROVE t[2] = row[t[1]].port
      <4>1. t[2] = config[t[1]]
        BY <1>0, <3>1, <3>2 DEF ActiveTargets
      <4>. QED BY <1>0, <3>1, <3>2, <4>1 DEF IsRunning, RowInv, HandlesMatch
    <3>. QED BY <2>2, <2>3, <2>5, <3>2, StopBegins
  <2>. QED BY <2>1, <2>4, <2>5
<1>. QED BY <1>2, <1>3, <1>4

\* the "exit" event, which settles the one request of its project,
LEMMA ExitStep ==
  ASSUME Serial, SerialInv, NEW p \in Pid, ChildGone(p)
  PROVE  RowInv'
<1>. DEFINE k == node[p].key
            settled == {c \in Call : call[c] # Idle /\ call'[c] = Idle}
<1>0. /\ IInv /\ RowsTyped /\ RowInv /\ Project \subseteq Key /\ None \notin Project
  BY ConstantsAssumption DEF SerialInv, ControlInv, Project
<1>1. /\ ExitEvent(p) /\ UNCHANGED edits
      /\ \A j \in Project : row'[j] = AfterRoutes(j, {route[c] : c \in {c \in settled : call[c].key = j}})
  BY DEF ChildGone
<1>2. NothingNew
  BY <1>0, <1>1, HandlesOnlyGo
<1>3. k \in Key /\ proc \in [Key -> Pid \cup {None}]
  BY <1>0, <1>1 DEF ExitEvent, IInv, TypeOK, Born
<1>4. proc'[k] = None
  BY <1>1, <1>3 DEF ExitEvent, AfterExit
<1>5. \A c \in Call : call'[c] = Idle \/ call'[c] = call[c]
  BY <1>1 DEF ExitEvent
<1>6. \A c \in settled : call[c].key = k
  BY <1>0, <1>1 DEF ExitEvent, IInv, CallShape
<1>7. ASSUME NEW j \in Project, j # k
      PROVE  row'[j] = row[j]
  <2>1. {route[c] : c \in {c \in settled : call[c].key = j}} = {}
    BY <1>6, <1>7
  <2>2. AfterRoutes(j, {}) = row[j]
    BY DEF AfterRoutes
  <2>. QED BY <1>1, <2>1, <2>2
<1>8. ASSUME k \in Project, row'[k] # row[k]
      PROVE  \A c \in Call : call'[c].key # k
  <2>1. PICK d \in settled : call[d].key = k
    <3>1. ASSUME {c \in settled : call[c].key = k} = {} PROVE FALSE
      <4>1. {route[c] : c \in {c \in settled : call[c].key = k}} = {}
        BY <3>1
      <4>2. AfterRoutes(k, {}) = row[k]
        BY DEF AfterRoutes
      <4>. QED BY <1>1, <1>8, <4>1, <4>2
    <3>. QED BY <3>1
  <2>2. ASSUME NEW c \in Call, call'[c].key = k PROVE FALSE
    <3>1. call'[c] # Idle
      BY <1>0, <1>8, <2>2 DEF Idle
    <3>2. call[c].key = k /\ c # d
      BY <1>5, <2>1, <2>2, <3>1
    <3>. QED BY <1>0, <1>8, <2>1, <3>2 DEF SerialInv, SInv, OneCallPerKey
  <2>. QED BY <2>2
<1>. QED
  <2>1. \A j \in Project : proc'[j] # None => row'[j] = row[j]
    BY <1>4, <1>7
  <2>2. \A c \in Call : call'[c].key \in Project =>
          call'[c] = call[c] /\ row'[call[c].key] = row[call[c].key]
    BY <1>0, <1>5, <1>7, <1>8 DEF Idle
  <2>. QED BY <1>0, <1>1, <1>2, <2>1, <2>2, RowFrame

\* and those of the nodes themselves and of the server.
LEMMA NodeSteps ==
  ASSUME Serial, SerialInv,
         (\E p \in Pid : KillListed(p)) \/ NodeStep \/ Reload \/ UNCHANGED controlVars
  PROVE  RowInv'
<1>0. IInv /\ RowsTyped /\ RowInv /\ Project \subseteq Key /\ None \notin Project
  BY ConstantsAssumption DEF SerialInv, ControlInv, Project
<1>1. NothingNew
  BY <1>0, HandlesOnlyGo DEF KillListed, NodeStep, Reload, controlVars, vars
<1>2. /\ UNCHANGED row /\ edits' \subseteq edits
      /\ \A c \in Call : call'[c] = call[c] \/ call'[c] = Idle
  BY <1>0
  DEF KillListed, KillPid, NodeStep, Bind, Die, KillTimer, StopKill, Reload, Restart, controlVars
<1>. QED BY <1>0, <1>1, <1>2, RowFrame DEF Idle

LEMMA SerialInvAlways ==
  ASSUME Serial
  PROVE  ControlSpec => []SerialInv
<1>1. ControlInit => SerialInv
  <2>1. ControlInit => ControlInv
    BY IInvInit DEF ControlInit, ControlInv, RowsTyped, PortsUnique, NoRow, Status, Route
  <2>2. Init => SInv
    BY DEF Init, SInv, OneCallPerKey, CallsAlone, Idle
  <2>3. ControlInit => RowInv
    BY ConstantsAssumption DEF ControlInit, Init, RowInv, HandlesMatch, CallsMatch, EditsAlone, Idle, Project
  <2>. QED BY <2>1, <2>2, <2>3 DEF ControlInit, SerialInv
<1>2. SerialInv /\ [ControlNext]_controlVars => SerialInv'
  <2>. SUFFICES ASSUME SerialInv, [ControlNext]_controlVars PROVE SerialInv'
    OBVIOUS
  <2>1. ControlInv'
    BY StepIsLifecycleStep, IInvNext, RowsTypedNext, PortsUniqueNext DEF SerialInv, ControlInv, IInv
  <2>2. SInv'
    BY StepIsLifecycleStep, SInvNext DEF SerialInv, ControlInv, IInv
  <2>3. RowInv'
    <3>1. CASE ControlNext
      BY <3>1, StoreSteps, StartSteps, StopSteps, ExitStep, NodeSteps DEF ControlNext
    <3>2. CASE UNCHANGED controlVars
      BY <3>2, NodeSteps
    <3>. QED BY <3>1, <3>2
  <2>. QED BY <2>1, <2>2, <2>3 DEF SerialInv
<1>. QED BY <1>1, <1>2, PTL DEF ControlSpec

\* If a project is used by one request at a time, its row agrees with the node the server holds for
\* it, whatever reloads, crashes, kills by pid and late exits come between: the node is on the port
\* the row shows, a project without a row holds none, and neither does one shown as stopped.
THEOREM RowsAndNodesAgree ==
  ASSUME Serial
  PROVE  ControlSpec => []RowsMatchNodes
<1>1. SerialInv => RowsMatchNodes
  <2>. SUFFICES ASSUME SerialInv PROVE RowsMatchNodes
    OBVIOUS
  <2>0. IInv /\ RowInv /\ Project \subseteq Key /\ None \notin Port
    BY ConstantsAssumption DEF SerialInv, ControlInv, SInv, Project
  <2>1. RowPortMatchesNode
    BY <2>0 DEF RowPortMatchesNode, RowInv, HandlesMatch
  <2>2. ASSUME NEW p \in Pid, node[p].key \in Project, Held(p)
        PROVE  Stored(node[p].key)
    <3>. DEFINE k == node[p].key
    <3>1. ASSUME proc[k] = p PROVE Stored(k)
      <4>1. proc[k] # None
        BY <3>1, ConstantsAssumption
      <4>. QED BY <2>0, <2>2, <4>1, NoRowNoNode
    <3>2. ASSUME NEW c \in Call, call[c].step = "wait", call[c].pid = p PROVE Stored(k)
      <4>1. call[c].key = k
        BY <2>0, <3>2 DEF IInv, CallShape
      <4>. QED BY <2>0, <2>2, <4>1, NoRowNoNode
    <3>. QED BY <2>2, <3>1, <3>2 DEF Held
  <2>3. NoNodeWithoutRow
    BY <2>2 DEF NoNodeWithoutRow
  <2>4. StoppedHoldsNoNode
    BY <2>0 DEF StoppedHoldsNoNode, RowInv, HandlesMatch
  <2>. QED BY <2>1, <2>3, <2>4 DEF RowsMatchNodes
<1>. QED BY <1>1, SerialInvAlways, PTL

\* Under the same discipline a stop that sweeps its port kills no node the server holds for another
\* project.
THEOREM StopsSpareOthers ==
  ASSUME Serial
  PROVE  ControlSpec => StopSparesOthers
<1>1. ASSUME SerialInv, NEW k \in Project, StopSweeps(k), NEW p \in Pid, Alive(p), ~Alive(p)'
      PROVE  node[p].key \in {k, Legacy, None} \/ ~Held(p)
  <2>0. /\ IInv /\ RowsTyped /\ RowInv /\ PortsUnique /\ Project \subseteq Key
        /\ None \notin Key /\ None \notin Port /\ None \notin Pid
    BY <1>1, ConstantsAssumption DEF SerialInv, ControlInv, Project
  <2>1. Stored(k) /\ p \in Orphans(row[k].port)
    <3>1. CASE \E c \in Call : RouteStop(c, k)
      <4>1. PICK c \in Call : RouteStop(c, k)
        BY <3>1
      <4>2. Stored(k) /\ (StopUntracked(k, row[k].port) \/ StopCall(c, k, row[k].port))
        BY <4>1 DEF RouteStop
      <4>3. ~StopCall(c, k, row[k].port)
        BY <1>1 DEF StopCall, Alive
      <4>. QED BY <1>1, <4>2, <4>3 DEF StopUntracked, StopPort, Stored, Felled, Alive
    <3>2. CASE \E o \in Pid : node[o].key = k /\ ChildGone(o)
      <4>1. PICK o \in Pid : node[o].key = k /\ ExitEvent(o)
        BY <3>2 DEF ChildGone
      <4>2. PICK c \in Call : call[c].step = "wait" /\ call[c].pid = o /\ p \in Orphans(call[c].port)
        BY <1>1, <4>1 DEF ExitEvent, Felled, Alive
      <4>3. call[c].key = k /\ call[c].port = row[k].port /\ call[c].port \in Port
        BY <2>0, <4>1, <4>2 DEF IInv, CallShape, RowInv, CallsMatch
      <4>. QED BY <2>0, <4>2, <4>3 DEF Stored
    <3>. QED BY <1>1, <3>1, <3>2 DEF StopSweeps
  <2>2. node[p].port = row[k].port
    BY <2>1 DEF Orphans, ListensOn
  <2>3. ASSUME node[p].key \in Project, node[p].key # k, Held(p) PROVE FALSE
    <3>. DEFINE j == node[p].key
    <3>1. ASSUME proc[j] = p PROVE row[j].port = node[p].port
      BY <2>0, <2>3, <3>1, PortsKnown DEF RowInv, HandlesMatch
    <3>2. ASSUME NEW c \in Call, call[c].step = "wait", call[c].pid = p PROVE row[j].port = node[p].port
      BY <2>0, <2>3, <3>2 DEF RowInv, CallsMatch, IInv, CallShape
    <3>3. row[j].port = row[k].port
      BY <2>2, <2>3, <3>1, <3>2 DEF Held
    <3>. QED BY <2>0, <2>1, <2>3, <3>3 DEF PortsUnique, Stored
  <2>4. node[p].key \in Key \cup {None}
    BY <2>0 DEF IInv, TypeOK, NodeRecord
  <2>. QED BY <2>3, <2>4 DEF Project
<1>2. SerialInv /\ [ControlNext]_controlVars =>
        [\A k \in Project : StopSweeps(k) =>
           \A p \in Pid : Alive(p) /\ ~Alive(p)' =>
               node[p].key \in {k, Legacy, None} \/ ~Held(p)]_controlVars
  BY <1>1
<1>. QED BY <1>2, SerialInvAlways, PTL DEF ControlSpec, StopSparesOthers

=============================================================================
