---------------------------- MODULE AnvilProcess ----------------------------
(***************************************************************************)
(* The life cycle of the Anvil nodes the control API owns:                 *)
(* lib/anvilProcess.ts.                                                    *)
(*                                                                         *)
(* The server is one Node.js process, so a call runs undisturbed up to its *)
(* next await and every other call, timer and child-process event may run  *)
(* there.  An action below is one such uninterrupted stretch.  The nodes   *)
(* are operating-system processes: they boot, bind their port, crash and   *)
(* obey signals on their own, and their "exit" events reach the server     *)
(* some time after they are gone.                                          *)
(*                                                                         *)
(* A configuration is abstracted to its port; logs, messages and           *)
(* timestamps are left out.                                                *)
(***************************************************************************)
EXTENDS FiniteSets

CONSTANTS
    Key,        \* keys of `instances`: the project ids and LEGACY_KEY
    Port,       \* TCP ports a configuration can name
    Squatted,   \* ports on which a server other than anvil answers
    Pid,        \* processes the operating system can create in a behaviour
    Call,       \* slots for startAnvil and stopAnvil calls in flight
    None,       \* null
    Serial      \* TRUE when callers use a key one call at a time

ASSUME ConstantsAssumption ==
    /\ Squatted \subseteq Port
    /\ None \notin Key \cup Port \cup Pid
    /\ Serial \in BOOLEAN

VARIABLES
    proc,       \* proc[k]: the ChildProcess handle of instance k, or None
    config,     \* config[k]: the port of the running configuration, or None
    node,       \* node[p]: the operating system's view of process p
    exited,     \* children that are gone, with the "exit" event still queued
    killed,     \* children whose ChildProcess.killed flag is set
    doomed,     \* processes killAnvilProcess has a SIGKILL timer for
    call        \* call[c]: where the call in slot c is suspended

vars == <<proc, config, node, exited, killed, doomed, call>>

Phase == {"unborn", "booting", "listening", "dead"}

\* `key` is the instance whose startAnvil spawned the process, None for a
\* process this server has no handle to (it was started by a terminal or by an
\* earlier run of the server).  `home` is history: the instance it was spawned
\* for, by this run of the server or an earlier one.
NodeRecord == [phase : Phase, port : Port \cup {None},
               key : Key \cup {None}, home : Key \cup {None}]

\* The suspension points: "probe" and "spawn" are the awaits of startAnvil
\* before the child exists, "poll" its readiness poll, "wait" the await for
\* the "exit" event in stopAnvil.
Step == {"idle", "probe", "spawn", "poll", "wait"}

CallRecord == [step : Step, key : Key \cup {None},
               port : Port \cup {None}, pid : Pid \cup {None}]

Idle == [step |-> "idle", key |-> None, port |-> None, pid |-> None]

TypeOK ==
    /\ proc \in [Key -> Pid \cup {None}]
    /\ config \in [Key -> Port \cup {None}]
    /\ node \in [Pid -> NodeRecord]
    /\ exited \subseteq Pid
    /\ killed \subseteq Pid
    /\ doomed \subseteq Pid
    /\ call \in [Call -> CallRecord]

-----------------------------------------------------------------------------
(* The operating system.                                                   *)

Alive(p) == node[p].phase \in {"booting", "listening"}

ListensOn(p, q) == node[p].phase = "listening" /\ node[p].port = q

\* isPortInUse(q): something answers an HTTP request on the port.
InUse(q) == q \in Squatted \/ \E p \in Pid : ListensOn(p, q)

\* A child of this server whose "exit" handlers have not run yet.
Present(p) == node[p].key # None /\ (Alive(p) \/ p \in exited)

\* The children the server will get an "exit" event for, out of the set S of
\* processes that are going away.
Reported(S) == {p \in S : node[p].key # None}

\* The process table once the processes in S are gone.
Felled(S) == [p \in Pid |-> IF p \in S THEN [node[p] EXCEPT !.phase = "dead"]
                                       ELSE node[p]]

OrphansUnmanagedOnly(q) ==
    {p \in Pid : q # None /\ ListensOn(p, q) /\ node[p].key = None}

\* The processes killOrphanAnvil(q) sends SIGKILL to.  A port has at most one
\* listener, so the first match is the only one.
Orphans(q) == {p \in Pid : q # None /\ ListensOn(p, q)}

\* Processes of an earlier session may be listening when the server starts.
Init ==
    /\ proc = [k \in Key |-> None]
    /\ config = [k \in Key |-> None]
    /\ \E held \in [Pid -> Port \cup {None}] :
         /\ \A p, o \in Pid : held[p] # None /\ held[p] = held[o] => p = o
         /\ \A p \in Pid : held[p] \notin Squatted
         /\ node = [p \in Pid |->
              [phase |-> IF held[p] = None THEN "unborn" ELSE "listening",
               port |-> held[p], key |-> None, home |-> None]]
    /\ exited = {}
    /\ killed = {}
    /\ doomed = {}
    /\ call = [c \in Call |-> Idle]

\* Anvil binds its port once it has booted, and exits if it cannot.
Bind(p) ==
    /\ node[p].phase = "booting"
    /\ IF InUse(node[p].port)
       THEN /\ node' = Felled({p})
            /\ exited' = exited \cup Reported({p})
       ELSE /\ node' = [node EXCEPT ![p].phase = "listening"]
            /\ UNCHANGED exited
    /\ UNCHANGED <<proc, config, killed, doomed, call>>

\* A node crashes, is killed from a terminal, or obeys a SIGTERM.
Die(p) ==
    /\ Alive(p)
    /\ node' = Felled({p})
    /\ exited' = exited \cup Reported({p})
    /\ UNCHANGED <<proc, config, killed, doomed, call>>

-----------------------------------------------------------------------------
(* startAnvil.                                                             *)

\* What a caller that makes one call at a time on a key waits for: no call on
\* the key is suspended.  A process of the key may still be on its way out,
\* since killAnvilProcess does not wait for it.
Quiet(k) == \A c \in Call : call[c].key # k

\* isAnvilRunning(k), and the test at the top of startAnvil.
IsRunning(k) == proc[k] # None /\ proc[k] \notin killed

MayStartUnguarded(k) == TRUE

\* The guard of startAnvil.
MayStart(k) == ~IsRunning(k)

\* The call passes the "already running" test and awaits the port probe.  A
\* call that fails the test throws and changes nothing.
StartCall(c, k, q) ==
    /\ call[c] = Idle
    /\ Serial => Quiet(k)
    /\ MayStart(k)
    /\ call' = [call EXCEPT ![c] = [step |-> "probe", key |-> k, port |-> q, pid |-> None]]
    /\ UNCHANGED <<proc, config, node, exited, killed, doomed>>

\* The probe has answered: a busy port rejects the call.  Otherwise the call
\* goes on to the fork-block lookup, whose answer is awaited too.
StartProbed(c) ==
    /\ call[c].step = "probe"
    /\ call' = [call EXCEPT ![c] = IF InUse(call[c].port) THEN Idle
                                   ELSE [call[c] EXCEPT !.step = "spawn"]]
    /\ UNCHANGED <<proc, config, node, exited, killed, doomed>>

\* fetchLatestBlock fails and the call rejects before a child exists.
StartLookupFails(c) ==
    /\ call[c].step = "spawn"
    /\ call' = [call EXCEPT ![c] = Idle]
    /\ UNCHANGED <<proc, config, node, exited, killed, doomed>>

\* The child is spawned and the instance points at it, whatever it held.
StartSpawn(c, p) ==
    /\ call[c].step = "spawn"
    /\ node[p].phase = "unborn"
    /\ LET k == call[c].key IN
         /\ node' = [node EXCEPT ![p] = [phase |-> "booting", port |-> call[c].port,
                                         key |-> k, home |-> k]]
         /\ proc' = [proc EXCEPT ![k] = p]
         /\ config' = [config EXCEPT ![k] = call[c].port]
         /\ call' = [call EXCEPT ![c] = [step |-> "poll", key |-> k,
                                         port |-> call[c].port, pid |-> p]]
    /\ UNCHANGED <<exited, killed, doomed>>

\* The binary is missing: the "error" event runs before anything else can and
\* clears the instance, and the call rejects.
StartSpawnError(c) ==
    /\ call[c].step = "spawn"
    /\ proc' = [proc EXCEPT ![call[c].key] = None]
    /\ config' = [config EXCEPT ![call[c].key] = None]
    /\ call' = [call EXCEPT ![c] = Idle]
    /\ UNCHANGED <<node, exited, killed, doomed>>

\* A readiness poll gets an answer on the port and the call resolves.
StartReady(c) ==
    /\ call[c].step = "poll"
    /\ InUse(call[c].port)
    /\ call' = [call EXCEPT ![c] = Idle]
    /\ UNCHANGED <<proc, config, node, exited, killed, doomed>>

StartDeadlineMissing(c) == FALSE

\* The poll is still unanswered at the deadline: the call rejects and leaves
\* the child, and the instance that holds it, as they are.
StartDeadline(c) ==
    /\ call[c].step = "poll"
    /\ ~InUse(call[c].port)
    /\ call' = [call EXCEPT ![c] = Idle]
    /\ UNCHANGED <<proc, config, node, exited, killed, doomed>>

-----------------------------------------------------------------------------
(* stopAnvil, killAnvilProcess and the "exit" event.                       *)

StopPort(k, q) == IF q # None THEN q ELSE config[k]

\* The instance is cleared at once.  With no handle (or one already
\* signalled) only the orphan sweep of the port is left to do.
StopUntracked(k, q) ==
    /\ Serial => Quiet(k)
    /\ ~IsRunning(k)
    /\ LET swept == Orphans(StopPort(k, q)) IN
         /\ node' = Felled(swept)
         /\ exited' = exited \cup Reported(swept)
    /\ proc' = [proc EXCEPT ![k] = None]
    /\ config' = [config EXCEPT ![k] = None]
    /\ UNCHANGED <<killed, doomed, call>>

\* With a live handle the child gets a SIGTERM, the call arms its SIGKILL
\* timer and awaits the "exit" event.
StopCall(c, k, q) ==
    /\ call[c] = Idle
    /\ Serial => Quiet(k)
    /\ IsRunning(k)
    /\ call' = [call EXCEPT ![c] = [step |-> "wait", key |-> k,
                                    port |-> StopPort(k, q), pid |-> proc[k]]]
    /\ killed' = IF Alive(proc[k]) THEN killed \cup {proc[k]} ELSE killed
    /\ proc' = [proc EXCEPT ![k] = None]
    /\ config' = [config EXCEPT ![k] = None]
    /\ UNCHANGED <<node, exited, doomed>>

\* The SIGKILL timer of a stop fires.
StopKill(c) ==
    /\ call[c].step = "wait"
    /\ Alive(call[c].pid)
    /\ node' = Felled({call[c].pid})
    /\ exited' = exited \cup Reported({call[c].pid})
    /\ UNCHANGED <<proc, config, killed, doomed, call>>

\* killAnvilProcess(p): every instance that holds p is cleared, p gets a
\* SIGTERM now and, if it is still there when the timer fires, a SIGKILL.
KillPid(p) ==
    /\ Alive(p)
    /\ Serial => \A c \in Call : call[c].key # None => call[c].key # node[p].key
    /\ proc' = [k \in Key |-> IF proc[k] = p THEN None ELSE proc[k]]
    /\ config' = [k \in Key |-> IF proc[k] = p THEN None ELSE config[k]]
    /\ doomed' = doomed \cup {p}
    /\ UNCHANGED <<node, exited, killed, call>>

KillTimerMissing(p) == FALSE

KillTimer(p) ==
    /\ p \in doomed
    /\ Alive(p)
    /\ node' = Felled({p})
    /\ exited' = exited \cup Reported({p})
    /\ UNCHANGED <<proc, config, killed, doomed, call>>

AfterExitKeeps(field, k) == field

\* The "exit" handler's assignment to a field of the instance k.
AfterExit(field, k) == [field EXCEPT ![k] = None]

\* The "exit" event of p.  The handler startAnvil registered clears the
\* instance of p's key, whichever child the instance holds by now, and rejects
\* the call still polling for p.  A stop that waits for p resumes in the same
\* turn of the event loop: it sweeps its port and resolves.
ExitEvent(p) ==
    /\ p \in exited
    /\ LET k      == node[p].key
           stops  == {c \in Call : call[c].step = "wait" /\ call[c].pid = p}
           starts == {c \in Call : call[c].step = "poll" /\ call[c].pid = p}
           swept  == UNION {Orphans(call[c].port) : c \in stops}
       IN /\ proc' = AfterExit(proc, k)
          /\ config' = AfterExit(config, k)
          /\ call' = [c \in Call |-> IF c \in stops \cup starts THEN Idle ELSE call[c]]
          /\ node' = Felled(swept)
          /\ exited' = (exited \ {p}) \cup Reported(swept)
    /\ UNCHANGED <<killed, doomed>>

\* The server process is reloaded or crashes.  Its memory and its suspended
\* calls and timers are gone, its children live on without a handle.
Restart ==
    /\ proc' = [k \in Key |-> None]
    /\ config' = [k \in Key |-> None]
    /\ node' = [p \in Pid |-> [node[p] EXCEPT !.key = None]]
    /\ exited' = {}
    /\ killed' = {}
    /\ doomed' = {}
    /\ call' = [c \in Call |-> Idle]

-----------------------------------------------------------------------------
Next ==
    \/ \E p \in Pid : Bind(p)
    \/ \E p \in Pid : Die(p)
    \/ \E c \in Call, k \in Key, q \in Port : StartCall(c, k, q)
    \/ \E c \in Call : StartProbed(c)
    \/ \E c \in Call : StartLookupFails(c)
    \/ \E c \in Call, p \in Pid : StartSpawn(c, p)
    \/ \E c \in Call : StartSpawnError(c)
    \/ \E c \in Call : StartReady(c)
    \/ \E c \in Call : StartDeadline(c)
    \/ \E k \in Key, q \in Port \cup {None} : StopUntracked(k, q)
    \/ \E c \in Call, k \in Key, q \in Port \cup {None} : StopCall(c, k, q)
    \/ \E c \in Call : StopKill(c)
    \/ \E p \in Pid : KillPid(p)
    \/ \E p \in Pid : KillTimer(p)
    \/ \E p \in Pid : ExitEvent(p)
    \/ Restart

Spec == Init /\ [][Next]_vars

\* Timers fire, awaited answers and events arrive.  A node owes nothing: it may
\* hang in its boot and ignore SIGTERM.  Users and crashes owe nothing either.
Fairness ==
    /\ \A c \in Call :
         /\ WF_vars(StartProbed(c))
         /\ WF_vars(StartLookupFails(c) \/ StartSpawnError(c) \/ \E p \in Pid : StartSpawn(c, p))
         /\ WF_vars(StartReady(c) \/ StartDeadline(c))
         /\ WF_vars(StopKill(c))
    /\ \A p \in Pid : WF_vars(KillTimer(p)) /\ WF_vars(ExitEvent(p))

FairSpec == Spec /\ Fairness

-----------------------------------------------------------------------------
(* Properties.                                                             *)

\* An instance's handle is a child spawned for that instance, on the port its
\* configuration names, that no stop has signalled and whose "exit" event is
\* still to come.  So an instance never serves a child that is known to be
\* gone, no two instances share one, and the `killed` tests never decide.
HandleIsOwn ==
    \A k \in Key :
        IF proc[k] = None
        THEN config[k] = None
        ELSE /\ node[proc[k]].key = k
             /\ node[proc[k]].port = config[k]
             /\ Present(proc[k])
             /\ proc[k] \notin killed

\* A stop waits for an event that is still to come, and no two stops wait for
\* the same child: stopAnvil registers its "exit" listener in time.
StopHearsExit ==
    \A c \in Call : call[c].step = "wait" =>
        /\ Present(call[c].pid)
        /\ \A d \in Call : call[d].step = "wait" /\ call[d].pid = call[c].pid => d = c

\* A child some instance holds or some stop waits for.
Held(p) == proc[node[p].key] = p \/ \E c \in Call : call[c].step = "wait" /\ call[c].pid = p

\* A child that was told to go: some stop or some kill timer sees to it.
Leaving(p) == p \in doomed \/ \E c \in Call : call[c].step = "wait" /\ call[c].pid = p

\* In this step the exit event of an older child of p's instance is delivered,
\* one the server had let go of before: it was killed by pid, or had itself
\* been lost in this way.
LateExit(p) ==
    \E o \in exited \ {p} : o \notin exited' /\ node[o].key = node[p].key /\ ~Held(o)

\* With one call at a time on an instance, a node that the server holds runs
\* on out of reach of Stop, holding its port and its state file, only by a
\* late exit: kill by pid, start, and then the old child's "exit" handler
\* clears the handle of the new one.  No start, stop, timeout or spawn error
\* loses one.
NodesAreKept ==
    [][\A p \in Pid : Present(p) /\ Held(p) /\ Present(p)' =>
          Held(p)' \/ p \in doomed' \/ LateExit(p)]_vars

\* "Anvil is already running for this project": an instance has at most one
\* child that has not been told to go.
OneNodePerKey ==
    \A p, o \in Pid :
        /\ Present(p) /\ Present(o) /\ node[p].key = node[o].key
        /\ ~Leaving(p) /\ ~Leaving(o)
        => p = o

\* In this step a stop that waited for its child resolves (a restart of the
\* server, which forgets the child, resolves nothing).
StopResolves(c) ==
    call[c].step = "wait" /\ call'[c] = Idle /\ node'[call[c].pid].key # None

PortFreed(c) ==
    /\ node'[call[c].pid].phase = "dead"
    /\ \A p \in Pid : node'[p].phase = "listening" => node'[p].port # call[c].port

\* When a stop that waited for its child resolves, the child is gone and no
\* anvil at all, of whatever origin, listens on the port that was freed.
StopFreesPort == [][\A c \in Call : StopResolves(c) => PortFreed(c)]_vars

\* startAnvil always settles: the port answers, the child exits, or the
\* deadline passes.
StartSettles ==
    \A c \in Call : call[c].step \in {"probe", "spawn", "poll"} ~> call[c] = Idle

\* stopAnvil always returns, even if the node ignores SIGTERM.
StopReturns == \A c \in Call : call[c].step = "wait" ~> call[c] = Idle

\* A process killAnvilProcess accepted is gone in the end, unless the server
\* and its timers go first.
KillTakesEffect == \A p \in Pid : p \in doomed ~> (~Alive(p) \/ p \notin doomed)

=============================================================================
