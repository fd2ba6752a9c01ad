--------------------------- MODULE ProjectControl ---------------------------
(***************************************************************************)
(* The routes that drive the node life cycle: /api/projects, the legacy    *)
(* /api/anvil/{start,stop}, and DELETE /api/anvil/processes, over the      *)
(* `projects` table of lib/projectStore.ts.                                *)
(*                                                                         *)
(* A route that awaits startAnvil or stopAnvil writes the project row in   *)
(* the same turn of the event loop in which the awaited call settles, so a *)
(* step below is a step of AnvilProcess together with that write.          *)
(* A row is abstracted to its port and its status.                         *)
(***************************************************************************)
EXTENDS AnvilProcess

CONSTANTS
    Legacy,      \* LEGACY_KEY, the instance that belongs to no project
    LegacyPort,  \* ports on which users start the legacy instance
    Reloads      \* TRUE when the server may be reloaded

Project == Key \ {Legacy}

ASSUME ControlAssumption ==
    /\ Legacy \in Key
    /\ LegacyPort \subseteq Port
    /\ Reloads \in BOOLEAN

VARIABLES
    row,    \* row[k]: the row of project k in the database
    route,  \* route[c]: the route that awaits the call in slot c
    edits   \* projects with a PATCH that awaits its request body

controlVars == <<proc, config, node, exited, killed, doomed, call, row, route, edits>>

Status == {"absent", "stopped", "starting", "running", "error", "deleted"}

\* A project that has no row: one not created yet, or one that was deleted.
\* Ids are generated, so a deleted project is not created again.
NoRow(s) == [port |-> None, status |-> s]

\* createProject writes this row when the port is free; deleteProject leaves none, and
\* takes the project's indexed rows, state files and log along.
NewRow(q)  == [port |-> q, status |-> "stopped"]
DeletedRow == NoRow("deleted")

Stored(k) == k \in Project /\ row[k].port # None

\* "start" is the start route of a project or of the legacy instance, "stop" and
\* "delete" are routes of a project, "halt" is /api/anvil/stop and the stop in
\* /api/anvil/reset, which leave the row alone.
Route == {"none", "start", "stop", "delete", "halt"}

ControlTypeOK ==
    /\ TypeOK
    /\ row \in [Project -> [port : Port \cup {None}, status : Status]]
    /\ route \in [Call -> Route]
    /\ edits \subseteq Project

ControlInit ==
    /\ Init
    /\ row = [k \in Project |-> NoRow("absent")]
    /\ route = [c \in Call |-> "none"]
    /\ edits = {}

-----------------------------------------------------------------------------
(* The project store.                                                      *)

PortTakenNever(q) == FALSE

\* isPortTaken(q)
PortTaken(q) == \E k \in Project : row[k].port = q

\* updateProjectStatus on a row; a missing row is not written.
WithStatus(r, s) == IF r.port = None THEN r ELSE [r EXCEPT !.status = s]

SetStatus(k, s) == row' = [row EXCEPT ![k] = WithStatus(@, s)]

\* Caller discipline: with Serial, no request on k is under way.
Undisturbed(k) == Serial => Quiet(k) /\ k \notin edits

\* POST /api/projects, with a port of the caller's or the next free one.
CreateProject(k, q) ==
    /\ row[k] = NoRow("absent")
    /\ ~PortTaken(q)
    /\ row' = [row EXCEPT ![k] = NewRow(q)]
    /\ UNCHANGED <<vars, route, edits>>

EditMayBeginUnguarded(k) == TRUE

\* The 409 of PATCH: a running project is not edited.
EditMayBegin(k) == ~IsRunning(k)

PatchBegin(k) ==
    /\ Stored(k)
    /\ Undisturbed(k)
    /\ k \notin edits
    /\ EditMayBegin(k)
    /\ edits' = edits \cup {k}
    /\ UNCHANGED <<vars, row, route>>

\* The body has arrived and updateProject reads the row again.  A port that
\* another row has, or a row that is gone, is an error and changes nothing.
PatchFinish(k, q) ==
    /\ k \in edits
    /\ row' = IF Stored(k) /\ (row[k].port = q \/ ~PortTaken(q))
              THEN [row EXCEPT ![k].port = q]
              ELSE row
    /\ edits' = edits \ {k}
    /\ UNCHANGED <<vars, route>>

ReconciledUpwards(k) ==
    IF Stored(k) /\ IsRunning(k) THEN WithStatus(row[k], "running") ELSE row[k]

\* The row of k after reconcileProjectStatuses.
Reconciled(k) ==
    CASE ~Stored(k)                                 -> row[k]
      [] IsRunning(k)                               -> WithStatus(row[k], "running")
      [] ~IsRunning(k) /\ row[k].status = "running" -> WithStatus(row[k], "stopped")
      [] OTHER                                      -> row[k]

\* GET /api/projects
ListProjects ==
    /\ row' = [k \in Project |-> Reconciled(k)]
    /\ UNCHANGED <<vars, route, edits>>

-----------------------------------------------------------------------------
(* The routes that await the life cycle.                                   *)

\* POST /api/projects/{id}/start.  startAnvil refuses a running instance, and
\* the route's catch turns any rejection into status "error".
RouteStart(c, k) ==
    /\ Stored(k)
    /\ Undisturbed(k)
    /\ StartCall(c, k, row[k].port)
    /\ SetStatus(k, "starting")
    /\ route' = [route EXCEPT ![c] = "start"]
    /\ UNCHANGED edits

RouteStartRefused(k) ==
    /\ Stored(k)
    /\ Undisturbed(k)
    /\ ~MayStart(k)
    /\ SetStatus(k, "error")
    /\ UNCHANGED <<vars, route, edits>>

\* POST /api/anvil/start
LegacyStart(c, q) ==
    /\ StartCall(c, Legacy, q)
    /\ route' = [route EXCEPT ![c] = "start"]
    /\ UNCHANGED <<row, edits>>

\* POST /api/projects/{id}/stop, which runs stopAnvil whatever the row says.
RouteStop(c, k) ==
    /\ Stored(k)
    /\ Undisturbed(k)
    /\ \/ /\ StopUntracked(k, row[k].port)
          /\ SetStatus(k, "stopped")
          /\ UNCHANGED route
       \/ /\ StopCall(c, k, row[k].port)
          /\ route' = [route EXCEPT ![c] = "stop"]
          /\ UNCHANGED row
    /\ UNCHANGED edits

RouteDeleteAtOnce(c, k) ==
    /\ Stored(k)
    /\ Undisturbed(k)
    /\ row' = [row EXCEPT ![k] = DeletedRow]
    /\ UNCHANGED <<vars, route, edits>>

RouteDeleteDropsHandle(c, k) ==
    /\ Stored(k)
    /\ Undisturbed(k)
    /\ row' = [row EXCEPT ![k] = DeletedRow]
    /\ proc' = [proc EXCEPT ![k] = None]
    /\ config' = [config EXCEPT ![k] = None]
    /\ UNCHANGED <<node, exited, killed, doomed, call, route, edits>>

\* DELETE /api/projects/{id}.  Only a running node is stopped first.
RouteDelete(c, k) ==
    /\ Stored(k)
    /\ Undisturbed(k)
    /\ IF IsRunning(k)
       THEN /\ StopCall(c, k, row[k].port)
            /\ route' = [route EXCEPT ![c] = "delete"]
            /\ UNCHANGED row
       ELSE /\ row' = [row EXCEPT ![k] = DeletedRow]
            /\ UNCHANGED <<vars, route>>
    /\ UNCHANGED edits

\* What resolveActiveProject may answer.  A request that names a project gets
\* its instance, or its row if it has none.  One that names none gets a live
\* instance; else a node found listening (the listing may be 2 s old), which no
\* handle owns; else a row marked running; else the default port.
ActiveTargets ==
    LET live  == {<<k, config[k]>> : k \in {k \in Key : IsRunning(k)}}
        named == {<<k, row[k].port>> : k \in {k \in Project : Stored(k) /\ ~IsRunning(k)}}
        found == {<<Legacy, node[p].port>> : p \in {p \in Pid : node[p].port # None}}
    IN  live \cup named \cup (IF live # {} THEN {} ELSE ({Legacy} \X LegacyPort) \cup found)

\* POST /api/anvil/stop, and the stop in /api/anvil/reset.
HaltActive(c) ==
    \E t \in ActiveTargets :
        /\ t[1] # Legacy => Undisturbed(t[1])
        /\ \/ StopUntracked(t[1], t[2]) /\ UNCHANGED route
           \/ StopCall(c, t[1], t[2]) /\ route' = [route EXCEPT ![c] = "halt"]
        /\ UNCHANGED <<row, edits>>

\* DELETE /api/anvil/processes, for a process lsof lists, or for one that only
\* the sweep of its port finds, which is SIGKILL at once.
KillListed(p) ==
    /\ node[p].phase = "listening"
    /\ node[p].key \in Project => Undisturbed(node[p].key)
    /\ KillPid(p) \/ Die(p)
    /\ UNCHANGED <<row, route, edits>>

-----------------------------------------------------------------------------
(* The awaited calls settle.                                               *)

StartStepStopped(c, s) ==
    /\ IF call'[c] = Idle
       THEN /\ row' = [k \in Project |->
                        IF k = call[c].key
                        THEN WithStatus(row[k], IF s = "error" THEN "stopped" ELSE s)
                        ELSE row[k]]
            /\ route' = [route EXCEPT ![c] = "none"]
       ELSE UNCHANGED <<row, route>>
    /\ UNCHANGED edits

StartStepUncaught(c, s) ==
    /\ IF call'[c] = Idle
       THEN /\ row' = [k \in Project |-> IF k = call[c].key /\ s = "running"
                                        THEN WithStatus(row[k], s) ELSE row[k]]
            /\ route' = [route EXCEPT ![c] = "none"]
       ELSE UNCHANGED <<row, route>>
    /\ UNCHANGED edits

\* A step of the start in slot c, which ends with status s if it settles.
StartStep(c, s) ==
    /\ IF call'[c] = Idle
       THEN /\ row' = [k \in Project |-> IF k = call[c].key THEN WithStatus(row[k], s) ELSE row[k]]
            /\ route' = [route EXCEPT ![c] = "none"]
       ELSE UNCHANGED <<row, route>>
    /\ UNCHANGED edits

StartGoesOn(c) ==
    \/ StartProbed(c) /\ StartStep(c, "error")
    \/ StartLookupFails(c) /\ StartStep(c, "error")
    \/ (\E p \in Pid : StartSpawn(c, p)) /\ StartStep(c, "error")
    \/ StartSpawnError(c) /\ StartStep(c, "error")
    \/ StartReady(c) /\ StartStep(c, "running")
    \/ StartDeadline(c) /\ StartStep(c, "error")

\* The row of k once the calls of the routes in R have settled in one turn: the
\* rejection of a start is handled before the resolution of a stop.
AfterRoutes(k, R) ==
    CASE "delete" \in R -> DeletedRow
      [] "stop" \in R   -> WithStatus(row[k], "stopped")
      [] R = {"start"}  -> WithStatus(row[k], "error")
      [] R = {"start", "halt"} -> WithStatus(row[k], "error")
      [] OTHER          -> row[k]

ChildGone(p) ==
    /\ ExitEvent(p)
    /\ LET settled == {c \in Call : call[c] # Idle /\ call'[c] = Idle}
       IN /\ row' = [k \in Project |->
                        AfterRoutes(k, {route[c] : c \in {c \in settled : call[c].key = k}})]
          /\ route' = [c \in Call |-> IF c \in settled THEN "none" ELSE route[c]]
    /\ UNCHANGED edits

\* Steps that concern no route.
NodeStep ==
    /\ \/ \E p \in Pid : Bind(p) \/ Die(p) \/ KillTimer(p)
       \/ \E c \in Call : StopKill(c)
    /\ UNCHANGED <<row, route, edits>>

\* The database survives a reload; requests under way do not.
Reload ==
    /\ Reloads
    /\ Restart
    /\ route' = [c \in Call |-> "none"]
    /\ edits' = {}
    /\ UNCHANGED row

ControlNext ==
    \/ \E k \in Project, q \in Port : CreateProject(k, q)
    \/ \E k \in Project : PatchBegin(k)
    \/ \E k \in Project, q \in Port : PatchFinish(k, q)
    \/ ListProjects
    \/ \E c \in Call, k \in Project : RouteStart(c, k)
    \/ \E k \in Project : RouteStartRefused(k)
    \/ \E c \in Call, q \in LegacyPort : LegacyStart(c, q)
    \/ \E c \in Call, k \in Project : RouteStop(c, k)
    \/ \E c \in Call, k \in Project : RouteDelete(c, k)
    \/ \E c \in Call : HaltActive(c)
    \/ \E p \in Pid : KillListed(p)
    \/ \E c \in Call : StartGoesOn(c)
    \/ \E p \in Pid : ChildGone(p)
    \/ NodeStep
    \/ Reload

ControlSpec == ControlInit /\ [][ControlNext]_controlVars

\* The fairness of the life cycle, for the steps as the routes take them.
ControlFairness ==
    /\ \A c \in Call :
         /\ WF_controlVars(StartGoesOn(c))
         /\ WF_controlVars(StopKill(c) /\ UNCHANGED <<row, route, edits>>)
    /\ \A p \in Pid :
         /\ WF_controlVars(ChildGone(p))
         /\ WF_controlVars(KillTimer(p) /\ UNCHANGED <<row, route, edits>>)
    /\ WF_controlVars(ListProjects)

FairControlSpec == ControlSpec /\ ControlFairness

-----------------------------------------------------------------------------
(* Properties.                                                             *)

\* The routes drive the nodes only through the life cycle of AnvilProcess: every
\* step of this module is a step of it or leaves its state alone.
LifecycleSpec == Spec

\* No two projects are assigned one port, whatever edits and creations overlap.
PortsUnique ==
    \A j, k \in Project : row[j].port # None /\ row[j].port = row[k].port => j = k

\* The port a project's row shows is the port its node was started on ("edit
\* (while stopped)").
RowPortMatchesNode ==
    \A k \in Project : proc[k] # None /\ Stored(k) => row[k].port = config[k]

\* A node that the server holds for a project has the project's row.
NoNodeWithoutRow ==
    \A p \in Pid :
        Present(p) /\ node[p].key \in Project /\ Held(p) => Stored(node[p].key)

\* A project shown as stopped holds no node.
StoppedHoldsNoNode == \A k \in Project : row[k].status = "stopped" => proc[k] = None

\* Rows and the nodes the server holds agree, whatever reloads, crashes, kills
\* and deletions come between.  A node it does not hold, because a reload forgot
\* it or a kill by pid let it go, has no part in this.
RowsMatchNodes == RowPortMatchesNode /\ NoNodeWithoutRow /\ StoppedHoldsNoNode

\* "Reconcile `status` with reality": a listing puts a project at "stopped" only
\* if no node of it is listening, whether or not the server still holds it.
ListingIsReal ==
    [][ListProjects => \A k \in Project, p \in Pid :
          row[k].status # "stopped" /\ row'[k].status = "stopped" =>
              ~(node[p].phase = "listening" /\ node[p].home = k)]_controlVars

\* In this step a stop of project k sweeps its port.
StopSweeps(k) ==
    \/ \E c \in Call : RouteStop(c, k)
    \/ \E p \in Pid : node[p].key = k /\ ChildGone(p)

\* Stopping a project kills no node that the server holds for another project:
\* what a stop sweeps off the port is its own or a leftover.  (A node the legacy
\* instance runs on the port of a stopped project is not spared.)
StopSparesOthers ==
    [][\A k \in Project : StopSweeps(k) =>
          \A p \in Pid : Alive(p) /\ ~Alive(p)' =>
              node[p].key \in {k, Legacy, None} \/ ~Held(p)]_controlVars

\* A start never leaves its project at "starting" for good.
StartingEnds ==
    \A k \in Project : row[k].status = "starting" ~> row[k].status # "starting"

StartUnderWay(k) == \E c \in Call : route[c] = "start" /\ call[c].key = k

\* "Reconcile `status` with reality": a row at "starting" whose start is gone is
\* put right by a listing, or another start takes it over.
StaleStartEnds ==
    \A k \in Project :
        row[k].status = "starting" /\ ~StartUnderWay(k)
            ~> row[k].status # "starting" \/ StartUnderWay(k)

\* A project that is shown as running while it has no node does not stay so: it
\* is listed again and reconciled, or it gets a node.
RunningIsReal ==
    \A k \in Project : row[k].status = "running" ~> (IsRunning(k) \/ row[k].status # "running")

=============================================================================
