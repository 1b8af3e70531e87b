------------------------------ MODULE DaemonStart ------------------------------
(***************************************************************************)
(* session.start of a daemon session, served by the host of HostBootstrap: *)
(* each client asks once for a daemon of the same workspace.  The handlers *)
(* of several requests run side by side, and a host may be killed in the   *)
(* middle of them; the next one reconciles what it finds.                  *)
(*                                                                         *)
(* A session is known by the client that asked for it.  Its worker and its *)
(* child are as in SessionLifecycle, with their steps drawn together.      *)
(***************************************************************************)
EXTENDS HostBootstrap, FiniteSets

VARIABLES
  start,  \* the handler of each client's request
  ses     \* each session: its record, its worker and its child

startVars == <<start, ses>>
vars == <<bootVars, startVars>>

Active == {"starting", "running"}

Handler ==
  [stage : {"none", "scan", "probe", "create", "write", "launch", "read", "pid", "new",
            "existing", "refused", "lost"},
   host : Hosts \cup {None}, hand : {"none", "over"} \cup Active]
Session ==
  [dir : BOOLEAN, meta : {"none", "over"} \cup Active, known : BOOLEAN,
   worker : {"none", "spawned", "registered", "up", "gone"}, child : {"none", "alive", "dead"}]

StartTypeOK == start \in [Clients -> Handler] /\ ses \in [Clients -> Session]

StartInit ==
  /\ start = [c \in Clients |-> [stage |-> "none", host |-> None, hand |-> "none"]]
  /\ ses = [c \in Clients |-> [dir |-> FALSE, meta |-> "none", known |-> FALSE,
                               worker |-> "none", child |-> "none"]]

TypeOK == BootstrapTypeOK /\ StartTypeOK
Init == BootstrapInit /\ StartInit

-----------------------------------------------------------------------------
\* The handler: start_session.

Ended == {"none", "new", "existing", "refused", "lost"}
Running(c) == start[c].stage \notin Ended
HandlerGoes(c, from, to) ==
  start[c].stage = from /\ start' = [start EXCEPT ![c].stage = to]

\* The request is a connection of its own, after the one that found the host.
AskStart(c) ==
  /\ client[c] = "ready" /\ UNCHANGED <<host, lock, sock, stops, ses>>
  /\ IF Served
     THEN \E h \in Hosts : /\ Reached(h) /\ ClientGoes(c, "ready", "asked")
                           /\ start' = [start EXCEPT ![c].stage = "scan", ![c].host = h]
     ELSE ClientGoes(c, "ready", "failed") /\ UNCHANGED start

\* Without argv, a directory to run in or a workspace there is nothing to start.
RefuseStart(c) == HandlerGoes(c, "scan", "refused") /\ UNCHANGED <<bootVars, ses>>

ActiveDaemons == {c \in Clients : ses[c].meta \in Active}

\* find_active_millrace_daemon: the same argv finds the session, another is refused.
Scan(c) ==
  /\ UNCHANGED <<bootVars, ses>>
  /\ IF ActiveDaemons = {} THEN HandlerGoes(c, "scan", "probe")
     ELSE \E answer \in {"existing", "refused"} : HandlerGoes(c, "scan", answer)

\* `millrace status` sees a daemon that runs, unless it fails or the daemon is not up yet;
\* a probe that fails is an event and no obstacle.
ProbeStatus(c) ==
  /\ UNCHANGED <<bootVars, ses>>
  /\ \/ HandlerGoes(c, "probe", "create")
     \/ (\E d \in Clients : ses[d].child = "alive") /\ HandlerGoes(c, "probe", "refused")

CreateDir(c) ==
  /\ HandlerGoes(c, "create", "write")
  /\ ses' = [ses EXCEPT ![c].dir = TRUE] /\ UNCHANGED bootVars

WriteRecord(c) ==
  /\ HandlerGoes(c, "write", "launch")
  /\ ses' = [ses EXCEPT ![c].meta = "starting"] /\ UNCHANGED bootVars

LaunchWorker(c) ==
  /\ HandlerGoes(c, "launch", "read")
  /\ ses' = [ses EXCEPT ![c].worker = "spawned"] /\ UNCHANGED bootVars

LaunchFails(c) ==
  /\ HandlerGoes(c, "launch", "refused")
  /\ ses' = [ses EXCEPT ![c].meta = "over"] /\ UNCHANGED bootVars

\* Mutant: the answer does not wait for the pid.
ReadRecordAnswer(c) == HandlerGoes(c, "read", "new") /\ UNCHANGED <<bootVars, ses>>

\* The worker's pid is added to the record as it is now: read, then replaced.
ReadRecord(c) ==
  /\ start[c].stage = "read" /\ UNCHANGED <<bootVars, ses>>
  /\ start' = [start EXCEPT ![c].stage = "pid", ![c].hand = ses[c].meta]

WritePid(c) ==
  /\ HandlerGoes(c, "pid", "new") /\ UNCHANGED bootVars
  /\ ses' = [ses EXCEPT ![c].meta = start[c].hand, ![c].known = TRUE]

HandlerStep(c) ==
  \/ RefuseStart(c) \/ Scan(c) \/ ProbeStatus(c) \/ CreateDir(c) \/ WriteRecord(c)
  \/ LaunchWorker(c) \/ LaunchFails(c) \/ ReadRecord(c) \/ WritePid(c)

-----------------------------------------------------------------------------
\* The host's end takes its handlers with it; its start reconciles the records.

LoseHandlers(h) ==
  start' = [c \in Clients |->
    IF start[c].host = h /\ Running(c) THEN [start[c] EXCEPT !.stage = "lost"] ELSE start[c]]

Kill(h) == KillHost(h) /\ LoseHandlers(h) /\ UNCHANGED ses

Exit(h) ==
  /\ \A c \in Clients : start[c].host = h => ~Running(c)
  /\ ExitHost(h) /\ UNCHANGED startVars

\* A worker is known by the pid in meta.json or in worker.json.
WorkerSeen(s) == s.known /\ s.worker \notin {"none", "gone"}

\* reconcile_startup: a session without a live worker is over (orphaned, exited or lost),
\* and so is one whose worker outlived its child.
Judged(s) ==
  IF s.meta \notin Active THEN s
  ELSE IF WorkerSeen(s) /\ s.child # "dead" THEN s
  ELSE [s EXCEPT !.meta = "over"]

Reconcile(h) ==
  /\ FinishReconcile(h) /\ UNCHANGED start
  /\ ses' = [c \in Clients |-> Judged(ses[c])]

-----------------------------------------------------------------------------
\* A session's worker and child, which outlive the host.

Alters(c, s) == ses' = [ses EXCEPT ![c] = s] /\ UNCHANGED <<bootVars, start>>

\* write_worker_meta
RegisterWorker(c) ==
  /\ ses[c].worker = "spawned"
  /\ Alters(c, [ses[c] EXCEPT !.worker = "registered", !.known = TRUE])

\* spawn_pty or spawn_pipe, then record_running, whatever the record said.
RecordRunning(c) ==
  /\ ses[c].worker = "registered" /\ ses[c].child = "none"
  /\ Alters(c, [ses[c] EXCEPT !.worker = "up", !.child = "alive", !.meta = "running"])

FailedStart(c) ==
  /\ ses[c].worker = "registered"
  /\ Alters(c, [ses[c] EXCEPT !.worker = "gone", !.meta = "over"])

ChildExits(c) ==
  /\ ses[c].child = "alive" /\ Alters(c, [ses[c] EXCEPT !.child = "dead"])

RecordExit(c) ==
  /\ ses[c].worker = "up" /\ ses[c].child = "dead"
  /\ Alters(c, [ses[c] EXCEPT !.worker = "gone", !.meta = "over"])

\* The worker is killed; its child may go on.
WorkerCrashes(c) ==
  /\ ses[c].worker \in {"spawned", "registered", "up"}
  /\ Alters(c, [ses[c] EXCEPT !.worker = "gone"])

SessionStep(c) ==
  \/ RegisterWorker(c) \/ RecordRunning(c) \/ FailedStart(c) \/ ChildExits(c)
  \/ RecordExit(c) \/ WorkerCrashes(c)

Next ==
  \/ \E h \in Hosts :
       \/ (HostBoots(h) \/ CloseHost(h)) /\ UNCHANGED startVars
       \/ Reconcile(h) \/ Kill(h) \/ Exit(h)
  \/ \E c \in Clients :
       \/ ClientStep(c) /\ UNCHANGED startVars
       \/ AskStart(c) \/ HandlerStep(c) \/ SessionStep(c)

Spec == Init /\ [][Next]_vars

\* A process that can go on does, as do the handlers; nobody has to be killed.
FairSpec ==
  /\ Spec
  /\ \A h \in Hosts :
       /\ WF_vars(HostBoots(h) /\ UNCHANGED startVars)
       /\ WF_vars(Reconcile(h) \/ Exit(h))
  /\ \A c \in Clients : WF_vars(HandlerStep(c))

-----------------------------------------------------------------------------
\* Properties.

\* A session whose start was answered is not given up by a new host while its worker lives
\* and its child has not ended: the answer comes after the worker can be found again.
AnsweredStartSurvives ==
  \A c \in Clients :
    start[c].stage = "new" /\ ses[c].worker \in {"spawned", "registered", "up"}
    /\ ses[c].child # "dead" => ses[c].meta \in Active

\* One workspace has one active daemon session.
OneDaemonPerWorkspace == Cardinality(ActiveDaemons) <= 1
=============================================================================
