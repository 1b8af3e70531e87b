--------------------------- MODULE DaemonStartProofs ---------------------------
(***************************************************************************)
(* One host serves, and what a start was answered survives the hosts; last *)
(* the types of what these proofs leave out.                               *)
(***************************************************************************)
EXTENDS DaemonStart, TLAPS

\* The part of the types that the proofs need.
Typed ==
  /\ host \in [Hosts -> HostStage] /\ client \in [Clients -> ClientStage]
  /\ start \in [Clients -> Handler] /\ ses \in [Clients -> Session]

-----------------------------------------------------------------------------
\* A step of a host or a client leaves the other variables as they are, and moves itself only.

LEMMA HandlerMoves ==
  ASSUME NEW r \in Handler, NEW s \in {"none", "scan", "probe", "create", "write", "launch",
           "read", "pid", "new", "existing", "refused", "lost"}
  PROVE  /\ [r EXCEPT !.stage = s] \in Handler
         /\ \A h \in Hosts : [r EXCEPT !.stage = s, !.host = h] \in Handler
         /\ \A m \in {"none", "over"} \cup Active : [r EXCEPT !.stage = s, !.hand = m] \in Handler
  BY DEF Handler

LEMMA SessionMoves ==
  ASSUME NEW r \in Session, NEW m \in {"none", "over"} \cup Active,
         NEW w \in {"none", "spawned", "registered", "up", "gone"},
         NEW k \in {"none", "alive", "dead"}
  PROVE  /\ [r EXCEPT !.dir = TRUE] \in Session /\ [r EXCEPT !.meta = m] \in Session
         /\ [r EXCEPT !.meta = m, !.known = TRUE] \in Session
         /\ [r EXCEPT !.worker = w] \in Session /\ [r EXCEPT !.child = k] \in Session
         /\ [r EXCEPT !.worker = w, !.known = TRUE] \in Session
         /\ [r EXCEPT !.worker = w, !.meta = m] \in Session
         /\ [r EXCEPT !.worker = w, !.child = k, !.meta = m] \in Session
  BY DEF Session

LEMMA TypedBoots ==
  ASSUME Typed, NEW h \in Hosts, HostBoots(h) \/ CloseHost(h) \/ ExitHost(h) \/ KillHost(h)
                                 \/ FinishReconcile(h)
  PROVE  host' \in [Hosts -> HostStage] /\ client' = client
<1>1. \A s \in HostStage : [host EXCEPT ![h] = s] \in [Hosts -> HostStage]
  BY DEF Typed
<1>q. QED
  BY <1>1 DEF HostBoots, AcquireLock, CheckSocket, RemoveSocket, RecordHost, Bind, CloseHost,
     ExitHost, KillHost, FinishReconcile, HostGoes, Ends, HostStage

LEMMA TypedClient ==
  ASSUME Typed, NEW c \in Clients, ClientStep(c)
  PROVE  /\ host' \in [Hosts -> HostStage] /\ client' \in [Clients -> ClientStage]
         /\ client[c] \in {"new", "spawn", "waiting"} /\ client'[c] # "asked"
         /\ \A d \in Clients \ {c} : client'[d] = client[d]
         /\ \A h \in Hosts : host'[h] = host[h] \/ (host[h] = "none" /\ host'[h] = "starting")
         /\ lock' = lock /\ sock' = sock
<1>1. \A s \in ClientStage : [client EXCEPT ![c] = s] \in [Clients -> ClientStage]
  BY DEF Typed
<1>2. \A h \in Hosts : [host EXCEPT ![h] = "starting"] \in [Hosts -> HostStage]
  BY DEF Typed, HostStage
<1>3. CASE SpawnHost(c)
  BY <1>1, <1>2, <1>3 DEF SpawnHost, ClientGoes, HostGoes, Typed, ClientStage
<1>4. CASE Probe(c) \/ SpawnFails(c) \/ Poll(c) \/ Deadline(c)
  BY <1>1, <1>4 DEF Probe, SpawnFails, Poll, Deadline, ClientGoes, Typed, ClientStage
<1>q. QED
  BY <1>3, <1>4 DEF ClientStep

LEMMA TypedHandler ==
  ASSUME Typed, NEW c \in Clients, AskStart(c) \/ HandlerStep(c)
  PROVE  Typed' /\ host' = host /\ lock' = lock /\ sock' = sock
<1>1. start[c] \in Handler /\ ses[c] \in Session
  BY DEF Typed
<1>2. ses[c].meta \in {"none", "over"} \cup Active /\ start[c].hand \in {"none", "over"} \cup Active
  BY <1>1 DEF Handler, Session
<1>3. CASE AskStart(c)
  <2>1. \A h \in Hosts : [start EXCEPT ![c].stage = "scan", ![c].host = h] \in [Clients -> Handler]
    BY <1>1, HandlerMoves DEF Typed
  <2>2. [client EXCEPT ![c] = "asked"] \in [Clients -> ClientStage]
        /\ [client EXCEPT ![c] = "failed"] \in [Clients -> ClientStage]
    BY DEF Typed, ClientStage
  <2>3. start' \in [Clients -> Handler]
    BY <1>3, <2>1 DEF AskStart, Typed
  <2>4. client' \in [Clients -> ClientStage]
    BY <1>3, <2>2 DEF AskStart, ClientGoes
  <2>5. UNCHANGED <<host, lock, sock, ses>>
    BY <1>3 DEF AskStart
  <2>q. QED
    BY <2>3, <2>4, <2>5 DEF Typed
<1>4. CASE HandlerStep(c)
  <2>1. \A s \in {"probe", "create", "write", "launch", "read", "new", "existing", "refused"} :
          [start EXCEPT ![c].stage = s] \in [Clients -> Handler]
    BY <1>1, HandlerMoves DEF Typed
  <2>2. CASE RefuseStart(c) \/ Scan(c) \/ ProbeStatus(c)
    BY <2>1, <2>2 DEF RefuseStart, Scan, ProbeStatus, HandlerGoes, bootVars, Typed
  <2>3. CASE ReadRecord(c)
    <3>1. [start EXCEPT ![c].stage = "pid", ![c].hand = ses[c].meta] \in [Clients -> Handler]
      BY <1>1, <1>2, HandlerMoves DEF Typed
    <3>q. QED
      BY <2>3, <3>1 DEF ReadRecord, bootVars, Typed
  <2>4. CASE CreateDir(c) \/ WriteRecord(c) \/ LaunchWorker(c) \/ LaunchFails(c) \/ WritePid(c)
    <3>1. "starting" \in Active
      BY DEF Active
    <3>2. /\ [ses EXCEPT ![c].dir = TRUE] \in [Clients -> Session]
          /\ [ses EXCEPT ![c].meta = "starting"] \in [Clients -> Session]
          /\ [ses EXCEPT ![c].meta = "over"] \in [Clients -> Session]
          /\ [ses EXCEPT ![c].worker = "spawned"] \in [Clients -> Session]
          /\ [ses EXCEPT ![c].meta = start[c].hand, ![c].known = TRUE] \in [Clients -> Session]
      BY <1>1, <1>2, <3>1, SessionMoves DEF Typed
    <3>3. ses' \in [Clients -> Session]
      BY <2>4, <3>2 DEF CreateDir, WriteRecord, LaunchWorker, LaunchFails, WritePid
    <3>4. start' \in [Clients -> Handler]
      BY <2>1, <2>4 DEF CreateDir, WriteRecord, LaunchWorker, LaunchFails, WritePid, HandlerGoes
    <3>5. UNCHANGED bootVars
      BY <2>4 DEF CreateDir, WriteRecord, LaunchWorker, LaunchFails, WritePid
    <3>q. QED
      BY <3>3, <3>4, <3>5 DEF bootVars, Typed
  <2>q. QED
    BY <1>4, <2>2, <2>3, <2>4 DEF HandlerStep
<1>q. QED
  BY <1>3, <1>4

LEMMA TypedSession ==
  ASSUME Typed, NEW c \in Clients, SessionStep(c)
  PROVE  Typed' /\ UNCHANGED <<bootVars, start>>
<1>1. ses[c] \in Session /\ "running" \in Active
  BY DEF Typed, Active
<1>2. /\ [ses[c] EXCEPT !.worker = "registered", !.known = TRUE] \in Session
      /\ [ses[c] EXCEPT !.worker = "up", !.child = "alive", !.meta = "running"] \in Session
      /\ [ses[c] EXCEPT !.worker = "gone", !.meta = "over"] \in Session
      /\ [ses[c] EXCEPT !.child = "dead"] \in Session
      /\ [ses[c] EXCEPT !.worker = "gone"] \in Session
  BY <1>1, SessionMoves
<1>3. PICK s \in Session : Alters(c, s)
  BY <1>2 DEF SessionStep, RegisterWorker, RecordRunning, FailedStart, ChildExits, RecordExit,
     WorkerCrashes
<1>q. QED
  BY <1>3 DEF Alters, bootVars, Typed

LEMMA TypedHostEnds ==
  ASSUME Typed, NEW h \in Hosts, Reconcile(h) \/ Kill(h) \/ Exit(h)
  PROVE  Typed'
<1>1. \A c \in Clients : Judged(ses[c]) \in Session
  <2>1. \A c \in Clients : [ses[c] EXCEPT !.meta = "over"] \in Session
    BY SessionMoves DEF Typed
  <2>q. QED
    BY <2>1 DEF Judged, Typed
<1>2. \A c \in Clients : [start[c] EXCEPT !.stage = "lost"] \in Handler
  BY HandlerMoves DEF Typed
<1>3. CASE Reconcile(h)
  BY <1>1, <1>3, TypedBoots DEF Reconcile, Typed
<1>4. CASE Kill(h)
  BY <1>2, <1>4, TypedBoots DEF Kill, LoseHandlers, Typed
<1>5. CASE Exit(h)
  BY <1>5, TypedBoots DEF Exit, startVars, Typed
<1>q. QED
  BY <1>3, <1>4, <1>5

LEMMA TypedInit == Init => Typed
  BY DEF Init, BootstrapInit, StartInit, Typed, HostStage, ClientStage, Handler, Session

LEMMA TypedNext == Typed /\ [Next]_vars => Typed'
<1> SUFFICES ASSUME Typed, [Next]_vars PROVE Typed'
  OBVIOUS
<1>1. ASSUME NEW h \in Hosts, (HostBoots(h) \/ CloseHost(h)) /\ UNCHANGED startVars PROVE Typed'
  BY <1>1, TypedBoots DEF startVars, Typed
<1>2. ASSUME NEW h \in Hosts, Reconcile(h) \/ Kill(h) \/ Exit(h) PROVE Typed'
  BY <1>2, TypedHostEnds
<1>3. ASSUME NEW c \in Clients, ClientStep(c) /\ UNCHANGED startVars PROVE Typed'
  BY <1>3, TypedClient DEF startVars, Typed
<1>4. ASSUME NEW c \in Clients, AskStart(c) \/ HandlerStep(c) \/ SessionStep(c) PROVE Typed'
  BY <1>4, TypedHandler, TypedSession
<1>5. CASE UNCHANGED vars
  BY <1>5 DEF vars, bootVars, startVars, Typed
<1>q. QED
  BY <1>1, <1>2, <1>3, <1>4, <1>5 DEF Next

-----------------------------------------------------------------------------
\* One host serves.  The lock orders the hosts: one that is past it meets no other that is.

LEMMA ServesStep ==
  ASSUME Typed, OneHostServes, NEW h \in Hosts,
         HostBoots(h) \/ CloseHost(h) \/ ExitHost(h) \/ KillHost(h) \/ FinishReconcile(h)
  PROVE  OneHostServes'
<1>1. CASE AcquireLock(h)
  <2>1. CASE lock = None
    <3>1. \A g \in Hosts : host[g] \notin PastLock
      BY <2>1, BootstrapAssumption DEF OneHostServes
    <3>q. QED
      BY <1>1, <2>1, <3>1 DEF AcquireLock, HostGoes, OneHostServes, PastLock, Typed
  <2>2. CASE lock # None
    BY <1>1, <2>2 DEF AcquireLock, Ends, OneHostServes, PastLock, SocketOf, Typed
  <2>q. QED
    BY <2>1, <2>2
<1>2. CASE CheckSocket(h)
  BY <1>2 DEF CheckSocket, HostGoes, Ends, OneHostServes, PastLock, SocketOf, Typed
<1>3. CASE RemoveSocket(h)
  BY <1>3 DEF RemoveSocket, HostGoes, OneHostServes, PastLock, Typed
<1>4. CASE Bind(h)
  BY <1>4 DEF Bind, HostGoes, Ends, OneHostServes, PastLock, SocketOf, Typed
<1>5. CASE RecordHost(h) \/ CloseHost(h) \/ FinishReconcile(h)
  BY <1>5 DEF RecordHost, CloseHost, FinishReconcile, HostGoes, OneHostServes, PastLock,
     SocketOf, Typed
<1>6. CASE ExitHost(h) \/ KillHost(h)
  BY <1>6 DEF ExitHost, KillHost, Ends, OneHostServes, PastLock, SocketOf, Typed
<1>q. QED
  BY <1>1, <1>2, <1>3, <1>4, <1>5, <1>6 DEF HostBoots

LEMMA ServesNext == Typed /\ OneHostServes /\ [Next]_vars => OneHostServes'
<1> SUFFICES ASSUME Typed, OneHostServes, [Next]_vars PROVE OneHostServes'
  OBVIOUS
<1>1. ASSUME NEW h \in Hosts, HostBoots(h) \/ CloseHost(h) \/ Reconcile(h) \/ Kill(h) \/ Exit(h)
      PROVE  OneHostServes'
  BY <1>1, ServesStep DEF Reconcile, Kill, Exit
<1>2. ASSUME NEW c \in Clients, ClientStep(c) PROVE OneHostServes'
  BY <1>2, TypedClient DEF OneHostServes, PastLock, SocketOf
<1>3. ASSUME NEW c \in Clients, AskStart(c) \/ HandlerStep(c) \/ SessionStep(c) PROVE OneHostServes'
  BY <1>3, TypedHandler, TypedSession DEF OneHostServes, SocketOf, bootVars
<1>4. CASE UNCHANGED vars
  BY <1>4 DEF vars, bootVars, OneHostServes, SocketOf
<1>q. QED
  BY <1>1, <1>2, <1>3, <1>4 DEF Next

\* At most one host is past the lock of host.lock, and the socket clients find is that of the
\* host that serves, for any hosts and clients (bootstrap_foreground, HostLock).
THEOREM OneHost == Spec => []OneHostServes
<1>1. Init => Typed /\ OneHostServes
  BY TypedInit DEF Init, BootstrapInit, OneHostServes, PastLock
<1>2. Typed /\ OneHostServes /\ [Next]_vars => (Typed /\ OneHostServes)'
  BY TypedNext, ServesNext
<1>q. QED
  BY <1>1, <1>2, PTL DEF Spec

-----------------------------------------------------------------------------
\* What a start was answered.  The record of a session that lives is kept active by its
\* handler, whose host has the lock, so that nobody reconciles until the pid is recorded.

Lives(s) == s.worker \in {"spawned", "registered", "up"} /\ s.child # "dead"

Kept(c) ==
  /\ client[c] # "asked" => start[c].stage = "none" /\ ses[c].worker = "none"
  /\ Running(c) => start[c].host \in Hosts /\ host[start[c].host] \in {"serving", "closing"}
  /\ start[c].stage \in {"scan", "probe", "create", "write", "launch"} => ses[c].worker = "none"
  /\ start[c].stage = "launch" => ses[c].meta = "starting"
  /\ (start[c].stage \in {"read", "pid", "new"} /\ Lives(ses[c])) => ses[c].meta \in Active
  /\ (start[c].stage = "pid" /\ Lives(ses[c])) => start[c].hand \in Active
  /\ start[c].stage = "new" => ses[c].known

LEMMA SameKept ==
  ASSUME NEW c \in Clients, Kept(c), start'[c] = start[c], ses'[c] = ses[c],
         client'[c] = client[c] \/ (client[c] # "asked" /\ client'[c] # "asked"),
         \A h \in Hosts : host[h] \in {"serving", "closing"} => host'[h] \in {"serving", "closing"}
  PROVE  Kept(c)'
  BY DEF Kept, Running, Lives

LEMMA HandlerKeeps ==
  ASSUME Typed, NEW c \in Clients, Kept(c), HandlerStep(c)
  PROVE  Kept(c)' /\ \A d \in Clients \ {c} : start'[d] = start[d] /\ ses'[d] = ses[d]
<1>1. CASE RefuseStart(c) \/ Scan(c) \/ ProbeStatus(c)
  <2>1. \E from \in {"scan", "probe"}, to \in {"probe", "create", "existing", "refused"} :
          HandlerGoes(c, from, to)
    BY <1>1 DEF RefuseStart, Scan, ProbeStatus
  <2>2. UNCHANGED <<bootVars, ses>>
    BY <1>1 DEF RefuseStart, Scan, ProbeStatus
  <2>q. QED
    BY <2>1, <2>2 DEF HandlerGoes, bootVars, Kept, Running, Ended, Lives, Typed, Handler
<1>2. CASE CreateDir(c) \/ WriteRecord(c)
  BY <1>2 DEF CreateDir, WriteRecord, HandlerGoes, bootVars, Kept, Running, Ended, Lives, Typed,
     Handler, Session
<1>3. CASE LaunchWorker(c) \/ LaunchFails(c)
  BY <1>3 DEF LaunchWorker, LaunchFails, HandlerGoes, bootVars, Kept, Running, Ended, Lives, Typed,
     Active, Handler, Session
<1>4. CASE ReadRecord(c) \/ WritePid(c)
  BY <1>4 DEF ReadRecord, WritePid, HandlerGoes, bootVars, Kept, Running, Ended, Lives, Typed,
     Handler, Session
<1>q. QED
  BY <1>1, <1>2, <1>3, <1>4 DEF HandlerStep

LEMMA AskKeeps ==
  ASSUME Typed, NEW c \in Clients, Kept(c), AskStart(c)
  PROVE  Kept(c)' /\ \A d \in Clients \ {c} :
                        start'[d] = start[d] /\ ses'[d] = ses[d] /\ client'[d] = client[d]
<1>1. start[c].stage = "none" /\ ses[c].worker = "none"
  BY DEF AskStart, Kept
<1>2. CASE Served
  BY <1>1, <1>2 DEF AskStart, ClientGoes, Reached, Kept, Running, Ended, Typed, Handler
<1>3. CASE ~Served
  BY <1>1, <1>3 DEF AskStart, ClientGoes, Kept, Running, Ended, Typed
<1>q. QED
  BY <1>2, <1>3

LEMMA SessionKeeps ==
  ASSUME Typed, NEW c \in Clients, Kept(c), SessionStep(c)
  PROVE  Kept(c)' /\ \A d \in Clients \ {c} : ses'[d] = ses[d]
<1> USE DEF Alters, bootVars, Kept, Running, Ended, Lives, Typed, Session
<1>1. CASE RegisterWorker(c)
  BY <1>1 DEF RegisterWorker, Active
<1>4. CASE RecordRunning(c)
  BY <1>4 DEF RecordRunning, Active
<1>2. CASE FailedStart(c)
  BY <1>2 DEF FailedStart
<1>5. CASE RecordExit(c)
  BY <1>5 DEF RecordExit
<1>6. CASE WorkerCrashes(c)
  BY <1>6 DEF WorkerCrashes
<1>3. CASE ChildExits(c)
  BY <1>3 DEF ChildExits
<1>q. QED
  BY <1>1, <1>2, <1>3, <1>4, <1>5, <1>6 DEF SessionStep

\* The host that reconciles has the lock, so no handler runs.
LEMMA ReconcileKeeps ==
  ASSUME Typed, OneHostServes, NEW h \in Hosts, Reconcile(h), NEW c \in Clients, Kept(c)
  PROVE  Kept(c)'
<1>1. host[h] = "cleared" /\ lock = h
  BY DEF Reconcile, FinishReconcile, HostGoes, OneHostServes, PastLock
<1>2. ~Running(c)
  BY <1>1 DEF Kept, OneHostServes, PastLock
<1>3. start' = start /\ client' = client /\ ses'[c] = Judged(ses[c])
  BY DEF Reconcile, FinishReconcile
<1>4. /\ Judged(ses[c]).worker = ses[c].worker /\ Judged(ses[c]).child = ses[c].child
      /\ Judged(ses[c]).known = ses[c].known
      /\ (Lives(ses[c]) /\ ses[c].known) => Judged(ses[c]) = ses[c]
  BY DEF Judged, WorkerSeen, Lives, Typed, Session
<1>q. QED
  BY <1>2, <1>3, <1>4 DEF Kept, Running, Ended, Lives

LEMMA EndKeeps ==
  ASSUME Typed, NEW h \in Hosts, Kill(h) \/ Exit(h), NEW c \in Clients, Kept(c)
  PROVE  Kept(c)'
<1>1. \A g \in Hosts \ {h} : host'[g] = host[g]
  BY DEF Kill, Exit, KillHost, ExitHost, Ends, Typed
<1>2. client' = client /\ ses' = ses
  BY DEF Kill, Exit, KillHost, ExitHost, startVars
<1>3. CASE start'[c] = start[c] /\ ~(start[c].host = h /\ Running(c))
  BY <1>1, <1>2, <1>3 DEF Kept, Running, Lives
<1>4. CASE Kill(h) /\ start[c].host = h /\ Running(c)
  <2>1. start'[c].stage = "lost"
    BY <1>4 DEF Kill, LoseHandlers, Typed, Handler
  <2>2. client[c] = "asked"
    BY <1>4 DEF Kept, Running, Ended
  <2>q. QED
    BY <1>2, <2>1, <2>2 DEF Kept, Running, Ended
<1>q. QED
  BY <1>3, <1>4 DEF Kill, Exit, LoseHandlers, startVars

LEMMA KeptNext ==
  ASSUME Typed, OneHostServes, \A c \in Clients : Kept(c), [Next]_vars
  PROVE  \A c \in Clients : Kept(c)'
<1>1. ASSUME NEW h \in Hosts, (HostBoots(h) \/ CloseHost(h)) /\ UNCHANGED startVars
      PROVE  \A c \in Clients : Kept(c)'
  <2>1. \A g \in Hosts : host[g] \in {"serving", "closing"} => host'[g] \in {"serving", "closing"}
    BY <1>1 DEF HostBoots, AcquireLock, CheckSocket, RemoveSocket, RecordHost, Bind, CloseHost,
       HostGoes, Ends, Typed
  <2>2. client' = client
    BY <1>1, TypedBoots
  <2>q. QED
    BY <1>1, <2>1, <2>2, SameKept DEF startVars
<1>2. ASSUME NEW c \in Clients, ClientStep(c) /\ UNCHANGED startVars
      PROVE  \A d \in Clients : Kept(d)'
  <2>1. \A g \in Hosts : host[g] \in {"serving", "closing"} => host'[g] \in {"serving", "closing"}
    BY <1>2, TypedClient
  <2>2. \A d \in Clients : client'[d] = client[d] \/ (client[d] # "asked" /\ client'[d] # "asked")
    BY <1>2, TypedClient
  <2>q. QED
    BY <1>2, <2>1, <2>2, SameKept DEF startVars
<1>3. ASSUME NEW c \in Clients, HandlerStep(c) PROVE \A d \in Clients : Kept(d)'
  <2>1. client' = client /\ host' = host
    BY <1>3 DEF HandlerStep, RefuseStart, Scan, ProbeStatus, CreateDir, WriteRecord, LaunchWorker,
       LaunchFails, ReadRecord, WritePid, bootVars
  <2>q. QED
    BY <1>3, <2>1, HandlerKeeps, SameKept
<1>4. ASSUME NEW c \in Clients, AskStart(c) PROVE \A d \in Clients : Kept(d)'
  BY <1>4, AskKeeps, TypedHandler, SameKept
<1>5. ASSUME NEW c \in Clients, SessionStep(c) PROVE \A d \in Clients : Kept(d)'
  BY <1>5, SessionKeeps, TypedSession, SameKept DEF bootVars
<1>6. CASE UNCHANGED vars
  BY <1>6, SameKept DEF vars, bootVars, startVars
<1>q. QED
  BY <1>1, <1>2, <1>3, <1>4, <1>5, <1>6, ReconcileKeeps, EndKeeps DEF Next

\* A session whose start was answered is in the records of every later host while it lives:
\* start_session answers after the pid is recorded, and reconcile_startup finds it by the pid.
THEOREM AnsweredSurvives == Spec => []AnsweredStartSurvives
<1>1. Init => \A c \in Clients : Kept(c)
  BY DEF Init, BootstrapInit, StartInit, Kept, Running, Ended, Lives
<1>2. ASSUME Typed, OneHostServes, \A c \in Clients : Kept(c), [Next]_vars
      PROVE  (\A c \in Clients : Kept(c))'
  BY <1>2, KeptNext
<1>3. (\A c \in Clients : Kept(c)) => AnsweredStartSurvives
  BY DEF Kept, Lives, AnsweredStartSurvives
<1>4. Init => Typed
  BY TypedInit
<1>5. Typed /\ [Next]_vars => Typed'
  BY TypedNext
<1>q. QED
  BY <1>1, <1>2, <1>3, <1>4, <1>5, OneHost, PTL DEF Spec

-----------------------------------------------------------------------------
\* Types.  What is left of them: the lock, the socket and the bound on the hosts that end.

PathTyped ==
  /\ lock \in Hosts \cup {None}
  /\ sock \in [kind : {"none", "socket", "file"}, by : Hosts \cup {None}]
  /\ stops \in 0 .. MaxStops

LEMMA SocketTyped ==
  ASSUME NEW h \in Hosts
  PROVE  {NoSocket, SocketOf(h)} \subseteq [kind : {"none", "socket", "file"}, by : Hosts \cup {None}]
  BY DEF NoSocket, SocketOf

LEMMA PathHost ==
  ASSUME PathTyped, NEW h \in Hosts,
         HostBoots(h) \/ CloseHost(h) \/ ExitHost(h) \/ KillHost(h) \/ FinishReconcile(h)
  PROVE  PathTyped'
<1>1. lock' \in {lock, None, h}
  BY DEF HostBoots, AcquireLock, CheckSocket, RemoveSocket, RecordHost, Bind, CloseHost, ExitHost,
     KillHost, FinishReconcile, Ends
<1>2. sock' \in {sock, NoSocket, SocketOf(h)}
  BY DEF HostBoots, AcquireLock, CheckSocket, RemoveSocket, RecordHost, Bind, CloseHost, ExitHost,
     KillHost, FinishReconcile
<1>3. stops' = stops \/ (stops < MaxStops /\ stops' = stops + 1)
  BY DEF HostBoots, AcquireLock, CheckSocket, RemoveSocket, RecordHost, Bind, CloseHost, ExitHost,
     KillHost, FinishReconcile
<1>4. stops' \in 0 .. MaxStops
  BY <1>3, BootstrapAssumption DEF PathTyped
<1>q. QED
  BY <1>1, <1>2, <1>4, SocketTyped DEF PathTyped

LEMMA PathInit == Init => PathTyped
<1>1. NoSocket \in [kind : {"none", "socket", "file"}, by : Hosts \cup {None}]
  BY DEF NoSocket
<1>q. QED
  BY <1>1, BootstrapAssumption DEF Init, BootstrapInit, PathTyped, SocketOf

LEMMA PathNext == PathTyped /\ [Next]_vars => PathTyped'
<1> SUFFICES ASSUME PathTyped, [Next]_vars PROVE PathTyped'
  OBVIOUS
<1>1. CASE \E h \in Hosts : HostBoots(h) \/ CloseHost(h) \/ Reconcile(h) \/ Kill(h) \/ Exit(h)
  BY <1>1, PathHost DEF Reconcile, Kill, Exit
<1>2. CASE UNCHANGED <<lock, sock, stops>>
  BY <1>2 DEF PathTyped
<1>3. ASSUME NEW c \in Clients, ClientStep(c) \/ AskStart(c) \/ HandlerStep(c) \/ SessionStep(c)
      PROVE  UNCHANGED <<lock, sock, stops>>
  <2>1. CASE ClientStep(c) \/ AskStart(c)
    BY <2>1 DEF ClientStep, Probe, SpawnHost, SpawnFails, Poll, Deadline, AskStart
  <2>2. CASE HandlerStep(c)
    BY <2>2 DEF HandlerStep, RefuseStart, Scan, ProbeStatus, CreateDir, WriteRecord, LaunchWorker,
       LaunchFails, ReadRecord, WritePid, bootVars
  <2>3. CASE SessionStep(c)
    BY <2>3 DEF SessionStep, RegisterWorker, RecordRunning, FailedStart, ChildExits, RecordExit,
       WorkerCrashes, Alters, bootVars
  <2>q. QED
    BY <1>3, <2>1, <2>2, <2>3
<1>4. CASE UNCHANGED vars
  BY <1>2, <1>4 DEF vars, bootVars
<1>q. QED
  BY <1>1, <1>2, <1>3, <1>4 DEF Next

\* Every variable keeps its type; the hosts that end stay within their bound.
THEOREM TypeCorrect == Spec => []TypeOK
<1>1. Init => Typed /\ PathTyped
  BY TypedInit, PathInit
<1>2. Typed /\ PathTyped /\ [Next]_vars => (Typed /\ PathTyped)'
  BY TypedNext, PathNext
<1>3. Typed /\ PathTyped => TypeOK
  BY DEF Typed, PathTyped, TypeOK, BootstrapTypeOK, StartTypeOK
<1>q. QED
  BY <1>1, <1>2, <1>3, PTL DEF Spec
=============================================================================
