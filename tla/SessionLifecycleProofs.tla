---------------------- MODULE SessionLifecycleProofs ----------------------
(***************************************************************************)
(* Type correctness of SessionLifecycle and the evidence a kill leaves;    *)
(* then which process ids its records name, and what the reconciliation of *)
(* a booting host concludes from them: a stop has a process to signal, a   *)
(* live session is spared, orphaned is said only without a worker; last,   *)
(* what a request asks for and how a kill takes the child down.            *)
(***************************************************************************)
EXTENDS SessionLifecycle, SequenceTheorems, TLAPS

LEMMA ApplyType ==
  ASSUME NEW tag, NEW f \in File, NEW v \in States
  PROVE  Apply(tag, f, v) \in File
<1>1. f.state \in States
  BY DEF File
<1>2. NewState(tag, f.state, v) \in States
  BY <1>1 DEF NewState, States, Active, Terminal
<1>q. QED
  BY <1>2 DEF Apply, File

LEMMA NoDirType == NoDir \in Dir /\ NoFile \in File
  BY DEF NoDir, NoFile, Dir, File, States, EventKinds

LEMMA FreshType ==
  ASSUME NEW stage \in Stages
  PROVE  Fresh(stage) \in Actor
  BY NoDirType DEF Fresh, Actor, Roots, States, Requests, Ops

LEMMA ProgramTypes ==
  /\ <<>> \in Seq(Ops) /\ CreateProgram \in Seq(Ops) /\ LaunchedProgram \in Seq(Ops)
  /\ LaunchFailProgram \in Seq(Ops) /\ RegisterProgram \in Seq(Ops)
  /\ RunningProgram \in Seq(Ops) /\ FailStartProgram \in Seq(Ops)
  /\ ExitProgram \in Seq(Ops) /\ StopProgram \in Seq(Ops) /\ KillProgram \in Seq(Ops)
  /\ ReconcileProgram \in Seq(Ops)
  /\ \A tag \in EventTags : <<Ev(tag)>> \in Seq(Ops)
<1>1. \A tag \in MetaTags : M(tag) \in Ops
  BY DEF Ops
<1>2. \A tag \in WorkerTags : W(tag) \in Ops
  BY DEF Ops
<1>3. \A tag \in EventTags : Ev(tag) \in Ops
  BY DEF Ops
<1>q. QED
  BY <1>1, <1>2, <1>3 DEF CreateProgram, LaunchedProgram, LaunchFailProgram,
     RegisterProgram, RunningProgram, FailStartProgram, ExitProgram, StopProgram,
     KillProgram, ReconcileProgram, MetaTags, WorkerTags, EventTags

-----------------------------------------------------------------------------
\* Steps that only move an actor keep TypeOK.

LEMMA ActorUpdates ==
  ASSUME NEW r \in Actor, NEW s \in Stages, NEW p \in Seq(Ops)
  PROVE  /\ [r EXCEPT !.stage = s] \in Actor
         /\ [r EXCEPT !.stage = s, !.prog = p] \in Actor
         /\ [r EXCEPT !.prog = p] \in Actor
         /\ \A f \in File : [r EXCEPT !.stage = s, !.held = f] \in Actor
         /\ \A v \in States : [r EXCEPT !.stage = s, !.prog = p, !.verdict = v] \in Actor
         /\ \A v \in States : [r EXCEPT !.stage = s, !.verdict = v, !.prog = p] \in Actor
         /\ \A f \in File, v \in States :
              [r EXCEPT !.stage = s, !.prog = p, !.held = f, !.verdict = v] \in Actor
         /\ \A q \in Requests : [r EXCEPT !.req = q] \in Actor
  BY DEF Actor

LEMMA BecomesType ==
  ASSUME TypeOK, NEW a \in Actors, NEW r \in Actor, Becomes(a, r)
  PROVE  act' \in [Actors -> Actor]
  BY DEF TypeOK, Becomes

LEMMA ActorType ==
  ASSUME TypeOK, NEW a \in Actors
  PROVE  /\ act[a] \in Actor /\ act[a].req \in Requests /\ act[a].root \in Roots
         /\ Here(a) \in Dir /\ Here(a).meta \in File /\ Here(a).meta.state \in States
<1>1. act[a] \in Actor
  BY DEF TypeOK
<1>2. act[a].req \in Requests /\ act[a].root \in Roots
  BY <1>1 DEF Actor
<1>3. Here(a) \in Dir
  BY <1>2 DEF TypeOK, Here
<1>q. QED
  BY <1>1, <1>2, <1>3 DEF Dir, File

LEMMA GotoType ==
  ASSUME TypeOK, NEW a \in Actors, NEW stage \in Stages, NEW prog \in Seq(Ops),
         Goto(a, stage, prog)
  PROVE  TypeOK'
  BY ZenonT(40) DEF TypeOK, Goto, Actor, Becomes, processes, context

LEMMA FailType ==
  ASSUME TypeOK, NEW a \in Actors, Fail(a)
  PROVE  TypeOK'
<1>1. Fresh("failed") \in Actor
  BY FreshType DEF Stages
<1>2. [Fresh("failed") EXCEPT !.req = act[a].req] \in Actor
  BY <1>1 DEF TypeOK, Actor
<1>3. act' \in [Actors -> Actor]
  BY <1>2 DEF TypeOK, Fail, Becomes
<1>q. QED
  BY <1>3 DEF TypeOK, Fail, AfterWorkerDeath, context

LEMMA AnswerType ==
  ASSUME TypeOK, NEW a \in Actors, Done(a)
  PROVE  act' \in [Actors -> Actor]
<1>1. Fresh("done") \in Actor
  BY FreshType DEF Stages
<1>q. QED
  BY <1>1 DEF TypeOK, Done, Becomes, Actor

LEMMA BeginType ==
  ASSUME TypeOK, NEW h \in Handlers, NEW stage \in Stages, NEW prog \in Seq(Ops),
         NEW req \in Requests, Begin(h, stage, prog, req)
  PROVE  TypeOK'
<1>1. Fresh(stage) \in Actor
  BY FreshType
<1>2. FoundRoot \in Roots /\ Found.state \in States
  BY DEF TypeOK, FoundRoot, Found, Roots, Dir, File
<1>3. [Fresh(stage) EXCEPT !.prog = prog, !.root = FoundRoot,
         !.verdict = Found.state, !.req = req] \in Actor
  BY <1>1, <1>2 DEF Actor
<1>q. QED
  BY <1>3 DEF TypeOK, Begin, Actors, Becomes, processes, context

\* The operations of a program.
LEMMA StepType ==
  ASSUME TypeOK, NEW a \in Actors, Step(a)
  PROVE  TypeOK'
<1> USE DEF Next1
<1>1. /\ act[a] \in Actor /\ act[a].root \in Roots /\ act[a].snap \in File
      /\ act[a].verdict \in States /\ act[a].prog \in Seq(Ops) /\ Here(a) \in Dir
  BY DEF TypeOK, Actor, Here
<1>2. act[a].prog # <<>> => Popped(a) \in Actor
  <2>1. act[a].prog # <<>> => Tail(act[a].prog) \in Seq(Ops)
    BY <1>1, HeadTailProperties
  <2>q. QED
    BY <1>1, <2>1, NoDirType DEF Actor, Popped
<1>3. \A f \in {"meta", "worker"} : Here(a)[f] \in File
  <2>1. Here(a)["meta"] \in File /\ Here(a)["worker"] \in File
    BY <1>1 DEF Dir
  <2>q. QED
    BY <2>1
<1>4. CASE BeginUpdate(a)
  <2>1. [NoFile EXCEPT !.state = "starting"] \in File /\ "starting" \in States
    BY DEF NoFile, File, States, Active
  <2>2. PICK f \in {"meta", "worker"} :
          /\ Next1(a, f)
          /\ \/ Becomes(a, [act[a] EXCEPT !.snap = Target(a), !.verdict =
                   IF Tag(a) = "launched" THEN Target(a).state ELSE act[a].verdict])
             \/ Becomes(a, [act[a] EXCEPT !.snap = [NoFile EXCEPT !.state = "starting"],
                                          !.verdict = "starting"])
    BY <1>4 DEF BeginUpdate
  <2>3. Target(a) \in File /\ Target(a).state \in States
    BY <1>3, <2>2 DEF Target, File
  <2>4. /\ [act[a] EXCEPT !.snap = Target(a), !.verdict =
              IF Tag(a) = "launched" THEN Target(a).state ELSE act[a].verdict] \in Actor
        /\ [act[a] EXCEPT !.snap = [NoFile EXCEPT !.state = "starting"],
                          !.verdict = "starting"] \in Actor
    BY <1>1, <2>1, <2>3 DEF Actor
  <2>5. act' \in [Actors -> Actor]
    BY <2>2, <2>4 DEF TypeOK, Becomes
  <2>q. QED
    BY <1>4, <2>5 DEF BeginUpdate, TypeOK, processes, context
<1>5. CASE CommitUpdate(a)
  <2>1. PICK f \in {"meta", "worker"} :
          /\ Next1(a, f)
          /\ disk' = [disk EXCEPT ![act[a].root] =
               [Here(a) EXCEPT ![f] = Apply(Tag(a), act[a].snap, act[a].verdict)]]
          /\ Becomes(a, Popped(a))
    BY <1>5 DEF CommitUpdate
  <2>2. Apply(Tag(a), act[a].snap, act[a].verdict) \in File
    BY <1>1, ApplyType
  <2>3. disk' \in [Roots -> Dir]
    BY <1>1, <2>1, <2>2 DEF TypeOK, Dir
  <2>q. QED
    BY <1>2, <1>5, <2>1, <2>3 DEF CommitUpdate, TypeOK, Becomes, processes, context
<1>6. CASE SkipUpdate(a)
  <2>1. act[a].prog # <<>>
    BY <1>6 DEF SkipUpdate
  <2>2. [Popped(a) EXCEPT !.prog = <<>>] \in Actor
    BY <1>2, <2>1, ProgramTypes DEF Actor
  <2>3. act' \in [Actors -> Actor]
    BY <1>2, <1>6, <2>1, <2>2 DEF SkipUpdate, TypeOK, Becomes
  <2>q. QED
    BY <1>6, <2>3 DEF SkipUpdate, TypeOK, Becomes, processes, context
<1>7. CASE AppendEvent(a)
  <2> DEFINE state == EventState(Tag(a), act[a].verdict, Here(a).meta.state)
             new == [Here(a) EXCEPT !.events = Here(a).events \cup {EventKind(Tag(a))},
                                    !.last = IF state \in Terminal THEN state ELSE Here(a).last]
  <2>1. EventKind(Tag(a)) \in EventKinds
    BY DEF EventKind, EventKinds
  <2>2. new \in Dir
    BY <1>1, <2>1 DEF Dir, States
  <2>3. disk' = [disk EXCEPT ![act[a].root] = new]
    BY <1>7, <1>1 DEF AppendEvent, Here, TypeOK
  <2>4. disk' \in [Roots -> Dir]
    BY <1>1, <2>2, <2>3 DEF TypeOK
  <2>q. QED
    BY <1>2, <1>7, <2>4 DEF AppendEvent, TypeOK, Becomes, processes, context
<1>8. CASE FileGone(a)
  BY <1>8, FailType DEF FileGone
<1>q. QED
  BY <1>4, <1>5, <1>6, <1>7, <1>8 DEF Step

-----------------------------------------------------------------------------
\* The moves of a request handler.
LEMMA HandlerType ==
  ASSUME TypeOK, NEW h \in Handlers, Handler(h)
  PROVE  TypeOK'
<1> USE DEF Ready
<1>0. h \in Actors
  BY DEF Actors
<1>1. Fail(h) => TypeOK'
  BY <1>0, FailType
<1>2. Answer(h) => TypeOK'
  BY <1>0, AnswerType DEF Answer, TypeOK, processes, context
<1>3. ASSUME NEW s \in Stages, NEW p \in Seq(Ops), Goto(h, s, p) PROVE TypeOK'
  BY <1>0, <1>3, GotoType
<1>4. /\ <<>> \in Seq(Ops) /\ KillProgram \in Seq(Ops)
      /\ <<Ev("note")>> \in Seq(Ops) /\ <<Ev("deleted")>> \in Seq(Ops)
      /\ <<Ev("sigterm")>> \in Seq(Ops)
  BY ProgramTypes DEF EventTags
<1>5. {"millrace", "native", "interrupt", "blocked", "waiting", "fallback", "sigterm", "final", "mark", "remark",
       "remove", "purge", "finish", "rename"} \subseteq Stages
  BY DEF Stages
<1>6. CASE AskMillrace(h) \/ NativeStopIgnored(h) \/ Interrupt(h) \/ InterruptBlocks(h)
            \/ InterruptIgnored(h)
  BY <1>3, <1>4, <1>5, <1>6 DEF AskMillrace, NativeStopIgnored, Interrupt, InterruptBlocks, InterruptIgnored
<1>7. CASE PrepareSigterm(h)
  <2>1. [act[h] EXCEPT !.stage = "sigterm", !.prog = <<Ev("sigterm")>>,
           !.held = Here(h).meta, !.verdict = MetaState(h)] \in Actor
    BY <1>0, <1>4, <1>5, ActorType, ActorUpdates DEF MetaState
  <2>2. act' \in [Actors -> Actor]
    BY <1>0, <1>7, <2>1, BecomesType DEF PrepareSigterm
  <2>q. QED
    BY <1>7, <2>2 DEF PrepareSigterm, TypeOK, processes, context
<1>8. CASE Sigterm(h)
  <2>1. [act[h] EXCEPT !.stage = "final"] \in Actor
    BY <1>0, <1>4, <1>5, ActorType, ActorUpdates
  <2>2. act' \in [Actors -> Actor]
    BY <1>0, <1>8, <2>1, BecomesType DEF Sigterm
  <2>q. QED
    BY <1>8, <2>2 DEF Sigterm, AfterWorkerDeath, TypeOK, context
<1>9. CASE KillSignal(h)
  <2>1. [act[h] EXCEPT !.stage = "mark", !.prog = KillProgram] \in Actor
    BY <1>0, <1>4, <1>5, ActorType, ActorUpdates
  <2>2. act' \in [Actors -> Actor]
    BY <1>0, <1>9, <2>1, BecomesType DEF KillSignal
  <2>3. /\ proc' \in {"none", "up", "dead"}
        /\ child' \in {"none", "alive", "zombie", "dead"} /\ signalled' \in BOOLEAN
        /\ history' \in [atBoot : {"none", "live", "dead"},
                          sigkilled : BOOLEAN, purged : BOOLEAN]
    BY <1>9 DEF KillSignal, Dead, AfterWorkerDeath, TypeOK, processes
  <2>q. QED
    BY <1>9, <2>2, <2>3 DEF KillSignal, TypeOK
<1>10. CASE StopAnswers(h) \/ StopMetaGone(h) \/ KillFails(h) \/ ArchiveFails(h)
            \/ ArchivedAlready(h)
  BY <1>1, <1>2, <1>10 DEF StopAnswers, StopMetaGone, KillFails, ArchiveFails, ArchivedAlready
<1>11. CASE SettleKilled(h) \/ Killed(h) \/ BeginRemoval(h)
  BY <1>2, <1>3, <1>4, <1>5, <1>11 DEF SettleKilled, Killed, BeginRemoval
<1>12. CASE Purge(h)
  <2>1. act' \in [Actors -> Actor]
    BY <1>0, <1>12, AnswerType DEF Purge
  <2>2. disk' \in [Roots -> Dir]
    BY <1>12, NoDirType DEF Purge, TypeOK
  <2>3. sock' \in BOOLEAN /\ history' \in [atBoot : {"none", "live", "dead"},
                                           sigkilled : BOOLEAN, purged : BOOLEAN]
    BY <1>12 DEF Purge, TypeOK
  <2>q. QED
    BY <1>12, <2>1, <2>2, <2>3 DEF Purge, TypeOK, processes
<1>13. CASE Archive(h)
  <2>1. act' \in [Actors -> Actor]
    BY <1>0, <1>13, AnswerType DEF Archive
  <2>2. disk' \in [Roots -> Dir]
    BY <1>13, NoDirType DEF Archive, TypeOK, Roots
  <2>q. QED
    BY <1>13, <2>1, <2>2 DEF Archive, TypeOK, processes
<1>q. QED
  BY <1>6, <1>7, <1>8, <1>9, <1>10, <1>11, <1>12, <1>13 DEF Handler

-----------------------------------------------------------------------------
\* The two halves of type correctness.
LEMMA InitType == Init => TypeOK
<1>1. \A a \in Actors : Fresh(IF a = "worker" THEN "off" ELSE "idle") \in Actor
  BY FreshType DEF Stages
<1>2. 0 \in 0 .. MaxHostCrashes /\ 0 \in 0 .. MaxWorkerCrashes
  BY LifecycleAssumption
<1> SUFFICES ASSUME Init PROVE TypeOK
  OBVIOUS
<1>3. disk \in [Roots -> Dir]
  BY NoDirType DEF Init
<1>4. act \in [Actors -> Actor]
  BY <1>1 DEF Init
<1>q. QED
  BY <1>2, <1>3, <1>4 DEF Init, TypeOK

LEMMA NextType == TypeOK /\ [Next]_vars => TypeOK'
<1> SUFFICES ASSUME TypeOK, [Next]_vars PROVE TypeOK'
  OBVIOUS
<1> USE DEF Ready
<1>1. /\ "starter" \in Actors /\ "worker" \in Actors /\ "boot" \in Actors
      /\ Handlers \subseteq Actors
  BY DEF Actors
<1>2. ASSUME NEW a \in Actors, Step(a) PROVE TypeOK'
  BY <1>2, StepType
<1>3. CASE Starter
  <2>1. CASE StartSession
    BY <2>1, <1>1, GotoType, ProgramTypes DEF StartSession, Stages
  <2>2. CASE LaunchWorker
    <3>0. "boot" \in Stages /\ "tail" \in Stages
      BY DEF Stages
    <3>1. [Fresh("boot") EXCEPT !.prog = RegisterProgram] \in Actor
      BY <3>0, FreshType, ActorUpdates, ProgramTypes
    <3>2. [act["starter"] EXCEPT !.stage = "tail", !.prog = LaunchedProgram] \in Actor
      BY <1>1, <3>0, ActorType, ActorUpdates, ProgramTypes
    <3>3. act' \in [Actors -> Actor]
      BY <1>1, <2>2, <3>1, <3>2 DEF TypeOK, LaunchWorker
    <3>q. QED
      BY <2>2, <3>3 DEF TypeOK, LaunchWorker, context
  <2>3. CASE LaunchFails
    BY <2>3, <1>1, GotoType, ProgramTypes DEF LaunchFails, Stages
  <2>4. CASE StartReturns
    BY <2>4, <1>1, FreshType DEF StartReturns, Stages, TypeOK, Becomes, processes, context
  <2>q. QED
    BY <1>3, <2>1, <2>2, <2>3, <2>4 DEF Starter
<1>4. CASE Worker
  <2>1. CASE SpawnChild
    <3>0. "serve" \in Stages
      BY DEF Stages
    <3>1. [act["worker"] EXCEPT !.stage = "serve", !.prog = RunningProgram] \in Actor
      BY <1>1, <3>0, ActorType, ActorUpdates, ProgramTypes
    <3>2. act' \in [Actors -> Actor]
      BY <1>1, <2>1, <3>1, BecomesType DEF SpawnChild
    <3>q. QED
      BY <2>1, <3>2, LifecycleAssumption DEF TypeOK, SpawnChild
  <2>2. CASE SpawnFails
    BY <2>2, <1>1, GotoType, ProgramTypes DEF SpawnFails, Stages
  <2>3. CASE ReapChild
    <3>0. "reaped" \in Stages
      BY DEF Stages
    <3>1. [act["worker"] EXCEPT !.stage = "reaped"] \in Actor
      BY <1>1, <3>0, ActorType, ActorUpdates, ProgramTypes
    <3>2. act' \in [Actors -> Actor]
      BY <1>1, <2>3, <3>1, BecomesType DEF ReapChild
    <3>q. QED
      BY <2>3, <3>2 DEF TypeOK, ReapChild, context
  <2>4. CASE DecideExit
    <3>1. CASE Fail("worker")
      BY <3>1, <1>1, FailType
    <3>2. CASE ~Fail("worker")
      <4> DEFINE v == IF disk["sessions"].meta.state = "killed" THEN "killed"
                   ELSE IF signalled /\ ~Pty THEN "crashed" ELSE "exited"
      <4>1. v \in States /\ "exiting" \in Stages
        BY DEF States, Terminal, Stages
      <4>2. [act["worker"] EXCEPT !.stage = "exiting", !.prog = ExitProgram,
                                  !.verdict = v] \in Actor
        <5> HIDE DEF v
        <5>q. QED
          BY <1>1, <4>1, ActorType, ActorUpdates, ProgramTypes
      <4>3. act' \in [Actors -> Actor]
        BY <1>1, <2>4, <3>2, <4>2, BecomesType DEF DecideExit
      <4>q. QED
        BY <2>4, <3>2, <4>3 DEF TypeOK, DecideExit, processes, context
    <3>q. QED
      BY <3>1, <3>2
  <2>5. CASE WorkerExits
    BY <2>5, <1>1, FreshType DEF WorkerExits, Stages, TypeOK, Becomes, context
  <2>6. CASE OutputEnds
    BY <2>6, <1>1, GotoType, ProgramTypes DEF OutputEnds, Stages
  <2>q. QED
    BY <1>4, <2>1, <2>2, <2>3, <2>4, <2>5, <2>6 DEF Worker
<1>5. CASE RecordOutput
  <2>1. [disk["sessions"] EXCEPT !.events = disk["sessions"].events \cup {"other"}] \in Dir
    BY DEF TypeOK, Roots, Dir, EventKinds
  <2>q. QED
    BY <1>5, <2>1 DEF RecordOutput, TypeOK, Roots, processes, context
<1>6. CASE Boot
  <2>1. CASE BootLoad
    <3> DEFINE meta   == disk["sessions"].meta
               worker == disk["sessions"].worker
               held   == [worker EXCEPT !.wpid = worker.wpid \/ meta.wpid,
                                        !.cpid = worker.cpid \/ meta.cpid]
    <3>1. meta \in File /\ worker \in File
      BY DEF TypeOK, Roots, Dir
    <3>2. held \in File
      BY <3>1 DEF File
    <3>3. "judge" \in Stages /\ "finish" \in Stages
      BY DEF Stages
    <3>4. /\ [act["boot"] EXCEPT !.stage = "judge", !.held = held] \in Actor
          /\ [act["boot"] EXCEPT !.stage = "finish"] \in Actor
      <4> HIDE DEF held
      <4>q. QED
        BY <1>1, <3>2, <3>3, ActorType, ActorUpdates, ProgramTypes
    <3>5. act' \in [Actors -> Actor]
      BY <1>1, <2>1, <3>4, BecomesType DEF BootLoad
    <3>q. QED
      BY <2>1, <3>5 DEF BootLoad, TypeOK, processes, context
  <2>2. CASE BootJudge
    <3> DEFINE held    == act["boot"].held
               verdict == Judge(Liveness(held.wpid, proc = "up"),
                                Liveness(held.cpid, child \in {"alive", "zombie"}),
                                Evidence(held.state, disk["sessions"].last))
               prog    == IF verdict = "absent" THEN <<>> ELSE ReconcileProgram
    <3>1. verdict \in States
      BY DEF Judge, Evidence, States, Terminal
    <3>2. prog \in Seq(Ops) /\ "finish" \in Stages
      BY ProgramTypes DEF Stages
    <3>3. [act["boot"] EXCEPT !.stage = "finish", !.verdict = verdict,
                              !.prog = prog] \in Actor
      <4> HIDE DEF verdict, prog
      <4>q. QED
        BY <1>1, <3>1, <3>2, ActorType, ActorUpdates
    <3>4. act' \in [Actors -> Actor]
      BY <1>1, <2>2, <3>3, BecomesType DEF BootJudge
    <3>q. QED
      BY <2>2, <3>4 DEF BootJudge, TypeOK, processes, context
  <2>3. CASE BootEnds
    BY <2>3, <1>1, FreshType DEF BootEnds, Stages, TypeOK, Becomes, processes
  <2>q. QED
    BY <1>6, <2>1, <2>2, <2>3 DEF Boot
<1>7. ASSUME NEW h \in Handlers, Request(h) PROVE TypeOK'
  <2>1. /\ {"stop", "kill", "remove"} \subseteq Stages
        /\ {"stop", "kill", "archive", "purge"} \subseteq Requests
        /\ StopProgram \in Seq(Ops) /\ <<Ev("kill")>> \in Seq(Ops) /\ <<>> \in Seq(Ops)
    BY ProgramTypes DEF Stages, Requests, EventTags
  <2>q. QED
    BY <1>7, <2>1, BeginType DEF Request, BeginStop, BeginKill, BeginDelete
<1>8. ASSUME NEW h \in Handlers, Handler(h) PROVE TypeOK'
  BY <1>1, <1>8, HandlerType
<1>9. CASE ChildEnds
  BY <1>9 DEF ChildEnds, Dead, TypeOK, context
<1>10. CASE WorkerCrashes
  <2>1. Fresh("lost") \in Actor
    BY FreshType DEF Stages
  <2>2. act' \in [Actors -> Actor]
    BY <1>1, <1>10, <2>1, BecomesType DEF WorkerCrashes
  <2>3. crashes' \in [host : 0 .. MaxHostCrashes, worker : 0 .. MaxWorkerCrashes]
    BY <1>10, LifecycleAssumption DEF WorkerCrashes, TypeOK
  <2>q. QED
    BY <1>10, <2>2, <2>3 DEF WorkerCrashes, TypeOK, AfterWorkerDeath
<1>11. CASE HostCrash
  <2>1. Fresh("idle") \in Actor /\ Fresh("lost") \in Actor
    BY FreshType DEF Stages
  <2>2. ASSUME NEW a \in Actors
        PROVE  [Fresh(IF a = "boot" THEN "idle" ELSE "lost") EXCEPT !.req = act[a].req]
                 \in Actor
    <3>1. \A actor \in Actor, q \in Requests : [actor EXCEPT !.req = q] \in Actor
      BY DEF Actor
    <3>q. QED
      BY <2>1, <3>1, ActorType
  <2>3. act' \in [Actors -> Actor]
    BY <1>11, <2>2, ActorType DEF HostCrash
  <2>4. crashes' \in [host : 0 .. MaxHostCrashes, worker : 0 .. MaxWorkerCrashes]
    BY <1>11, LifecycleAssumption DEF HostCrash, TypeOK
  <2>q. QED
    BY <1>11, <2>3, <2>4 DEF HostCrash, TypeOK, processes
<1>12. CASE HostBoot
  <2>1. Fresh("load") \in Actor
    BY FreshType DEF Stages
  <2>2. act' \in [Actors -> Actor]
    BY <1>1, <1>12, <2>1, BecomesType DEF HostBoot
  <2>3. history' \in [atBoot : {"none", "live", "dead"},
                      sigkilled : BOOLEAN, purged : BOOLEAN]
    BY <1>12 DEF HostBoot, TypeOK
  <2>q. QED
    BY <1>12, <2>2, <2>3 DEF HostBoot, TypeOK, processes
<1>13. CASE UNCHANGED vars
  BY <1>13 DEF TypeOK, vars
<1>14. ASSUME NEW h \in Handlers, Awaited(h) PROVE TypeOK'
  <2>1. h \in Actors /\ <<>> \in Seq(Ops) /\ <<Ev("note")>> \in Seq(Ops)
    BY ProgramTypes DEF EventTags, Actors
  <2>2. ASSUME NEW s \in {"native", "waiting"}, NEW p \in {<<>>, <<Ev("note")>>}, Goto(h, s, p)
        PROVE  TypeOK'
    BY <1>1, <2>1, <2>2, GotoType DEF Stages
  <2>q. QED
    BY <1>14, <2>2 DEF Awaited, MillraceAnswers, ChildReads
<1>q. QED
  BY <1>2, <1>3, <1>4, <1>5, <1>6, <1>7, <1>8, <1>9, <1>10, <1>11, <1>12, <1>13, <1>14 DEF Next

\* Every value of every variable has its type, for any number of handlers.
THEOREM TypeCorrect == Spec => []TypeOK
  BY InitType, NextType, PTL DEF Spec

\* Only kill sets history.sigkilled.
LEMMA NextHistory ==
  ASSUME TypeOK, Next, ~\E h \in Handlers : KillSignal(h)
  PROVE  history'.sigkilled = history.sigkilled
<1>1. ASSUME NEW a \in Actors, Step(a) PROVE UNCHANGED history
  BY <1>1 DEF Step, BeginUpdate, CommitUpdate, SkipUpdate, AppendEvent, FileGone, Fail, context
<1>2. ASSUME NEW h \in Handlers, Request(h) PROVE UNCHANGED history
  BY <1>2 DEF Request, BeginStop, BeginKill, BeginDelete, Begin, context
<1>3. ASSUME NEW h \in Handlers, Handler(h) PROVE history'.sigkilled = history.sigkilled
  BY <1>3 DEF Handler, AskMillrace, NativeStopIgnored, Interrupt, InterruptBlocks, InterruptIgnored,
     PrepareSigterm, Sigterm, StopAnswers, StopMetaGone, KillFails, SettleKilled, Killed,
     BeginRemoval, Purge, Archive, ArchiveFails, ArchivedAlready, Goto, Answer, Done, Fail,
     context, TypeOK
<1>4. CASE Starter \/ Worker \/ RecordOutput \/ Boot \/ ChildEnds \/ WorkerCrashes
            \/ HostCrash \/ HostBoot
  BY <1>4 DEF Starter, StartSession, LaunchWorker, LaunchFails, StartReturns, Worker,
     SpawnChild, SpawnFails, OutputEnds, ReapChild, DecideExit, WorkerExits, RecordOutput, Boot,
     BootLoad, BootJudge, BootEnds, ChildEnds, WorkerCrashes, HostCrash, HostBoot, Goto,
     Fail, context, TypeOK
<1>5. ASSUME NEW h \in Handlers, Awaited(h) PROVE UNCHANGED history
  BY <1>5 DEF Awaited, MillraceAnswers, ChildReads, Goto, context
<1>q. QED
  BY <1>1, <1>2, <1>3, <1>4, <1>5 DEF Next

-----------------------------------------------------------------------------
(* A SIGKILL never precedes its evidence.  KillEvidence alone is not          *)
(* inductive: that a handler about to send the signal has appended its event, *)
(* and that nothing but a purge takes the event away again, is.               *)

Recorded == history.purged \/ \E r \in Roots : "kill_requested" \in disk[r].events

Announced(h) ==
  act[h].stage = "kill" =>
    \/ act[h].prog = <<Ev("kill")>>
    \/ act[h].prog = <<>> /\ Recorded

KillInv == TypeOK /\ KillEvidence /\ \A h \in Handlers : Announced(h)

\* Evidence is never lost: a directory's events are only added to, moved to
\* the archive, or purged.
LEMMA RecordedStable ==
  ASSUME TypeOK, Next, Recorded
  PROVE  Recorded'
<1>1. ASSUME NEW r \in Roots, NEW e, disk' = [disk EXCEPT ![r] = e],
             disk[r].events \subseteq e.events, UNCHANGED history
      PROVE  Recorded'
  BY <1>1 DEF TypeOK, Recorded
<1>2. UNCHANGED <<disk, history>> => Recorded'
  BY DEF Recorded
<1>3. ASSUME NEW a \in Actors, Step(a) PROVE Recorded'
  <2>1. act[a].root \in Roots /\ Here(a) = disk[act[a].root] /\ Here(a) \in Dir
    BY ActorType DEF Here
  <2>2. CASE CommitUpdate(a)
    <3>1. PICK f \in {"meta", "worker"} :
            disk' = [disk EXCEPT ![act[a].root] =
              [Here(a) EXCEPT ![f] = Apply(Tag(a), act[a].snap, act[a].verdict)]]
      BY <2>2 DEF CommitUpdate
    <3>2. [Here(a) EXCEPT ![f] = Apply(Tag(a), act[a].snap, act[a].verdict)].events
            = Here(a).events
      BY <2>1, <3>1 DEF Dir
    <3>q. QED
      BY <1>1, <2>1, <2>2, <3>1, <3>2 DEF CommitUpdate, context
  <2>3. CASE AppendEvent(a)
    <3> DEFINE state == EventState(Tag(a), act[a].verdict, Here(a).meta.state)
               new == [Here(a) EXCEPT !.events = Here(a).events \cup {EventKind(Tag(a))},
                         !.last = IF state \in Terminal THEN state ELSE Here(a).last]
    <3>1. disk' = [disk EXCEPT ![act[a].root] = new]
      BY <2>3 DEF AppendEvent
    <3>2. disk[act[a].root].events \subseteq new.events
      BY <2>1 DEF Dir
    <3>q. QED
      BY <1>1, <2>1, <2>3, <3>1, <3>2 DEF AppendEvent, context
  <2>4. CASE BeginUpdate(a) \/ SkipUpdate(a) \/ FileGone(a)
    BY <1>2, <2>4 DEF BeginUpdate, SkipUpdate, FileGone, Fail, context
  <2>q. QED
    BY <1>3, <2>2, <2>3, <2>4 DEF Step
<1>4. CASE Starter \/ Worker \/ ChildEnds \/ WorkerCrashes
  BY <1>2, <1>4 DEF Starter, StartSession, LaunchWorker, LaunchFails, StartReturns, Worker,
     SpawnChild, SpawnFails, OutputEnds, ReapChild, DecideExit, WorkerExits, ChildEnds, WorkerCrashes,
     Goto, Fail, context
<1>5. CASE RecordOutput
  <2> DEFINE new == [disk["sessions"] EXCEPT !.events = disk["sessions"].events \cup {"other"}]
  <2>1. "sessions" \in Roots /\ disk["sessions"].events \subseteq new.events
    BY DEF TypeOK, Roots, Dir
  <2>q. QED
    BY <1>1, <1>5, <2>1 DEF RecordOutput, context
<1>6. CASE Boot
  BY <1>2, <1>6 DEF Boot, BootLoad, BootJudge, BootEnds, context
<1>7. CASE HostCrash \/ HostBoot
  BY <1>7 DEF HostCrash, HostBoot, Recorded, TypeOK
<1>8. ASSUME NEW h \in Handlers, Request(h) PROVE Recorded'
  BY <1>2, <1>8 DEF Request, BeginStop, BeginKill, BeginDelete, Begin, context
<1>9. ASSUME NEW h \in Handlers, Handler(h) PROVE Recorded'
  <2>1. CASE Purge(h)
    BY <2>1 DEF Purge, Recorded, TypeOK
  <2>2. CASE Archive(h)
    BY <2>2 DEF Archive, Recorded, TypeOK, Roots, NoDir
  <2>3. CASE KillSignal(h)
    BY <2>3 DEF KillSignal, Recorded, TypeOK
  <2>4. CASE ~(Purge(h) \/ Archive(h) \/ KillSignal(h))
    BY <1>2, <1>9, <2>4 DEF Handler, AskMillrace, NativeStopIgnored, Interrupt,
       InterruptBlocks, InterruptIgnored, PrepareSigterm, Sigterm, StopAnswers, StopMetaGone, KillFails,
       SettleKilled, Killed, BeginRemoval, ArchiveFails, ArchivedAlready, Goto, Answer,
       Fail, context
  <2>q. QED
    BY <2>1, <2>2, <2>3, <2>4
<1>10. ASSUME NEW h \in Handlers, Awaited(h) PROVE Recorded'
  BY <1>2, <1>10 DEF Awaited, MillraceAnswers, ChildReads, Goto, context
<1>q. QED
  BY <1>3, <1>4, <1>5, <1>6, <1>7, <1>8, <1>9, <1>10 DEF Next

\* Only a handler's own steps and a host crash touch its record.
LEMMA OthersLeaveHandler ==
  ASSUME TypeOK, NEW h \in Handlers, NEW a \in Actors, NEW r, a # h, Becomes(a, r)
  PROVE  act'[h] = act[h]
  BY DEF TypeOK, Becomes, Actors

LEMMA BecomesValue ==
  ASSUME TypeOK, NEW a \in Actors, NEW r, Becomes(a, r)
  PROVE  act'[a] = r
  BY DEF TypeOK, Becomes

LEMMA AnnouncedStep ==
  ASSUME KillInv, Next, NEW h \in Handlers
  PROVE  Announced(h)'
<1>0. TypeOK /\ Announced(h) /\ h \in Actors /\ h \notin {"starter", "worker", "boot"}
  BY LifecycleAssumption DEF KillInv, Actors
<1>1. act'[h] = act[h] => Announced(h)'
  BY <1>0, RecordedStable DEF Announced
<1>2. act'[h].stage # "kill" => Announced(h)'
  BY DEF Announced
<1>3. {"starter", "worker", "boot"} \subseteq Actors
  BY DEF Actors
<1>4. ASSUME NEW a \in Actors, Step(a) PROVE Announced(h)'
  <2>1. CASE a # h
    <3>1. \E r : Becomes(a, r)
      BY <1>4 DEF Step, BeginUpdate, CommitUpdate, SkipUpdate, AppendEvent, FileGone, Fail
    <3>q. QED
      BY <1>0, <1>1, <2>1, <3>1, OthersLeaveHandler
  <2>2. CASE a = h /\ act[h].stage = "kill"
    <3>1. act[h].prog # <<>>
      BY <1>4, <2>2 DEF Step, BeginUpdate, CommitUpdate, SkipUpdate, AppendEvent, FileGone, Next1
    <3>2. /\ act[h].prog = <<Ev("kill")>> /\ Head(act[h].prog) = Ev("kill")
          /\ Tail(act[h].prog) = <<>> /\ Tag(h) = "kill"
      <4>1. act[h].prog = <<Ev("kill")>>
        BY <1>0, <2>2, <3>1 DEF Announced
      <4>2. \A x : Head(<<x>>) = x /\ Tail(<<x>>) = <<>>
        OBVIOUS
      <4>q. QED
        BY <4>1, <4>2 DEF Tag, Ev
    <3>3. AppendEvent(h) \/ FileGone(h)
      BY <1>4, <2>2, <3>2 DEF Step, BeginUpdate, CommitUpdate, SkipUpdate, Next1, Ev
    <3>4. CASE FileGone(h)
      BY <1>0, <1>2, <3>4 DEF FileGone, Fail, Becomes, TypeOK, Fresh
    <3>5. CASE AppendEvent(h)
      <4>1. act'[h].prog = <<>>
        BY <1>0, <3>2, <3>5 DEF AppendEvent, Becomes, TypeOK, Popped, Actor
      <4>2. act[h].root \in Roots /\ Here(h) \in Dir
        BY <1>0, ActorType
      <4>3. "kill_requested" \in disk'[act[h].root].events
        BY <1>0, <3>2, <3>5, <4>2 DEF AppendEvent, TypeOK, EventKind, Dir
      <4>q. QED
        BY <4>1, <4>2, <4>3 DEF Announced, Recorded
    <3>q. QED
      BY <3>3, <3>4, <3>5
  <2>3. CASE a = h /\ act[h].stage # "kill"
    <3>1. act[h] \in Actor
      BY <1>0, ActorType
    <3>2. act'[h].stage = act[h].stage \/ act'[h].stage = "failed"
      <4>1. CASE BeginUpdate(h)
        <5>1. PICK x, y : Becomes(h, [act[h] EXCEPT !.snap = x, !.verdict = y])
          BY <4>1 DEF BeginUpdate
        <5>2. act'[h] = [act[h] EXCEPT !.snap = x, !.verdict = y]
          BY <1>0, <5>1, BecomesValue
        <5>q. QED
          BY <3>1, <5>2 DEF Actor
      <4>2. CASE CommitUpdate(h) \/ AppendEvent(h)
        <5>1. Becomes(h, Popped(h))
          BY <4>2 DEF CommitUpdate, AppendEvent
        <5>2. act'[h] = Popped(h)
          BY <1>0, <5>1, BecomesValue
        <5>q. QED
          BY <3>1, <5>2 DEF Popped, Actor
      <4>3. CASE SkipUpdate(h)
        <5>1. Popped(h).stage = act[h].stage /\ [Popped(h) EXCEPT !.prog = <<>>].stage = act[h].stage
          BY <3>1 DEF Popped, Actor
        <5>q. QED
          BY <1>0, <4>3, <5>1 DEF SkipUpdate, Becomes, TypeOK
      <4>4. CASE FileGone(h)
        BY <1>0, <4>4 DEF FileGone, Fail, Fresh, Becomes, TypeOK
      <4>q. QED
        BY <1>4, <2>3, <4>1, <4>2, <4>3, <4>4 DEF Step
    <3>q. QED
      BY <1>2, <2>3, <3>2
  <2>q. QED
    BY <2>1, <2>2, <2>3
<1>5. CASE Starter
  <2>1. CASE LaunchWorker
    BY <1>0, <1>1, <2>1 DEF LaunchWorker, TypeOK
  <2>2. CASE ~LaunchWorker
    <3>1. \E r : Becomes("starter", r)
      BY <1>5, <2>2 DEF Starter, StartSession, LaunchFails, StartReturns, Goto
    <3>q. QED
      BY <1>0, <1>1, <1>3, <3>1, OthersLeaveHandler
  <2>q. QED
    BY <2>1, <2>2
<1>6. CASE Worker \/ WorkerCrashes
  <2>1. \E r : Becomes("worker", r)
    BY <1>6 DEF Worker, SpawnChild, SpawnFails, OutputEnds, ReapChild, DecideExit, WorkerExits,
       WorkerCrashes, Goto, Fail
  <2>q. QED
    BY <1>0, <1>1, <1>3, <2>1, OthersLeaveHandler
<1>7. CASE Boot \/ HostBoot
  <2>1. \E r : Becomes("boot", r)
    BY <1>7 DEF Boot, BootLoad, BootJudge, BootEnds, HostBoot
  <2>q. QED
    BY <1>0, <1>1, <1>3, <2>1, OthersLeaveHandler
<1>8. CASE RecordOutput \/ ChildEnds
  BY <1>1, <1>8 DEF RecordOutput, ChildEnds
<1>9. CASE HostCrash
  <2>1. act'[h] = act[h] \/ act'[h].stage = "lost"
    BY <1>0, <1>9 DEF HostCrash, Fresh
  <2>q. QED
    BY <1>1, <1>2, <2>1
<1>10. ASSUME NEW k \in Handlers, Request(k) PROVE Announced(h)'
  <2>1. k \in Actors
    BY DEF Actors
  <2>2. CASE k # h
    <3>1. \E r : Becomes(k, r)
      BY <1>10 DEF Request, BeginStop, BeginKill, BeginDelete, Begin
    <3>q. QED
      BY <1>0, <1>1, <2>1, <2>2, <3>1, OthersLeaveHandler
  <2>3. CASE k = h
    <3>1. \E stage, prog, req :
            /\ Becomes(h, [Fresh(stage) EXCEPT !.prog = prog, !.root = FoundRoot,
                             !.verdict = Found.state, !.req = req])
            /\ stage = "kill" => prog = <<Ev("kill")>>
      <4>1. \E stage, prog, req :
              Begin(h, stage, prog, req) /\ (stage = "kill" => prog = <<Ev("kill")>>)
        BY <1>10, <2>3 DEF Request, BeginStop, BeginKill, BeginDelete
      <4>q. QED
        BY <4>1 DEF Begin
    <3>q. QED
      BY <1>0, <3>1 DEF Becomes, TypeOK, Fresh, Announced
  <2>q. QED
    BY <2>2, <2>3
<1>11. ASSUME NEW k \in Handlers, Handler(k) PROVE Announced(h)'
  <2>1. k \in Actors
    BY DEF Actors
  <2>2. CASE k # h
    <3>1. \E r : Becomes(k, r)
      BY <1>11 DEF Handler, AskMillrace, NativeStopIgnored, Interrupt, InterruptBlocks, InterruptIgnored,
         PrepareSigterm, Sigterm, StopAnswers, StopMetaGone, KillSignal, KillFails,
         SettleKilled, Killed, BeginRemoval, Purge, Archive, ArchiveFails, ArchivedAlready,
         Goto, Answer, Done, Fail
    <3>q. QED
      BY <1>0, <1>1, <2>1, <2>2, <3>1, OthersLeaveHandler
  <2>3. CASE k = h
    <3>1. act[h] \in Actor
      BY <1>0, ActorType
    <3>2. \A s, q : s # "kill" /\ Goto(h, s, q) => act'[h].stage # "kill"
      BY <1>0, <3>1 DEF Goto, Becomes, TypeOK, Actor
    <3>3. Done(h) \/ Answer(h) \/ Fail(h) => act'[h].stage # "kill"
      BY <1>0 DEF Answer, Done, Fail, Becomes, Fresh, TypeOK
    <3>4. CASE PrepareSigterm(h) \/ Sigterm(h) \/ KillSignal(h)
      <4>1. CASE PrepareSigterm(h)
        <5>1. act'[h] = [act[h] EXCEPT !.stage = "sigterm", !.prog = <<Ev("sigterm")>>,
                           !.held = Here(h).meta, !.verdict = MetaState(h)]
          BY <1>0, <4>1, BecomesValue DEF PrepareSigterm
        <5>q. QED
          BY <1>2, <3>1, <5>1 DEF Actor
      <4>2. CASE Sigterm(h)
        <5>1. act'[h] = [act[h] EXCEPT !.stage = "final"]
          BY <1>0, <4>2, BecomesValue DEF Sigterm
        <5>q. QED
          BY <1>2, <3>1, <5>1 DEF Actor
      <4>3. CASE KillSignal(h)
        <5>1. act'[h] = [act[h] EXCEPT !.stage = "mark", !.prog = KillProgram]
          BY <1>0, <4>3, BecomesValue DEF KillSignal
        <5>q. QED
          BY <1>2, <3>1, <5>1 DEF Actor
      <4>q. QED
        BY <3>4, <4>1, <4>2, <4>3
    <3>5. CASE ~(PrepareSigterm(h) \/ Sigterm(h) \/ KillSignal(h))
      <4>1. act'[h].stage # "kill"
        BY <1>11, <2>3, <3>2, <3>3, <3>5 DEF Handler, AskMillrace, NativeStopIgnored,
           Interrupt, InterruptBlocks, InterruptIgnored, StopAnswers, StopMetaGone, KillFails, SettleKilled,
           Killed, BeginRemoval, Purge, Archive, ArchiveFails, ArchivedAlready
      <4>q. QED
        BY <1>2, <4>1
    <3>q. QED
      BY <3>4, <3>5
  <2>q. QED
    BY <2>2, <2>3
<1>12. ASSUME NEW k \in Handlers, Awaited(k) PROVE Announced(h)'
  <2>0. PICK s \in {"native", "waiting"}, p \in {<<>>, <<Ev("note")>>} : Goto(k, s, p)
    BY <1>12 DEF Awaited, MillraceAnswers, ChildReads
  <2>1. k \in Actors /\ act'[k] = [act[k] EXCEPT !.stage = s, !.prog = p]
    BY <1>0, <2>0, BecomesValue DEF Actors, Goto
  <2>2. CASE k # h
    BY <1>0, <1>1, <1>12, <2>1, <2>2, OthersLeaveHandler DEF Awaited, MillraceAnswers, ChildReads, Goto
  <2>3. CASE k = h
    <3>1. act'[h].stage # "kill"
      BY <1>0, <2>1, <2>3, ActorType DEF Actor
    <3>q. QED
      BY <1>2, <3>1
  <2>q. QED
    BY <2>2, <2>3
<1>q. QED
  BY <1>4, <1>5, <1>6, <1>7, <1>8, <1>9, <1>10, <1>11, <1>12 DEF Next

\* A session that was ever sent SIGKILL by the host shows kill_requested in its
\* events unless it was purged, however many handlers, crashes and archivals
\* interleave.
THEOREM KillLeavesEvidence == Spec => []KillEvidence
<1>1. Init => KillInv
  <2>1. Init => TypeOK
    BY InitType
  <2>q. QED
    BY <2>1 DEF Init, KillInv, KillEvidence, Announced, Fresh, Actors
<1>2. KillInv /\ [Next]_vars => KillInv'
  <2> SUFFICES ASSUME KillInv, [Next]_vars PROVE KillInv'
    OBVIOUS
  <2>1. TypeOK /\ TypeOK'
    BY NextType DEF KillInv
  <2>2. CASE Next
    <3>1. \A h \in Handlers : Announced(h)'
      BY <2>2, AnnouncedStep
    <3>2. CASE \E h \in Handlers : KillSignal(h)
      <4>1. Recorded
        BY <3>2 DEF KillSignal, Ready, KillInv, Announced, Ev
      <4>q. QED
        BY <2>1, <2>2, <3>1, <4>1, RecordedStable DEF KillInv, KillEvidence, Recorded
    <3>3. CASE ~\E h \in Handlers : KillSignal(h)
      <4>1. history'.sigkilled = history.sigkilled
        BY <2>1, <2>2, <3>3, NextHistory
      <4>2. Recorded => Recorded'
        BY <2>1, <2>2, RecordedStable
      <4>q. QED
        BY <2>1, <3>1, <4>1, <4>2 DEF KillInv, KillEvidence, Recorded
    <3>q. QED
      BY <3>2, <3>3
  <2>3. CASE UNCHANGED vars
    BY <2>1, <2>3 DEF vars, context, KillInv, KillEvidence, Announced, Recorded
  <2>q. QED
    BY <2>2, <2>3
<1>3. KillInv => KillEvidence
  BY DEF KillInv
<1>q. QED
  BY <1>1, <1>2, <1>3, PTL DEF Spec

-----------------------------------------------------------------------------
(* What a step does to the records, said field by field.                      *)

Only(a) == \A b \in Actors : b # a => act'[b] = act[b]
Steady  == UNCHANGED <<disk, processes, context>>
Kept(a) == act'[a].root = act[a].root /\ act'[a].req = act[a].req
Rested(a, stage) ==
  /\ Only(a)
  /\ act'[a].stage = stage /\ act'[a].prog = <<>> /\ act'[a].snap = NoFile
  /\ act'[a].held = NoFile /\ act'[a].root = "sessions" /\ act'[a].verdict = "absent"

LEMMA BecomesOnly ==
  ASSUME TypeOK, NEW a \in Actors, NEW r, Becomes(a, r)
  PROVE  Only(a) /\ act'[a] = r
  BY DEF TypeOK, Becomes, Only

LEMMA FreshFields ==
  ASSUME NEW s
  PROVE  /\ Fresh(s).stage = s /\ Fresh(s).prog = <<>> /\ Fresh(s).snap = NoFile
         /\ Fresh(s).held = NoFile /\ Fresh(s).root = "sessions"
         /\ Fresh(s).verdict = "absent" /\ Fresh(s).req = "none"
         /\ \A q : LET f == [Fresh(s) EXCEPT !.req = q]
                   IN /\ f.stage = s /\ f.prog = <<>> /\ f.snap = NoFile /\ f.held = NoFile
                      /\ f.root = "sessions" /\ f.verdict = "absent" /\ f.req = q
  BY DEF Fresh

LEMMA RestedAfter ==
  ASSUME TypeOK, NEW a \in Actors, NEW s,
         Becomes(a, Fresh(s)) \/ \E q : Becomes(a, [Fresh(s) EXCEPT !.req = q])
  PROVE  Rested(a, s)
<1>1. CASE Becomes(a, Fresh(s))
  <2>1. Only(a) /\ act'[a] = Fresh(s)
    BY <1>1, BecomesOnly
  <2>q. QED
    BY <2>1, FreshFields DEF Rested
<1>2. ASSUME NEW q, Becomes(a, [Fresh(s) EXCEPT !.req = q])
      PROVE  Rested(a, s)
  <2>1. Only(a) /\ act'[a] = [Fresh(s) EXCEPT !.req = q]
    BY <1>2, BecomesOnly
  <2>q. QED
    BY <2>1, FreshFields DEF Rested
<1>q. QED
  BY <1>1, <1>2

LEMMA FailAfter ==
  ASSUME TypeOK, NEW a \in Actors, Fail(a)
  PROVE  /\ Rested(a, "failed") /\ UNCHANGED <<disk, signalled, context>>
         /\ IF a = "worker" THEN proc' = "dead" /\ child' = AfterWorkerDeath
                            ELSE UNCHANGED <<proc, child>>
<1>1. Becomes(a, [Fresh("failed") EXCEPT !.req = act[a].req])
  BY DEF Fail
<1>2. Rested(a, "failed")
  BY <1>1, RestedAfter
<1>q. QED
  BY <1>2 DEF Fail

LEMMA DoneAfter ==
  ASSUME TypeOK, NEW a \in Actors, Done(a)
  PROVE  Rested(a, "done")
<1>1. Becomes(a, [Fresh("done") EXCEPT !.req = act[a].req])
  BY DEF Done
<1>q. QED
  BY <1>1, RestedAfter

LEMMA GotoAfter ==
  ASSUME TypeOK, NEW a \in Actors, NEW s, NEW p, Goto(a, s, p)
  PROVE  /\ Only(a) /\ Kept(a) /\ Steady
         /\ act'[a].stage = s /\ act'[a].prog = p /\ act'[a].snap = act[a].snap
         /\ act'[a].held = act[a].held /\ act'[a].verdict = act[a].verdict
<1>1. Only(a) /\ act'[a] = [act[a] EXCEPT !.stage = s, !.prog = p]
  BY BecomesOnly DEF Goto
<1>2. act[a] \in Actor
  BY ActorType
<1>q. QED
  BY <1>1, <1>2 DEF Goto, Kept, Steady, Actor

LEMMA BeginAfter ==
  ASSUME TypeOK, NEW h \in Handlers, NEW s, NEW p, NEW q, Begin(h, s, p, q)
  PROVE  /\ Only(h) /\ Steady
         /\ act'[h].stage = s /\ act'[h].prog = p /\ act'[h].snap = NoFile
         /\ act'[h].held = NoFile /\ act'[h].verdict = Found.state
         /\ act'[h].root = FoundRoot /\ act'[h].req = q
<1>1. h \in Actors
  BY DEF Actors
<1>2. Only(h) /\ act'[h] = [Fresh(s) EXCEPT !.prog = p, !.root = FoundRoot,
                              !.verdict = Found.state, !.req = q]
  BY <1>1, BecomesOnly DEF Begin
<1>q. QED
  BY <1>2 DEF Begin, Fresh, Steady

LEMMA SigtermAfter ==
  ASSUME TypeOK, NEW h \in Handlers
  PROVE  /\ PrepareSigterm(h) =>
              /\ Only(h) /\ Kept(h) /\ Steady
              /\ act'[h].stage = "sigterm" /\ act'[h].prog = <<Ev("sigterm")>>
              /\ act'[h].snap = act[h].snap /\ act'[h].held = Here(h).meta
              /\ act'[h].verdict = MetaState(h)
         /\ Sigterm(h) =>
              /\ Only(h) /\ Kept(h) /\ act'[h].stage = "final"
              /\ act'[h].prog = act[h].prog /\ act'[h].snap = act[h].snap
              /\ act'[h].held = act[h].held /\ act'[h].verdict = act[h].verdict
         /\ KillSignal(h) =>
              /\ Only(h) /\ Kept(h) /\ act'[h].stage = "mark"
              /\ act'[h].prog = KillProgram /\ act'[h].snap = act[h].snap
              /\ act'[h].held = act[h].held /\ act'[h].verdict = act[h].verdict
<1>1. h \in Actors /\ act[h] \in Actor
  BY ActorType DEF Actors
<1>2. ASSUME PrepareSigterm(h)
      PROVE  /\ Only(h)
             /\ act'[h] = [act[h] EXCEPT !.stage = "sigterm", !.prog = <<Ev("sigterm")>>,
                                         !.held = Here(h).meta, !.verdict = MetaState(h)]
  BY <1>1, <1>2, BecomesOnly DEF PrepareSigterm
<1>3. ASSUME Sigterm(h)
      PROVE  Only(h) /\ act'[h] = [act[h] EXCEPT !.stage = "final"]
  BY <1>1, <1>3, BecomesOnly DEF Sigterm
<1>4. ASSUME KillSignal(h)
      PROVE  Only(h) /\ act'[h] = [act[h] EXCEPT !.stage = "mark", !.prog = KillProgram]
  BY <1>1, <1>4, BecomesOnly DEF KillSignal
<1>5. ASSUME PrepareSigterm(h)
      PROVE  /\ Kept(h) /\ act'[h].stage = "sigterm" /\ act'[h].prog = <<Ev("sigterm")>>
             /\ act'[h].snap = act[h].snap /\ act'[h].held = Here(h).meta
             /\ act'[h].verdict = MetaState(h)
  BY <1>1, <1>2, <1>5 DEF Actor, Kept
<1>6. PrepareSigterm(h) => Steady
  BY DEF PrepareSigterm, Steady
<1>7. ASSUME Sigterm(h)
      PROVE  /\ Kept(h) /\ act'[h].stage = "final" /\ act'[h].prog = act[h].prog
             /\ act'[h].snap = act[h].snap
             /\ act'[h].held = act[h].held /\ act'[h].verdict = act[h].verdict
  BY <1>1, <1>3, <1>7 DEF Actor, Kept
<1>8. ASSUME KillSignal(h)
      PROVE  /\ Kept(h) /\ act'[h].stage = "mark" /\ act'[h].prog = KillProgram
             /\ act'[h].snap = act[h].snap
             /\ act'[h].held = act[h].held /\ act'[h].verdict = act[h].verdict
  BY <1>1, <1>4, <1>8 DEF Actor, Kept
<1>q. QED
  BY <1>2, <1>3, <1>4, <1>5, <1>6, <1>7, <1>8

-----------------------------------------------------------------------------
\* The five ways to take a step of a program.

Pops(a) == /\ Only(a) /\ Kept(a)
           /\ act'[a].stage = act[a].stage /\ act'[a].prog = Tail(act[a].prog)
           /\ act'[a].snap = NoFile
           /\ act'[a].held = act[a].held /\ act'[a].verdict = act[a].verdict

Reads(a, f) ==
  /\ Next1(a, f) /\ Tag(a) \notin FreshTags /\ ~Exists(act[a].snap)
  /\ Steady /\ Only(a) /\ Kept(a)
  /\ act'[a].stage = act[a].stage /\ act'[a].prog = act[a].prog
  /\ act'[a].held = act[a].held
  /\ \/ /\ Exists(Target(a)) /\ act'[a].snap = Target(a)
        /\ Tag(a) = "reconciled" => Target(a).state \in Active
        /\ act'[a].verdict = IF Tag(a) = "launched" THEN Target(a).state ELSE act[a].verdict
     \/ /\ ~Exists(Target(a)) /\ Tag(a) = "launched"
        /\ act'[a].snap = [NoFile EXCEPT !.state = "starting"]
        /\ act'[a].verdict = "starting"

Writes(a, f) ==
  /\ Next1(a, f) /\ (Tag(a) \in FreshTags \/ Exists(act[a].snap))
  /\ UNCHANGED <<processes, context>> /\ Pops(a)
  /\ \A r \in Roots : r # act[a].root => disk'[r] = disk[r]
  /\ LET new == disk'[act[a].root] old == Here(a)
     IN /\ new[f] = Apply(Tag(a), act[a].snap, act[a].verdict)
        /\ new.events = old.events /\ new.last = old.last
        /\ f = "meta" => new.worker = old.worker
        /\ f = "worker" => new.meta = old.meta

Skips(a, f) ==
  /\ Next1(a, f) /\ Tag(a) \notin FreshTags /\ ~Exists(act[a].snap)
  /\ \/ f = "worker" /\ ~Exists(Target(a))
     \/ Exists(Target(a)) /\ Tag(a) = "reconciled" /\ Target(a).state \notin Active
  /\ Steady /\ Only(a) /\ Kept(a)
  /\ act'[a].stage = act[a].stage
  /\ act'[a].prog = IF f = "worker" THEN Tail(act[a].prog) ELSE <<>>
  /\ act'[a].snap = NoFile
  /\ act'[a].held = act[a].held /\ act'[a].verdict = act[a].verdict

Appends(a) ==
  /\ Next1(a, "events") /\ (Tag(a) \in ReadsMeta => Exists(Here(a).meta))
  /\ UNCHANGED <<processes, context>> /\ Pops(a)
  /\ \A r \in Roots : r # act[a].root => disk'[r] = disk[r]
  /\ LET new == disk'[act[a].root] old == Here(a)
         state == EventState(Tag(a), act[a].verdict, old.meta.state)
     IN /\ new.meta = old.meta /\ new.worker = old.worker /\ new.events # {}
        /\ new.last = IF state \in Terminal THEN state ELSE old.last

LEMMA PopsAfter ==
  ASSUME TypeOK, NEW a \in Actors, Becomes(a, Popped(a))
  PROVE  Pops(a)
<1>1. Only(a) /\ act'[a] = Popped(a)
  BY BecomesOnly
<1>2. act[a] \in Actor
  BY ActorType
<1>q. QED
  BY <1>1, <1>2 DEF Pops, Popped, Kept, Actor

LEMMA StepAfter ==
  ASSUME TypeOK, NEW a \in Actors, Step(a)
  PROVE  \/ \E f \in {"meta", "worker"} : Reads(a, f) \/ Writes(a, f) \/ Skips(a, f)
         \/ Appends(a) \/ FileGone(a)
<1>1. act[a] \in Actor /\ act[a].root \in Roots /\ Here(a) \in Dir
  BY ActorType
<1>2. ASSUME BeginUpdate(a) PROVE \E f \in {"meta", "worker"} : Reads(a, f)
  <2>1. PICK f \in {"meta", "worker"} :
          /\ Next1(a, f) /\ Tag(a) \notin FreshTags /\ ~Exists(act[a].snap)
          /\ \/ /\ Exists(Target(a)) /\ (Tag(a) = "reconciled" => Target(a).state \in Active)
                /\ Becomes(a, [act[a] EXCEPT !.snap = Target(a), !.verdict =
                     IF Tag(a) = "launched" THEN Target(a).state ELSE act[a].verdict])
             \/ /\ ~Exists(Target(a)) /\ Tag(a) = "launched"
                /\ Becomes(a, [act[a] EXCEPT !.snap = [NoFile EXCEPT !.state = "starting"],
                                             !.verdict = "starting"])
    BY <1>2 DEF BeginUpdate
  <2>2. ASSUME NEW s, NEW v, Becomes(a, [act[a] EXCEPT !.snap = s, !.verdict = v])
        PROVE  /\ Only(a) /\ Kept(a)
               /\ act'[a].stage = act[a].stage /\ act'[a].prog = act[a].prog
               /\ act'[a].held = act[a].held /\ act'[a].snap = s /\ act'[a].verdict = v
    <3>1. Only(a) /\ act'[a] = [act[a] EXCEPT !.snap = s, !.verdict = v]
      BY <2>2, BecomesOnly
    <3>q. QED
      BY <1>1, <3>1 DEF Kept, Actor
  <2>3. Steady
    BY <1>2 DEF BeginUpdate, Steady
  <2>4. Reads(a, f)
    BY <2>1, <2>2, <2>3 DEF Reads
  <2>q. QED
    BY <2>1, <2>4
<1>3. ASSUME CommitUpdate(a) PROVE \E f \in {"meta", "worker"} : Writes(a, f)
  <2> DEFINE file == Apply(Tag(a), act[a].snap, act[a].verdict)
  <2>1. PICK f \in {"meta", "worker"} :
          /\ Next1(a, f) /\ (Tag(a) \in FreshTags \/ Exists(act[a].snap))
          /\ disk' = [disk EXCEPT ![act[a].root] = [Here(a) EXCEPT ![f] = file]]
          /\ Becomes(a, Popped(a)) /\ UNCHANGED <<processes, context>>
    BY <1>3 DEF CommitUpdate
  <2> HIDE DEF file
  <2>2. /\ \A r \in Roots : r # act[a].root => disk'[r] = disk[r]
        /\ disk'[act[a].root] = [Here(a) EXCEPT ![f] = file]
    BY <1>1, <2>1 DEF TypeOK
  <2>3. LET new == disk'[act[a].root] old == Here(a)
        IN /\ new[f] = file
           /\ new.events = old.events /\ new.last = old.last
           /\ f = "meta" => new.worker = old.worker
           /\ f = "worker" => new.meta = old.meta
    <3>1. CASE f = "meta"
      BY <1>1, <2>2, <3>1 DEF Dir
    <3>2. CASE f = "worker"
      BY <1>1, <2>2, <3>2 DEF Dir
    <3>q. QED
      BY <3>1, <3>2
  <2>4. Pops(a)
    BY <2>1, PopsAfter
  <2>5. Writes(a, f)
    BY <2>1, <2>2, <2>3, <2>4 DEF Writes, file
  <2>q. QED
    BY <2>1, <2>5
<1>4. ASSUME SkipUpdate(a) PROVE \E f \in {"meta", "worker"} : Skips(a, f)
  <2>1. PICK f \in {"meta", "worker"} :
          /\ Next1(a, f) /\ Tag(a) \notin FreshTags /\ ~Exists(act[a].snap)
          /\ \/ f = "worker" /\ ~Exists(Target(a))
             \/ Exists(Target(a)) /\ Tag(a) = "reconciled" /\ Target(a).state \notin Active
          /\ Becomes(a, IF f = "worker" THEN Popped(a) ELSE [Popped(a) EXCEPT !.prog = <<>>])
          /\ Steady
    BY <1>4 DEF SkipUpdate, Steady
  <2>2. Only(a) /\ act'[a] = IF f = "worker" THEN Popped(a) ELSE [Popped(a) EXCEPT !.prog = <<>>]
    BY <2>1, BecomesOnly
  <2>3. /\ Kept(a) /\ act'[a].stage = act[a].stage
        /\ act'[a].prog = IF f = "worker" THEN Tail(act[a].prog) ELSE <<>>
        /\ act'[a].snap = NoFile
        /\ act'[a].held = act[a].held /\ act'[a].verdict = act[a].verdict
    BY <1>1, <2>2 DEF Popped, Kept, Actor
  <2>4. Skips(a, f)
    BY <2>1, <2>2, <2>3 DEF Skips
  <2>q. QED
    BY <2>1, <2>4
<1>5. ASSUME AppendEvent(a) PROVE Appends(a)
  <2> DEFINE state == EventState(Tag(a), act[a].verdict, Here(a).meta.state)
             last  == IF state \in Terminal THEN state ELSE Here(a).last
  <2>1. /\ Next1(a, "events") /\ (Tag(a) \in ReadsMeta => Exists(Here(a).meta))
        /\ disk' = [disk EXCEPT ![act[a].root] =
             [Here(a) EXCEPT !.events = Here(a).events \cup {EventKind(Tag(a))}, !.last = last]]
        /\ Becomes(a, Popped(a)) /\ UNCHANGED <<processes, context>>
    BY <1>5 DEF AppendEvent
  <2> HIDE DEF state, last
  <2>2. /\ \A r \in Roots : r # act[a].root => disk'[r] = disk[r]
        /\ disk'[act[a].root] =
             [Here(a) EXCEPT !.events = Here(a).events \cup {EventKind(Tag(a))}, !.last = last]
    BY <1>1, <2>1 DEF TypeOK
  <2>3. LET new == disk'[act[a].root] old == Here(a)
        IN /\ new.meta = old.meta /\ new.worker = old.worker /\ new.last = last
           /\ new.events # {}
    BY <1>1, <2>2 DEF Dir
  <2>4. Pops(a)
    BY <2>1, PopsAfter
  <2>q. QED
    BY <2>1, <2>2, <2>3, <2>4 DEF Appends, state, last
<1>q. QED
  BY <1>2, <1>3, <1>4, <1>5 DEF Step

-----------------------------------------------------------------------------
\* The moves of the starter, the worker's main thread, the boot and the host.

LEMMA StarterAfter ==
  ASSUME TypeOK, Starter
  PROVE  \/ /\ StartSession /\ Only("starter") /\ Steady /\ Kept("starter")
            /\ act'["starter"].stage = "create" /\ act'["starter"].prog = CreateProgram
            /\ act'["starter"].snap = act["starter"].snap
            /\ act'["starter"].verdict = act["starter"].verdict
         \/ /\ LaunchWorker /\ UNCHANGED <<disk, child, signalled, context>> /\ proc' = "up"
            /\ \A b \in Actors : b \notin {"starter", "worker"} => act'[b] = act[b]
            /\ act'["starter"].stage = "tail" /\ act'["starter"].prog = LaunchedProgram
            /\ act'["starter"].snap = act["starter"].snap
            /\ act'["starter"].root = act["starter"].root
            /\ act'["starter"].verdict = act["starter"].verdict
            /\ act'["worker"].stage = "boot" /\ act'["worker"].prog = RegisterProgram
            /\ act'["worker"].snap = NoFile /\ act'["worker"].held = NoFile
            /\ act'["worker"].root = "sessions" /\ act'["worker"].verdict = "absent"
         \/ /\ LaunchFails /\ Only("starter") /\ Steady /\ Kept("starter")
            /\ act'["starter"].stage = "tail" /\ act'["starter"].prog = LaunchFailProgram
            /\ act'["starter"].snap = act["starter"].snap
            /\ act'["starter"].verdict = act["starter"].verdict
         \/ StartReturns /\ Rested("starter", "done") /\ Steady
<1>0. {"starter", "worker"} \subseteq Actors /\ act["starter"] \in Actor
  BY ActorType DEF Actors
<1>1. CASE StartSession
  BY <1>0, <1>1, GotoAfter DEF StartSession
<1>2. CASE LaunchWorker
  <2>1. /\ \A b \in Actors : b \notin {"starter", "worker"} => act'[b] = act[b]
        /\ act'["starter"] = [act["starter"] EXCEPT !.stage = "tail", !.prog = LaunchedProgram]
        /\ act'["worker"] = [Fresh("boot") EXCEPT !.prog = RegisterProgram]
    BY <1>0, <1>2 DEF LaunchWorker, TypeOK
  <2>2. /\ act'["starter"].stage = "tail" /\ act'["starter"].prog = LaunchedProgram
        /\ act'["starter"].snap = act["starter"].snap
        /\ act'["starter"].root = act["starter"].root
        /\ act'["starter"].verdict = act["starter"].verdict
    BY <1>0, <2>1 DEF Actor
  <2>3. /\ act'["worker"].stage = "boot" /\ act'["worker"].prog = RegisterProgram
        /\ act'["worker"].snap = NoFile /\ act'["worker"].held = NoFile
        /\ act'["worker"].root = "sessions" /\ act'["worker"].verdict = "absent"
    BY <2>1 DEF Fresh
  <2>q. QED
    BY <1>2, <2>1, <2>2, <2>3 DEF LaunchWorker
<1>3. CASE LaunchFails
  BY <1>0, <1>3, GotoAfter DEF LaunchFails
<1>4. CASE StartReturns
  <2>1. Becomes("starter", Fresh("done"))
    BY <1>4 DEF StartReturns
  <2>q. QED
    BY <1>0, <1>4, <2>1, RestedAfter DEF StartReturns, Steady
<1>q. QED
  BY <1>1, <1>2, <1>3, <1>4 DEF Starter

Exits == IF disk["sessions"].meta.state = "killed" THEN {"killed"} ELSE {"crashed", "exited"}

LEMMA WorkerAfter ==
  ASSUME TypeOK, Worker \/ WorkerCrashes
  PROVE  \/ /\ SpawnChild /\ Only("worker") /\ Kept("worker")
            /\ act'["worker"].stage = "serve" /\ act'["worker"].prog = RunningProgram
            /\ act'["worker"].snap = act["worker"].snap
            /\ act'["worker"].verdict = act["worker"].verdict
         \/ /\ SpawnFails /\ Only("worker") /\ Kept("worker") /\ Steady
            /\ act'["worker"].stage = "failing" /\ act'["worker"].prog = FailStartProgram
            /\ act'["worker"].snap = act["worker"].snap
            /\ act'["worker"].verdict = act["worker"].verdict
         \/ /\ OutputEnds /\ Only("worker") /\ Kept("worker") /\ Steady
            /\ act'["worker"].stage = "drained" /\ act'["worker"].prog = act["worker"].prog
            /\ act'["worker"].snap = act["worker"].snap
            /\ act'["worker"].verdict = act["worker"].verdict
         \/ /\ ReapChild /\ Only("worker") /\ Kept("worker")
            /\ act'["worker"].stage = "reaped" /\ act'["worker"].prog = act["worker"].prog
            /\ act'["worker"].snap = act["worker"].snap
            /\ act'["worker"].verdict = act["worker"].verdict
         \/ /\ Ready("worker", "reaped") /\ Exists(disk["sessions"].meta) /\ Steady
            /\ Only("worker") /\ Kept("worker")
            /\ act'["worker"].stage = "exiting" /\ act'["worker"].prog = ExitProgram
            /\ act'["worker"].snap = act["worker"].snap
            /\ act'["worker"].verdict \in Exits
         \/ /\ \E s \in {"done", "failed", "lost"} : Rested("worker", s)
            /\ proc' = "dead" /\ child' \in {child, AfterWorkerDeath}
            /\ UNCHANGED <<disk, sock, host, history>> /\ crashes'.host = crashes.host
            /\ proc = "up"
<1>0. "worker" \in Actors /\ act["worker"] \in Actor
  BY ActorType DEF Actors
<1>1. CASE SpawnChild
  <2>1. Only("worker")
        /\ act'["worker"] = [act["worker"] EXCEPT !.stage = "serve", !.prog = RunningProgram]
    BY <1>0, <1>1, BecomesOnly DEF SpawnChild
  <2>q. QED
    BY <1>0, <1>1, <2>1 DEF Kept, Actor
<1>2. CASE SpawnFails
  BY <1>0, <1>2, GotoAfter DEF SpawnFails
<1>3. CASE ReapChild
  <2>1. Only("worker") /\ act'["worker"] = [act["worker"] EXCEPT !.stage = "reaped"]
    BY <1>0, <1>3, BecomesOnly DEF ReapChild
  <2>q. QED
    BY <1>0, <1>3, <2>1 DEF Kept, Actor
<1>4. CASE DecideExit /\ Fail("worker")
  <2>1. /\ Rested("worker", "failed") /\ UNCHANGED <<disk, signalled, context>>
        /\ proc' = "dead" /\ child' = AfterWorkerDeath
    BY <1>0, <1>4, FailAfter
  <2>2. proc = "up"
    BY <1>4 DEF DecideExit, Ready, Running
  <2>q. QED
    BY <2>1, <2>2 DEF context
<1>5. CASE DecideExit /\ ~Fail("worker")
  <2> DEFINE v == IF disk["sessions"].meta.state = "killed" THEN "killed"
               ELSE IF signalled /\ ~Pty THEN "crashed" ELSE "exited"
  <2>1. v \in Exits
    <3>1. CASE disk["sessions"].meta.state = "killed"
      BY <3>1 DEF Exits
    <3>2. CASE disk["sessions"].meta.state # "killed"
      BY <3>2 DEF Exits
    <3>q. QED
      BY <3>1, <3>2
  <2>2. /\ Ready("worker", "reaped") /\ Exists(disk["sessions"].meta) /\ Steady
        /\ Becomes("worker", [act["worker"] EXCEPT !.stage = "exiting", !.prog = ExitProgram,
                                                   !.verdict = v])
    BY <1>5 DEF DecideExit, Steady
  <2> HIDE DEF v
  <2>3. Only("worker") /\ act'["worker"] = [act["worker"] EXCEPT
          !.stage = "exiting", !.prog = ExitProgram, !.verdict = v]
    BY <1>0, <2>2, BecomesOnly
  <2>4. /\ Kept("worker") /\ act'["worker"].stage = "exiting"
        /\ act'["worker"].prog = ExitProgram
        /\ act'["worker"].snap = act["worker"].snap /\ act'["worker"].verdict = v
    BY <1>0, <2>3 DEF Kept, Actor
  <2>q. QED
    BY <2>1, <2>2, <2>3, <2>4
<1>6. CASE WorkerExits
  <2>1. Becomes("worker", Fresh("done"))
    BY <1>6 DEF WorkerExits
  <2>2. Rested("worker", "done")
    BY <1>0, <2>1, RestedAfter
  <2>q. QED
    BY <1>6, <2>2 DEF WorkerExits, context, Ready, Running
<1>7. CASE WorkerCrashes
  <2>1. Becomes("worker", Fresh("lost"))
    BY <1>7 DEF WorkerCrashes
  <2>2. Rested("worker", "lost")
    BY <1>0, <2>1, RestedAfter
  <2>3. crashes'.host = crashes.host
    BY <1>7 DEF WorkerCrashes, TypeOK
  <2>q. QED
    BY <1>7, <2>2, <2>3 DEF WorkerCrashes
<1>8. CASE OutputEnds
  <2>1. act["worker"].prog = <<>>
    BY <1>8 DEF OutputEnds, Ready
  <2>q. QED
    BY <1>0, <1>8, <2>1, GotoAfter DEF OutputEnds
<1>q. QED
  BY <1>1, <1>2, <1>3, <1>4, <1>5, <1>6, <1>7, <1>8 DEF Worker

Loaded == LET meta == disk["sessions"].meta worker == disk["sessions"].worker
          IN [worker EXCEPT !.wpid = worker.wpid \/ meta.wpid,
                            !.cpid = worker.cpid \/ meta.cpid]

BootVerdict ==
  Judge(Liveness(act["boot"].held.wpid, proc = "up"),
        Liveness(act["boot"].held.cpid, child \in {"alive", "zombie"}),
        Evidence(act["boot"].held.state, disk["sessions"].last))

LEMMA BootAfter ==
  ASSUME TypeOK, Boot
  PROVE  \/ /\ Ready("boot", "load") /\ disk["sessions"].meta.state \in Active
            /\ Only("boot") /\ Kept("boot") /\ Steady
            /\ act'["boot"].stage = "judge" /\ act'["boot"].prog = act["boot"].prog
            /\ act'["boot"].snap = act["boot"].snap
            /\ act'["boot"].verdict = act["boot"].verdict /\ act'["boot"].held = Loaded
         \/ /\ Ready("boot", "load") /\ disk["sessions"].meta.state \notin Active
            /\ Only("boot") /\ Kept("boot") /\ Steady
            /\ act'["boot"].stage = "finish" /\ act'["boot"].prog = act["boot"].prog
            /\ act'["boot"].snap = act["boot"].snap
            /\ act'["boot"].verdict = act["boot"].verdict
            /\ act'["boot"].held = act["boot"].held
         \/ /\ Ready("boot", "judge")
            /\ Only("boot") /\ Kept("boot") /\ Steady
            /\ act'["boot"].stage = "finish" /\ act'["boot"].verdict = BootVerdict
            /\ act'["boot"].prog = IF BootVerdict = "absent" THEN <<>> ELSE ReconcileProgram
            /\ act'["boot"].snap = act["boot"].snap /\ act'["boot"].held = act["boot"].held
         \/ /\ host = "boot" /\ act["boot"].prog = <<>>
            /\ act["boot"].stage \in {"finish", "failed"} /\ Rested("boot", "idle")
            /\ host' = IF act["boot"].stage = "finish" THEN "up" ELSE "down"
            /\ UNCHANGED <<disk, processes, sock, crashes, history>>
<1>0. "boot" \in Actors /\ act["boot"] \in Actor
  BY ActorType DEF Actors
<1>1. CASE BootLoad /\ disk["sessions"].meta.state \in Active
  <2>1. Becomes("boot", [act["boot"] EXCEPT !.stage = "judge", !.held = Loaded])
    BY <1>1 DEF BootLoad, Loaded
  <2>2. Only("boot") /\ act'["boot"] = [act["boot"] EXCEPT !.stage = "judge", !.held = Loaded]
    BY <1>0, <2>1, BecomesOnly
  <2>3. /\ Kept("boot") /\ act'["boot"].stage = "judge" /\ act'["boot"].prog = act["boot"].prog
        /\ act'["boot"].snap = act["boot"].snap
        /\ act'["boot"].verdict = act["boot"].verdict /\ act'["boot"].held = Loaded
    BY <1>0, <2>2 DEF Actor, Kept
  <2>q. QED
    BY <1>1, <2>2, <2>3 DEF BootLoad, Steady
<1>2. CASE BootLoad /\ disk["sessions"].meta.state \notin Active
  <2>1. Becomes("boot", [act["boot"] EXCEPT !.stage = "finish"])
    BY <1>2 DEF BootLoad
  <2>2. Only("boot") /\ act'["boot"] = [act["boot"] EXCEPT !.stage = "finish"]
    BY <1>0, <2>1, BecomesOnly
  <2>3. /\ Kept("boot") /\ act'["boot"].stage = "finish" /\ act'["boot"].prog = act["boot"].prog
        /\ act'["boot"].snap = act["boot"].snap
        /\ act'["boot"].verdict = act["boot"].verdict
        /\ act'["boot"].held = act["boot"].held
    BY <1>0, <2>2 DEF Actor, Kept
  <2>q. QED
    BY <1>2, <2>2, <2>3 DEF BootLoad, Steady
<1>3. CASE BootJudge
  <2> DEFINE prog == IF BootVerdict = "absent" THEN <<>> ELSE ReconcileProgram
  <2>1. Becomes("boot", [act["boot"] EXCEPT !.stage = "finish", !.verdict = BootVerdict,
                                            !.prog = prog])
    BY <1>3 DEF BootJudge, BootVerdict
  <2> HIDE DEF prog
  <2>2. Only("boot") /\ act'["boot"] = [act["boot"] EXCEPT
          !.stage = "finish", !.verdict = BootVerdict, !.prog = prog]
    BY <1>0, <2>1, BecomesOnly
  <2>3. /\ Kept("boot") /\ act'["boot"].stage = "finish" /\ act'["boot"].prog = prog
        /\ act'["boot"].snap = act["boot"].snap
        /\ act'["boot"].verdict = BootVerdict /\ act'["boot"].held = act["boot"].held
    BY <1>0, <2>2 DEF Actor, Kept
  <2>4. Ready("boot", "judge") /\ Steady
    BY <1>3 DEF BootJudge, Steady
  <2>q. QED
    BY <2>2, <2>3, <2>4 DEF prog
<1>4. CASE BootEnds
  <2>1. Becomes("boot", Fresh("idle"))
    BY <1>4 DEF BootEnds
  <2>2. Rested("boot", "idle")
    BY <1>0, <2>1, RestedAfter
  <2>q. QED
    BY <1>4, <2>2 DEF BootEnds
<1>q. QED
  BY <1>1, <1>2, <1>3, <1>4 DEF Boot

LEMMA HostAfter ==
  ASSUME TypeOK
  PROVE  /\ HostBoot => Rested("boot", "load")
         /\ HostCrash => \A a \in Actors :
              \/ a = "worker" /\ act'[a] = act[a]
              \/ act[a].stage \in {"idle", "done", "failed"} /\ act'[a] = act[a]
              \/ /\ a # "worker" /\ act[a].stage \notin {"idle", "done", "failed"}
                 /\ act'[a].stage = (IF a = "boot" THEN "idle" ELSE "lost")
                 /\ act'[a].prog = <<>> /\ act'[a].snap = NoFile /\ act'[a].held = NoFile
                 /\ act'[a].root = "sessions" /\ act'[a].verdict = "absent"
<1>1. HostBoot => Rested("boot", "load")
  <2>1. "boot" \in Actors
    BY DEF Actors
  <2>q. QED
    BY <2>1, RestedAfter DEF HostBoot
<1>2. ASSUME HostCrash, NEW a \in Actors, a # "worker",
             act[a].stage \notin {"idle", "done", "failed"}
      PROVE  /\ act'[a].stage = (IF a = "boot" THEN "idle" ELSE "lost")
             /\ act'[a].prog = <<>> /\ act'[a].snap = NoFile /\ act'[a].held = NoFile
             /\ act'[a].root = "sessions" /\ act'[a].verdict = "absent"
  <2>1. act'[a] = [Fresh(IF a = "boot" THEN "idle" ELSE "lost") EXCEPT !.req = act[a].req]
    BY <1>2 DEF HostCrash
  <2>q. QED
    BY <2>1, FreshFields
<1>3. ASSUME HostCrash, NEW a \in Actors,
             a = "worker" \/ act[a].stage \in {"idle", "done", "failed"}
      PROVE  act'[a] = act[a]
  BY <1>3 DEF HostCrash
<1>q. QED
  BY <1>1, <1>2, <1>3

-----------------------------------------------------------------------------
(* The code an actor has left to run, by its stage.                           *)

Updates(t, e) == {<<M(t), W(t), Ev(e)>>, <<W(t), Ev(e)>>, <<Ev(e)>>, <<>>}
Records(t, e) == {<<M(t), Ev(e)>>, <<Ev(e)>>, <<>>}
Says(e)       == {<<Ev(e)>>, <<>>}

Stopping == {"stop", "millrace", "native", "interrupt", "blocked", "waiting", "fallback", "sigterm", "final"}
Marking  == {"mark", "remark"}
Removing == {"remove", "purge", "rename", "finish"}
Resting  == {"idle", "done", "failed", "lost"}

StarterCode(stage) ==
  CASE stage = "create" -> Records("created", "note")
    [] stage = "tail"   -> Records("launched", "launched")
                             \cup Records("launch_failed", "launch_failed")
    [] OTHER            -> {<<>>}
WorkerCode(stage) ==
  CASE stage = "boot"    -> {<<M("registered"), W("fresh")>>, <<W("fresh")>>, <<>>}
    [] stage = "serve"   -> Updates("running", "started")
    [] stage = "failing" -> Updates("failed_start", "failed_start")
    [] stage = "exiting" -> Updates("exited", "exited")
    [] OTHER             -> {<<>>}
BootCode(stage) ==
  CASE stage = "finish" -> Updates("reconciled", "reconciled")
    [] OTHER            -> {<<>>}
HandlerCode(stage) ==
  CASE stage = "stop"     -> Updates("stop", "stop")
    [] stage \in Marking  -> Updates("killed", "killed")
    [] stage \in {"millrace", "native"} -> Says("note")
    [] stage = "sigterm"  -> Says("sigterm")
    [] stage = "kill"     -> Says("kill")
    [] stage \in {"purge", "rename", "finish"} -> Says("deleted")
    [] OTHER              -> {<<>>}

CodeOK ==
  /\ act["starter"].stage \in {"create", "tail"} \cup Resting
  /\ act["starter"].prog \in StarterCode(act["starter"].stage)
  /\ act["starter"].root = "sessions"
  /\ act["worker"].stage \in {"off", "boot", "serve", "drained", "reaped", "exiting", "failing",
                              "done", "failed", "lost"}
  /\ act["worker"].prog \in WorkerCode(act["worker"].stage)
  /\ act["worker"].root = "sessions"
  /\ act["boot"].stage \in {"idle", "load", "judge", "finish", "failed"}
  /\ act["boot"].prog \in BootCode(act["boot"].stage)
  /\ act["boot"].root = "sessions"
  /\ \A h \in Handlers :
       /\ act[h].stage \in Stopping \cup Marking \cup Removing \cup Resting \cup {"kill"}
       /\ act[h].prog \in HandlerCode(act[h].stage)

\* What an actor has read, it is about to write.
SnapOK == \A a \in Actors :
  IF Exists(act[a].snap)
    THEN /\ act[a].prog # <<>> /\ Tag(a) \notin FreshTags
         /\ Head(act[a].prog).file \in {"meta", "worker"}
    ELSE act[a].snap = NoFile

LEMMA Tuples ==
  /\ \A x : Head(<<x>>) = x /\ Tail(<<x>>) = <<>> /\ <<x>> # <<>>
  /\ \A x, y : Head(<<x, y>>) = x /\ Tail(<<x, y>>) = <<y>> /\ <<x, y>> # <<>>
  /\ \A x, y, z : /\ Head(<<x, y, z>>) = x /\ Tail(<<x, y, z>>) = <<y, z>>
                  /\ <<x, y, z>> # <<>>
<1>1. \A x : Head(<<x>>) = x /\ Tail(<<x>>) = <<>> /\ <<x>> # <<>>
  OBVIOUS
<1>2. \A x, y : Head(<<x, y>>) = x /\ Tail(<<x, y>>) = <<y>> /\ <<x, y>> # <<>>
  OBVIOUS
<1>3. \A x, y, z : Head(<<x, y, z>>) = x /\ Tail(<<x, y, z>>) = <<y, z>> /\ <<x, y, z>> # <<>>
  OBVIOUS
<1>q. QED
  BY <1>1, <1>2, <1>3

LEMMA Lengths ==
  \A x, y, z, u, v, w : /\ <<y, z>> # <<u, v, w>> /\ <<z>> # <<u, v, w>> /\ <<>> # <<u, v, w>>
                        /\ <<z>> # <<v, w>> /\ <<>> # <<v, w>> /\ <<>> # <<w>>
<1> SUFFICES ASSUME NEW x, NEW y, NEW z, NEW u, NEW v, NEW w
             PROVE  /\ <<y, z>> # <<u, v, w>> /\ <<z>> # <<u, v, w>> /\ <<>> # <<u, v, w>>
                    /\ <<z>> # <<v, w>> /\ <<>> # <<v, w>> /\ <<>> # <<w>>
  OBVIOUS
<1>1. Len(<<>>) = 0 /\ Len(<<z>>) = 1 /\ Len(<<y, z>>) = 2 /\ Len(<<w>>) = 1
      /\ Len(<<v, w>>) = 2 /\ Len(<<u, v, w>>) = 3
  OBVIOUS
<1>q. QED
  BY <1>1

LEMMA UpdatesTail ==
  ASSUME NEW t, NEW e, NEW p \in Updates(t, e), p # <<>>
  PROVE  /\ Tail(p) \in Updates(t, e)
         /\ \/ /\ Head(p) = M(t) /\ p = <<M(t), W(t), Ev(e)>>
               /\ Tail(p) = <<W(t), Ev(e)>>
            \/ Head(p) = W(t) /\ Tail(p) = <<Ev(e)>>
            \/ Head(p) = Ev(e) /\ Tail(p) = <<>>
<1>2. CASE p = <<M(t), W(t), Ev(e)>>
  <2>1. Head(p) = M(t) /\ Tail(p) = <<W(t), Ev(e)>>
    BY <1>2, Tuples
  <2>q. QED
    BY <1>2, <2>1 DEF Updates
<1>3. CASE p = <<W(t), Ev(e)>>
  <2>1. Head(p) = W(t) /\ Tail(p) = <<Ev(e)>>
    BY <1>3, Tuples
  <2>q. QED
    BY <2>1 DEF Updates
<1>4. CASE p = <<Ev(e)>>
  BY <1>4, Tuples DEF Updates
<1>q. QED
  BY <1>2, <1>3, <1>4 DEF Updates

LEMMA RecordsTail ==
  ASSUME NEW t, NEW e, NEW p \in Records(t, e), p # <<>>
  PROVE  /\ Tail(p) \in Records(t, e)
         /\ \/ Head(p) = M(t) /\ p = <<M(t), Ev(e)>> /\ Tail(p) = <<Ev(e)>>
            \/ Head(p) = Ev(e) /\ p = <<Ev(e)>> /\ Tail(p) = <<>>
<1>2. CASE p = <<M(t), Ev(e)>>
  <2>1. Head(p) = M(t) /\ Tail(p) = <<Ev(e)>>
    BY <1>2, Tuples
  <2>q. QED
    BY <1>2, <2>1 DEF Records
<1>3. CASE p = <<Ev(e)>>
  BY <1>3, Tuples DEF Records
<1>q. QED
  BY <1>2, <1>3 DEF Records

LEMMA SaysTail ==
  ASSUME NEW e, NEW p \in Says(e), p # <<>>
  PROVE  Tail(p) = <<>> /\ Head(p) = Ev(e)
  BY Tuples DEF Says

LEMMA StarterAhead ==
  ASSUME CodeOK, act["starter"].prog # <<>>
  PROVE  LET s == act["starter"].stage p == act["starter"].prog
         IN /\ Tail(p) \in StarterCode(s)
            /\ \/ s = "create" /\ p = CreateProgram /\ Head(p) = M("created")
                  /\ Tail(p) = <<Ev("note")>>
               \/ s = "create" /\ Head(p) = Ev("note") /\ Tail(p) = <<>>
               \/ s = "tail" /\ p = LaunchedProgram /\ Head(p) = M("launched")
                  /\ Tail(p) = <<Ev("launched")>>
               \/ s = "tail" /\ Head(p) = Ev("launched") /\ Tail(p) = <<>>
               \/ s = "tail" /\ p = LaunchFailProgram /\ Head(p) = M("launch_failed")
                  /\ Tail(p) = <<Ev("launch_failed")>>
               \/ s = "tail" /\ p = <<Ev("launch_failed")>> /\ Head(p) = Ev("launch_failed")
                  /\ Tail(p) = <<>>
<1> DEFINE s == act["starter"].stage
           p == act["starter"].prog
<1>0. p \in StarterCode(s) /\ p # <<>>
  BY DEF CodeOK
<1> HIDE DEF p, s
<1>1. ASSUME NEW t, NEW e, p \in Records(t, e), Records(t, e) \subseteq StarterCode(s)
      PROVE  /\ Tail(p) \in StarterCode(s)
             /\ \/ p = <<M(t), Ev(e)>> /\ Head(p) = M(t) /\ Tail(p) = <<Ev(e)>>
                \/ p = <<Ev(e)>> /\ Head(p) = Ev(e) /\ Tail(p) = <<>>
  <2>1. /\ Tail(p) \in Records(t, e)
        /\ \/ Head(p) = M(t) /\ p = <<M(t), Ev(e)>> /\ Tail(p) = <<Ev(e)>>
           \/ Head(p) = Ev(e) /\ p = <<Ev(e)>> /\ Tail(p) = <<>>
    BY <1>0, <1>1, RecordsTail
  <2>q. QED
    BY <1>1, <2>1
<1>2. CASE s = "create"
  <2>1. StarterCode(s) = Records("created", "note")
    BY <1>2 DEF StarterCode
  <2>q. QED
    BY <1>0, <1>1, <1>2, <2>1 DEF CreateProgram, p, s
<1>3. CASE s = "tail"
  <2>1. StarterCode(s) = Records("launched", "launched")
                           \cup Records("launch_failed", "launch_failed")
    BY <1>3 DEF StarterCode
  <2>2. CASE p \in Records("launched", "launched")
    BY <1>1, <1>3, <2>1, <2>2 DEF LaunchedProgram, p, s
  <2>3. CASE p \in Records("launch_failed", "launch_failed")
    BY <1>1, <1>3, <2>1, <2>3 DEF LaunchFailProgram, p, s
  <2>q. QED
    BY <1>0, <2>1, <2>2, <2>3
<1>q. QED
  BY <1>0, <1>2, <1>3 DEF StarterCode

LEMMA WorkerAhead ==
  ASSUME CodeOK, act["worker"].prog # <<>>
  PROVE  LET s == act["worker"].stage p == act["worker"].prog
         IN /\ Tail(p) \in WorkerCode(s)
            /\ \/ s = "boot" /\ p = RegisterProgram /\ Head(p) = M("registered")
                  /\ Tail(p) = <<W("fresh")>>
               \/ s = "boot" /\ p = <<W("fresh")>> /\ Head(p) = W("fresh") /\ Tail(p) = <<>>
               \/ \E t \in {<<"serve", "running", "started">>,
                            <<"failing", "failed_start", "failed_start">>,
                            <<"exiting", "exited", "exited">>} :
                    /\ s = t[1]
                    /\ \/ Head(p) = M(t[2]) /\ Tail(p) = <<W(t[2]), Ev(t[3])>>
                       \/ Head(p) = W(t[2]) /\ Tail(p) = <<Ev(t[3])>>
                       \/ Head(p) = Ev(t[3]) /\ Tail(p) = <<>>
<1> DEFINE s == act["worker"].stage
           p == act["worker"].prog
<1>0. p \in WorkerCode(s) /\ p # <<>>
  BY DEF CodeOK
<1> HIDE DEF p, s
<1>1. CASE s = "boot"
  <2>1. CASE p = <<M("registered"), W("fresh")>>
    <3>1. Head(p) = M("registered") /\ Tail(p) = <<W("fresh")>>
      BY <2>1, Tuples
    <3>q. QED
      BY <1>1, <2>1, <3>1 DEF WorkerCode, RegisterProgram, p, s
  <2>2. CASE p = <<W("fresh")>>
    <3>1. Head(p) = W("fresh") /\ Tail(p) = <<>>
      BY <2>2, Tuples
    <3>q. QED
      BY <1>1, <2>2, <3>1 DEF WorkerCode, p, s
  <2>q. QED
    BY <1>0, <1>1, <2>1, <2>2 DEF WorkerCode
<1>2. ASSUME NEW g, NEW t, NEW e, s = g, <<g, t, e>> \in {<<"serve", "running", "started">>,
                            <<"failing", "failed_start", "failed_start">>,
                            <<"exiting", "exited", "exited">>}
      PROVE  /\ Tail(p) \in WorkerCode(s)
             /\ \/ Head(p) = M(t) /\ Tail(p) = <<W(t), Ev(e)>>
                \/ Head(p) = W(t) /\ Tail(p) = <<Ev(e)>>
                \/ Head(p) = Ev(e) /\ Tail(p) = <<>>
  <2>1. WorkerCode(s) = Updates(t, e)
    BY <1>2 DEF WorkerCode
  <2>q. QED
    BY <1>0, <2>1, UpdatesTail
<1>3. s \in {"serve", "failing", "exiting"} \/ s = "boot"
  BY <1>0 DEF WorkerCode
<1>4. CASE s = "serve"
  BY <1>2, <1>4 DEF p, s
<1>5. CASE s = "failing"
  BY <1>2, <1>5, SMTT(30) DEF p, s
<1>6. CASE s = "exiting"
  BY <1>2, <1>6 DEF p, s
<1>q. QED
  BY <1>1, <1>3, <1>4, <1>5, <1>6 DEF p, s

LEMMA BootAhead ==
  ASSUME CodeOK, act["boot"].prog # <<>>
  PROVE  LET p == act["boot"].prog
         IN /\ act["boot"].stage = "finish"
            /\ Tail(p) \in BootCode("finish")
            /\ \/ p = ReconcileProgram /\ Head(p) = M("reconciled")
                  /\ Tail(p) = <<W("reconciled"), Ev("reconciled")>>
               \/ Head(p) = W("reconciled") /\ Tail(p) = <<Ev("reconciled")>>
               \/ Head(p) = Ev("reconciled") /\ Tail(p) = <<>>
<1>1. act["boot"].stage = "finish"
  BY DEF CodeOK, BootCode
<1>2. act["boot"].prog \in Updates("reconciled", "reconciled")
  BY <1>1 DEF CodeOK, BootCode
<1>q. QED
  BY <1>1, <1>2, UpdatesTail DEF BootCode, ReconcileProgram

LEMMA HandlerAhead ==
  ASSUME CodeOK, NEW h \in Handlers, act[h].prog # <<>>
  PROVE  LET s == act[h].stage p == act[h].prog
         IN /\ Tail(p) \in HandlerCode(s)
            /\ \/ s = "stop" /\ Head(p) \in {M("stop"), W("stop"), Ev("stop")}
               \/ s \in Marking /\ Head(p) \in {M("killed"), W("killed"), Ev("killed")}
               \/ s \in {"millrace", "native"} /\ Head(p) = Ev("note")
               \/ s = "sigterm" /\ Head(p) = Ev("sigterm")
               \/ s = "kill" /\ Head(p) = Ev("kill")
               \/ s \in {"purge", "rename", "finish"} /\ Head(p) = Ev("deleted")
<1> DEFINE s == act[h].stage
           p == act[h].prog
<1>0. p \in HandlerCode(s) /\ p # <<>>
  BY DEF CodeOK
<1> HIDE DEF p, s
<1>1. CASE s = "stop"
  <2>1. HandlerCode(s) = Updates("stop", "stop")
    BY <1>1 DEF HandlerCode, Marking
  <2>q. QED
    BY <1>0, <1>1, <2>1, UpdatesTail DEF p, s
<1>2. CASE s \in Marking
  <2>1. HandlerCode(s) = Updates("killed", "killed")
    BY <1>2 DEF HandlerCode, Marking
  <2>2. Tail(p) \in HandlerCode(s) /\ Head(p) \in {M("killed"), W("killed"), Ev("killed")}
    BY <1>0, <2>1, UpdatesTail
  <2>q. QED
    BY <1>2, <2>2 DEF p, s
<1>3. ASSUME NEW e, HandlerCode(s) = Says(e)
      PROVE  Tail(p) \in HandlerCode(s) /\ Head(p) = Ev(e)
  BY <1>0, <1>3, SaysTail DEF Says
<1>4. CASE s \in {"millrace", "native"}
  BY <1>3, <1>4 DEF HandlerCode, Marking, p, s
<1>5. CASE s = "sigterm"
  BY <1>3, <1>5 DEF HandlerCode, Marking, p, s
<1>6. CASE s = "kill"
  BY <1>3, <1>6 DEF HandlerCode, Marking, p, s
<1>7. CASE s \in {"purge", "rename", "finish"}
  BY <1>3, <1>7 DEF HandlerCode, Marking, p, s
<1>q. QED
  BY <1>0, <1>1, <1>2, <1>4, <1>5, <1>6, <1>7 DEF HandlerCode

-----------------------------------------------------------------------------
\* What a handler does between the steps of its programs.

Turns(h) ==
  /\ Only(h) /\ Kept(h) /\ Steady
  /\ host = "up" /\ act[h].prog = <<>> /\ act'[h].prog \in HandlerCode(act'[h].stage)
  /\ act'[h].snap = act[h].snap /\ act'[h].held = act[h].held
  /\ act'[h].verdict = act[h].verdict
  /\ \/ /\ act[h].stage \in Stopping \cup Marking
        /\ act'[h].stage \in (Stopping \ {"sigterm", "final"}) \cup Marking \cup {"remove"}
     \/ act[h].stage = "remove" /\ act'[h].stage \in {"purge", "rename", "finish"}

Ends(h) == Steady /\ (Rested(h, "done") \/ Rested(h, "failed"))

LEMMA HandlerAfter ==
  ASSUME TypeOK, NEW h \in Handlers, Handler(h) \/ Awaited(h)
  PROVE  \/ Turns(h) \/ Ends(h) \/ PrepareSigterm(h) \/ Sigterm(h) \/ KillSignal(h)
         \/ Purge(h) \/ Archive(h)
<1>0. h \in Actors /\ h \notin {"starter", "worker", "boot"}
  BY LifecycleAssumption DEF Actors
<1>1. ASSUME Fail(h) PROVE Ends(h)
  BY <1>0, <1>1, FailAfter DEF Ends, Steady, processes
<1>2. ASSUME Answer(h) PROVE Ends(h)
  BY <1>0, <1>2, DoneAfter DEF Answer, Ends, Steady
<1>3. ASSUME NEW t, NEW s, NEW p, Ready(h, t), Goto(h, s, p), p \in HandlerCode(s),
             \/ /\ t \in Stopping \cup Marking
                /\ s \in (Stopping \ {"sigterm", "final"}) \cup Marking \cup {"remove"}
             \/ t = "remove" /\ s \in {"purge", "rename", "finish"}
      PROVE  Turns(h)
  <2>1. /\ Only(h) /\ Kept(h) /\ Steady
        /\ act'[h].stage = s /\ act'[h].prog = p /\ act'[h].snap = act[h].snap
        /\ act'[h].held = act[h].held /\ act'[h].verdict = act[h].verdict
    BY <1>0, <1>3, GotoAfter
  <2>2. host = "up" /\ act[h].prog = <<>> /\ act[h].stage = t
    BY <1>0, <1>3 DEF Ready, Running
  <2>q. QED
    BY <1>3, <2>1, <2>2 DEF Turns
<1>4. /\ \A s \in {"interrupt", "blocked", "waiting", "fallback", "remove"} :
           <<>> \in HandlerCode(s)
      /\ \A s \in {"millrace", "native"} : <<Ev("note")>> \in HandlerCode(s)
      /\ <<>> \in HandlerCode("native") /\ KillProgram \in HandlerCode("remark")
      /\ \A s \in {"purge", "rename", "finish"} : <<Ev("deleted")>> \in HandlerCode(s)
  BY DEF HandlerCode, Marking, Says, Updates, KillProgram
<1>5. CASE AskMillrace(h)
  BY <1>3, <1>4, <1>5 DEF AskMillrace, Stopping
<1>6. CASE NativeStopIgnored(h) \/ Interrupt(h) \/ InterruptBlocks(h) \/ InterruptIgnored(h)
            \/ Awaited(h)
  BY <1>3, <1>4, <1>6 DEF NativeStopIgnored, Interrupt, InterruptBlocks, InterruptIgnored,
     Awaited, MillraceAnswers, ChildReads, Stopping
<1>7. CASE StopAnswers(h) \/ StopMetaGone(h) \/ KillFails(h) \/ ArchiveFails(h)
            \/ ArchivedAlready(h)
  BY <1>1, <1>2, <1>7 DEF StopAnswers, StopMetaGone, KillFails, ArchiveFails, ArchivedAlready
<1>8. CASE SettleKilled(h) \/ Killed(h)
  BY <1>2, <1>3, <1>4, <1>8 DEF SettleKilled, Killed, Marking
<1>9. CASE BeginRemoval(h)
  BY <1>3, <1>4, <1>9 DEF BeginRemoval
<1>q. QED
  BY <1>5, <1>6, <1>7, <1>8, <1>9 DEF Handler

Begins(h) ==
  /\ Only(h) /\ Steady
  /\ Ready(h, "idle") /\ Exists(Found)
  /\ act'[h].snap = NoFile /\ act'[h].held = NoFile
  /\ act'[h].verdict = Found.state /\ act'[h].root = FoundRoot
  /\ \/ /\ act'[h].stage = "stop" /\ act'[h].prog = StopProgram /\ Found.state = "running"
     \/ /\ act'[h].stage = "kill" /\ act'[h].prog = <<Ev("kill")>>
        /\ Found.state \in Active \cup {"orphaned"}
     \/ /\ act'[h].stage = "remove" /\ act'[h].prog = <<>>
        /\ Found.state \notin Active \cup {"orphaned"}

LEMMA RequestAfter ==
  ASSUME TypeOK, NEW h \in Handlers, Request(h)
  PROVE  Begins(h)
<1>1. PICK s, p, q :
        /\ Begin(h, s, p, q)
        /\ \/ s = "stop" /\ p = StopProgram /\ Found.state = "running"
           \/ s = "kill" /\ p = <<Ev("kill")>> /\ Found.state \in Active \cup {"orphaned"}
           \/ s = "remove" /\ p = <<>> /\ Found.state \notin Active \cup {"orphaned"}
  <2>1. CASE BeginStop(h)
    BY <2>1 DEF BeginStop
  <2>2. CASE BeginKill(h)
    BY <2>2 DEF BeginKill, Active
  <2>3. ASSUME NEW how, BeginDelete(h, how)
        PROVE  \E s, p, q :
                 /\ Begin(h, s, p, q)
                 /\ \/ s = "kill" /\ p = <<Ev("kill")>>
                       /\ Found.state \in Active \cup {"orphaned"}
                    \/ s = "remove" /\ p = <<>>
                       /\ Found.state \notin Active \cup {"orphaned"}
    <3>1. CASE Begin(h, "kill", <<Ev("kill")>>, how) /\ Found.state \in Active \cup {"orphaned"}
      BY <3>1
    <3>2. CASE Begin(h, "remove", <<>>, how) /\ Found.state \notin Active \cup {"orphaned"}
      BY <3>2
    <3>q. QED
      BY <2>3, <3>1, <3>2 DEF BeginDelete
  <2>q. QED
    BY <2>1, <2>2, <2>3 DEF Request
<1>2. /\ Only(h) /\ Steady
      /\ act'[h].stage = s /\ act'[h].prog = p /\ act'[h].snap = NoFile
      /\ act'[h].held = NoFile /\ act'[h].verdict = Found.state
      /\ act'[h].root = FoundRoot
  BY <1>1, BeginAfter
<1>3. Ready(h, "idle") /\ Exists(Found)
  BY <1>1 DEF Begin
<1>q. QED
  BY <1>1, <1>2, <1>3 DEF Begins

CodeAt(a) ==
  IF a = "starter" THEN
       /\ act[a].stage \in {"create", "tail"} \cup Resting
       /\ act[a].prog \in StarterCode(act[a].stage) /\ act[a].root = "sessions"
  ELSE IF a = "worker" THEN
       /\ act[a].stage \in {"off", "boot", "serve", "drained", "reaped", "exiting", "failing",
                            "done", "failed", "lost"}
       /\ act[a].prog \in WorkerCode(act[a].stage) /\ act[a].root = "sessions"
  ELSE IF a = "boot" THEN
       /\ act[a].stage \in {"idle", "load", "judge", "finish", "failed"}
       /\ act[a].prog \in BootCode(act[a].stage) /\ act[a].root = "sessions"
  ELSE /\ act[a].stage \in Stopping \cup Marking \cup Removing \cup Resting \cup {"kill"}
       /\ act[a].prog \in HandlerCode(act[a].stage)

LEMMA ActorNames ==
  /\ {"starter", "worker", "boot"} \subseteq Actors /\ Handlers \subseteq Actors
  /\ \A a \in Actors : a \in Handlers <=> a \notin {"starter", "worker", "boot"}
  BY LifecycleAssumption DEF Actors

LEMMA CodeOKIsCodeAt == CodeOK <=> \A a \in Actors : CodeAt(a)
<1>1. ASSUME CodeOK, NEW a \in Actors PROVE CodeAt(a)
  BY <1>1, ActorNames DEF CodeOK, CodeAt
<1>2. ASSUME \A a \in Actors : CodeAt(a) PROVE CodeOK
  <2>1. CodeAt("starter") /\ CodeAt("worker") /\ CodeAt("boot") /\ \A h \in Handlers : CodeAt(h)
    BY <1>2, ActorNames
  <2>2. \A h \in Handlers : h \notin {"starter", "worker", "boot"}
    BY ActorNames
  <2>q. QED
    BY <2>1, <2>2 DEF CodeOK, CodeAt
<1>q. QED
  BY <1>1, <1>2

LEMMA CodeNext == CodeOK' <=> \A a \in Actors : CodeAt(a)'
<1>1. ASSUME CodeOK', NEW a \in Actors PROVE CodeAt(a)'
  BY <1>1, ActorNames DEF CodeOK, CodeAt
<1>2. ASSUME \A a \in Actors : CodeAt(a)' PROVE CodeOK'
  <2>1. CodeAt("starter")' /\ CodeAt("worker")' /\ CodeAt("boot")' /\ \A h \in Handlers : CodeAt(h)'
    BY <1>2, ActorNames
  <2>2. \A h \in Handlers : h \notin {"starter", "worker", "boot"}
    BY ActorNames
  <2>q. QED
    BY <2>1, <2>2 DEF CodeOK, CodeAt
<1>q. QED
  BY <1>1, <1>2

LEMMA CodeFrame ==
  ASSUME CodeOK, NEW a \in Actors, act'[a] = act[a]
  PROVE  CodeAt(a)'
<1>1. CodeAt(a)
  BY CodeOKIsCodeAt
<1>q. QED
  BY <1>1 DEF CodeAt

LEMMA CodeOnly ==
  ASSUME CodeOK, NEW a \in Actors, Only(a), CodeAt(a)'
  PROVE  CodeOK'
<1>1. \A b \in Actors : CodeAt(b)'
  BY CodeFrame DEF Only
<1>q. QED
  BY <1>1, CodeNext

LEMMA EmptyCode ==
  \A s : /\ <<>> \in StarterCode(s) /\ <<>> \in WorkerCode(s) /\ <<>> \in BootCode(s)
         /\ <<>> \in HandlerCode(s)
<1> SUFFICES ASSUME NEW s
             PROVE  /\ <<>> \in StarterCode(s) /\ <<>> \in WorkerCode(s)
                    /\ <<>> \in BootCode(s) /\ <<>> \in HandlerCode(s)
  OBVIOUS
<1>1. <<>> \in StarterCode(s)
  BY DEF StarterCode, Records
<1>2. <<>> \in WorkerCode(s)
  BY DEF WorkerCode, Updates
<1>3. <<>> \in BootCode(s)
  BY DEF BootCode, Updates
<1>4. <<>> \in HandlerCode(s)
  BY DEF HandlerCode, Updates, Says, Marking
<1>q. QED
  BY <1>1, <1>2, <1>3, <1>4

LEMMA RestedCode ==
  ASSUME NEW a \in Actors, NEW s, Rested(a, s),
         \/ a = "starter" /\ s \in Resting
         \/ a = "worker" /\ s \in {"done", "failed", "lost"}
         \/ a = "boot" /\ s \in {"idle", "load", "failed"}
         \/ a \in Handlers /\ s \in Resting
  PROVE  CodeAt(a)'
<1>1. act'[a].stage = s /\ act'[a].prog = <<>> /\ act'[a].root = "sessions"
  BY DEF Rested
<1>q. QED
  BY <1>1, EmptyCode, ActorNames DEF CodeAt

LEMMA StepCode ==
  ASSUME TypeOK, CodeOK, NEW a \in Actors, Step(a)
  PROVE  CodeOK'
<1>1. CodeAt(a)
  BY CodeOKIsCodeAt
<1>2. ASSUME act'[a].stage = act[a].stage, act'[a].root = act[a].root,
             act'[a].prog \in {act[a].prog, <<>>}
      PROVE  CodeAt(a)'
  BY <1>1, <1>2, EmptyCode DEF CodeAt
<1>3. ASSUME act'[a].stage = act[a].stage, act'[a].root = act[a].root,
             act[a].prog # <<>>, act'[a].prog = Tail(act[a].prog)
      PROVE  CodeAt(a)'
  <2>1. CASE a = "starter"
    BY <1>1, <1>3, <2>1, StarterAhead DEF CodeAt
  <2>2. CASE a = "worker"
    BY <1>1, <1>3, <2>2, WorkerAhead DEF CodeAt
  <2>3. CASE a = "boot"
    BY <1>1, <1>3, <2>3, BootAhead DEF CodeAt
  <2>4. CASE a \in Handlers
    <3>1. Tail(act[a].prog) \in HandlerCode(act[a].stage)
      BY <1>3, <2>4, HandlerAhead
    <3>q. QED
      BY <1>1, <1>3, <2>4, <3>1, ActorNames DEF CodeAt
  <2>q. QED
    BY <2>1, <2>2, <2>3, <2>4, ActorNames
<1>4. ASSUME NEW f, Reads(a, f) PROVE Only(a) /\ CodeAt(a)'
  BY <1>2, <1>4 DEF Reads, Kept
<1>5. ASSUME NEW f, Writes(a, f) PROVE Only(a) /\ CodeAt(a)'
  BY <1>3, <1>5 DEF Writes, Pops, Kept, Next1
<1>6. ASSUME NEW f, Skips(a, f) PROVE Only(a) /\ CodeAt(a)'
  BY <1>2, <1>3, <1>6 DEF Skips, Kept, Next1
<1>7. CASE Appends(a)
  BY <1>3, <1>7, CodeOnly DEF Appends, Pops, Kept, Next1
<1>8. CASE FileGone(a)
  <2>1. Rested(a, "failed")
    BY <1>8, FailAfter DEF FileGone
  <2>2. CodeAt(a)'
    BY <2>1, RestedCode, ActorNames DEF Resting
  <2>q. QED
    BY <2>1, <2>2, CodeOnly DEF Rested
<1>q. QED
  BY <1>4, <1>5, <1>6, <1>7, <1>8, StepAfter, CodeOnly

LEMMA StarterCodeKept ==
  ASSUME TypeOK, CodeOK, Starter PROVE CodeOK'
<1>0. CodeAt("starter") /\ CodeAt("worker") /\ "starter" \in Actors /\ "worker" \in Actors
  BY CodeOKIsCodeAt, ActorNames
<1>1. act["starter"].root = "sessions"
  BY <1>0 DEF CodeAt
<1>2. /\ CreateProgram \in StarterCode("create") /\ LaunchedProgram \in StarterCode("tail")
      /\ LaunchFailProgram \in StarterCode("tail") /\ RegisterProgram \in WorkerCode("boot")
  BY DEF StarterCode, WorkerCode, Records, CreateProgram, LaunchedProgram, LaunchFailProgram,
     RegisterProgram
<1>3. CASE /\ Only("starter") /\ Kept("starter")
           /\ \/ act'["starter"].stage = "create" /\ act'["starter"].prog = CreateProgram
              \/ act'["starter"].stage = "tail" /\ act'["starter"].prog = LaunchFailProgram
  <2>1. CodeAt("starter")'
    BY <1>1, <1>2, <1>3 DEF CodeAt, Kept
  <2>q. QED
    BY <1>0, <1>3, <2>1, CodeOnly
<1>4. CASE /\ \A b \in Actors : b \notin {"starter", "worker"} => act'[b] = act[b]
           /\ act'["starter"].stage = "tail" /\ act'["starter"].prog = LaunchedProgram
           /\ act'["starter"].root = act["starter"].root
           /\ act'["worker"].stage = "boot" /\ act'["worker"].prog = RegisterProgram
           /\ act'["worker"].root = "sessions"
  <2>1. CodeAt("starter")' /\ CodeAt("worker")'
    BY <1>1, <1>2, <1>4 DEF CodeAt
  <2>2. \A b \in Actors : CodeAt(b)'
    BY <1>4, <2>1, CodeFrame
  <2>q. QED
    BY <2>2, CodeNext
<1>5. CASE Rested("starter", "done")
  <2>1. CodeAt("starter")'
    BY <1>0, <1>5, RestedCode DEF Resting
  <2>q. QED
    BY <1>0, <1>5, <2>1, CodeOnly DEF Rested
<1>q. QED
  BY <1>3, <1>4, <1>5, StarterAfter

LEMMA WorkerCodeKept ==
  ASSUME TypeOK, CodeOK, Worker \/ WorkerCrashes PROVE CodeOK'
<1>0. CodeAt("worker") /\ "worker" \in Actors
  BY CodeOKIsCodeAt, ActorNames
<1>1. act["worker"].root = "sessions"
  BY <1>0 DEF CodeAt
<1>2. /\ RunningProgram \in WorkerCode("serve") /\ FailStartProgram \in WorkerCode("failing")
      /\ ExitProgram \in WorkerCode("exiting")
  BY DEF WorkerCode, Updates, RunningProgram, FailStartProgram, ExitProgram
<1>3. ASSUME Only("worker"), Kept("worker"),
             \/ act'["worker"].stage = "serve" /\ act'["worker"].prog = RunningProgram
             \/ act'["worker"].stage = "failing" /\ act'["worker"].prog = FailStartProgram
             \/ act'["worker"].stage = "exiting" /\ act'["worker"].prog = ExitProgram
             \/ act'["worker"].stage \in {"drained", "reaped"} /\ act'["worker"].prog = <<>>
      PROVE  CodeOK'
  <2>1. CodeAt("worker")'
    BY <1>1, <1>2, <1>3, EmptyCode DEF CodeAt, Kept
  <2>q. QED
    BY <1>0, <1>3, <2>1, CodeOnly
<1>4. ASSUME NEW s \in {"done", "failed", "lost"}, Rested("worker", s) PROVE CodeOK'
  <2>1. CodeAt("worker")'
    BY <1>0, <1>4, RestedCode
  <2>q. QED
    BY <1>0, <1>4, <2>1, CodeOnly DEF Rested
<1>5. OutputEnds \/ ReapChild => act["worker"].prog = <<>>
  BY DEF OutputEnds, ReapChild, Ready
<1>q. QED
  BY <1>3, <1>4, <1>5, WorkerAfter

LEMMA BootCodeKept ==
  ASSUME TypeOK, CodeOK, Boot PROVE CodeOK'
<1>0. CodeAt("boot") /\ "boot" \in Actors
  BY CodeOKIsCodeAt, ActorNames
<1>1. act["boot"].root = "sessions"
  BY <1>0 DEF CodeAt
<1>2. ReconcileProgram \in BootCode("finish")
  BY DEF BootCode, Updates, ReconcileProgram
<1>3. ASSUME Only("boot"), Kept("boot"), act'["boot"].stage \in {"judge", "finish"},
             \/ act'["boot"].prog = <<>>
             \/ act'["boot"].stage = "finish" /\ act'["boot"].prog = ReconcileProgram
      PROVE  CodeOK'
  <2>1. CodeAt("boot")'
    BY <1>1, <1>2, <1>3, EmptyCode DEF CodeAt, Kept
  <2>q. QED
    BY <1>0, <1>3, <2>1, CodeOnly
<1>4. CASE Rested("boot", "idle")
  <2>1. CodeAt("boot")'
    BY <1>0, <1>4, RestedCode
  <2>q. QED
    BY <1>0, <1>4, <2>1, CodeOnly DEF Rested
<1>5. Ready("boot", "load") => act["boot"].prog = <<>>
  BY DEF Ready
<1>q. QED
  BY <1>3, <1>4, <1>5, BootAfter

LEMMA HandlerCodeKept ==
  ASSUME TypeOK, CodeOK, NEW h \in Handlers, Request(h) \/ Handler(h) \/ Awaited(h)
  PROVE  CodeOK'
<1>0. CodeAt(h) /\ h \in Actors /\ h \notin {"starter", "worker", "boot"}
  BY CodeOKIsCodeAt, ActorNames
<1>1. ASSUME Only(h), act'[h].prog \in HandlerCode(act'[h].stage),
             act'[h].stage \in Stopping \cup Marking \cup Removing \cup Resting \cup {"kill"}
      PROVE  CodeOK'
  <2>1. CodeAt(h)'
    BY <1>0, <1>1 DEF CodeAt
  <2>q. QED
    BY <1>0, <1>1, <2>1, CodeOnly
<1>2. ASSUME Rested(h, "done") \/ Rested(h, "failed") PROVE CodeOK'
  <2>1. CodeAt(h)'
    BY <1>0, <1>2, RestedCode DEF Resting
  <2>q. QED
    BY <1>0, <1>2, <2>1, CodeOnly DEF Rested
<1>3. CASE Turns(h)
  BY <1>1, <1>3 DEF Turns, Removing
<1>4. CASE Ends(h)
  BY <1>2, <1>4 DEF Ends
<1>5. CASE PrepareSigterm(h)
  <2>1. <<Ev("sigterm")>> \in HandlerCode("sigterm")
    BY DEF HandlerCode, Says, Marking
  <2>q. QED
    BY <1>1, <1>5, <2>1, SigtermAfter DEF Stopping
<1>6. CASE Sigterm(h)
  <2>1. act[h].prog = <<>>
    BY <1>6 DEF Sigterm, Ready
  <2>q. QED
    BY <1>1, <1>6, <2>1, SigtermAfter, EmptyCode DEF Stopping
<1>7. CASE KillSignal(h)
  <2>1. KillProgram \in HandlerCode("mark")
    BY DEF HandlerCode, Updates, Marking, KillProgram
  <2>q. QED
    BY <1>1, <1>7, <2>1, SigtermAfter DEF Marking
<1>8. CASE Purge(h) \/ Archive(h)
  BY <1>0, <1>2, <1>8, DoneAfter DEF Purge, Archive
<1>9. CASE Request(h)
  <2>1. /\ StopProgram \in HandlerCode("stop") /\ <<Ev("kill")>> \in HandlerCode("kill")
    BY DEF HandlerCode, Updates, Says, Marking, StopProgram
  <2>q. QED
    BY <1>1, <1>9, <2>1, RequestAfter, EmptyCode DEF Begins, Stopping, Removing
<1>q. QED
  BY <1>3, <1>4, <1>5, <1>6, <1>7, <1>8, <1>9, HandlerAfter

LEMMA CodeInit == Init => CodeOK
<1> SUFFICES ASSUME Init, NEW a \in Actors PROVE CodeAt(a)
  BY CodeOKIsCodeAt
<1>1. act[a] = Fresh(IF a = "worker" THEN "off" ELSE "idle")
  BY DEF Init
<1>2. /\ act[a].stage = (IF a = "worker" THEN "off" ELSE "idle")
      /\ act[a].prog = <<>> /\ act[a].root = "sessions"
  BY <1>1, FreshFields
<1>q. QED
  BY <1>2, EmptyCode DEF CodeAt, Resting

LEMMA CodeKept == ASSUME TypeOK, CodeOK, [Next]_vars PROVE CodeOK'
<1>1. CASE UNCHANGED act
  BY <1>1, CodeFrame, CodeNext
<1>2. CASE HostCrash
  <2>1. ASSUME NEW a \in Actors PROVE CodeAt(a)'
    <3>1. CASE act'[a] = act[a]
      BY <3>1, CodeFrame
    <3>2. CASE act'[a] # act[a]
      <4>1. /\ a # "worker" /\ act'[a].stage = (IF a = "boot" THEN "idle" ELSE "lost")
            /\ act'[a].prog = <<>> /\ act'[a].root = "sessions"
        BY <1>2, <3>2, HostAfter
      <4>q. QED
        BY <4>1, EmptyCode, ActorNames DEF CodeAt, Resting
    <3>q. QED
      BY <3>1, <3>2
  <2>q. QED
    BY <2>1, CodeNext
<1>3. CASE HostBoot
  <2>1. Rested("boot", "load") /\ "boot" \in Actors
    BY <1>3, HostAfter, ActorNames
  <2>2. CodeAt("boot")'
    BY <2>1, RestedCode
  <2>q. QED
    BY <2>1, <2>2, CodeOnly DEF Rested
<1>4. RecordOutput \/ ChildEnds => UNCHANGED act
  BY DEF RecordOutput, ChildEnds
<1>q. QED
  BY <1>1, <1>2, <1>3, <1>4, StepCode, StarterCodeKept, WorkerCodeKept, BootCodeKept,
     HandlerCodeKept DEF Next, vars

-----------------------------------------------------------------------------
\* A copy of a file is made by a read, and by nothing else.

LEMMA EmptyHanded ==
  ASSUME SnapOK, NEW a \in Actors, act[a].prog = <<>>
  PROVE  act[a].snap = NoFile
  BY DEF SnapOK

LEMMA SnapFrame ==
  ASSUME NEW a \in Actors, Only(a), act'[a].snap = NoFile
  PROVE  \A b \in Actors : act'[b].snap = NoFile \/ act'[b] = act[b]
  BY DEF Only

LEMMA SnapAfter ==
  ASSUME TypeOK, SnapOK, [Next]_vars, NEW a \in Actors
  PROVE  \/ act'[a].snap = NoFile \/ act'[a] = act[a]
         \/ \E f \in {"meta", "worker"} : Reads(a, f)
<1> DEFINE Goal ==
     \/ act'[a].snap = NoFile \/ act'[a] = act[a]
     \/ \E f \in {"meta", "worker"} : Reads(a, f)
<1>0. /\ {"starter", "worker", "boot"} \subseteq Actors /\ Handlers \subseteq Actors
  BY ActorNames
<1>1. CASE UNCHANGED act
  BY <1>1
<1>2. ASSUME NEW b \in Actors, Step(b) PROVE Goal
  <2>1. ASSUME NEW f \in {"meta", "worker"}, Reads(b, f) PROVE Goal
    BY <2>1 DEF Reads, Only
  <2>2. ASSUME NEW f \in {"meta", "worker"}, Writes(b, f) \/ Skips(b, f) PROVE Goal
    BY <2>2 DEF Writes, Skips, Pops, Only
  <2>3. CASE Appends(b)
    BY <2>3 DEF Appends, Pops, Only
  <2>4. CASE FileGone(b)
    BY <2>4, FailAfter DEF FileGone, Rested, Only
  <2>q. QED
    BY <1>2, <2>1, <2>2, <2>3, <2>4, StepAfter
<1>3. CASE Starter
  <2>1. act["starter"].prog = <<>>
    BY <1>3 DEF Starter, StartSession, LaunchWorker, LaunchFails, StartReturns, Ready
  <2>2. act["starter"].snap = NoFile
    BY <1>0, <2>1, EmptyHanded
  <2>q. QED
    BY <1>0, <1>3, <2>2, StarterAfter DEF Only, Rested
<1>4. CASE Worker \/ WorkerCrashes
  <2>1. SpawnChild \/ SpawnFails \/ OutputEnds \/ ReapChild \/ Ready("worker", "reaped")
          => act["worker"].snap = NoFile
    BY <1>0, EmptyHanded DEF SpawnChild, SpawnFails, OutputEnds, ReapChild, Ready
  <2>q. QED
    BY <1>0, <1>4, <2>1, WorkerAfter DEF Only, Rested
<1>5. CASE Boot
  <2>1. Ready("boot", "load") \/ Ready("boot", "judge") => act["boot"].snap = NoFile
    BY <1>0, EmptyHanded DEF Ready
  <2>q. QED
    BY <1>0, <1>5, <2>1, BootAfter DEF Only, Rested
<1>6. ASSUME NEW h \in Handlers, Request(h) PROVE Goal
  BY <1>0, <1>6, RequestAfter, SnapFrame DEF Begins
<1>7. ASSUME NEW h \in Handlers, Handler(h) \/ Awaited(h) PROVE Goal
  <2>1. CASE Rested(h, "done") \/ Rested(h, "failed")
    BY <1>0, <2>1 DEF Rested, Only
  <2>2. CASE Turns(h) \/ PrepareSigterm(h) \/ Sigterm(h) \/ KillSignal(h)
    <3>1. act[h].prog = <<>>
      BY <2>2 DEF Turns, PrepareSigterm, Sigterm, KillSignal, Ready
    <3>2. act[h].snap = NoFile
      BY <1>0, <3>1, EmptyHanded
    <3>3. Only(h) /\ act'[h].snap = act[h].snap
      BY <2>2, SigtermAfter DEF Turns
    <3>q. QED
      BY <3>2, <3>3 DEF Only
  <2>3. CASE Purge(h) \/ Archive(h)
    BY <1>0, <2>1, <2>3, DoneAfter DEF Purge, Archive
  <2>q. QED
    BY <1>7, <2>1, <2>2, <2>3, HandlerAfter DEF Ends
<1>8. CASE HostCrash
  BY <1>8, HostAfter
<1>9. CASE HostBoot
  BY <1>9, HostAfter DEF Rested, Only
<1>10. RecordOutput \/ ChildEnds => UNCHANGED act
  BY DEF RecordOutput, ChildEnds
<1>q. QED
  BY <1>1, <1>2, <1>3, <1>4, <1>5, <1>6, <1>7, <1>8, <1>9, <1>10 DEF Next, vars

LEMMA StateExists ==
  /\ ~Exists(NoFile) /\ Exists([NoFile EXCEPT !.state = "starting"])
  /\ \A t, f, v : t \in MetaTags \cup WorkerTags /\ v \in States
       /\ (t \notin FreshTags => Exists(f)) /\ (t \in {"exited", "reconciled"} => v # "absent")
       => Exists(Apply(t, f, v))
<1>1. ~Exists(NoFile) /\ Exists([NoFile EXCEPT !.state = "starting"])
  BY DEF Exists, NoFile
<1>2. ASSUME NEW t \in MetaTags \cup WorkerTags, NEW f, NEW v, t \notin FreshTags => Exists(f),
             t \in {"exited", "reconciled"} => v # "absent"
      PROVE  Exists(Apply(t, f, v))
  <2>1. Apply(t, f, v).state = NewState(t, f.state, v)
    BY DEF Apply
  <2>2. NewState(t, f.state, v) # "absent"
    <3>1. CASE t \in FreshTags
      BY <3>1 DEF NewState, FreshTags
    <3>2. CASE t \notin FreshTags
      BY <1>2, <3>2 DEF NewState, FreshTags, Exists
    <3>q. QED
      BY <3>1, <3>2
  <2>q. QED
    BY <2>1, <2>2 DEF Exists
<1>q. QED
  BY <1>1, <1>2

LEMMA SnapInit == Init => SnapOK
<1> SUFFICES ASSUME Init, NEW a \in Actors PROVE act[a].snap = NoFile
  BY StateExists DEF SnapOK
<1>1. act[a] = Fresh(IF a = "worker" THEN "off" ELSE "idle")
  BY DEF Init
<1>q. QED
  BY <1>1, FreshFields

LEMMA SnapKept == ASSUME TypeOK, SnapOK, [Next]_vars PROVE SnapOK'
<1> SUFFICES ASSUME NEW a \in Actors
             PROVE  IF Exists(act'[a].snap)
                      THEN /\ act'[a].prog # <<>> /\ Tag(a)' \notin FreshTags
                           /\ Head(act'[a].prog).file \in {"meta", "worker"}
                      ELSE act'[a].snap = NoFile
  BY DEF SnapOK
<1>1. CASE act'[a].snap = NoFile
  BY <1>1, StateExists
<1>2. CASE act'[a] = act[a]
  BY <1>2 DEF SnapOK, Tag
<1>3. ASSUME NEW f \in {"meta", "worker"}, Reads(a, f), act'[a].snap # NoFile
      PROVE  /\ Exists(act'[a].snap)
             /\ act'[a].prog # <<>> /\ Tag(a)' \notin FreshTags
             /\ Head(act'[a].prog).file \in {"meta", "worker"}
  BY <1>3, StateExists DEF Reads, Next1, Tag
<1>q. QED
  BY <1>1, <1>2, <1>3, SnapAfter

-----------------------------------------------------------------------------
\* What a step does to a file.

FileWritten(a, r, f) ==
  /\ Writes(a, f) /\ act[a].root = r
  /\ disk'[r][f] = Apply(Tag(a), act[a].snap, act[a].verdict)
FileRemoved(h, r) ==
  \/ Purge(h) /\ act[h].root = r /\ disk'[r] = NoDir
  \/ Archive(h) /\ r = "sessions" /\ disk'[r] = NoDir
FileMoved(h, r) == Archive(h) /\ r = "archive" /\ disk'[r] = disk["sessions"]

LEMMA DiskSteady ==
  ASSUME TypeOK, [Next]_vars
  PROVE  \/ disk' = disk \/ RecordOutput
         \/ \E a \in Actors : Appends(a) \/ \E f \in {"meta", "worker"} : Writes(a, f)
         \/ \E h \in Handlers : Purge(h) \/ Archive(h)
<1> DEFINE Goal ==
     \/ disk' = disk \/ RecordOutput
     \/ \E a \in Actors : Appends(a) \/ \E f \in {"meta", "worker"} : Writes(a, f)
     \/ \E h \in Handlers : Purge(h) \/ Archive(h)
<1>1. ASSUME NEW a \in Actors, Step(a) PROVE Goal
  BY <1>1, StepAfter, FailAfter DEF Reads, Skips, Steady, FileGone
<1>2. Starter \/ Worker \/ WorkerCrashes \/ Boot => disk' = disk
  BY WorkerAfter, StarterAfter, BootAfter
     DEF Steady, SpawnChild, OutputEnds, ReapChild, StartReturns
<1>3. ASSUME NEW h \in Handlers, Request(h) PROVE disk' = disk
  BY <1>3, RequestAfter DEF Begins, Steady
<1>4. ASSUME NEW h \in Handlers, Handler(h) \/ Awaited(h)
      PROVE  disk' = disk \/ Purge(h) \/ Archive(h)
  BY <1>4, HandlerAfter DEF Turns, Ends, Steady, PrepareSigterm, Sigterm, KillSignal
<1>5. HostCrash \/ HostBoot \/ ChildEnds => disk' = disk
  BY DEF HostCrash, HostBoot, ChildEnds
<1>6. UNCHANGED vars => disk' = disk
  BY DEF vars
<1>q. QED
  BY <1>1, <1>2, <1>3, <1>4, <1>5, <1>6 DEF Next

LEMMA FileAfter ==
  ASSUME TypeOK, [Next]_vars, NEW r \in Roots, NEW f \in {"meta", "worker"}
  PROVE  \/ disk'[r][f] = disk[r][f]
         \/ \E a \in Actors : FileWritten(a, r, f)
         \/ \E h \in Handlers : FileRemoved(h, r) \/ FileMoved(h, r)
<1>0. disk \in [Roots -> Dir] /\ r \in {"sessions", "archive"}
  BY DEF TypeOK, Roots
<1>1. CASE RecordOutput
  <2>1. disk["sessions"] \in Dir
    BY <1>0 DEF Roots
  <2>2. disk' = [disk EXCEPT !["sessions"] =
       [disk["sessions"] EXCEPT !.events = disk["sessions"].events \cup {"other"}]]
    BY <1>1 DEF RecordOutput
  <2>3. CASE r = "sessions"
    <3>1. disk'[r] = [disk["sessions"] EXCEPT !.events = disk["sessions"].events \cup {"other"}]
      BY <1>0, <2>2, <2>3
    <3>2. disk'[r].meta = disk[r].meta /\ disk'[r].worker = disk[r].worker
      BY <2>1, <2>3, <3>1 DEF Dir
    <3>q. QED
      BY <3>2
  <2>4. CASE r # "sessions"
    BY <1>0, <2>2, <2>4
  <2>q. QED
    BY <2>3, <2>4
<1>2. ASSUME NEW a \in Actors, Appends(a) PROVE disk'[r][f] = disk[r][f]
  <2>1. CASE r = act[a].root
    <3>1. disk'[r].meta = disk[r].meta /\ disk'[r].worker = disk[r].worker
      BY <1>2, <2>1 DEF Appends, Here
    <3>q. QED
      BY <3>1
  <2>2. CASE r # act[a].root
    BY <1>2, <2>2 DEF Appends
  <2>q. QED
    BY <2>1, <2>2
<1>3. ASSUME NEW a \in Actors, NEW g \in {"meta", "worker"}, Writes(a, g)
      PROVE  disk'[r][f] = disk[r][f] \/ FileWritten(a, r, f)
  <2>1. CASE r = act[a].root /\ f = g
    BY <1>3, <2>1 DEF Writes, FileWritten
  <2>2. CASE r = act[a].root /\ f # g
    <3>1. /\ g = "meta" => disk'[r].worker = disk[r].worker
          /\ g = "worker" => disk'[r].meta = disk[r].meta
      BY <1>3, <2>2 DEF Writes, Here
    <3>2. CASE g = "meta"
      BY <2>2, <3>1, <3>2
    <3>3. CASE g = "worker"
      BY <2>2, <3>1, <3>3
    <3>q. QED
      BY <3>2, <3>3
  <2>3. CASE r # act[a].root
    BY <1>3, <2>3 DEF Writes
  <2>q. QED
    BY <2>1, <2>2, <2>3
<1>4. ASSUME NEW h \in Handlers, Purge(h) PROVE disk'[r] = disk[r] \/ FileRemoved(h, r)
  <2>1. disk' = [disk EXCEPT ![act[h].root] = NoDir]
    BY <1>4 DEF Purge
  <2>2. r # act[h].root => disk'[r] = disk[r]
    BY <1>0, <2>1
  <2>3. r = act[h].root => disk'[r] = NoDir
    BY <1>0, <2>1
  <2>q. QED
    BY <1>4, <2>2, <2>3 DEF FileRemoved
<1>5. ASSUME NEW h \in Handlers, Archive(h) PROVE FileRemoved(h, r) \/ FileMoved(h, r)
  <2>1. disk' = [disk EXCEPT !["archive"] = disk["sessions"], !["sessions"] = NoDir]
    BY <1>5 DEF Archive
  <2>2. CASE r = "sessions"
    BY <1>0, <1>5, <2>1, <2>2 DEF FileRemoved, Roots
  <2>3. CASE r = "archive"
    BY <1>0, <1>5, <2>1, <2>3 DEF FileMoved, Roots
  <2>q. QED
    BY <1>0, <2>2, <2>3
<1>q. QED
  BY <1>1, <1>2, <1>3, <1>4, <1>5, DiskSteady

-----------------------------------------------------------------------------
(* A file that is absent holds nothing.                                      *)

NoFiles == \A r \in Roots : \A f \in {"meta", "worker"} : 
             ~Exists(disk[r][f]) => disk[r][f] = NoFile

-----------------------------------------------------------------------------
\* Who can change what.

LEMMA StepOnly ==
  ASSUME TypeOK, NEW a \in Actors, Step(a)
  PROVE  /\ Only(a) /\ UNCHANGED context /\ UNCHANGED signalled
         /\ \/ UNCHANGED <<proc, child>>
            \/ a = "worker" /\ FileGone(a) /\ proc' = "dead" /\ child' = AfterWorkerDeath
<1>1. CASE FileGone(a)
  BY <1>1, FailAfter DEF FileGone, Rested
<1>q. QED
  BY <1>1, StepAfter DEF Reads, Writes, Skips, Appends, Pops, Steady, processes

LEMMA RequestOnly ==
  ASSUME TypeOK, NEW h \in Handlers, Request(h) PROVE Only(h) /\ Steady
  BY RequestAfter DEF Begins

LEMMA HandlerOnly ==
  ASSUME TypeOK, NEW h \in Handlers, Handler(h) \/ Awaited(h)
  PROVE  /\ Only(h) /\ UNCHANGED <<host, crashes>>
         /\ history'.atBoot = history.atBoot
         /\ \/ UNCHANGED proc /\ child' = child
            \/ UNCHANGED proc /\ child = "alive" /\ child' = Dead
            \/ Sigterm(h) /\ ~act[h].held.cpid /\ proc = "up" /\ proc' = "dead"
               /\ child' = AfterWorkerDeath
            \/ KillSignal(h) /\ ~Here(h).meta.cpid /\ ~Serving(h)
               /\ proc = "up" /\ proc' = "dead" /\ child' = AfterWorkerDeath
         /\ history.purged => history'.purged
         /\ history'.purged => history.purged \/ Purge(h)
<1>0. h \in Actors /\ history \in [atBoot : {"none", "live", "dead"},
                                    sigkilled : BOOLEAN, purged : BOOLEAN]
  BY ActorNames DEF TypeOK
<1>1. CASE Turns(h) \/ Ends(h)
  <2>1. ~Purge(h) \/ history'.purged
    BY <1>0 DEF Purge
  <2>2. Only(h) /\ UNCHANGED <<host, crashes, proc, child, history>>
    BY <1>1 DEF Turns, Ends, Steady, context, processes, Rested
  <2>q. QED
    BY <1>0, <2>1, <2>2
<1>2. CASE PrepareSigterm(h)
  <2>1. ~Purge(h)
    BY <1>2 DEF Purge, PrepareSigterm, Ready
  <2>q. QED
    BY <1>0, <1>2, <2>1, SigtermAfter DEF Steady, context, processes
<1>3. CASE Sigterm(h)
  <2>1. ~Purge(h)
    BY <1>3 DEF Purge, Sigterm, Ready
  <2>q. QED
    BY <1>0, <1>3, <2>1, SigtermAfter DEF Sigterm, context
<1>4. CASE KillSignal(h)
  <2>1. ~Purge(h)
    BY <1>4 DEF Purge, KillSignal, Ready
  <2>2. history'.atBoot = history.atBoot /\ history'.purged = history.purged
    BY <1>0, <1>4 DEF KillSignal
  <2>q. QED
    BY <1>0, <1>4, <2>1, <2>2, SigtermAfter DEF KillSignal, processes
<1>5. CASE Purge(h)
  <2>1. history'.atBoot = history.atBoot /\ history'.purged
    BY <1>0, <1>5 DEF Purge
  <2>q. QED
    BY <1>0, <1>5, <2>1, DoneAfter DEF Purge, Rested, processes
<1>6. CASE Archive(h)
  <2>1. ~Purge(h)
    BY <1>6 DEF Archive, Purge, Ready
  <2>q. QED
    BY <1>0, <1>6, <2>1, DoneAfter DEF Archive, Rested, processes
<1>q. QED
  BY <1>1, <1>2, <1>3, <1>4, <1>5, <1>6, HandlerAfter

LEMMA RestOnly ==
  ASSUME TypeOK
  PROVE  /\ Starter => LaunchWorker \/ (Only("starter") /\ Steady)
         /\ Worker \/ WorkerCrashes => Only("worker") /\ UNCHANGED <<host, history>>
                                       /\ crashes'.host = crashes.host
         /\ Boot => Only("boot") /\ UNCHANGED <<processes, crashes, history>>
         /\ RecordOutput => UNCHANGED <<act, processes, context>>
         /\ ChildEnds => UNCHANGED <<act, proc, context>> /\ child = "alive" /\ child' = Dead
         /\ HostBoot => Only("boot") /\ UNCHANGED processes
         /\ HostCrash => UNCHANGED processes
<1>1. Starter => LaunchWorker \/ (Only("starter") /\ Steady)
  BY StarterAfter DEF Rested
<1>2. Worker \/ WorkerCrashes => Only("worker")
  BY WorkerAfter DEF Rested
<1>3. Worker \/ WorkerCrashes => UNCHANGED <<host, history>> /\ crashes'.host = crashes.host
  BY WorkerAfter DEF Steady, context, SpawnChild, OutputEnds, ReapChild
<1>4. Boot => Only("boot") /\ UNCHANGED <<processes, crashes, history>>
  BY BootAfter DEF Steady, context, Rested
<1>5. HostBoot => Only("boot") /\ UNCHANGED processes
  BY HostAfter DEF HostBoot, Rested
<1>q. QED
  BY <1>1, <1>2, <1>3, <1>4, <1>5 DEF RecordOutput, ChildEnds, HostCrash

LEMMA WorkerFrame ==
  ASSUME TypeOK, [Next]_vars
  PROVE  \/ act'["worker"] = act["worker"] \/ Step("worker") \/ LaunchWorker
         \/ Worker \/ WorkerCrashes
<1>0. "worker" \in Actors /\ \A h \in Handlers : h # "worker"
  BY ActorNames
<1>1. UNCHANGED vars => UNCHANGED act
  BY DEF vars
<1>2. HostCrash => act'["worker"] = act["worker"]
  BY <1>0, HostAfter
<1>q. QED
  BY <1>0, <1>1, <1>2, StepOnly, RequestOnly, HandlerOnly, RestOnly DEF Next, Only

LEMMA StarterFrame ==
  ASSUME TypeOK, [Next]_vars
  PROVE  act'["starter"] = act["starter"] \/ Step("starter") \/ Starter \/ HostCrash
<1>0. "starter" \in Actors /\ \A h \in Handlers : h # "starter"
  BY ActorNames
<1>1. UNCHANGED vars => UNCHANGED act
  BY DEF vars
<1>q. QED
  BY <1>0, <1>1, StepOnly, RequestOnly, HandlerOnly, RestOnly DEF Next, Only

LEMMA BootFrame ==
  ASSUME TypeOK, [Next]_vars
  PROVE  act'["boot"] = act["boot"] \/ Step("boot") \/ Boot \/ HostCrash \/ HostBoot
<1>0. "boot" \in Actors /\ \A h \in Handlers : h # "boot"
  BY ActorNames
<1>1. UNCHANGED vars => UNCHANGED act
  BY DEF vars
<1>2. LaunchWorker => act'["boot"] = act["boot"]
  BY <1>0 DEF LaunchWorker, TypeOK
<1>q. QED
  BY <1>0, <1>1, <1>2, StepOnly, RequestOnly, HandlerOnly, RestOnly DEF Next, Only

LEMMA HandlerFrame ==
  ASSUME TypeOK, [Next]_vars, NEW h \in Handlers
  PROVE  \/ act'[h] = act[h] \/ Step(h) \/ Request(h) \/ Handler(h) \/ Awaited(h)
         \/ HostCrash
<1>0. h \in Actors /\ h \notin {"starter", "worker", "boot"}
  BY ActorNames
<1>1. UNCHANGED vars => UNCHANGED act
  BY DEF vars
<1>2. LaunchWorker => act'[h] = act[h]
  BY <1>0 DEF LaunchWorker, TypeOK
<1>3. ASSUME NEW g \in Handlers, g # h, Request(g) \/ Handler(g) \/ Awaited(g)
      PROVE  act'[h] = act[h]
  BY <1>0, <1>3, RequestOnly, HandlerOnly DEF Only
<1>4. ASSUME NEW a \in Actors, a # h, Step(a) PROVE act'[h] = act[h]
  BY <1>0, <1>4, StepOnly DEF Only
<1>5. (Starter /\ ~LaunchWorker) \/ Worker \/ WorkerCrashes \/ Boot \/ HostBoot
        \/ RecordOutput \/ ChildEnds => act'[h] = act[h]
  BY <1>0, RestOnly DEF Only
<1>q. QED
  BY <1>1, <1>2, <1>3, <1>4, <1>5 DEF Next

LEMMA ProcFrame ==
  ASSUME TypeOK, [Next]_vars
  PROVE  \/ proc' = proc
         \/ LaunchWorker /\ proc' = "up" /\ child' = child
         \/ proc = "up" /\ proc' = "dead" /\ child' \in {child, AfterWorkerDeath}
<1> DEFINE Goal ==
     \/ proc' = proc
     \/ LaunchWorker /\ proc' = "up" /\ child' = child
     \/ proc = "up" /\ proc' = "dead" /\ child' \in {child, AfterWorkerDeath}
<1>1. UNCHANGED vars => UNCHANGED proc
  BY DEF vars
<1>2. ASSUME NEW a \in Actors, Step(a), proc' # proc PROVE Goal
  <2>1. a = "worker" /\ FileGone(a) /\ proc' = "dead" /\ child' = AfterWorkerDeath
    BY <1>2, StepOnly
  <2>2. proc = "up"
    BY <2>1 DEF FileGone, Next1, Running
  <2>q. QED
    BY <2>1, <2>2
<1>3. ASSUME NEW h \in Handlers, Request(h) \/ Handler(h) \/ Awaited(h) PROVE Goal
  BY <1>3, RequestOnly, HandlerOnly DEF Steady, processes
<1>4. CASE Starter
  BY <1>4, StarterAfter DEF Steady, processes
<1>5. CASE Worker \/ WorkerCrashes
  BY <1>5, WorkerAfter DEF Steady, processes, SpawnChild, OutputEnds, ReapChild
<1>6. Boot \/ RecordOutput \/ ChildEnds \/ HostBoot \/ HostCrash => proc' = proc
  BY RestOnly DEF processes
<1>q. QED
  BY <1>1, <1>2, <1>3, <1>4, <1>5, <1>6 DEF Next

LEMMA ChildFrame ==
  ASSUME TypeOK, [Next]_vars
  PROVE  \/ child' = child \/ SpawnChild
         \/ child = "alive" /\ child' \in {"zombie", "dead"}
         \/ child = "zombie" /\ child' = "dead"
<1> DEFINE Goal ==
     \/ child' = child \/ SpawnChild
     \/ child = "alive" /\ child' \in {"zombie", "dead"}
     \/ child = "zombie" /\ child' = "dead"
<1>0. /\ Dead \in {"zombie", "dead"}
      /\ \/ AfterWorkerDeath = child
         \/ child = "zombie" /\ AfterWorkerDeath = "dead"
  <2>1. Dead \in {"zombie", "dead"}
    BY DEF Dead
  <2>2. CASE child = "zombie"
    BY <2>1, <2>2 DEF AfterWorkerDeath
  <2>3. CASE child # "zombie"
    BY <2>1, <2>3 DEF AfterWorkerDeath
  <2>q. QED
    BY <2>2, <2>3
<1>1. UNCHANGED vars => UNCHANGED child
  BY DEF vars
<1>2. ASSUME NEW a \in Actors, Step(a) PROVE Goal
  BY <1>0, <1>2, StepOnly
<1>3. ASSUME NEW h \in Handlers, Request(h) \/ Handler(h) \/ Awaited(h) PROVE Goal
  BY <1>0, <1>3, RequestOnly, HandlerOnly DEF Steady, processes
<1>4. CASE Starter
  BY <1>4, StarterAfter DEF Steady, processes
<1>5. CASE Worker \/ WorkerCrashes
  BY <1>0, <1>5, WorkerAfter DEF Steady, processes, ReapChild
<1>6. Boot \/ RecordOutput \/ HostBoot \/ HostCrash => child' = child
  BY RestOnly DEF processes
<1>7. CASE ChildEnds
  BY <1>0, <1>7 DEF ChildEnds
<1>q. QED
  BY <1>1, <1>2, <1>3, <1>4, <1>5, <1>6, <1>7 DEF Next

LEMMA HostFrame ==
  ASSUME TypeOK, [Next]_vars
  PROVE  /\ \/ UNCHANGED host /\ crashes'.host = crashes.host /\ history'.atBoot = history.atBoot
            \/ /\ HostCrash /\ host # "down" /\ host' = "down"
               /\ crashes'.host = crashes.host + 1 /\ UNCHANGED history
            \/ HostBoot /\ host = "down" /\ host' = "boot" /\ crashes'.host = crashes.host
            \/ BootEnds /\ host = "boot" /\ UNCHANGED <<crashes, history>>
         /\ history.purged => history'.purged
         /\ history'.purged => history.purged \/ \E h \in Handlers : Purge(h)
<1> DEFINE Goal ==
     /\ \/ UNCHANGED host /\ crashes'.host = crashes.host /\ history'.atBoot = history.atBoot
        \/ /\ HostCrash /\ host # "down" /\ host' = "down"
           /\ crashes'.host = crashes.host + 1 /\ UNCHANGED history
        \/ HostBoot /\ host = "down" /\ host' = "boot" /\ crashes'.host = crashes.host
        \/ BootEnds /\ host = "boot" /\ UNCHANGED <<crashes, history>>
     /\ history.purged => history'.purged
     /\ history'.purged => history.purged \/ \E h \in Handlers : Purge(h)
<1>0. /\ history \in [atBoot : {"none", "live", "dead"}, sigkilled : BOOLEAN, purged : BOOLEAN]
      /\ crashes \in [host : 0 .. MaxHostCrashes, worker : 0 .. MaxWorkerCrashes]
  BY DEF TypeOK
<1> DEFINE Calm == UNCHANGED host /\ crashes'.host = crashes.host
                   /\ history'.atBoot = history.atBoot /\ history'.purged = history.purged
<1>1. UNCHANGED vars => Calm
  BY DEF vars
<1>2. ASSUME NEW a \in Actors, Step(a) PROVE Calm
  BY <1>2, StepOnly DEF context
<1>3. ASSUME NEW h \in Handlers, Request(h) PROVE Calm
  BY <1>3, RequestOnly DEF Steady, context
<1>5. Starter => Calm
  BY StarterAfter DEF Steady, context
<1>6. Worker \/ WorkerCrashes => Calm
  BY RestOnly
<1>7. RecordOutput \/ ChildEnds => Calm
  BY DEF RecordOutput, ChildEnds, context
<1>8. CASE HostCrash
  <2>1. crashes'.host = crashes.host + 1
    BY <1>0, <1>8 DEF HostCrash
  <2>q. QED
    BY <1>8, <2>1 DEF HostCrash
<1>9. CASE HostBoot
  <2>1. history'.purged = history.purged
    BY <1>0, <1>9 DEF HostBoot
  <2>q. QED
    BY <1>9, <2>1 DEF HostBoot
<1>10. CASE BootLoad \/ BootJudge
  BY <1>10 DEF BootLoad, BootJudge, context
<1>11. CASE BootEnds
  BY <1>11 DEF BootEnds
<1>12. Calm => Goal
  OBVIOUS
<1>13. ASSUME NEW h \in Handlers, Request(h) \/ Handler(h) \/ Awaited(h)
      PROVE  Goal
  <2>1. CASE Request(h)
    BY <1>3, <1>12, <2>1
  <2>2. CASE Handler(h) \/ Awaited(h)
    <3>1. UNCHANGED host /\ crashes'.host = crashes.host /\ history'.atBoot = history.atBoot
      BY <2>2, HandlerOnly
    <3>2. (history.purged => history'.purged) /\ (history'.purged => history.purged \/ Purge(h))
      BY <2>2, HandlerOnly
    <3>q. QED
      BY <3>1, <3>2
  <2>q. QED
    BY <1>13, <2>1, <2>2
<1>14. CASE Boot
  BY <1>10, <1>11, <1>14 DEF Boot
<1>15. CASE Next
  BY <1>2, <1>5, <1>6, <1>7, <1>8, <1>9, <1>12, <1>13, <1>14, <1>15 DEF Next
<1>q. QED
  BY <1>1, <1>12, <1>15

-----------------------------------------------------------------------------
\* Who runs when.

LEMMA StepRuns ==
  ASSUME TypeOK, NEW a \in Actors, Step(a)
  PROVE  Running(a) /\ act[a].prog # <<>>
  BY StepAfter DEF Reads, Writes, Skips, Appends, FileGone, Next1

LEMMA HandlerRuns ==
  ASSUME TypeOK, NEW h \in Handlers, Step(h) \/ Request(h) \/ Handler(h) \/ Awaited(h)
  PROVE  host = "up"
<1>0. h \in Actors /\ h \notin {"starter", "worker", "boot"}
  BY ActorNames
<1>1. Running(h) => host = "up"
  BY <1>0 DEF Running
<1>2. Step(h) => Running(h)
  BY <1>0, StepRuns
<1>3. Request(h) => Running(h)
  BY RequestAfter DEF Begins, Ready
<1>4. Handler(h) \/ Awaited(h) => Running(h)
  BY DEF Handler, Awaited, MillraceAnswers, ChildReads, AskMillrace, NativeStopIgnored, Interrupt, InterruptBlocks,
     InterruptIgnored, PrepareSigterm, Sigterm, StopAnswers, StopMetaGone, KillSignal, KillFails,
     SettleKilled, Killed, BeginRemoval, Purge, Archive, ArchiveFails, ArchivedAlready, Ready
<1>q. QED
  BY <1>1, <1>2, <1>3, <1>4

LEMMA StarterRuns ==
  ASSUME TypeOK, Step("starter") \/ Starter
  PROVE  host = "up"
<1>1. "starter" \in Actors
  BY ActorNames
<1>2. Running("starter") => host = "up"
  BY DEF Running
<1>3. Step("starter") => Running("starter")
  BY <1>1, StepRuns
<1>4. Starter => Running("starter")
  BY DEF Starter, StartSession, LaunchWorker, LaunchFails, StartReturns, Ready
<1>q. QED
  BY <1>2, <1>3, <1>4

LEMMA WorkerRuns ==
  ASSUME TypeOK, Step("worker") \/ Worker \/ WorkerCrashes \/ RecordOutput
  PROVE  proc = "up"
<1>1. "worker" \in Actors
  BY ActorNames
<1>2. Running("worker") => proc = "up"
  BY DEF Running
<1>3. Step("worker") => Running("worker")
  BY <1>1, StepRuns
<1>4. Worker \/ RecordOutput => Running("worker")
  BY DEF Worker, SpawnChild, SpawnFails, OutputEnds, ReapChild, DecideExit, WorkerExits, RecordOutput, Ready
<1>q. QED
  BY <1>2, <1>3, <1>4 DEF WorkerCrashes

LEMMA BootRuns ==
  ASSUME TypeOK, Step("boot") \/ Boot
  PROVE  host = "boot"
<1>1. "boot" \in Actors
  BY ActorNames
<1>2. Running("boot") => host = "boot"
  BY DEF Running
<1>3. Step("boot") => Running("boot")
  BY <1>1, StepRuns
<1>4. Boot => host = "boot"
  BY <1>2, BootAfter DEF Ready
<1>q. QED
  BY <1>2, <1>3, <1>4

LEMMA StageAfterStep ==
  ASSUME TypeOK, NEW a \in Actors, Step(a)
  PROVE  \/ act'[a].stage = act[a].stage /\ act'[a].root = act[a].root
         \/ FileGone(a) /\ Rested(a, "failed")
  BY StepAfter, FailAfter DEF Reads, Writes, Skips, Appends, Pops, Kept, FileGone

-----------------------------------------------------------------------------
(* The host and its boot: while the host is down or boots, nobody is served.  *)

HostInv ==
  /\ host # "up" => /\ crashes.host > 0
                    /\ \A a \in Handlers \cup {"starter"} : act[a].stage \in Resting
  /\ host = "boot" => act["boot"].stage # "idle"
  /\ host # "boot" => act["boot"].stage \in {"idle", "failed"}

LEMMA HostInit == Init => HostInv
<1> SUFFICES ASSUME Init PROVE HostInv
  OBVIOUS
<1>1. act["boot"] = Fresh("idle") /\ host = "up"
  BY ActorNames DEF Init
<1>q. QED
  BY <1>1, FreshFields DEF HostInv

LEMMA HostKept ==
  ASSUME TypeOK, CodeOK, HostInv, [Next]_vars PROVE HostInv'
<1>0. /\ "boot" \in Actors /\ "starter" \in Actors
      /\ \A h \in Handlers : h \in Actors /\ h \notin {"starter", "worker", "boot"}
  BY ActorNames
<1>a. /\ BootEnds => host' # "boot"
      /\ HostCrash => host' # "boot"
      /\ HostBoot => host' = "boot"
  BY DEF BootEnds, HostCrash, HostBoot
<1>1. ASSUME host' # "up" PROVE crashes'.host > 0
  <2>1. crashes.host \in Nat
    BY DEF TypeOK
  <2>2. CASE host # "up"
    <3>1. crashes.host > 0
      BY <2>2 DEF HostInv
    <3>2. crashes'.host \in {crashes.host, crashes.host + 1}
      BY HostFrame
    <3>q. QED
      BY <2>1, <3>1, <3>2
  <2>3. CASE host = "up"
    <3>1. crashes'.host = crashes.host + 1
      BY <1>1, <2>3, HostFrame
    <3>q. QED
      BY <2>1, <3>1
  <2>q. QED
    BY <2>2, <2>3
<1>2. ASSUME host' # "up", NEW a \in Handlers \cup {"starter"} PROVE act'[a].stage \in Resting
  <2>1. CASE HostCrash
    <3>1. a \in Actors /\ a # "worker" /\ a # "boot"
      BY <1>0
    <3>2. act'[a].stage \in {"idle", "done", "failed", "lost"}
      BY <2>1, <3>1, HostAfter
    <3>q. QED
      BY <3>2 DEF Resting
  <2>2. CASE ~HostCrash
    <3>1. host # "up"
      BY <1>2, <2>2, HostFrame
    <3>2. act'[a] = act[a]
      BY <2>2, <3>1, HandlerFrame, StarterFrame, HandlerRuns, StarterRuns
    <3>q. QED
      BY <3>1, <3>2 DEF HostInv
  <2>q. QED
    BY <2>1, <2>2
<1>3. ASSUME host' = "boot" PROVE act'["boot"].stage # "idle"
  <2>1. CASE HostBoot
    BY <2>1, HostAfter DEF Rested
  <2>2. CASE ~HostBoot
    <3>1. host = "boot" /\ ~HostCrash /\ ~BootEnds
      BY <1>3, <1>a, <2>2, HostFrame
    <3>2. act["boot"].stage # "idle"
      BY <3>1 DEF HostInv
    <3>3. CASE Step("boot")
      BY <1>0, <3>2, <3>3, StageAfterStep DEF Rested
    <3>4. CASE Boot
      BY <1>3, <3>4, BootAfter
    <3>q. QED
      BY <2>2, <3>1, <3>2, <3>3, <3>4, BootFrame
  <2>q. QED
    BY <2>1, <2>2
<1>4. ASSUME host' # "boot" PROVE act'["boot"].stage \in {"idle", "failed"}
  <2>1. CASE HostCrash
    <3>1. act["boot"].stage # "done"
      BY DEF CodeOK
    <3>q. QED
      BY <1>0, <2>1, <3>1, HostAfter
  <2>2. CASE BootEnds
    <3>1. Becomes("boot", Fresh("idle"))
      BY <2>2 DEF BootEnds
    <3>q. QED
      BY <1>0, <3>1, RestedAfter DEF Rested
  <2>3. CASE ~HostCrash /\ ~BootEnds
    <3>1. host # "boot" /\ ~HostBoot
      BY <1>4, <1>a, <2>3, HostFrame
    <3>2. act'["boot"] = act["boot"]
      BY <2>3, <3>1, BootFrame, BootRuns
    <3>q. QED
      BY <3>1, <3>2 DEF HostInv
  <2>q. QED
    BY <2>1, <2>2, <2>3
<1>q. QED
  BY <1>1, <1>2, <1>3, <1>4 DEF HostInv

-----------------------------------------------------------------------------
(* What the worker and the boot record of an end is a terminal state.         *)

VerdictOK ==
  /\ act["worker"].stage = "exiting" => act["worker"].verdict \in {"killed", "crashed", "exited"}
  /\ act["boot"].prog # <<>> => act["boot"].verdict \in Terminal

LEMMA StepVerdict ==
  ASSUME TypeOK, CodeOK, NEW a \in Actors, Step(a)
  PROVE  \/ act'[a].verdict = act[a].verdict
         \/ FileGone(a) /\ Rested(a, "failed")
         \/ a = "starter"
<1>1. a # "starter" /\ act[a].prog # <<>> => Tag(a) # "launched"
  <2>1. CASE a = "worker"
    BY <2>1, WorkerAhead DEF Tag, M, W, Ev
  <2>2. CASE a = "boot"
    BY <2>2, BootAhead DEF Tag, M, W, Ev
  <2>3. CASE a \in Handlers
    BY <2>3, HandlerAhead DEF Tag, M, W, Ev
  <2>q. QED
    BY <2>1, <2>2, <2>3, ActorNames
<1>2. act[a].prog # <<>>
  BY StepRuns
<1>3. ASSUME NEW f, Reads(a, f), a # "starter" PROVE act'[a].verdict = act[a].verdict
  BY <1>1, <1>2, <1>3 DEF Reads
<1>q. QED
  BY <1>3, StepAfter, FailAfter DEF Writes, Skips, Appends, Pops, FileGone

LEMMA EvidenceIsTerminal ==
  BootVerdict = "absent" \/ BootVerdict \in Terminal
<1>1. \A s, l : Evidence(s, l) \in Terminal
  BY DEF Evidence, Terminal
<1>2. \A w, c, e : e \in Terminal => Judge(w, c, e) \in Terminal \cup {"absent"}
  <2> SUFFICES ASSUME NEW w, NEW c, NEW e \in Terminal
               PROVE  Judge(w, c, e) \in Terminal \cup {"absent"}
    OBVIOUS
  <2>1. {"stale", "orphaned"} \subseteq Terminal
    BY DEF Terminal
  <2>2. CASE w = "alive" /\ c \in {"alive", "unknown"}
    BY <2>2 DEF Judge
  <2>3. CASE w = "alive" /\ c = "dead"
    BY <2>1, <2>3 DEF Judge
  <2>4. CASE w # "alive" /\ c = "alive"
    BY <2>1, <2>4 DEF Judge
  <2>5. CASE w # "alive" /\ c # "alive"
    BY <2>5 DEF Judge
  <2>6. CASE w = "alive" /\ c \notin {"alive", "unknown", "dead"}
    BY <2>6 DEF Judge
  <2>q. QED
    BY <2>2, <2>3, <2>4, <2>5, <2>6
<1>q. QED
  BY <1>1, <1>2 DEF BootVerdict

LEMMA VerdictInit == Init => VerdictOK
<1> SUFFICES ASSUME Init PROVE VerdictOK
  OBVIOUS
<1>1. act["worker"] = Fresh("off") /\ act["boot"] = Fresh("idle")
  BY ActorNames DEF Init
<1>q. QED
  BY <1>1, FreshFields DEF VerdictOK

LEMMA VerdictKept ==
  ASSUME TypeOK, CodeOK, VerdictOK, [Next]_vars PROVE VerdictOK'
<1>0. "worker" \in Actors /\ "boot" \in Actors
  BY ActorNames
<1>1. ASSUME act'["worker"].stage = "exiting"
      PROVE  act'["worker"].verdict \in {"killed", "crashed", "exited"}
  <2>1. CASE Step("worker")
    <3>1. ~Rested("worker", "failed")
      BY <1>1 DEF Rested
    <3>2. act'["worker"].stage = act["worker"].stage
      BY <1>0, <2>1, <3>1, StageAfterStep
    <3>3. act'["worker"].verdict = act["worker"].verdict
      BY <1>0, <2>1, <3>1, StepVerdict
    <3>q. QED
      BY <1>1, <3>2, <3>3 DEF VerdictOK
  <2>2. CASE LaunchWorker
    <3>1. act'["worker"] = [Fresh("boot") EXCEPT !.prog = RegisterProgram]
      BY <1>0, <2>2 DEF LaunchWorker, TypeOK
    <3>2. act'["worker"].stage = "boot"
      BY <3>1 DEF Fresh
    <3>q. QED
      BY <1>1, <3>2
  <2>3. CASE Worker \/ WorkerCrashes
    <3>1. act'["worker"].verdict \in Exits
      BY <1>1, <2>3, WorkerAfter DEF Rested
    <3>q. QED
      BY <3>1 DEF Exits
  <2>4. CASE act'["worker"] = act["worker"]
    BY <1>1, <2>4 DEF VerdictOK
  <2>q. QED
    BY <2>1, <2>2, <2>3, <2>4, WorkerFrame
<1>2. ASSUME act'["boot"].prog # <<>> PROVE act'["boot"].verdict \in Terminal
  <2>1. CASE Step("boot")
    <3>1. act["boot"].prog # <<>>
      BY <1>0, <2>1, StepRuns
    <3>2. ~Rested("boot", "failed")
      BY <1>2 DEF Rested
    <3>3. act'["boot"].verdict = act["boot"].verdict
      BY <1>0, <2>1, <3>2, StepVerdict
    <3>q. QED
      BY <3>1, <3>3 DEF VerdictOK
  <2>2. CASE Boot
    <3>1. /\ act'["boot"].verdict = BootVerdict \/ act["boot"].prog # <<>>
          /\ BootVerdict # "absent" \/ act["boot"].prog # <<>>
      BY <1>2, <2>2, BootAfter DEF Rested
    <3>2. act["boot"].prog = <<>>
      BY <2>2 DEF Boot, BootLoad, BootJudge, BootEnds, Ready
    <3>q. QED
      BY <3>1, <3>2, EvidenceIsTerminal
  <2>3. CASE HostCrash
    <3>1. act["boot"].stage \in {"idle", "failed"} => act["boot"].prog = <<>>
      BY DEF CodeOK, BootCode
    <3>2. act["boot"].stage # "done"
      BY DEF CodeOK
    <3>q. QED
      BY <1>0, <1>2, <2>3, <3>1, <3>2, HostAfter
  <2>4. CASE HostBoot
    BY <1>2, <2>4, HostAfter DEF Rested
  <2>5. CASE act'["boot"] = act["boot"]
    BY <1>2, <2>5 DEF VerdictOK
  <2>q. QED
    BY <2>1, <2>2, <2>3, <2>4, <2>5, BootFrame
<1>q. QED
  BY <1>1, <1>2 DEF VerdictOK

-----------------------------------------------------------------------------
\* What is written to a file exists, with the state its update names.

WrittenState(a) == NewState(Tag(a), act[a].snap.state, act[a].verdict)

LEMMA Written ==
  ASSUME TypeOK, CodeOK, SnapOK, VerdictOK, NEW a \in Actors, NEW f, Writes(a, f)
  PROVE  LET new == Apply(Tag(a), act[a].snap, act[a].verdict)
         IN /\ Exists(new) /\ new.state = WrittenState(a)
            /\ new.wpid = (act[a].snap.wpid \/ Tag(a) \in WorkerPidTags)
            /\ new.cpid = (Tag(a) = "running" \/ (act[a].snap.cpid /\ Tag(a) # "registered"))
<1> DEFINE new == Apply(Tag(a), act[a].snap, act[a].verdict)
<1>1. /\ new.state = WrittenState(a)
      /\ new.wpid = (act[a].snap.wpid \/ Tag(a) \in WorkerPidTags)
      /\ new.cpid = (Tag(a) = "running" \/ (act[a].snap.cpid /\ Tag(a) # "registered"))
  BY DEF Apply, WrittenState
<1>2. act[a].prog # <<>> /\ (Tag(a) \in FreshTags \/ Exists(act[a].snap))
  BY DEF Writes, Next1
<1>3. Tag(a) \in {"exited", "reconciled"} /\ Tag(a) \notin FreshTags => act[a].verdict # "absent"
  <2>1. CASE a = "worker"
    <3>1. Tag(a) \in {"exited", "reconciled"} => act[a].stage = "exiting"
      BY <1>2, <2>1, WorkerAhead DEF Tag, M, W, Ev
    <3>q. QED
      BY <2>1, <3>1 DEF VerdictOK
  <2>2. CASE a = "boot"
    BY <1>2, <2>2 DEF VerdictOK, Terminal
  <2>3. CASE a = "starter"
    BY <1>2, <2>3, StarterAhead DEF Tag, M, W, Ev
  <2>4. CASE a \in Handlers
    BY <1>2, <2>4, HandlerAhead DEF Tag, M, W, Ev
  <2>q. QED
    BY <2>1, <2>2, <2>3, <2>4, ActorNames
<1>4. WrittenState(a) # "absent"
  <2>1. CASE Tag(a) \in FreshTags
    BY <2>1 DEF WrittenState, NewState, FreshTags
  <2>2. CASE Tag(a) \notin FreshTags
    BY <1>2, <1>3, <2>2 DEF WrittenState, NewState, FreshTags, Exists
  <2>q. QED
    BY <2>1, <2>2
<1>q. QED
  BY <1>1, <1>4 DEF Exists

LEMMA NoFilesInit == Init => NoFiles
  BY DEF Init, NoFiles, NoDir

LEMMA NoFilesKept ==
  ASSUME TypeOK, CodeOK, SnapOK, VerdictOK, NoFiles, [Next]_vars PROVE NoFiles'
<1> SUFFICES ASSUME NEW r \in Roots, NEW f \in {"meta", "worker"}, ~Exists(disk'[r][f])
             PROVE  disk'[r][f] = NoFile
  BY DEF NoFiles
<1>1. CASE disk'[r][f] = disk[r][f]
  BY <1>1 DEF NoFiles
<1>2. ASSUME NEW a \in Actors, FileWritten(a, r, f) PROVE FALSE
  <2>1. Writes(a, f) /\ disk'[r][f] = Apply(Tag(a), act[a].snap, act[a].verdict)
    BY <1>2 DEF FileWritten
  <2>q. QED
    BY <2>1, Written
<1>3. ASSUME NEW h \in Handlers, FileRemoved(h, r) PROVE disk'[r][f] = NoFile
  <2>1. disk'[r] = NoDir
    BY <1>3 DEF FileRemoved
  <2>q. QED
    BY <2>1 DEF NoDir
<1>4. ASSUME NEW h \in Handlers, FileMoved(h, r) PROVE disk'[r][f] = NoFile
  <2>1. disk'[r] = disk["sessions"] /\ "sessions" \in Roots
    BY <1>4 DEF FileMoved, Roots
  <2>q. QED
    BY <2>1 DEF NoFiles
<1>q. QED
  BY <1>1, <1>2, <1>3, <1>4, FileAfter

LEMMA HandlerBusy ==
  ASSUME NEW h \in Handlers, Handler(h) \/ Awaited(h)
  PROVE  act[h].stage \notin Resting /\ act[h].prog = <<>>
  BY DEF Handler, Awaited, MillraceAnswers, ChildReads, AskMillrace, NativeStopIgnored, Interrupt, InterruptBlocks,
     InterruptIgnored, PrepareSigterm, Sigterm, StopAnswers, StopMetaGone, KillSignal, KillFails,
     SettleKilled, Killed, BeginRemoval, Purge, Archive, ArchiveFails, ArchivedAlready, Ready,
     Resting

LEMMA RestingCode ==
  ASSUME CodeOK, NEW a \in Handlers \cup {"starter"}, act[a].stage \in Resting
  PROVE  act[a].prog = <<>>
<1>1. CASE a = "starter"
  BY <1>1 DEF CodeOK, StarterCode, Resting
<1>2. CASE a \in Handlers
  BY <1>2 DEF CodeOK, HandlerCode, Resting, Marking
<1>q. QED
  BY <1>1, <1>2

-----------------------------------------------------------------------------
(* Before session.start creates the record there is nothing on disk, and      *)
(* nobody has anything to do.                                                 *)

BeforeStart ==
  \/ act["starter"].stage = "idle"
  \/ act["starter"].stage = "create" /\ act["starter"].prog = CreateProgram

StartInv ==
  BeforeStart =>
    /\ \A r \in Roots : disk[r] = NoDir
    /\ proc = "none" /\ act["boot"].prog = <<>> /\ act["boot"].stage # "judge"
    /\ \A h \in Handlers : act[h].stage = "idle"

LEMMA StartInit == Init => StartInv
<1> SUFFICES ASSUME Init PROVE StartInv
  OBVIOUS
<1>1. act["boot"] = Fresh("idle") /\ \A h \in Handlers : act[h] = Fresh("idle")
  BY ActorNames DEF Init
<1>2. proc = "none" /\ \A r \in Roots : disk[r] = NoDir
  BY DEF Init
<1>q. QED
  BY <1>1, <1>2, FreshFields DEF StartInv

LEMMA StillBefore ==
  ASSUME TypeOK, CodeOK, [Next]_vars, BeforeStart'
  PROVE  BeforeStart /\ (act'["starter"] = act["starter"] \/ StartSession)
<1>0. "starter" \in Actors
  BY ActorNames
<1>1. CASE Step("starter")
  <2>1. ~Rested("starter", "failed")
    BY DEF BeforeStart, Rested
  <2>2. act'["starter"].stage = act["starter"].stage
    BY <1>0, <1>1, <2>1, StageAfterStep
  <2>3. act["starter"].prog # <<>>
    BY <1>0, <1>1, StepRuns
  <2>4. act["starter"].stage = "create"
    BY <2>2, <2>3, StarterAhead DEF BeforeStart
  <2>5. act'["starter"].prog = CreateProgram
    BY <2>2, <2>4 DEF BeforeStart
  <2>6. CreateProgram # <<Ev("note")>> /\ CreateProgram # <<>>
    BY Lengths DEF CreateProgram
  <2>7. Tail(act["starter"].prog) # CreateProgram
    BY <2>3, <2>4, <2>6, StarterAhead
  <2>8. act["starter"].prog = CreateProgram => Tag("starter") \in FreshTags
    BY Tuples DEF CreateProgram, Tag, M, FreshTags
  <2>9. \/ act'["starter"].prog = act["starter"].prog /\ Tag("starter") \notin FreshTags
        \/ act'["starter"].prog \in {Tail(act["starter"].prog), <<>>}
    BY <1>0, <1>1, <2>1, StepAfter, FailAfter DEF Reads, Writes, Skips, Appends, Pops, FileGone
  <2>q. QED
    BY <2>5, <2>6, <2>7, <2>8, <2>9
<1>2. CASE Starter
  BY <1>2, StarterAfter DEF BeforeStart, StartSession, Ready, Rested
<1>3. CASE HostCrash
  BY <1>0, <1>3, HostAfter DEF BeforeStart
<1>4. CASE act'["starter"] = act["starter"]
  BY <1>4 DEF BeforeStart
<1>q. QED
  BY <1>1, <1>2, <1>3, <1>4, StarterFrame

LEMMA StartKept ==
  ASSUME TypeOK, CodeOK, StartInv, [Next]_vars PROVE StartInv'
<1> SUFFICES ASSUME BeforeStart'
             PROVE  /\ \A r \in Roots : disk'[r] = NoDir
                    /\ proc' = "none" /\ act'["boot"].prog = <<>> /\ act'["boot"].stage # "judge"
                    /\ \A h \in Handlers : act'[h].stage = "idle"
  BY DEF StartInv
<1>0. "starter" \in Actors /\ "boot" \in Actors /\ "worker" \in Actors /\ Handlers \subseteq Actors
  BY ActorNames
<1>1. /\ BeforeStart /\ (act'["starter"] = act["starter"] \/ StartSession)
      /\ \A r \in Roots : disk[r] = NoDir
      /\ proc = "none" /\ act["boot"].prog = <<>> /\ act["boot"].stage # "judge"
      /\ \A h \in Handlers : act[h].stage = "idle"
  BY StillBefore DEF StartInv
<1>2. \A h \in Handlers : act[h].prog = <<>>
  BY <1>1, RestingCode DEF Resting
<1>3. ~LaunchWorker
  <2>1. LaunchWorker => act'["starter"].stage = "tail"
    BY <1>0, StarterAfter DEF Starter, StartSession, LaunchFails, StartReturns, LaunchWorker, Ready
  <2>q. QED
    BY <2>1 DEF BeforeStart
<1>4. proc' = "none"
  BY <1>1, <1>3, ProcFrame
<1>5. ASSUME NEW a \in Actors, Step(a) PROVE FALSE
  <2>1. a # "worker"
    BY <1>1, <1>5, WorkerRuns
  <2>2. a = "starter"
    BY <1>1, <1>2, <1>5, <2>1, StepRuns, ActorNames
  <2>3. act["starter"].stage = "create" => Tag("starter") \in FreshTags
    BY <1>1, Tuples DEF BeforeStart, CreateProgram, Tag, M, FreshTags
  <2>4. act["starter"].prog # <<>>
    BY <1>5, <2>2, StepRuns
  <2>5. act["starter"].stage = "create" /\ act["starter"].prog = CreateProgram
        /\ Head(act["starter"].prog) = M("created")
    <3>1. act["starter"].stage # "idle"
      BY <1>0, <2>4, RestingCode DEF Resting
    <3>q. QED
      BY <1>1, <3>1, Tuples DEF BeforeStart, CreateProgram
  <2>6. ~Starter
    BY <1>1, <2>4 DEF Starter, StartSession, LaunchWorker, LaunchFails, StartReturns, Ready
  <2>7. act'["starter"] = act["starter"]
    BY <1>1, <2>6 DEF Starter
  <2>8. ASSUME act'["starter"].prog = Tail(act["starter"].prog) PROVE FALSE
    <3>1. Tail(act["starter"].prog) = <<Ev("note")>>
      BY <2>5, Tuples DEF CreateProgram
    <3>2. <<Ev("note")>> # CreateProgram
      BY Lengths DEF CreateProgram
    <3>q. QED
      BY <2>5, <2>7, <2>8, <3>1, <3>2
  <2>9. CASE \E f \in {"meta", "worker"} : Reads("starter", f) \/ Skips("starter", f)
    BY <2>3, <2>5, <2>9 DEF Reads, Skips
  <2>10. CASE Appends("starter") \/ \E f \in {"meta", "worker"} : Writes("starter", f)
    BY <2>8, <2>10 DEF Appends, Writes, Pops
  <2>11. CASE FileGone("starter")
    <3>1. act'["starter"].stage = "failed"
      BY <1>0, <2>11, FailAfter DEF FileGone, Rested
    <3>q. QED
      BY <2>5, <2>7, <3>1
  <2>q. QED
    BY <1>5, <2>2, <2>9, <2>10, <2>11, StepAfter
<1>6. ASSUME NEW h \in Handlers, Handler(h) \/ Awaited(h) \/ Request(h) PROVE FALSE
  <2>1. ~(Handler(h) \/ Awaited(h))
    BY <1>1, HandlerBusy DEF Resting
  <2>2. ~Exists(Found)
    BY <1>1 DEF Found, FoundRoot, Exists, NoDir, NoFile, Roots
  <2>q. QED
    BY <1>6, <2>1, <2>2, RequestAfter DEF Begins
<1>7. disk' = disk
  <2>1. ASSUME NEW a \in Actors, Appends(a) \/ \E f \in {"meta", "worker"} : Writes(a, f)
        PROVE  FALSE
    <3>1. Running(a) /\ act[a].prog # <<>>
      BY <2>1 DEF Appends, Writes, Next1
    <3>2. a # "worker"
      BY <1>1, <3>1 DEF Running
    <3>3. a = "starter"
      BY <1>1, <1>2, <3>1, <3>2, ActorNames
    <3>4. act'["starter"].prog = Tail(act["starter"].prog)
      BY <2>1, <3>3 DEF Appends, Writes, Pops
    <3>5. act["starter"].stage = "create" /\ act["starter"].prog = CreateProgram
      <4>1. act["starter"].stage # "idle"
        BY <3>1, <3>3, RestingCode DEF Resting
      <4>q. QED
        BY <1>1, <4>1 DEF BeforeStart
    <3>6. ~StartSession
      BY <3>5 DEF StartSession, Ready
    <3>7. Tail(CreateProgram) = <<Ev("note")>> /\ <<Ev("note")>> # CreateProgram
      BY Tuples, Lengths DEF CreateProgram
    <3>q. QED
      BY <1>1, <3>4, <3>5, <3>6, <3>7
  <2>2. ~RecordOutput
    BY <1>1, WorkerRuns
  <2>3. \A h \in Handlers : ~Purge(h) /\ ~Archive(h)
    BY <1>6 DEF Handler
  <2>q. QED
    BY <2>1, <2>2, <2>3, DiskSteady
<1>8. \A h \in Handlers : act'[h].stage = "idle"
  <2>1. ASSUME NEW h \in Handlers, HostCrash PROVE act'[h].stage = "idle"
    BY <1>0, <1>1, <2>1, HostAfter
  <2>q. QED
    BY <1>0, <1>1, <1>5, <1>6, <2>1, HandlerFrame
<1>9. act'["boot"].prog = <<>> /\ act'["boot"].stage # "judge"
  <2>1. CASE Boot
    <3>1. disk["sessions"].meta.state \notin Active
      BY <1>1 DEF NoDir, NoFile, Roots, Active
    <3>q. QED
      BY <1>1, <2>1, <3>1, BootAfter DEF Ready, Rested
  <2>2. CASE HostCrash \/ HostBoot
    BY <1>0, <1>1, <2>2, HostAfter DEF Rested
  <2>q. QED
    BY <1>0, <1>1, <1>5, <2>1, <2>2, BootFrame
<1>q. QED
  BY <1>1, <1>4, <1>7, <1>8, <1>9

\* The layer every later invariant rests on.
Base == /\ TypeOK /\ CodeOK /\ SnapOK /\ VerdictOK /\ NoFiles
        /\ HostInv /\ StartInv

LEMMA BaseInit == Init => Base
  BY InitType, CodeInit, SnapInit, VerdictInit, NoFilesInit, HostInit, StartInit DEF Base

LEMMA BaseKept == Base /\ [Next]_vars => Base'
<1> SUFFICES ASSUME Base, [Next]_vars PROVE Base'
  OBVIOUS
<1>1. TypeOK'
  BY NextType DEF Base
<1>2. CodeOK' /\ SnapOK' /\ VerdictOK' /\ NoFiles'
  BY CodeKept, SnapKept, VerdictKept, NoFilesKept DEF Base
<1>3. HostInv' /\ StartInv'
  BY HostKept, StartKept DEF Base
<1>q. QED
  BY <1>1, <1>2, <1>3 DEF Base

-----------------------------------------------------------------------------
(* A session whose worker was dead when the host booted: the boot's judgement *)
(* is a terminal state, and no copy of an active meta.json survives the boot. *)

Holds(a, f) == act[a].prog # <<>> /\ Head(act[a].prog).file = f /\ Exists(act[a].snap)
Inactive(file) == file.state \notin Active

DeadStays ==
  history.atBoot = "dead" /\ host # "down" =>
    /\ proc # "up" /\ act["starter"].stage \in {"done", "failed", "lost"}
    /\ host = "boot" /\ act["boot"].stage = "finish" =>
         Inactive(disk["sessions"].meta) \/ act["boot"].prog = ReconcileProgram
    /\ host = "up" =>
         /\ Inactive(disk["sessions"].meta)
         /\ \A h \in Handlers :
              Holds(h, "meta") /\ act[h].root = "sessions" => Inactive(act[h].snap)

LEMMA NeverActive ==
  Active \cap Terminal = {} /\ "killed" \notin Active /\ "absent" \notin Active
  BY DEF Active, Terminal

LEMMA DeadIsJudged ==
  ASSUME proc # "up"
  PROVE  BootVerdict # "absent"
<1>1. \A r : Liveness(r, proc = "up") # "alive"
  BY DEF Liveness
<1>2. \A s, l : Evidence(s, l) \in Terminal
  BY DEF Evidence, Terminal
<1>3. \A w, c, e : w # "alive" /\ e \in Terminal => Judge(w, c, e) # "absent"
  <2> SUFFICES ASSUME NEW w, NEW c, NEW e \in Terminal, w # "alive"
               PROVE  Judge(w, c, e) # "absent"
    OBVIOUS
  <2>1. CASE c = "alive"
    BY <2>1 DEF Judge
  <2>2. CASE c # "alive"
    BY <2>2 DEF Judge, Terminal
  <2>q. QED
    BY <2>1, <2>2
<1>q. QED
  BY <1>1, <1>2, <1>3 DEF BootVerdict

LEMMA DeadInit == Init => DeadStays
  BY DEF Init, DeadStays

LEMMA DeadKept ==
  ASSUME Base, DeadStays, [Next]_vars PROVE DeadStays'
<1> SUFFICES ASSUME history'.atBoot = "dead", host' # "down"
             PROVE  /\ proc' # "up" /\ act'["starter"].stage \in {"done", "failed", "lost"}
                    /\ host' = "boot" /\ act'["boot"].stage = "finish" =>
                         Inactive(disk'["sessions"].meta) \/ act'["boot"].prog = ReconcileProgram
                    /\ host' = "up" =>
                         /\ Inactive(disk'["sessions"].meta)
                         /\ \A h \in Handlers : Holds(h, "meta")' /\ act'[h].root = "sessions"
                              => Inactive(act'[h].snap)
  BY DEF DeadStays, Inactive
<1> USE DEF Base
<1>0. "starter" \in Actors /\ "boot" \in Actors /\ "worker" \in Actors /\ Handlers \subseteq Actors
      /\ "sessions" \in Roots
  BY ActorNames DEF Roots
<1>1. CASE HostBoot
  <2>1. proc # "up" /\ Exists(disk["sessions"].meta)
    BY <1>1 DEF HostBoot, TypeOK
  <2>2. proc' = proc /\ act'["starter"] = act["starter"]
    BY <1>0, <1>1, RestOnly DEF Only, processes
  <2>3. ~BeforeStart
    BY <1>0, <2>1, StateExists DEF StartInv, NoDir
  <2>4. act["starter"].stage \in Resting
    BY <1>1 DEF HostBoot, HostInv
  <2>5. act["starter"].stage \in {"done", "failed", "lost"}
    BY <2>3, <2>4 DEF BeforeStart, Resting
  <2>6. act'["boot"].stage = "load" /\ host' = "boot"
    BY <1>1, HostAfter DEF HostBoot, Rested
  <2>q. QED
    BY <2>1, <2>2, <2>5, <2>6
<1>2. CASE ~HostBoot
  <2>1. /\ history.atBoot = "dead" /\ host # "down" /\ ~HostCrash
    <3>1. HostCrash => host' = "down"
      BY DEF HostCrash
    <3>2. BootEnds => history' = history
      BY DEF BootEnds
    <3>q. QED
      BY <1>2, <3>1, <3>2, HostFrame
  <2>2. /\ proc # "up" /\ act["starter"].stage \in {"done", "failed", "lost"}
        /\ host = "boot" /\ act["boot"].stage = "finish" =>
             Inactive(disk["sessions"].meta) \/ act["boot"].prog = ReconcileProgram
        /\ host = "up" =>
             /\ Inactive(disk["sessions"].meta)
             /\ \A h \in Handlers :
                  Holds(h, "meta") /\ act[h].root = "sessions" => Inactive(act[h].snap)
    BY <2>1 DEF DeadStays
  <2>3. ~LaunchWorker /\ ~Starter /\ ~Step("starter")
    <3>1. act["starter"].prog = <<>>
      BY <2>2, RestingCode DEF Resting
    <3>2. ~Starter
      BY <2>2 DEF Starter, StartSession, LaunchWorker, LaunchFails, StartReturns, Ready
    <3>q. QED
      BY <1>0, <3>1, <3>2, StepRuns DEF Starter
  <2>4. proc' # "up" /\ act'["starter"].stage \in {"done", "failed", "lost"}
    BY <2>1, <2>2, <2>3, ProcFrame, StarterFrame
  <2>5. \A a \in Actors : Running(a) =>
          \/ host = "boot" /\ a = "boot"
          \/ host = "up" /\ a \in Handlers \cup {"starter"}
    BY <1>0, <2>1, <2>2, ActorNames DEF Running
  <2>6. ASSUME host = "boot" PROVE disk' = disk \/ Appends("boot")
                                   \/ \E f \in {"meta", "worker"} : Writes("boot", f)
    <3>1. ASSUME NEW a \in Actors, Appends(a) \/ \E f \in {"meta", "worker"} : Writes(a, f)
          PROVE  a = "boot"
      BY <2>5, <2>6, <3>1 DEF Appends, Writes, Next1
    <3>2. ~RecordOutput
      BY <2>2, WorkerRuns
    <3>3. \A h \in Handlers : ~Purge(h) /\ ~Archive(h)
      BY <2>6, HandlerRuns DEF Handler
    <3>q. QED
      BY <3>1, <3>2, <3>3, DiskSteady
  <2>7. ASSUME host = "boot", act'["boot"].stage = "finish" /\ act["boot"].stage = "finish"
        PROVE  Inactive(disk'["sessions"].meta) \/ act'["boot"].prog = ReconcileProgram
    <3>1. CASE Inactive(disk["sessions"].meta)
      <4>1. CASE disk'["sessions"].meta = disk["sessions"].meta
        BY <3>1, <4>1
      <4>2. ASSUME NEW a \in Actors, FileWritten(a, "sessions", "meta")
            PROVE  Inactive(disk'["sessions"].meta)
        <5>1. a = "boot" /\ Writes("boot", "meta")
              /\ disk'["sessions"].meta = Apply(Tag("boot"), act["boot"].snap, act["boot"].verdict)
          BY <2>5, <2>7, <4>2 DEF FileWritten, Writes, Next1
        <5>2. act["boot"].prog # <<>> /\ Tag("boot") = "reconciled"
          BY <5>1, BootAhead DEF Writes, Next1, Tag, M, W, Ev
        <5>3. disk'["sessions"].meta.state = act["boot"].verdict
          BY <1>0, <5>1, <5>2, Written DEF WrittenState, NewState
        <5>q. QED
          BY <5>2, <5>3, NeverActive DEF VerdictOK, Inactive
      <4>3. \A h \in Handlers : ~Purge(h) /\ ~Archive(h)
        BY <2>7, HandlerRuns DEF Handler
      <4>q. QED
        BY <1>0, <4>1, <4>2, <4>3, FileAfter DEF FileRemoved, FileMoved
    <3>2. CASE ~Inactive(disk["sessions"].meta)
      <4>1. act["boot"].prog = ReconcileProgram
        BY <2>2, <2>7, <3>2
      <4>2. act["boot"].prog # <<>> /\ Head(act["boot"].prog) = M("reconciled")
        BY <4>1, Tuples DEF ReconcileProgram
      <4>3. act["boot"].root = "sessions"
        BY DEF CodeOK
      <4>4. ~BootLoad /\ ~BootJudge /\ ~BootEnds
        BY <4>2 DEF BootLoad, BootJudge, BootEnds, Ready
      <4>5. CASE act'["boot"] = act["boot"]
        BY <4>1, <4>5
      <4>6. CASE Step("boot")
        <5>1. ASSUME NEW f \in {"meta", "worker"}, Writes("boot", f)
              PROVE  Inactive(disk'["sessions"].meta)
          <6>1. f = "meta" /\ Tag("boot") = "reconciled"
            BY <4>2, <5>1 DEF Writes, Next1, Tag, M
          <6>2. disk'["sessions"].meta
                  = Apply(Tag("boot"), act["boot"].snap, act["boot"].verdict)
            BY <4>3, <5>1, <6>1 DEF Writes
          <6>3. disk'["sessions"].meta.state = act["boot"].verdict
            BY <1>0, <5>1, <6>1, <6>2, Written DEF WrittenState, NewState
          <6>q. QED
            BY <4>2, <6>3, NeverActive DEF VerdictOK, Inactive
        <5>2. ASSUME NEW f \in {"meta", "worker"}, Reads("boot", f)
              PROVE  act'["boot"].prog = ReconcileProgram
          BY <4>1, <5>2 DEF Reads
        <5>3. ASSUME NEW f \in {"meta", "worker"}, Skips("boot", f) PROVE FALSE
          <6>1. f = "meta" /\ Target("boot") = disk["sessions"].meta
            BY <4>2, <4>3, <5>3 DEF Skips, Next1, Target, Here, M
          <6>q. QED
            BY <3>2, <5>3, <6>1 DEF Skips, Inactive
        <5>4. ~Appends("boot")
          BY <4>2 DEF Appends, Next1, M
        <5>5. ~FileGone("boot")
          BY <1>0, <2>7, FailAfter DEF FileGone, Rested
        <5>q. QED
          BY <1>0, <4>6, <5>1, <5>2, <5>3, <5>4, <5>5, StepAfter
      <4>q. QED
        BY <1>2, <2>1, <4>4, <4>5, <4>6, BootFrame DEF Boot
    <3>q. QED
      BY <3>1, <3>2
  <2>8. ASSUME host' = "boot", act'["boot"].stage = "finish"
        PROVE  Inactive(disk'["sessions"].meta) \/ act'["boot"].prog = ReconcileProgram
    <3>1. host = "boot"
      BY <1>2, <2>8, HostFrame DEF BootEnds, HostCrash
    <3>2. CASE act["boot"].stage = "finish"
      BY <2>7, <2>8, <3>1, <3>2
    <3>3. CASE act["boot"].stage # "finish"
      <4>1. Boot
        <5>1. ~Step("boot")
          BY <1>0, <2>8, <3>3, StageAfterStep DEF Rested
        <5>q. QED
          BY <1>2, <2>1, <2>8, <3>3, <5>1, BootFrame
      <4>2. \/ act'["boot"].prog = ReconcileProgram
            \/ Steady /\ disk["sessions"].meta.state \notin Active
        BY <2>2, <2>8, <3>3, <4>1, BootAfter, DeadIsJudged DEF Rested
      <4>q. QED
        BY <4>2 DEF Steady, Inactive
    <3>q. QED
      BY <3>2, <3>3
  <2>9. ASSUME host' = "up"
        PROVE  /\ Inactive(disk'["sessions"].meta)
               /\ \A h \in Handlers : Holds(h, "meta")' /\ act'[h].root = "sessions"
                    => Inactive(act'[h].snap)
    <3>1. CASE BootEnds
      <4>1. /\ act["boot"].stage = "finish" /\ act["boot"].prog = <<>> /\ host = "boot"
            /\ disk' = disk /\ Becomes("boot", Fresh("idle"))
        BY <2>9, <3>1 DEF BootEnds
      <4>2. act["boot"].prog # ReconcileProgram
        BY <4>1, Lengths DEF ReconcileProgram
      <4>3. \A h \in Handlers : act'[h] = act[h]
        BY <1>0, <4>1, ActorNames, BecomesOnly DEF Only
      <4>4. \A h \in Handlers : act[h].prog = <<>>
        BY <4>1, RestingCode DEF HostInv
      <4>q. QED
        BY <2>2, <4>1, <4>2, <4>3, <4>4 DEF Holds
    <3>2. CASE ~BootEnds
      <4>1. host = "up"
        BY <1>2, <2>1, <2>9, <3>2, HostFrame
      <4>2. ASSUME NEW a \in Actors, FileWritten(a, "sessions", "meta")
            PROVE  Inactive(disk'["sessions"].meta)
        <5>1. /\ Writes(a, "meta") /\ act[a].root = "sessions"
              /\ disk'["sessions"].meta = Apply(Tag(a), act[a].snap, act[a].verdict)
          BY <4>2 DEF FileWritten
        <5>2. /\ act[a].prog # <<>> /\ Head(act[a].prog).file = "meta" /\ Running(a)
              /\ Tag(a) \in FreshTags \/ Exists(act[a].snap)
          BY <5>1 DEF Writes, Next1
        <5>3. a \in Handlers
          <6>1. a # "starter"
            BY <2>2, <5>2, RestingCode DEF Resting
          <6>q. QED
            BY <2>5, <4>1, <5>2, <6>1
        <5>4. Tag(a) \in {"stop", "killed"}
          BY <5>2, <5>3, HandlerAhead DEF Tag, M, W, Ev
        <5>5. Holds(a, "meta")
          BY <5>2, <5>4 DEF Holds, FreshTags
        <5>6. Inactive(act[a].snap)
          BY <2>2, <4>1, <5>1, <5>3, <5>5
        <5>7. disk'["sessions"].meta.state \in {act[a].snap.state, "killed"}
          BY <5>1, <5>4, Written DEF WrittenState, NewState
        <5>q. QED
          BY <5>6, <5>7, NeverActive DEF Inactive
      <4>3. ASSUME NEW h \in Handlers, FileRemoved(h, "sessions")
            PROVE  Inactive(disk'["sessions"].meta)
        BY <4>3, NeverActive DEF FileRemoved, NoDir, NoFile, Inactive
      <4>4. Inactive(disk'["sessions"].meta)
        BY <1>0, <2>2, <4>1, <4>2, <4>3, FileAfter DEF FileMoved
      <4>5. ASSUME NEW h \in Handlers, Holds(h, "meta")', act'[h].root = "sessions"
            PROVE  Inactive(act'[h].snap)
        <5>1. h \in Actors
          BY <1>0
        <5>2. CASE act'[h].snap = NoFile
          BY <4>5, <5>2, StateExists DEF Holds
        <5>3. CASE act'[h] = act[h]
          BY <2>2, <4>1, <4>5, <5>3 DEF Holds
        <5>4. ASSUME NEW f \in {"meta", "worker"}, Reads(h, f)
              PROVE  Inactive(act'[h].snap)
          <6>1. /\ act'[h].prog = act[h].prog /\ act[h].root = "sessions"
                /\ Head(act[h].prog).file = f /\ act[h].prog # <<>>
            BY <4>5, <5>4 DEF Reads, Kept, Next1
          <6>2. f = "meta"
            BY <4>5, <6>1 DEF Holds
          <6>3. Target(h) = disk["sessions"].meta
            BY <6>1, <6>2 DEF Target, Here
          <6>4. Tag(h) # "launched"
            BY <6>1, HandlerAhead DEF Tag, M, W, Ev
          <6>q. QED
            BY <2>2, <4>1, <5>4, <6>3, <6>4 DEF Reads
        <5>q. QED
          BY <5>1, <5>2, <5>3, <5>4, SnapAfter
      <4>q. QED
        BY <4>4, <4>5
    <3>q. QED
      BY <3>1, <3>2
  <2>q. QED
    BY <2>4, <2>8, <2>9
<1>q. QED
  BY <1>1, <1>2

\* A session whose worker was dead at boot stays inactive once the host serves
\* (reconcile.rs: "dead active records are marked terminal").
THEOREM DeadIsMarked == Spec => []DeadAtBootIsTerminal
<1>1. Base /\ DeadStays => DeadAtBootIsTerminal
  BY DEF DeadStays, DeadAtBootIsTerminal, Inactive
<1>2. Init => Base /\ DeadStays
  BY BaseInit, DeadInit
<1>3. Base /\ DeadStays /\ [Next]_vars => (Base /\ DeadStays)'
  BY BaseKept, DeadKept
<1>q. QED
  BY <1>1, <1>2, <1>3, PTL DEF Spec

-----------------------------------------------------------------------------
(* The worker process and the stages of its main thread.                      *)

ProcInv ==
  /\ proc = "none" <=> act["worker"].stage = "off"
  /\ proc = "up" => act["worker"].stage \notin {"done", "failed", "lost"}
  /\ act["starter"].stage \in {"idle", "create"} => proc = "none"
  /\ act["starter"].prog \in {LaunchFailProgram, <<Ev("launch_failed")>>} => proc = "none"
  /\ proc = "none" => child = "none"
  /\ proc = "up" /\ child # "none" => act["worker"].stage \in {"serve", "drained", "reaped", "exiting"}
  /\ sock => child # "none"

LEMMA ProcInit == Init => ProcInv
<1> SUFFICES ASSUME Init PROVE ProcInv
  OBVIOUS
<1>1. act["worker"] = Fresh("off") /\ act["starter"] = Fresh("idle")
  BY ActorNames DEF Init
<1>2. proc = "none" /\ child = "none" /\ sock = FALSE
  BY DEF Init
<1>q. QED
  BY <1>1, <1>2, FreshFields DEF ProcInv

LEMMA LaunchedAfter ==
  ASSUME TypeOK, LaunchWorker
  PROVE  /\ Ready("starter", "create") /\ proc' = "up" /\ child' = child /\ sock' = sock
         /\ disk' = disk
         /\ act'["starter"].stage = "tail" /\ act'["starter"].prog = LaunchedProgram
         /\ act'["worker"].stage = "boot" /\ act'["worker"].prog = RegisterProgram
         /\ act'["worker"].snap = NoFile /\ act'["worker"].root = "sessions"
         /\ \A b \in Actors : b \notin {"starter", "worker"} => act'[b] = act[b]
<1>0. {"starter", "worker"} \subseteq Actors /\ act["starter"] \in Actor
  BY ActorType DEF Actors
<1>1. /\ \A b \in Actors : b \notin {"starter", "worker"} => act'[b] = act[b]
      /\ act'["starter"] = [act["starter"] EXCEPT !.stage = "tail", !.prog = LaunchedProgram]
      /\ act'["worker"] = [Fresh("boot") EXCEPT !.prog = RegisterProgram]
  BY <1>0 DEF LaunchWorker, TypeOK
<1>2. act'["starter"].stage = "tail" /\ act'["starter"].prog = LaunchedProgram
  BY <1>0, <1>1 DEF Actor
<1>3. /\ act'["worker"].stage = "boot" /\ act'["worker"].prog = RegisterProgram
      /\ act'["worker"].snap = NoFile /\ act'["worker"].root = "sessions"
  BY <1>1 DEF Fresh
<1>q. QED
  BY <1>1, <1>2, <1>3 DEF LaunchWorker, context

LEMMA SockFrame ==
  ASSUME TypeOK, [Next]_vars, sock'
  PROVE  sock \/ SpawnChild
<1>1. UNCHANGED vars => sock' = sock
  BY DEF vars
<1>2. ASSUME NEW a \in Actors, Step(a) PROVE sock' = sock
  BY <1>2, StepOnly DEF context
<1>3. ASSUME NEW h \in Handlers, Request(h) PROVE sock' = sock
  BY <1>3, RequestOnly DEF Steady, context
<1>4. ASSUME NEW h \in Handlers, Handler(h) \/ Awaited(h) PROVE sock' => sock
  BY <1>4, HandlerAfter DEF Turns, Ends, Steady, context, PrepareSigterm, Sigterm, KillSignal,
     Purge, Archive
<1>5. CASE Starter
  BY <1>5, StarterAfter DEF Steady, context
<1>6. CASE Worker \/ WorkerCrashes
  BY <1>6, WorkerAfter DEF Steady, context, ReapChild
<1>7. RecordOutput \/ ChildEnds \/ HostCrash \/ HostBoot => sock' = sock
  BY DEF RecordOutput, ChildEnds, HostCrash, HostBoot, context
<1>8. Boot => sock' = sock
  BY DEF Boot, BootLoad, BootJudge, BootEnds, context
<1>q. QED
  BY <1>1, <1>2, <1>3, <1>4, <1>5, <1>6, <1>7, <1>8 DEF Next

LEMMA StarterBack ==
  ASSUME TypeOK, CodeOK, [Next]_vars
  PROVE  /\ act'["starter"].stage \in {"idle", "create"} =>
              act["starter"].stage \in {"idle", "create"}
         /\ act'["starter"].prog \in {LaunchFailProgram, <<Ev("launch_failed")>>} =>
              \/ act["starter"].prog \in {LaunchFailProgram, <<Ev("launch_failed")>>}
              \/ LaunchFails
<1> DEFINE Failing == {LaunchFailProgram, <<Ev("launch_failed")>>}
<1>0. "starter" \in Actors
  BY ActorNames
<1>1. \A p \in Failing : p # <<>> /\ Head(p).tag = "launch_failed"
  BY Tuples DEF LaunchFailProgram, M, Ev
<1>2. /\ Head(CreateProgram).tag = "created" /\ Head(LaunchedProgram).tag = "launched"
      /\ CreateProgram \notin Failing /\ LaunchedProgram \notin Failing /\ <<>> \notin Failing
  <2>1. Head(CreateProgram).tag = "created" /\ Head(LaunchedProgram).tag = "launched"
    BY Tuples DEF CreateProgram, LaunchedProgram, M
  <2>q. QED
    BY <1>1, <2>1
<1>3. <<Ev("note")>> \notin Failing /\ <<Ev("launched")>> \notin Failing
  <2>1. Head(<<Ev("note")>>).tag = "note" /\ Head(<<Ev("launched")>>).tag = "launched"
    BY Tuples DEF Ev
  <2>q. QED
    BY <1>1, <2>1
<1> HIDE DEF Failing
<1>4. CASE Step("starter")
  <2>1. act["starter"].prog # <<>>
    BY <1>0, <1>4, StepRuns
  <2>2. Tail(act["starter"].prog) \in Failing => act["starter"].prog \in Failing
    <3>1. act["starter"].prog = LaunchFailProgram => act["starter"].prog \in Failing
      BY DEF Failing
    <3>q. QED
      BY <1>2, <1>3, <2>1, <3>1, StarterAhead
  <2>3. act'["starter"].prog \in {act["starter"].prog, Tail(act["starter"].prog), <<>>}
    BY <1>0, <1>4, StepAfter, FailAfter
       DEF Reads, Writes, Skips, Appends, Pops, FileGone, Rested
  <2>4. act'["starter"].stage \in {act["starter"].stage, "failed"}
    BY <1>0, <1>4, StageAfterStep DEF Rested
  <2>q. QED
    BY <1>2, <2>2, <2>3, <2>4 DEF Failing
<1>5. CASE Starter
  BY <1>2, <1>5, StarterAfter DEF Rested, Failing, StartSession, Ready
<1>6. CASE HostCrash
  BY <1>0, <1>2, <1>6, HostAfter DEF Failing
<1>q. QED
  BY <1>4, <1>5, <1>6, StarterFrame

LEMMA ProcKept ==
  ASSUME TypeOK, CodeOK, ProcInv, [Next]_vars PROVE ProcInv'
<1>0. "worker" \in Actors /\ "starter" \in Actors
  BY ActorNames
<1>1. proc' = "none" => proc = "none" /\ ~LaunchWorker
  BY ProcFrame DEF LaunchWorker
<1>2. LaunchWorker => proc = "none" /\ child = "none"
  BY DEF LaunchWorker, Ready, ProcInv
<1>3. ASSUME proc' = "up" PROVE proc = "up" \/ LaunchWorker
  BY <1>3, ProcFrame
<1>4. Step("worker") => \/ act'["worker"].stage = act["worker"].stage
                        \/ proc' = "dead" /\ act'["worker"].stage = "failed"
  <2>1. FileGone("worker") => proc' = "dead"
    BY <1>0, FailAfter DEF FileGone
  <2>q. QED
    BY <1>0, <2>1, StageAfterStep DEF Rested
<1>5. ASSUME proc' = "none" PROVE act'["worker"].stage = "off" /\ child' = "none"
  <2>1. proc = "none" /\ ~LaunchWorker
    BY <1>1, <1>5
  <2>2. act'["worker"] = act["worker"]
    BY <2>1, WorkerFrame, WorkerRuns
  <2>3. act["worker"].stage = "off" /\ child = "none"
    BY <2>1 DEF ProcInv
  <2>4. ~SpawnChild
    BY <2>1, WorkerRuns DEF Worker
  <2>q. QED
    BY <2>2, <2>3, <2>4, ChildFrame
<1>6. ASSUME act'["worker"].stage = "off" PROVE proc' = "none"
  <2>1. ~LaunchWorker
    BY <1>6, LaunchedAfter
  <2>2. ~Worker /\ ~WorkerCrashes
    BY <1>6, WorkerAfter DEF Rested
  <2>3. act["worker"].stage = "off"
    BY <1>4, <1>6, <2>1, <2>2, WorkerFrame
  <2>4. proc = "none"
    BY <2>3 DEF ProcInv
  <2>q. QED
    BY <2>1, <2>4, ProcFrame
<1>7. ASSUME proc' = "up" PROVE act'["worker"].stage \notin {"done", "failed", "lost"}
  <2>1. CASE LaunchWorker
    BY <2>1, LaunchedAfter
  <2>2. CASE Worker \/ WorkerCrashes
    BY <1>7, <2>2, WorkerAfter DEF Rested
  <2>3. CASE Step("worker") \/ act'["worker"] = act["worker"]
    <3>1. act'["worker"].stage = act["worker"].stage
      BY <1>4, <1>7, <2>3
    <3>2. CASE proc = "up"
      BY <3>1, <3>2 DEF ProcInv
    <3>3. CASE proc # "up"
      BY <1>3, <1>7, <2>1, <3>3
    <3>q. QED
      BY <3>2, <3>3
  <2>q. QED
    BY <2>1, <2>2, <2>3, WorkerFrame
<1>8. ASSUME \/ act'["starter"].stage \in {"idle", "create"}
             \/ act'["starter"].prog \in {LaunchFailProgram, <<Ev("launch_failed")>>}
      PROVE  proc' = "none"
  <2>1. proc = "none"
    BY <1>8, StarterBack DEF ProcInv, LaunchFails, Ready
  <2>2. ~LaunchWorker
    <3>1. \A p \in {LaunchFailProgram, <<Ev("launch_failed")>>} : p # LaunchedProgram
      <4>1. /\ Head(LaunchedProgram).tag = "launched" /\ Head(LaunchFailProgram).tag = "launch_failed"
            /\ Head(<<Ev("launch_failed")>>).tag = "launch_failed"
        BY Tuples DEF LaunchedProgram, LaunchFailProgram, M, Ev
      <4>q. QED
        BY <4>1
    <3>q. QED
      BY <1>8, <3>1, LaunchedAfter
  <2>q. QED
    BY <2>1, <2>2, ProcFrame
<1>9. ASSUME proc' = "up", child' # "none"
      PROVE  act'["worker"].stage \in {"serve", "drained", "reaped", "exiting"}
  <2>1. ~LaunchWorker
    BY <1>2, <1>9, LaunchedAfter
  <2>2. proc = "up"
    BY <1>3, <1>9, <2>1
  <2>3. CASE SpawnChild
    BY <1>0, <2>3, WorkerAfter DEF Worker, SpawnChild, SpawnFails, OutputEnds, ReapChild, Ready, Rested,
       Becomes, TypeOK
  <2>4. CASE ~SpawnChild
    <3>1. act["worker"].stage \in {"serve", "drained", "reaped", "exiting"}
      BY <1>9, <2>2, <2>4, ChildFrame DEF ProcInv
    <3>2. CASE Worker \/ WorkerCrashes
      BY <1>9, <2>4, <3>1, <3>2, WorkerAfter DEF SpawnFails, Ready
    <3>q. QED
      BY <1>4, <1>9, <2>1, <3>1, <3>2, WorkerFrame
  <2>q. QED
    BY <2>3, <2>4
<1>10. ASSUME sock' PROVE child' # "none"
  BY <1>10, SockFrame, ChildFrame DEF ProcInv, SpawnChild
<1>q. QED
  BY <1>5, <1>6, <1>7, <1>8, <1>9, <1>10 DEF ProcInv

-----------------------------------------------------------------------------
(* Records that name no process.                                              *)

Unnamed(f) == Exists(f) /\ ~f.wpid /\ ~f.cpid
MetaOf(r)  == disk[r].meta

Created    == Unnamed(MetaOf("sessions")) /\ MetaOf("sessions").state = "starting"
Registered == act["worker"].stage # "boot" \/ act["worker"].prog # RegisterProgram
WorkerStale ==
  Holds("worker", "meta") /\ Tag("worker") # "registered" /\ Unnamed(act["worker"].snap)
Stale == \/ Unnamed(MetaOf("sessions")) /\ MetaOf("sessions").state # "starting"
         \/ WorkerStale

UnnamedStates ==
  /\ \A r \in Roots : Unnamed(MetaOf(r)) => MetaOf(r).state \notin {"running", "orphaned"}
  /\ \A a \in Actors : Holds(a, "meta") /\ Unnamed(act[a].snap)
                         => act[a].snap.state \notin {"running", "orphaned"}
  /\ Unnamed(MetaOf("archive")) => MetaOf("archive").state # "starting"

CreatedAlone ==
  Created =>
    /\ proc = "up" => ~Registered
    /\ ~Exists(disk["sessions"].worker) /\ disk["sessions"].last \notin Terminal
    /\ disk["archive"] = NoDir
    /\ act["starter"].prog \notin {<<Ev("launch_failed")>>, <<Ev("launched")>>}
    /\ act["boot"].stage = "judge" => act["boot"].held = NoFile
    /\ act["boot"].prog # <<>> => act["boot"].prog = ReconcileProgram /\ act["boot"].verdict = "lost"
    /\ \A h \in Handlers :
         /\ act[h].stage \notin Stopping \cup Marking \cup Removing
         /\ act[h].stage = "kill" => act[h].verdict \notin Terminal /\ act[h].root = "sessions"

StaleAlone ==
  Stale =>
    /\ \A h \in Handlers :
         /\ act[h].stage \notin Stopping \cup Marking
         /\ act[h].stage = "kill" /\ act[h].root = "sessions" => proc # "up"
    /\ act["starter"].stage # "create"
    /\ act["starter"].prog # <<>> => Head(act["starter"].prog).file = "events"
    /\ Holds("boot", "meta") => Unnamed(act["boot"].snap)
    /\ \A r \in Roots : Exists(MetaOf(r)) => Unnamed(MetaOf(r)) /\ MetaOf(r).state # "starting"

HandlersNamed ==
  \A h \in Handlers :
    /\ Holds(h, "meta") => ~Unnamed(act[h].snap)
    /\ act[h].stage \in {"sigterm", "final"} => act[h].held.wpid \/ act[h].held.cpid
    /\ act[h].stage \in Stopping \cup Marking /\ act[h].root = "archive" => ~Unnamed(MetaOf("archive"))

BootCopy ==
  Holds("boot", "meta") /\ Unnamed(act["boot"].snap)
    => act["boot"].verdict = "lost" /\ disk["archive"] = NoDir

StarterMade ==
  \/ act["starter"].stage = "create" /\ act["starter"].prog # CreateProgram
  \/ act["starter"].prog = LaunchFailProgram
  => Created

NamesInv == /\ UnnamedStates /\ CreatedAlone /\ StaleAlone
            /\ HandlersNamed /\ BootCopy /\ StarterMade

LEMMA SnapTag ==
  ASSUME SnapOK, NEW a \in Actors, Exists(act[a].snap)
  PROVE  Tag(a) \notin FreshTags /\ act[a].prog # <<>>
  BY DEF SnapOK

\* What the tags of an actor's updates can be.
LEMMA MetaTagsOf ==
  ASSUME CodeOK, NEW a \in Actors, act[a].prog # <<>>, Head(act[a].prog).file = "meta"
  PROVE  \/ a = "starter" /\ Tag(a) \in {"created", "launched", "launch_failed"}
         \/ a = "worker" /\ Tag(a) \in {"registered", "running", "failed_start", "exited"}
         \/ a = "boot" /\ Tag(a) = "reconciled" /\ act[a].prog = ReconcileProgram
         \/ a \in Handlers /\ Tag(a) \in {"stop", "killed"}
            /\ act[a].stage \in Stopping \cup Marking
<1>1. CASE a = "starter"
  BY <1>1, StarterAhead DEF Tag, M, Ev
<1>2. CASE a = "worker"
  BY <1>2, WorkerAhead DEF Tag, M, W, Ev
<1>3. CASE a = "boot"
  BY <1>3, BootAhead DEF Tag, M, W, Ev
<1>4. CASE a \in Handlers
  BY <1>4, HandlerAhead DEF Tag, M, W, Ev, Stopping
<1>q. QED
  BY <1>1, <1>2, <1>3, <1>4, ActorNames

LEMMA WorkerTagsOf ==
  ASSUME CodeOK, NEW a \in Actors, act[a].prog # <<>>, Head(act[a].prog).file = "worker"
  PROVE  \/ a = "worker" /\ Tag(a) \in {"fresh", "running", "failed_start", "exited"}
         \/ a = "boot" /\ Tag(a) = "reconciled" /\ act[a].prog # ReconcileProgram
         \/ a \in Handlers /\ Tag(a) \in {"stop", "killed"}
            /\ act[a].stage \in Stopping \cup Marking
<1>1. CASE a = "starter"
  BY <1>1, StarterAhead DEF Tag, M, Ev
<1>2. CASE a = "worker"
  BY <1>2, WorkerAhead DEF Tag, M, W, Ev
<1>3. CASE a = "boot"
  <2>1. Head(ReconcileProgram).file = "meta"
    BY Tuples DEF ReconcileProgram, M
  <2>q. QED
    BY <1>3, <2>1, BootAhead DEF Tag, M, W, Ev
<1>4. CASE a \in Handlers
  BY <1>4, HandlerAhead DEF Tag, M, W, Ev, Stopping
<1>q. QED
  BY <1>1, <1>2, <1>3, <1>4, ActorNames

LEMMA WrittenUnnamed ==
  ASSUME Base, NEW a \in Actors, NEW r \in Roots, FileWritten(a, r, "meta"),
         Unnamed(disk'[r].meta)
  PROVE  LET new == disk'[r].meta
         IN \/ /\ a = "starter" /\ act[a].prog = CreateProgram /\ new.state = "starting"
               /\ act[a].stage = "create" /\ r = "sessions"
            \/ /\ a = "starter" /\ act[a].prog = LaunchFailProgram
               /\ act[a].stage = "tail" /\ new.state = "failed_start" /\ r = "sessions"
            \/ /\ a = "worker" /\ WorkerStale /\ r = "sessions"
               /\ new.state \in {"failed_start", "killed", "crashed", "exited"}
            \/ /\ a = "boot" /\ Holds(a, "meta") /\ Unnamed(act[a].snap) /\ r = "sessions"
               /\ new.state = act[a].verdict
            \/ a \in Handlers /\ Holds(a, "meta") /\ Unnamed(act[a].snap)
<1> DEFINE new == disk'[r].meta
<1> USE DEF Base
<1>1. /\ Writes(a, "meta") /\ act[a].root = r
      /\ new = Apply(Tag(a), act[a].snap, act[a].verdict)
  BY DEF FileWritten
<1>2. /\ act[a].prog # <<>> /\ Head(act[a].prog).file = "meta"
      /\ Tag(a) \in FreshTags \/ Exists(act[a].snap)
  BY <1>1 DEF Writes, Next1
<1>3. /\ Exists(new) /\ new.state = WrittenState(a)
      /\ new.wpid = (act[a].snap.wpid \/ Tag(a) \in WorkerPidTags)
      /\ new.cpid = (Tag(a) = "running" \/ (act[a].snap.cpid /\ Tag(a) # "registered"))
  BY <1>1, Written
<1> HIDE DEF new
<1>4. ~new.wpid /\ ~new.cpid
  BY DEF Unnamed, new
<1>5. ~act[a].snap.wpid /\ Tag(a) \notin WorkerPidTags /\ Tag(a) # "running"
  BY <1>3, <1>4
<1>6. ~act[a].snap.cpid
  BY <1>3, <1>4, <1>5 DEF WorkerPidTags
<1>7. Tag(a) \notin FreshTags => Holds(a, "meta") /\ Unnamed(act[a].snap)
  BY <1>2, <1>5, <1>6 DEF Holds, Unnamed
<1>8. a \in {"starter", "worker", "boot"} => r = "sessions"
  BY <1>1 DEF CodeOK
<1>9. CASE a = "starter"
  <2>1. Tag(a) \in {"created", "launch_failed"}
    BY <1>2, <1>5, <1>9, MetaTagsOf, ActorNames DEF WorkerPidTags
  <2>2. \/ Tag(a) = "created" /\ act[a].prog = CreateProgram /\ act[a].stage = "create"
        \/ Tag(a) = "launch_failed" /\ act[a].prog = LaunchFailProgram /\ act[a].stage = "tail"
    BY <1>2, <1>9, <2>1, StarterAhead DEF Tag, M, Ev
  <2>3. \/ Tag(a) = "created" /\ new.state = "starting"
        \/ Tag(a) = "launch_failed" /\ new.state = "failed_start"
    BY <1>3, <2>1 DEF WrittenState, NewState
  <2>4. Tag(a) = "created" => Tag(a) # "launch_failed"
    OBVIOUS
  <2>q. QED
    BY <1>8, <1>9, <2>2, <2>3, <2>4 DEF new
<1>10. CASE a = "worker"
  <2>1. Tag(a) \in {"failed_start", "exited"}
    BY <1>2, <1>5, <1>10, MetaTagsOf, ActorNames DEF WorkerPidTags
  <2>2. WorkerStale
    BY <1>7, <1>10, <2>1 DEF WorkerStale, FreshTags
  <2>3. Tag(a) = "exited" => act[a].stage = "exiting"
    BY <1>2, <1>10, WorkerAhead DEF Tag, M, W, Ev
  <2>4. new.state \in {"failed_start", "killed", "crashed", "exited"}
    BY <1>3, <1>10, <2>1, <2>3 DEF WrittenState, NewState, VerdictOK
  <2>q. QED
    BY <1>8, <1>10, <2>2, <2>4 DEF new
<1>11. CASE a = "boot"
  <2>1. Tag(a) = "reconciled"
    BY <1>2, <1>11, MetaTagsOf, ActorNames
  <2>2. new.state = act[a].verdict
    BY <1>3, <2>1 DEF WrittenState, NewState
  <2>q. QED
    BY <1>7, <1>8, <1>11, <2>1, <2>2 DEF new, FreshTags
<1>12. CASE a \in Handlers
  <2>1. Tag(a) \in {"stop", "killed"}
    BY <1>2, <1>12, MetaTagsOf, ActorNames
  <2>q. QED
    BY <1>7, <1>12, <2>1 DEF FreshTags
<1>q. QED
  BY <1>9, <1>10, <1>11, <1>12, ActorNames

LEMMA NamesInit == Init => NamesInv
<1> SUFFICES ASSUME Init PROVE NamesInv
  OBVIOUS
<1>0. "worker" \in Actors /\ "starter" \in Actors /\ "boot" \in Actors /\ Handlers \subseteq Actors
  BY ActorNames
<1>1. \A r \in Roots : MetaOf(r) = NoFile
  BY DEF Init, NoDir, MetaOf
<1>2. \A a \in Actors : /\ act[a].prog = <<>> /\ act[a].stage \in {"idle", "off"}
                        /\ a # "worker" => act[a].stage = "idle"
  <2>1. \A a \in Actors : act[a] = Fresh(IF a = "worker" THEN "off" ELSE "idle")
    BY DEF Init
  <2>q. QED
    BY <2>1, FreshFields
<1>3. \A a \in Actors, f \in {"meta", "worker"} : ~Holds(a, f)
  BY <1>2 DEF Holds
<1>4. \A r \in Roots : ~Unnamed(MetaOf(r)) /\ ~Exists(MetaOf(r))
  BY <1>1, StateExists DEF Unnamed
<1>5. ~Created /\ ~Stale
  BY <1>0, <1>3, <1>4 DEF Created, Stale, WorkerStale, Roots
<1>6. UnnamedStates /\ CreatedAlone /\ StaleAlone /\ BootCopy
  BY <1>0, <1>3, <1>4, <1>5 DEF UnnamedStates, CreatedAlone, StaleAlone, BootCopy, Roots
<1>7. HandlersNamed
  BY <1>0, <1>2, <1>3 DEF HandlersNamed, Stopping, Marking
<1>8. StarterMade
  BY <1>0, <1>2, Lengths DEF StarterMade, LaunchFailProgram
<1>q. QED
  BY <1>6, <1>7, <1>8 DEF NamesInv

-----------------------------------------------------------------------------
\* What a step does to the last terminal state of the events, and to archive/.

LEMMA LastAfter ==
  ASSUME TypeOK, [Next]_vars, NEW r \in Roots
  PROVE  \/ disk'[r].last = disk[r].last
         \/ \E a \in Actors :
              /\ Appends(a) /\ act[a].root = r
              /\ LET state == EventState(Tag(a), act[a].verdict, disk[r].meta.state)
                 IN state \in Terminal /\ disk'[r].last = state
         \/ \E h \in Handlers : FileRemoved(h, r) \/ FileMoved(h, r)
<1> DEFINE Goal ==
     \/ disk'[r].last = disk[r].last
     \/ \E a \in Actors :
          /\ Appends(a) /\ act[a].root = r
          /\ LET state == EventState(Tag(a), act[a].verdict, disk[r].meta.state)
             IN state \in Terminal /\ disk'[r].last = state
     \/ \E h \in Handlers : FileRemoved(h, r) \/ FileMoved(h, r)
<1>0. disk \in [Roots -> Dir] /\ r \in {"sessions", "archive"}
  BY DEF TypeOK, Roots
<1>1. CASE RecordOutput
  <2>1. disk["sessions"] \in Dir
    BY <1>0 DEF Roots
  <2>2. disk' = [disk EXCEPT !["sessions"] =
       [disk["sessions"] EXCEPT !.events = disk["sessions"].events \cup {"other"}]]
    BY <1>1 DEF RecordOutput
  <2>3. CASE r = "sessions"
    <3>1. disk'[r] = [disk["sessions"] EXCEPT !.events = disk["sessions"].events \cup {"other"}]
      BY <1>0, <2>2, <2>3
    <3>q. QED
      BY <2>1, <2>3, <3>1 DEF Dir
  <2>4. CASE r # "sessions"
    BY <1>0, <2>2, <2>4
  <2>q. QED
    BY <2>3, <2>4
<1>2. ASSUME NEW a \in Actors, Appends(a) PROVE Goal
  BY <1>2 DEF Appends, Here
<1>3. ASSUME NEW a \in Actors, NEW g \in {"meta", "worker"}, Writes(a, g)
      PROVE  disk'[r].last = disk[r].last
  BY <1>3 DEF Writes, Here
<1>4. ASSUME NEW h \in Handlers, Purge(h) PROVE disk'[r] = disk[r] \/ FileRemoved(h, r)
  <2>1. disk' = [disk EXCEPT ![act[h].root] = NoDir]
    BY <1>4 DEF Purge
  <2>2. r # act[h].root => disk'[r] = disk[r]
    BY <1>0, <2>1
  <2>3. r = act[h].root => disk'[r] = NoDir
    BY <1>0, <2>1
  <2>q. QED
    BY <1>4, <2>2, <2>3 DEF FileRemoved
<1>5. ASSUME NEW h \in Handlers, Archive(h) PROVE FileRemoved(h, r) \/ FileMoved(h, r)
  <2>1. disk' = [disk EXCEPT !["archive"] = disk["sessions"], !["sessions"] = NoDir]
    BY <1>5 DEF Archive
  <2>2. CASE r = "sessions"
    BY <1>0, <1>5, <2>1, <2>2 DEF FileRemoved, Roots
  <2>3. CASE r = "archive"
    BY <1>0, <1>5, <2>1, <2>3 DEF FileMoved, Roots
  <2>q. QED
    BY <1>0, <2>2, <2>3
<1>q. QED
  BY <1>1, <1>2, <1>3, <1>4, <1>5, DiskSteady

LEMMA ArchiveAfter ==
  ASSUME TypeOK, CodeOK, [Next]_vars
  PROVE  \/ disk'["archive"] = disk["archive"]
         \/ \E h \in Handlers : \/ act[h].root = "archive" /\ act[h].prog # <<>>
                                \/ Purge(h) \/ Archive(h)
<1>0. disk \in [Roots -> Dir] /\ "archive" \in Roots /\ "sessions" \in Roots
  BY DEF TypeOK, Roots
<1>1. CASE RecordOutput
  BY <1>0, <1>1 DEF RecordOutput
<1>2. ASSUME NEW a \in Actors, Appends(a) \/ \E g \in {"meta", "worker"} : Writes(a, g)
      PROVE  \/ disk'["archive"] = disk["archive"]
             \/ a \in Handlers /\ act[a].root = "archive" /\ act[a].prog # <<>>
  <2>1. act[a].root # "archive" => disk'["archive"] = disk["archive"]
    BY <1>0, <1>2 DEF Appends, Writes
  <2>2. act[a].root = "archive" => a \in Handlers
    BY ActorNames DEF CodeOK
  <2>3. act[a].prog # <<>>
    BY <1>2 DEF Appends, Writes, Next1
  <2>q. QED
    BY <2>1, <2>2, <2>3
<1>q. QED
  BY <1>1, <1>2, DiskSteady

-----------------------------------------------------------------------------
\* A created record stays alone with the actors that know it.

LEMMA PurgeStage ==
  ASSUME NEW h \in Handlers, Purge(h) \/ Archive(h)
  PROVE  act[h].stage \in Removing /\ act[h].prog = <<>>
  BY DEF Purge, Archive, Ready, Removing

LEMMA CreatedBack ==
  ASSUME Base, NamesInv, [Next]_vars, Created'
  PROVE  \/ Created
         \/ FileWritten("starter", "sessions", "meta") /\ BeforeStart
<1> DEFINE Goal ==
     \/ Created
     \/ FileWritten("starter", "sessions", "meta") /\ BeforeStart
<1> USE DEF Base
<1>0. "sessions" \in Roots
  BY DEF Roots
<1>1. Unnamed(disk'["sessions"].meta) /\ disk'["sessions"].meta.state = "starting"
  BY DEF Created, Unnamed, Exists, MetaOf
<1>2. CASE disk'["sessions"].meta = disk["sessions"].meta
  BY <1>1, <1>2 DEF Created, MetaOf
<1>3. ASSUME NEW a \in Actors, FileWritten(a, "sessions", "meta") PROVE Goal
  <2>1. ~(a \in Handlers /\ Holds(a, "meta") /\ Unnamed(act[a].snap))
    BY DEF NamesInv, HandlersNamed
  <2>2. a = "boot" /\ Holds(a, "meta") /\ Unnamed(act[a].snap) => act[a].verdict = "lost"
    BY DEF NamesInv, BootCopy
  <2>3. a = "starter" /\ act[a].prog = CreateProgram /\ act[a].stage = "create"
    BY <1>0, <1>1, <1>3, <2>1, <2>2, WrittenUnnamed
  <2>q. QED
    BY <1>3, <2>3 DEF BeforeStart
<1>4. ASSUME NEW h \in Handlers PROVE ~FileRemoved(h, "sessions") /\ ~FileMoved(h, "sessions")
  <2>1. Exists(disk'["sessions"].meta)
    BY <1>1 DEF Unnamed
  <2>q. QED
    BY <2>1, StateExists DEF FileRemoved, FileMoved, NoDir
<1>q. QED
  BY <1>0, <1>2, <1>3, <1>4, FileAfter

LEMMA CreatedFromScratch ==
  ASSUME Base, FileWritten("starter", "sessions", "meta"), BeforeStart,
         [Next]_vars, Created'
  PROVE  CreatedAlone'
<1> USE DEF Base
<1>0. "starter" \in Actors /\ "boot" \in Actors /\ Handlers \subseteq Actors
      /\ "sessions" \in Roots /\ "archive" \in Roots
  BY ActorNames DEF Roots
<1>1. /\ \A r \in Roots : disk[r] = NoDir
      /\ proc = "none" /\ act["boot"].prog = <<>> /\ act["boot"].stage # "judge"
      /\ \A h \in Handlers : act[h].stage = "idle"
  BY DEF StartInv
<1>2. Writes("starter", "meta") /\ act["starter"].root = "sessions"
  BY DEF FileWritten
<1>3. /\ UNCHANGED processes /\ Pops("starter")
      /\ disk'["archive"] = disk["archive"]
      /\ disk'["sessions"].worker = disk["sessions"].worker
      /\ disk'["sessions"].last = disk["sessions"].last
  BY <1>0, <1>2 DEF Writes, Here
<1>4. /\ act'["boot"] = act["boot"] /\ \A h \in Handlers : act'[h] = act[h]
  BY <1>0, <1>3, ActorNames DEF Pops, Only
<1>5. act'["starter"].prog = <<Ev("note")>>
  <2>1. act["starter"].prog # <<>> /\ Head(act["starter"].prog).file = "meta"
    BY <1>2 DEF Writes, Next1
  <2>2. act["starter"].stage # "idle"
    BY <2>1, RestingCode DEF Resting
  <2>3. Tail(CreateProgram) = <<Ev("note")>>
    BY Tuples DEF CreateProgram
  <2>q. QED
    BY <1>3, <2>2, <2>3 DEF BeforeStart, Pops
<1>6. <<Ev("note")>> \notin {<<Ev("launch_failed")>>, <<Ev("launched")>>}
  <2>1. /\ Head(<<Ev("note")>>).tag = "note" /\ Head(<<Ev("launched")>>).tag = "launched"
        /\ Head(<<Ev("launch_failed")>>).tag = "launch_failed"
    BY Tuples DEF Ev
  <2>q. QED
    BY <2>1
<1>7. ~Exists(disk'["sessions"].worker) /\ disk'["sessions"].last \notin Terminal
      /\ disk'["archive"] = NoDir
  <2>1. NoDir.worker = NoFile /\ NoDir.last = "absent"
    BY DEF NoDir
  <2>2. disk["sessions"] = NoDir /\ disk["archive"] = NoDir
    BY <1>0, <1>1
  <2>3. disk'["sessions"].worker = NoFile /\ disk'["sessions"].last = "absent"
    BY <1>3, <2>1, <2>2
  <2>4. "absent" \notin Terminal
    BY DEF Terminal
  <2>q. QED
    BY <1>3, <2>2, <2>3, <2>4, StateExists
<1>8. \A h \in Handlers : act'[h].stage \notin Stopping \cup Marking \cup Removing \cup {"kill"}
  BY <1>1, <1>4 DEF Stopping, Marking, Removing
<1>q. QED
  BY <1>1, <1>3, <1>4, <1>5, <1>6, <1>7, <1>8 DEF CreatedAlone, processes, Exists

\* Nobody writes the record, or leaves the actors that know it, while it stays so.
LEMMA CreatedWriter ==
  ASSUME Base, Created', NEW a \in Actors, FileWritten(a, "sessions", "meta")
  PROVE  Tag(a) \notin {"registered", "launched", "launch_failed", "running"}
         /\ (Tag(a) = "reconciled" => act[a].verdict = "starting")
<1> USE DEF Base
<1>1. /\ Writes(a, "meta")
      /\ disk'["sessions"].meta = Apply(Tag(a), act[a].snap, act[a].verdict)
  BY DEF FileWritten
<1>2. /\ disk'["sessions"].meta.state = WrittenState(a)
      /\ disk'["sessions"].meta.wpid = (act[a].snap.wpid \/ Tag(a) \in WorkerPidTags)
      /\ disk'["sessions"].meta.cpid
           = (Tag(a) = "running" \/ (act[a].snap.cpid /\ Tag(a) # "registered"))
  BY <1>1, Written
<1>3. /\ ~disk'["sessions"].meta.wpid /\ ~disk'["sessions"].meta.cpid
      /\ disk'["sessions"].meta.state = "starting"
  BY DEF Created, Unnamed, MetaOf
<1>4. Tag(a) \notin {"registered", "launched", "running"}
  BY <1>2, <1>3 DEF WorkerPidTags
<1>5. Tag(a) = "launch_failed" => WrittenState(a) = "failed_start"
  BY DEF WrittenState, NewState
<1>6. Tag(a) = "reconciled" => WrittenState(a) = act[a].verdict
  BY DEF WrittenState, NewState
<1>q. QED
  BY <1>2, <1>3, <1>4, <1>5, <1>6

LEMMA CreatedWorker ==
  ASSUME Base, ProcInv, NamesInv, [Next]_vars, Created, Created', proc' = "up"
  PROVE  ~Registered'
<1> USE DEF Base
<1>0. "worker" \in Actors /\ "sessions" \in Roots
  BY ActorNames DEF Roots
<1>1. CASE LaunchWorker
  BY <1>1, LaunchedAfter DEF Registered
<1>2. CASE ~LaunchWorker
  <2>1. proc = "up"
    BY <1>2, ProcFrame
  <2>2. act["worker"].stage = "boot" /\ act["worker"].prog = RegisterProgram
    BY <2>1 DEF NamesInv, CreatedAlone, Registered
  <2>3. /\ act["worker"].prog # <<>> /\ Head(act["worker"].prog).file = "meta"
        /\ Tag("worker") = "registered"
    BY <2>2, Tuples DEF RegisterProgram, Tag, M
  <2>4. ~Worker
    BY <2>2, <2>3 DEF Worker, SpawnChild, SpawnFails, OutputEnds, ReapChild, DecideExit, WorkerExits, Ready
  <2>5. ~WorkerCrashes
    BY DEF WorkerCrashes
  <2>6. CASE act'["worker"] = act["worker"]
    BY <2>2, <2>6 DEF Registered
  <2>7. CASE Step("worker")
    <3>1. ASSUME NEW f \in {"meta", "worker"}, Writes("worker", f) PROVE FALSE
      <4>1. f = "meta"
        BY <2>3, <3>1 DEF Writes, Next1
      <4>2. FileWritten("worker", "sessions", "meta")
        BY <3>1, <4>1 DEF CodeOK, Writes, FileWritten
      <4>q. QED
        BY <1>0, <2>3, <4>2, CreatedWriter
    <3>2. ASSUME NEW f \in {"meta", "worker"}, Skips("worker", f) PROVE FALSE
      BY <2>3, <3>2 DEF Skips, Next1
    <3>3. ~Appends("worker")
      BY <2>3 DEF Appends, Next1
    <3>4. ~FileGone("worker")
      BY <1>0, FailAfter DEF FileGone
    <3>5. ASSUME NEW f \in {"meta", "worker"}, Reads("worker", f) PROVE ~Registered'
      BY <2>2, <3>5 DEF Reads, Registered
    <3>q. QED
      BY <1>0, <2>7, <3>1, <3>2, <3>3, <3>4, <3>5, StepAfter
  <2>q. QED
    BY <1>2, <2>4, <2>5, <2>6, <2>7, WorkerFrame
<1>q. QED
  BY <1>1, <1>2

\* Whoever has an update or an event left to do is at it with meta.json.
LEMMA CreatedProgs ==
  ASSUME Base, NamesInv, Created, NEW a \in Actors, act[a].prog # <<>>, Running(a)
  PROVE  \/ a = "starter" /\ Head(act[a].prog).file # "worker"
              /\ act[a].prog \notin {<<Ev("launch_failed")>>, <<Ev("launched")>>}
         \/ a \in {"worker", "boot"} /\ Head(act[a].prog).file = "meta"
         \/ a \in Handlers /\ act[a].stage = "kill" /\ Head(act[a].prog) = Ev("kill")
<1> USE DEF Base
<1>1. CASE a = "starter"
  <2>1. act[a].prog \notin {<<Ev("launch_failed")>>, <<Ev("launched")>>}
    BY <1>1 DEF NamesInv, CreatedAlone
  <2>q. QED
    BY <1>1, <2>1, StarterAhead DEF M, Ev
<1>2. CASE a = "worker"
  <2>1. act[a].prog = RegisterProgram
    BY <1>2 DEF NamesInv, CreatedAlone, Registered, Running
  <2>q. QED
    BY <1>2, <2>1, Tuples DEF RegisterProgram, M
<1>3. CASE a = "boot"
  <2>1. act[a].prog = ReconcileProgram
    BY <1>3 DEF NamesInv, CreatedAlone
  <2>q. QED
    BY <1>3, <2>1, Tuples DEF ReconcileProgram, M
<1>4. CASE a \in Handlers
  <2>1. act[a].stage \notin Stopping \cup Marking \cup Removing
    BY <1>4 DEF NamesInv, CreatedAlone
  <2>q. QED
    BY <1>4, <2>1, HandlerAhead DEF Stopping, Removing
<1>q. QED
  BY <1>1, <1>2, <1>3, <1>4, ActorNames

LEMMA StarterEvents ==
  ASSUME CodeOK, act["starter"].prog # <<>>, Head(act["starter"].prog).file = "events",
         act["starter"].prog \notin {<<Ev("launch_failed")>>, <<Ev("launched")>>}
  PROVE  Head(act["starter"].prog) = Ev("note")
<1> DEFINE p == act["starter"].prog
<1>1. p \in StarterCode(act["starter"].stage) /\ p # <<>> /\ Head(p).file = "events"
  BY DEF CodeOK
<1> HIDE DEF p
<1>2. \A t, e : p \in Records(t, e) => p = <<Ev(e)>>
  <2> SUFFICES ASSUME NEW t, NEW e, p \in Records(t, e) PROVE p = <<Ev(e)>>
    OBVIOUS
  <2>1. Head(<<M(t), Ev(e)>>).file = "meta"
    BY Tuples DEF M
  <2>q. QED
    BY <1>1, <2>1 DEF Records
<1>3. p \in {<<Ev("note")>>, <<Ev("launched")>>, <<Ev("launch_failed")>>}
  BY <1>1, <1>2 DEF StarterCode
<1>q. QED
  BY <1>3, Tuples DEF p

LEMMA CreatedDisk ==
  ASSUME Base, NamesInv, [Next]_vars, Created, Created'
  PROVE  /\ ~Exists(disk'["sessions"].worker) /\ disk'["sessions"].last \notin Terminal
         /\ disk'["archive"] = NoDir
<1> USE DEF Base
<1>0. "sessions" \in Roots
  BY DEF Roots
<1>1. \A h \in Handlers : ~Purge(h) /\ ~Archive(h)
  BY PurgeStage DEF NamesInv, CreatedAlone
<1>2. \A h \in Handlers : \A r : ~FileRemoved(h, r) /\ ~FileMoved(h, r)
  BY <1>1 DEF FileRemoved, FileMoved
<1>3. ~Exists(disk'["sessions"].worker)
  <2>1. ASSUME NEW a \in Actors, FileWritten(a, "sessions", "worker") PROVE FALSE
    <3>1. Running(a) /\ act[a].prog # <<>> /\ Head(act[a].prog).file = "worker"
      BY <2>1 DEF FileWritten, Writes, Next1
    <3>q. QED
      BY <3>1, CreatedProgs DEF Ev
  <2>2. disk'["sessions"].worker = disk["sessions"].worker
    BY <1>0, <1>2, <2>1, FileAfter
  <2>q. QED
    BY <2>2 DEF NamesInv, CreatedAlone
<1>4. disk'["sessions"].last \notin Terminal
  <2>1. ASSUME NEW a \in Actors, Appends(a), act[a].root = "sessions"
        PROVE  EventState(Tag(a), act[a].verdict, disk["sessions"].meta.state) \notin Terminal
    <3>1. Running(a) /\ act[a].prog # <<>> /\ Head(act[a].prog).file = "events"
      BY <2>1 DEF Appends, Next1
    <3>2. CASE a = "starter"
      <4>1. act[a].prog \notin {<<Ev("launch_failed")>>, <<Ev("launched")>>}
        BY <3>1, <3>2, CreatedProgs, ActorNames
      <4>2. Head(act[a].prog) = Ev("note")
        BY <3>1, <3>2, <4>1, StarterEvents
      <4>3. Tag(a) = "note"
        BY <4>2 DEF Tag, Ev
      <4>q. QED
        BY <4>3 DEF EventState, Terminal
    <3>3. CASE a \in Handlers
      <4>1. act[a].stage = "kill" /\ Tag(a) = "kill"
        BY <3>1, <3>3, CreatedProgs, ActorNames DEF Tag, Ev
      <4>2. act[a].verdict \notin Terminal
        BY <3>3, <4>1 DEF NamesInv, CreatedAlone
      <4>q. QED
        BY <4>1, <4>2 DEF EventState
    <3>q. QED
      BY <3>1, <3>2, <3>3, CreatedProgs
  <2>q. QED
    BY <1>0, <1>2, <2>1, LastAfter DEF NamesInv, CreatedAlone
<1>5. disk'["archive"] = NoDir
  <2>1. ASSUME NEW h \in Handlers, act[h].root = "archive", act[h].prog # <<>> PROVE FALSE
    <3>1. act[h].stage \notin Stopping \cup Marking \cup Removing \cup {"kill"}
      BY <2>1 DEF NamesInv, CreatedAlone
    <3>q. QED
      BY <2>1, <3>1, HandlerAhead DEF Stopping, Removing
  <2>q. QED
    BY <1>1, <2>1, ArchiveAfter DEF NamesInv, CreatedAlone
<1>q. QED
  BY <1>3, <1>4, <1>5

LEMMA CreatedStarter ==
  ASSUME Base, NamesInv, [Next]_vars, Created, Created'
  PROVE  act'["starter"].prog \notin {<<Ev("launch_failed")>>, <<Ev("launched")>>}
<1> USE DEF Base
<1> DEFINE Said == {<<Ev("launch_failed")>>, <<Ev("launched")>>}
<1>0. "starter" \in Actors /\ "sessions" \in Roots
  BY ActorNames DEF Roots
<1>1. \A p \in Said : p # <<>> /\ Head(p).file = "events" /\ Head(p).tag # "note"
  BY Tuples DEF Ev
<1>2. <<>> \notin Said /\ CreateProgram \notin Said /\ LaunchedProgram \notin Said
      /\ LaunchFailProgram \notin Said
  <2>1. /\ Head(CreateProgram).file = "meta" /\ Head(LaunchedProgram).file = "meta"
        /\ Head(LaunchFailProgram).file = "meta"
    BY Tuples DEF CreateProgram, LaunchedProgram, LaunchFailProgram, M
  <2>q. QED
    BY <1>1, <2>1
<1>3. act["starter"].prog \notin Said
  BY DEF NamesInv, CreatedAlone
<1> HIDE DEF Said
<1>4. CASE Step("starter")
  <2>1. act["starter"].prog # <<>> /\ Running("starter")
    BY <1>0, <1>4, StepRuns
  <2>2. \/ act'["starter"].prog \in {act["starter"].prog, <<>>}
        \/ /\ act'["starter"].prog = Tail(act["starter"].prog)
           /\ \/ \E f \in {"meta", "worker"} : Writes("starter", f) \/ Skips("starter", f)
              \/ Appends("starter")
    BY <1>0, <1>4, StepAfter, FailAfter
       DEF Reads, Writes, Skips, Appends, Pops, FileGone, Rested
  <2>3. ASSUME act'["starter"].prog = Tail(act["starter"].prog), Tail(act["starter"].prog) \in Said
        PROVE  FALSE
    <3>1. Tag("starter") \in {"launched", "launch_failed"} /\ Head(act["starter"].prog).file = "meta"
      <4>1. Tail(act["starter"].prog) # <<>> /\ Tail(act["starter"].prog) # <<Ev("note")>>
        <5>1. Head(<<Ev("note")>>).tag = "note"
          BY Tuples DEF Ev
        <5>q. QED
          BY <1>1, <2>3, <5>1
      <4>q. QED
        BY <2>1, <4>1, StarterAhead DEF Tag, M
    <3>2. ASSUME NEW f \in {"meta", "worker"}, Writes("starter", f) PROVE FALSE
      <4>1. FileWritten("starter", "sessions", "meta")
        BY <3>1, <3>2 DEF CodeOK, Writes, FileWritten, Next1
      <4>q. QED
        BY <1>0, <3>1, <4>1, CreatedWriter
    <3>3. ASSUME NEW f \in {"meta", "worker"}, Skips("starter", f) PROVE FALSE
      BY <3>1, <3>3 DEF Skips, Next1
    <3>4. ~Appends("starter")
      BY <3>1 DEF Appends, Next1
    <3>5. act'["starter"].prog # act["starter"].prog /\ act'["starter"].prog # <<>>
      BY <1>2, <1>3, <2>3
    <3>q. QED
      BY <2>2, <3>2, <3>3, <3>4, <3>5
  <2>q. QED
    BY <1>2, <1>3, <2>2, <2>3 DEF Said
<1>5. CASE Starter
  BY <1>2, <1>5, StarterAfter DEF Rested, Said
<1>6. CASE HostCrash
  BY <1>0, <1>2, <1>3, <1>6, HostAfter DEF Said
<1>q. QED
  BY <1>3, <1>4, <1>5, <1>6, StarterFrame DEF Said

LEMMA NothingLoaded ==
  ASSUME Base, NamesInv, Created
  PROVE  /\ Loaded = NoFile
         /\ act["boot"].held = NoFile => BootVerdict = "lost"
<1> USE DEF Base
<1>0. "sessions" \in Roots
  BY DEF Roots
<1>1. Loaded = NoFile
  <2>1. disk["sessions"].worker = NoFile
    BY <1>0 DEF NamesInv, CreatedAlone, NoFiles
  <2>2. ~disk["sessions"].meta.wpid /\ ~disk["sessions"].meta.cpid
    BY DEF Created, Unnamed, MetaOf
  <2>3. Loaded = [NoFile EXCEPT !.wpid = NoFile.wpid \/ disk["sessions"].meta.wpid,
                                !.cpid = NoFile.cpid \/ disk["sessions"].meta.cpid]
    BY <2>1 DEF Loaded
  <2>4. (NoFile.wpid \/ disk["sessions"].meta.wpid) = FALSE
        /\ (NoFile.cpid \/ disk["sessions"].meta.cpid) = FALSE
    BY <2>2 DEF NoFile
  <2>5. Loaded = [NoFile EXCEPT !.wpid = FALSE, !.cpid = FALSE]
    BY <2>3, <2>4
  <2>q. QED
    BY <2>5 DEF NoFile
<1>2. ASSUME act["boot"].held = NoFile PROVE BootVerdict = "lost"
  <2>1. \A l : Liveness(act["boot"].held.wpid, l) = "unknown"
        /\ Liveness(act["boot"].held.cpid, l) = "unknown"
    BY <1>2 DEF Liveness, NoFile
  <2>2. disk["sessions"].last \notin Terminal
    BY DEF NamesInv, CreatedAlone
  <2>3. Evidence(act["boot"].held.state, disk["sessions"].last) = "lost"
    BY <1>2, <2>2 DEF Evidence, NoFile, Terminal
  <2>4. Judge("unknown", "unknown", "lost") = "lost"
    BY DEF Judge
  <2>q. QED
    BY <2>1, <2>3, <2>4 DEF BootVerdict
<1>q. QED
  BY <1>1, <1>2

LEMMA CreatedBoot ==
  ASSUME Base, NamesInv, [Next]_vars, Created, Created'
  PROVE  /\ act'["boot"].stage = "judge" => act'["boot"].held = NoFile
         /\ act'["boot"].prog # <<>> =>
              act'["boot"].prog = ReconcileProgram /\ act'["boot"].verdict = "lost"
<1> USE DEF Base
<1>0. "boot" \in Actors /\ "sessions" \in Roots
  BY ActorNames DEF Roots
<1>1. /\ act["boot"].stage = "judge" => act["boot"].held = NoFile
      /\ act["boot"].prog # <<>> =>
           act["boot"].prog = ReconcileProgram /\ act["boot"].verdict = "lost"
  BY DEF NamesInv, CreatedAlone
<1>2. CASE Step("boot")
  <2>1. act["boot"].prog # <<>> /\ act["boot"].stage = "finish"
    BY <1>0, <1>2, StepRuns, BootAhead
  <2>2. act["boot"].prog = ReconcileProgram /\ act["boot"].verdict = "lost"
    BY <1>1, <2>1
  <2>3. Head(act["boot"].prog).file = "meta" /\ Tag("boot") = "reconciled"
    BY <2>2, Tuples DEF ReconcileProgram, Tag, M
  <2>4. ASSUME NEW f \in {"meta", "worker"}, Reads("boot", f)
        PROVE  /\ act'["boot"].prog = ReconcileProgram /\ act'["boot"].verdict = "lost"
               /\ act'["boot"].stage = "finish"
    BY <2>1, <2>2, <2>3, <2>4 DEF Reads
  <2>5. ASSUME NEW f \in {"meta", "worker"}, Writes("boot", f) PROVE FALSE
    <3>1. FileWritten("boot", "sessions", "meta")
      BY <2>3, <2>5 DEF CodeOK, Writes, FileWritten, Next1
    <3>q. QED
      BY <1>0, <2>2, <2>3, <3>1, CreatedWriter
  <2>6. ASSUME NEW f \in {"meta", "worker"}, Skips("boot", f) PROVE FALSE
    <3>1. Target("boot") = disk["sessions"].meta /\ f = "meta"
      BY <2>3, <2>6 DEF Skips, Next1, Target, Here, CodeOK
    <3>2. disk["sessions"].meta.state \in Active
      BY DEF Created, MetaOf, Active
    <3>q. QED
      BY <2>6, <3>1, <3>2 DEF Skips
  <2>7. ~Appends("boot")
    BY <2>3 DEF Appends, Next1
  <2>8. FileGone("boot") => act'["boot"].stage = "failed" /\ act'["boot"].prog = <<>>
    BY <1>0, FailAfter DEF FileGone, Rested
  <2>q. QED
    BY <1>0, <1>2, <2>4, <2>5, <2>6, <2>7, <2>8, StepAfter
<1>3. CASE Boot
  <2>1. act["boot"].prog = <<>>
    BY <1>3 DEF Boot, BootLoad, BootJudge, BootEnds, Ready
  <2>2. Ready("boot", "judge") => BootVerdict = "lost"
    BY <1>1, NothingLoaded DEF Ready
  <2>q. QED
    BY <1>3, <2>1, <2>2, BootAfter, NothingLoaded DEF Rested
<1>4. CASE HostCrash
  <2>1. act["boot"].stage \in {"idle", "failed"} => act["boot"].prog = <<>>
    BY DEF CodeOK, BootCode
  <2>2. act["boot"].stage # "done"
    BY DEF CodeOK
  <2>q. QED
    BY <1>0, <1>4, <2>1, <2>2, HostAfter
<1>5. CASE HostBoot
  BY <1>5, HostAfter DEF Rested
<1>q. QED
  BY <1>1, <1>2, <1>3, <1>4, <1>5, BootFrame

LEMMA CreatedHandlers ==
  ASSUME Base, ProcInv, NamesInv, [Next]_vars, Created, Created', NEW h \in Handlers
  PROVE  /\ act'[h].stage \notin Stopping \cup Marking \cup Removing
         /\ act'[h].stage = "kill" => act'[h].verdict \notin Terminal /\ act'[h].root = "sessions"
<1> USE DEF Base
<1>0. h \in Actors /\ h \notin {"starter", "worker", "boot"} /\ "sessions" \in Roots
  BY ActorNames DEF Roots
<1>1. /\ act[h].stage \notin Stopping \cup Marking \cup Removing
      /\ act[h].stage = "kill" => act[h].verdict \notin Terminal /\ act[h].root = "sessions"
  BY DEF NamesInv, CreatedAlone
<1>2. \A s \in Resting : s \notin Stopping \cup Marking \cup Removing \cup {"kill"}
  BY DEF Resting, Stopping, Marking, Removing
<1>3. /\ Exists(disk["sessions"].meta) /\ disk["sessions"].meta.state = "starting"
      /\ ~disk["sessions"].meta.wpid /\ ~disk["sessions"].meta.cpid
  BY DEF Created, Unnamed, MetaOf
<1>4. CASE Step(h)
  BY <1>0, <1>1, <1>2, <1>4, StageAfterStep, StepVerdict DEF Rested, Resting
<1>5. CASE Request(h)
  <2>1. FoundRoot = "sessions" /\ Found = disk["sessions"].meta
    BY <1>3 DEF FoundRoot, Found
  <2>2. /\ Begins(h) /\ Found.state = "starting" /\ "starting" \in Active
    BY <1>3, <1>5, <2>1, RequestAfter DEF Active
  <2>3. act'[h].stage = "kill" /\ act'[h].root = "sessions" /\ act'[h].verdict = "starting"
    BY <2>1, <2>2 DEF Begins
  <2>q. QED
    BY <2>3 DEF Stopping, Marking, Removing, Terminal
<1>6. CASE Handler(h) \/ Awaited(h)
  <2>1. act[h].prog = <<>> /\ act[h].stage = "kill"
    BY <1>0, <1>1, <1>6, HandlerBusy DEF CodeOK
  <2>2. ~KillSignal(h)
    <3>1. ASSUME Serving(h) PROVE FALSE
      <4>1. sock /\ proc = "up"
        BY <3>1 DEF Serving
      <4>2. act["worker"].stage \in {"serve", "drained", "reaped", "exiting"}
        BY <4>1 DEF ProcInv
      <4>q. QED
        BY <4>1, <4>2 DEF NamesInv, CreatedAlone, Registered
    <3>2. Here(h) = disk["sessions"]
      BY <1>1, <2>1 DEF Here
    <3>q. QED
      BY <1>3, <3>1, <3>2 DEF KillSignal
  <2>3. ~Turns(h) /\ ~PrepareSigterm(h) /\ ~Sigterm(h) /\ ~Purge(h) /\ ~Archive(h)
    BY <2>1 DEF Turns, PrepareSigterm, Sigterm, Purge, Archive, Ready, Stopping, Marking
  <2>4. Rested(h, "done") \/ Rested(h, "failed")
    BY <1>6, <2>2, <2>3, HandlerAfter DEF Ends
  <2>q. QED
    BY <1>2, <2>4 DEF Rested, Resting
<1>7. CASE HostCrash
  BY <1>0, <1>1, <1>2, <1>7, HostAfter DEF Resting
<1>q. QED
  BY <1>1, <1>4, <1>5, <1>6, <1>7, HandlerFrame

LEMMA CreatedKept ==
  ASSUME Base, ProcInv, NamesInv, [Next]_vars PROVE CreatedAlone'
<1>1. CASE Created' /\ Created
  <2>1. proc' = "up" => ~Registered'
    BY <1>1, CreatedWorker
  <2>2. \A h \in Handlers :
         /\ act'[h].stage \notin Stopping \cup Marking \cup Removing
         /\ act'[h].stage = "kill" => act'[h].verdict \notin Terminal /\ act'[h].root = "sessions"
    BY <1>1, CreatedHandlers
  <2>3. ~Exists(disk["sessions"].worker)'
    BY <1>1, CreatedDisk DEF Exists
  <2>q. QED
    BY <1>1, <2>1, <2>2, <2>3, CreatedDisk, CreatedStarter, CreatedBoot DEF CreatedAlone
<1>2. CASE Created' /\ ~Created
  BY <1>2, CreatedBack, CreatedFromScratch
<1>q. QED
  BY <1>1, <1>2 DEF CreatedAlone

-----------------------------------------------------------------------------
\* The other parts of NamesInv.

LEMMA WrittenByName ==
  ASSUME Base, NamesInv, NEW a \in Actors, NEW r \in Roots, FileWritten(a, r, "meta"),
         Unnamed(disk'[r].meta)
  PROVE  LET new == disk'[r].meta
         IN /\ r = "sessions"
            /\ \/ /\ a = "starter" /\ act[a].prog = CreateProgram /\ new.state = "starting"
                  /\ act[a].stage = "create"
               \/ /\ a = "starter" /\ act[a].prog = LaunchFailProgram
                  /\ act[a].stage = "tail" /\ new.state = "failed_start"
               \/ /\ a = "worker" /\ WorkerStale
                  /\ new.state \in {"failed_start", "killed", "crashed", "exited"}
               \/ a = "boot" /\ Holds(a, "meta") /\ Unnamed(act[a].snap) /\ new.state = "lost"
<1>1. ~(a \in Handlers /\ Holds(a, "meta") /\ Unnamed(act[a].snap))
  BY DEF NamesInv, HandlersNamed
<1>2. a = "boot" /\ Holds(a, "meta") /\ Unnamed(act[a].snap) => act[a].verdict = "lost"
  BY DEF NamesInv, BootCopy
<1>q. QED
  BY <1>1, <1>2, WrittenUnnamed

\* A copy of meta.json that an actor holds after a step.
LEMMA MetaRead ==
  ASSUME Base, [Next]_vars, NEW a \in Actors, Holds(a, "meta")'
  PROVE  \/ act'[a] = act[a] /\ Holds(a, "meta")
         \/ /\ Reads(a, "meta") /\ act'[a].snap = MetaOf(act[a].root)
            /\ Exists(MetaOf(act[a].root))
            /\ Tag(a) = "reconciled" => MetaOf(act[a].root).state \in Active
         \/ a = "starter" /\ act'[a].snap = [NoFile EXCEPT !.state = "starting"]
<1> USE DEF Base
<1>1. act'[a].prog # <<>> /\ Head(act'[a].prog).file = "meta" /\ act'[a].snap # NoFile
  BY StateExists DEF Holds, Exists
<1>2. CASE act'[a] = act[a]
  BY <1>2 DEF Holds, Exists
<1>3. ASSUME NEW f \in {"meta", "worker"}, Reads(a, f)
      PROVE  \/ /\ Reads(a, "meta") /\ act'[a].snap = MetaOf(act[a].root)
                /\ Exists(MetaOf(act[a].root))
                /\ Tag(a) = "reconciled" => MetaOf(act[a].root).state \in Active
             \/ a = "starter" /\ act'[a].snap = [NoFile EXCEPT !.state = "starting"]
  <2>1. f = "meta" /\ act[a].prog # <<>> /\ Head(act[a].prog).file = "meta"
    BY <1>1, <1>3 DEF Reads, Next1
  <2>2. Target(a) = MetaOf(act[a].root)
    BY <2>1 DEF Target, Here, MetaOf
  <2>3. Tag(a) = "launched" => a = "starter"
    BY <2>1, MetaTagsOf
  <2>4. \/ /\ Exists(Target(a)) /\ act'[a].snap = Target(a)
           /\ Tag(a) = "reconciled" => Target(a).state \in Active
        \/ /\ Tag(a) = "launched" /\ act'[a].snap = [NoFile EXCEPT !.state = "starting"]
    BY <1>3 DEF Reads
  <2>5. Reads(a, "meta")
    BY <1>3, <2>1
  <2>q. QED
    BY <2>2, <2>3, <2>4, <2>5
<1>q. QED
  BY <1>1, <1>2, <1>3, SnapAfter

LEMMA UnnamedKept ==
  ASSUME Base, NamesInv, [Next]_vars PROVE UnnamedStates'
<1> USE DEF Base
<1>0. "sessions" \in Roots /\ "archive" \in Roots
  BY DEF Roots
<1>1. ASSUME NEW r \in Roots, Unnamed(disk'[r].meta)
      PROVE  disk'[r].meta.state \notin {"running", "orphaned"}
  <2>1. CASE disk'[r].meta = disk[r].meta
    BY <1>1, <2>1 DEF NamesInv, UnnamedStates, MetaOf
  <2>2. ASSUME NEW a \in Actors, FileWritten(a, r, "meta")
        PROVE  disk'[r].meta.state \notin {"running", "orphaned"}
    BY <1>1, <2>2, WrittenByName
  <2>3. ASSUME NEW h \in Handlers, FileRemoved(h, r) PROVE FALSE
    BY <1>1, <2>3, StateExists DEF FileRemoved, Unnamed, NoDir
  <2>4. ASSUME NEW h \in Handlers, FileMoved(h, r)
        PROVE  disk'[r].meta.state \notin {"running", "orphaned"}
    BY <1>0, <1>1, <2>4 DEF FileMoved, NamesInv, UnnamedStates, MetaOf
  <2>q. QED
    BY <2>1, <2>2, <2>3, <2>4, FileAfter
<1>2. ASSUME NEW a \in Actors, Holds(a, "meta")', Unnamed(act'[a].snap)
      PROVE  act'[a].snap.state \notin {"running", "orphaned"}
  <2>1. act[a].root \in Roots
    BY ActorType
  <2>2. [NoFile EXCEPT !.state = "starting"].state = "starting"
    BY DEF NoFile
  <2>q. QED
    BY <1>2, <2>1, <2>2, MetaRead DEF NamesInv, UnnamedStates
<1>3. ASSUME Unnamed(disk'["archive"].meta) PROVE disk'["archive"].meta.state # "starting"
  <2>1. CASE disk'["archive"].meta = disk["archive"].meta
    BY <1>3, <2>1 DEF NamesInv, UnnamedStates, MetaOf
  <2>2. ASSUME NEW a \in Actors PROVE ~FileWritten(a, "archive", "meta")
    BY <1>0, <1>3, WrittenByName
  <2>3. ASSUME NEW h \in Handlers PROVE ~FileRemoved(h, "archive")
    BY <1>3, StateExists DEF FileRemoved, Unnamed, NoDir
  <2>4. ASSUME NEW h \in Handlers, FileMoved(h, "archive")
        PROVE  disk'["archive"].meta.state # "starting"
    <3>1. ~Created
      BY <2>4, PurgeStage DEF FileMoved, NamesInv, CreatedAlone
    <3>q. QED
      BY <1>3, <2>4, <3>1 DEF FileMoved, Created, MetaOf
  <2>q. QED
    BY <1>0, <2>1, <2>2, <2>3, <2>4, FileAfter
<1>4. (\A r \in Roots : Unnamed(MetaOf(r)) => MetaOf(r).state \notin {"running", "orphaned"})'
  BY <1>1 DEF MetaOf, Unnamed, Exists
<1>5. (\A a \in Actors : Holds(a, "meta") /\ Unnamed(act[a].snap)
                         => act[a].snap.state \notin {"running", "orphaned"})'
  BY <1>2 DEF Unnamed, Exists
<1>6. (Unnamed(MetaOf("archive")) => MetaOf("archive").state # "starting")'
  BY <1>3 DEF MetaOf, Unnamed, Exists
<1>q. QED
  BY <1>4, <1>5, <1>6 DEF UnnamedStates

-----------------------------------------------------------------------------
\* A stop or a kill works on a record that names a process.

LEMMA NamedHere ==
  ASSUME Base, NamesInv, NEW h \in Handlers, act[h].stage \in Stopping \cup Marking,
         Exists(Here(h).meta)
  PROVE  ~Unnamed(Here(h).meta)
<1>1. act[h].root \in Roots
  BY ActorType, ActorNames DEF Base
<1>2. CASE act[h].root = "sessions"
  <2>1. ~Created /\ ~Stale
    BY DEF NamesInv, CreatedAlone, StaleAlone
  <2>q. QED
    BY <1>2, <2>1 DEF Created, Stale, Here, MetaOf
<1>3. CASE act[h].root = "archive"
  BY <1>3 DEF NamesInv, HandlersNamed, Here, MetaOf
<1>q. QED
  BY <1>1, <1>2, <1>3 DEF Roots

LEMMA HandlersKept ==
  ASSUME Base, NamesInv, [Next]_vars PROVE HandlersNamed'
<1> USE DEF Base
<1> SUFFICES ASSUME NEW h \in Handlers
             PROVE  /\ Holds(h, "meta")' => ~Unnamed(act'[h].snap)
                    /\ act'[h].stage \in {"sigterm", "final"} =>
                         act'[h].held.wpid \/ act'[h].held.cpid
                    /\ act'[h].stage \in Stopping \cup Marking /\ act'[h].root = "archive"
                         => ~Unnamed(disk'["archive"].meta)
  BY DEF HandlersNamed, MetaOf, Unnamed, Exists
<1>0. h \in Actors /\ h \notin {"starter", "worker", "boot"} /\ act[h].root \in Roots
      /\ "archive" \in Roots
  BY ActorNames, ActorType DEF Roots
<1>1. ASSUME Holds(h, "meta")' PROVE ~Unnamed(act'[h].snap)
  <2>1. CASE act'[h] = act[h] /\ Holds(h, "meta")
    BY <2>1 DEF NamesInv, HandlersNamed
  <2>2. CASE /\ Reads(h, "meta") /\ act'[h].snap = MetaOf(act[h].root)
             /\ Exists(MetaOf(act[h].root))
    <3>1. act[h].stage \in Stopping \cup Marking
      BY <1>0, <2>2, MetaTagsOf DEF Reads, Next1
    <3>q. QED
      BY <2>2, <3>1, NamedHere DEF Here, MetaOf
  <2>q. QED
    BY <1>0, <1>1, <2>1, <2>2, MetaRead
<1>a. \A s \in Resting : s \notin Stopping \cup Marking
  BY DEF Resting, Stopping, Marking
<1>b. {"sigterm", "final"} \subseteq Stopping
  BY DEF Stopping
<1>2. ASSUME act'[h].stage \in {"sigterm", "final"}
      PROVE  act'[h].held.wpid \/ act'[h].held.cpid
  <2>1. act[h].stage \in {"sigterm", "final"} => act[h].held.wpid \/ act[h].held.cpid
    BY DEF NamesInv, HandlersNamed
  <2>2. act'[h].stage \notin Resting
    BY <1>2, <1>a, <1>b
  <2>3. CASE Step(h)
    <3>1. ~Rested(h, "failed")
      BY <2>2 DEF Rested, Resting
    <3>2. act'[h].stage = act[h].stage /\ act'[h].held = act[h].held
      BY <1>0, <2>3, <3>1, StepAfter, FailAfter DEF Reads, Writes, Skips, Appends, Pops, FileGone
    <3>q. QED
      BY <1>2, <2>1, <3>2
  <2>4. ~Request(h)
    BY <1>2, RequestAfter DEF Begins
  <2>5. CASE Handler(h) \/ Awaited(h)
    <3>1. ~Turns(h)
      BY <1>2 DEF Turns, Marking
    <3>2. ~Ends(h) /\ ~Purge(h) /\ ~Archive(h)
      BY <1>0, <2>2, DoneAfter DEF Ends, Rested, Resting, Purge, Archive
    <3>3. ~KillSignal(h)
      BY <1>2, SigtermAfter
    <3>4. CASE PrepareSigterm(h)
      <4>1. act'[h].held = Here(h).meta
        BY <3>4, SigtermAfter
      <4>2. act[h].stage \in Stopping /\ Exists(Here(h).meta)
        BY <3>4 DEF PrepareSigterm, Ready, Stopping
      <4>q. QED
        BY <4>1, <4>2, NamedHere DEF Unnamed
    <3>5. CASE Sigterm(h)
      BY <2>1, <3>5, SigtermAfter DEF Sigterm, Ready
    <3>q. QED
      BY <2>5, <3>1, <3>2, <3>3, <3>4, <3>5, HandlerAfter
  <2>6. ~HostCrash \/ act'[h] = act[h]
    BY <1>0, <2>2, HostAfter DEF Resting
  <2>q. QED
    BY <2>1, <1>2, <2>3, <2>4, <2>5, <2>6, HandlerFrame
<1>3. ASSUME act'[h].stage \in Stopping \cup Marking, act'[h].root = "archive",
             Unnamed(disk'["archive"].meta)
      PROVE  FALSE
  <2>0. act'[h].stage \notin Resting
    BY <1>3, <1>a
  <2>1. CASE Unnamed(disk["archive"].meta)
    <3>1. ~(act[h].stage \in Stopping \cup Marking /\ act[h].root = "archive")
      BY <2>1 DEF NamesInv, HandlersNamed, MetaOf
    <3>2. act'[h] # act[h]
      BY <1>3, <3>1
    <3>3. ~Step(h)
      BY <1>0, <1>3, <2>0, <3>1, StageAfterStep DEF Rested, Resting
    <3>4. ~Request(h)
      <4>1. ASSUME Begins(h) PROVE FALSE
        <5>1. act'[h].stage = "stop" /\ Found.state = "running" /\ FoundRoot = "archive"
          BY <1>3, <4>1 DEF Begins, Stopping, Marking
        <5>q. QED
          BY <1>0, <2>1, <5>1 DEF Found, NamesInv, UnnamedStates, MetaOf
      <4>q. QED
        BY <4>1, RequestAfter
    <3>5. ASSUME Handler(h) \/ Awaited(h) PROVE FALSE
      <4>1. ~Turns(h)
        BY <1>3, <3>1 DEF Turns, Kept, Stopping, Marking
      <4>2. ~Ends(h) /\ ~Purge(h) /\ ~Archive(h)
        BY <1>0, <2>0, DoneAfter DEF Ends, Rested, Resting, Purge, Archive
      <4>3. ~PrepareSigterm(h) /\ ~Sigterm(h)
        BY <1>3, <3>1, SigtermAfter DEF PrepareSigterm, Sigterm, Ready, Stopping, Kept
      <4>4. ~KillSignal(h)
        <5>1. ASSUME KillSignal(h) PROVE FALSE
          <6>1. act[h].root = "archive" /\ Here(h) = disk["archive"]
            BY <1>3, <5>1, SigtermAfter DEF Kept, Here
          <6>q. QED
            BY <2>1, <5>1, <6>1 DEF KillSignal, Serving, Unnamed
        <5>q. QED
          BY <5>1
      <4>q. QED
        BY <3>5, <4>1, <4>2, <4>3, <4>4, HandlerAfter
    <3>6. ~HostCrash
      BY <1>0, <2>0, <3>2, HostAfter DEF Resting
    <3>q. QED
      BY <3>2, <3>3, <3>4, <3>5, <3>6, HandlerFrame
  <2>2. CASE ~Unnamed(disk["archive"].meta)
    <3>1. \A a \in Actors : ~FileWritten(a, "archive", "meta")
      BY <1>0, <1>3, WrittenByName
    <3>2. \A g \in Handlers : ~FileRemoved(g, "archive")
      BY <1>3, StateExists DEF FileRemoved, Unnamed, NoDir
    <3>3. PICK g \in Handlers : FileMoved(g, "archive")
      BY <1>0, <1>3, <2>2, <3>1, <3>2, FileAfter
    <3>4. Archive(g) /\ Unnamed(disk["sessions"].meta) /\ g \in Actors
      BY <1>3, <3>3, ActorNames DEF FileMoved
    <3>5. ~Created
      BY <3>4, PurgeStage DEF NamesInv, CreatedAlone
    <3>6. Stale
      BY <3>4, <3>5 DEF Stale, Created, MetaOf
    <3>7. act[h].stage \notin Stopping \cup Marking
      BY <3>6 DEF NamesInv, StaleAlone
    <3>8. Rested(g, "done")
      BY <3>4, DoneAfter DEF Archive
    <3>q. QED
      BY <1>0, <1>3, <2>0, <3>7, <3>8 DEF Rested, Only, Resting
  <2>q. QED
    BY <2>1, <2>2
<1>q. QED
  BY <1>1, <1>2, <1>3

LEMMA StaleBack ==
  ASSUME Base, NamesInv, [Next]_vars, Stale'
  PROVE  \/ Stale
         \/ /\ FileWritten("starter", "sessions", "meta") /\ act["starter"].prog = LaunchFailProgram
            /\ act["starter"].stage = "tail" /\ Unnamed(disk'["sessions"].meta)
            /\ disk'["sessions"].meta.state = "failed_start"
         \/ /\ FileWritten("boot", "sessions", "meta") /\ Holds("boot", "meta")
            /\ Unnamed(act["boot"].snap) /\ Unnamed(disk'["sessions"].meta)
            /\ disk'["sessions"].meta.state = "lost"
<1> DEFINE Goal ==
     \/ Stale
     \/ /\ FileWritten("starter", "sessions", "meta") /\ act["starter"].prog = LaunchFailProgram
        /\ act["starter"].stage = "tail" /\ Unnamed(disk'["sessions"].meta)
        /\ disk'["sessions"].meta.state = "failed_start"
     \/ /\ FileWritten("boot", "sessions", "meta") /\ Holds("boot", "meta")
        /\ Unnamed(act["boot"].snap) /\ Unnamed(disk'["sessions"].meta)
        /\ disk'["sessions"].meta.state = "lost"
<1> USE DEF Base
<1>0. "sessions" \in Roots /\ "worker" \in Actors
  BY ActorNames DEF Roots
<1>1. CASE Unnamed(disk'["sessions"].meta) /\ disk'["sessions"].meta.state # "starting"
  <2>1. CASE disk'["sessions"].meta = disk["sessions"].meta
    BY <1>1, <2>1 DEF Stale, MetaOf
  <2>2. ASSUME NEW a \in Actors, FileWritten(a, "sessions", "meta") PROVE Goal
    <3>1. \/ a = "starter" /\ act[a].prog = LaunchFailProgram /\ act[a].stage = "tail"
             /\ disk'["sessions"].meta.state = "failed_start"
          \/ a = "worker" /\ WorkerStale
          \/ a = "boot" /\ Holds(a, "meta") /\ Unnamed(act[a].snap)
             /\ disk'["sessions"].meta.state = "lost"
      BY <1>0, <1>1, <2>2, WrittenByName
    <3>q. QED
      BY <1>1, <2>2, <3>1 DEF Stale
  <2>3. ASSUME NEW h \in Handlers PROVE ~FileRemoved(h, "sessions") /\ ~FileMoved(h, "sessions")
    BY <1>1, StateExists DEF FileRemoved, FileMoved, Unnamed, NoDir
  <2>q. QED
    BY <1>0, <2>1, <2>2, <2>3, FileAfter
<1>2. CASE Holds("worker", "meta")' /\ Tag("worker")' # "registered"
           /\ Unnamed(act'["worker"].snap)
  <2>1. CASE act'["worker"] = act["worker"] /\ Holds("worker", "meta")
    BY <1>2, <2>1 DEF Stale, WorkerStale, Tag
  <2>2. CASE Reads("worker", "meta") /\ act'["worker"].snap = MetaOf(act["worker"].root)
    <3>1. /\ act["worker"].root = "sessions" /\ proc = "up"
          /\ Tag("worker") # "registered" /\ act["worker"].prog # <<>>
      BY <1>2, <2>2 DEF CodeOK, Reads, Next1, Running, Tag
    <3>2. CASE MetaOf("sessions").state = "starting"
      <4>1. Created
        BY <1>2, <2>2, <3>1, <3>2 DEF Created
      <4>2. act["worker"].prog = RegisterProgram
        BY <3>1, <4>1 DEF NamesInv, CreatedAlone, Registered
      <4>q. QED
        BY <3>1, <4>2, Tuples DEF RegisterProgram, M, Tag
    <3>q. QED
      BY <1>2, <2>2, <3>1, <3>2 DEF Stale
  <2>q. QED
    BY <1>0, <1>2, <2>1, <2>2, MetaRead
<1>q. QED
  BY <1>1, <1>2 DEF Stale, WorkerStale, MetaOf, Unnamed, Exists

LEMMA StaleFromStarter ==
  ASSUME Base, ProcInv, NamesInv, [Next]_vars, Stale', FileWritten("starter", "sessions", "meta"),
         act["starter"].prog = LaunchFailProgram, act["starter"].stage = "tail",
         Unnamed(disk'["sessions"].meta), disk'["sessions"].meta.state = "failed_start"
  PROVE  StaleAlone'
<1> USE DEF Base
<1>0. "starter" \in Actors /\ "boot" \in Actors /\ Handlers \subseteq Actors
      /\ \A r \in Roots : r \in {"sessions", "archive"}
  BY ActorNames DEF Roots
<1>1. Created
  BY DEF NamesInv, StarterMade
<1>2. Writes("starter", "meta") /\ act["starter"].root = "sessions"
  BY DEF FileWritten
<1>3. UNCHANGED processes /\ Pops("starter") /\ disk'["archive"] = disk["archive"]
  BY <1>2 DEF Writes, Roots
<1>4. act'["boot"] = act["boot"] /\ \A h \in Handlers : act'[h] = act[h]
  BY <1>0, <1>3, ActorNames DEF Pops, Only
<1>5. \A h \in Handlers : act'[h].stage \notin Stopping \cup Marking
  BY <1>1, <1>4 DEF NamesInv, CreatedAlone
<1>6. proc' = "none"
  BY <1>3 DEF ProcInv, processes
<1>7. act'["starter"].stage = "tail" /\ act'["starter"].prog = <<Ev("launch_failed")>>
  <2>1. Tail(LaunchFailProgram) = <<Ev("launch_failed")>>
    BY Tuples DEF LaunchFailProgram
  <2>q. QED
    BY <1>3, <2>1 DEF Pops
<1>8. Head(act'["starter"].prog).file = "events"
  BY <1>7, Tuples DEF Ev
<1>9. act'["boot"].prog = <<>>
  <2>1. host = "up"
    BY <1>2 DEF Writes, Next1, Running
  <2>2. act["boot"].stage \in {"idle", "failed"}
    BY <2>1 DEF HostInv
  <2>q. QED
    BY <1>4, <2>2 DEF CodeOK, BootCode
<1>10. ~Exists(disk'["archive"].meta)
  <2>1. NoDir.meta = NoFile
    BY DEF NoDir
  <2>2. disk["archive"] = NoDir
    BY <1>1 DEF NamesInv, CreatedAlone
  <2>q. QED
    BY <1>3, <2>1, <2>2, StateExists
<1>q. QED
  BY <1>0, <1>5, <1>6, <1>7, <1>8, <1>9, <1>10
     DEF StaleAlone, MetaOf, Unnamed, Exists, Holds

LEMMA StaleFromBoot ==
  ASSUME Base, ProcInv, NamesInv, [Next]_vars, Stale', FileWritten("boot", "sessions", "meta"),
         Holds("boot", "meta"), Unnamed(act["boot"].snap),
         Unnamed(disk'["sessions"].meta), disk'["sessions"].meta.state = "lost"
  PROVE  StaleAlone'
<1> USE DEF Base
<1>0. "starter" \in Actors /\ "boot" \in Actors /\ Handlers \subseteq Actors
      /\ \A r \in Roots : r \in {"sessions", "archive"}
  BY ActorNames DEF Roots
<1>1. disk["archive"] = NoDir
  BY DEF NamesInv, BootCopy
<1>2. Writes("boot", "meta") /\ act["boot"].root = "sessions"
  BY DEF FileWritten
<1>3. Pops("boot") /\ disk'["archive"] = disk["archive"] /\ host = "boot"
  BY <1>2 DEF Writes, Next1, Running, Roots
<1>4. act'["starter"] = act["starter"] /\ \A h \in Handlers : act'[h] = act[h]
  BY <1>0, <1>3, ActorNames DEF Pops, Only
<1>5. /\ act'["starter"].stage \in Resting /\ act'["starter"].prog = <<>>
      /\ \A h \in Handlers : act'[h].stage \in Resting
  BY <1>3, <1>4, RestingCode DEF HostInv
<1>6. act'["boot"].snap = NoFile
  BY <1>3 DEF Pops
<1>7. ~Exists(disk'["archive"].meta)
  <2>1. NoDir.meta = NoFile
    BY DEF NoDir
  <2>q. QED
    BY <1>1, <1>3, <2>1, StateExists
<1>8. \A h \in Handlers : act'[h].stage \notin Stopping \cup Marking \cup {"kill"}
  BY <1>5 DEF Resting, Stopping, Marking
<1>9. act'["starter"].stage # "create"
  BY <1>5 DEF Resting
<1>10. ~Exists(act'["boot"].snap)
  BY <1>6, StateExists
<1>q. QED
  BY <1>0, <1>5, <1>7, <1>8, <1>9, <1>10
     DEF StaleAlone, MetaOf, Unnamed, Exists, Holds

-----------------------------------------------------------------------------
\* A stale record stays out of everybody's reach.

LEMMA StaleStarter ==
  ASSUME Base, ProcInv, NamesInv, [Next]_vars, Stale
  PROVE  /\ ~StartSession /\ ~LaunchWorker
         /\ act'["starter"].stage # "create"
         /\ act'["starter"].prog # <<>> => Head(act'["starter"].prog).file = "events"
<1> USE DEF Base
<1>0. "starter" \in Actors /\ "sessions" \in Roots
  BY ActorNames DEF Roots
<1>1. /\ act["starter"].stage # "create"
      /\ act["starter"].prog # <<>> => Head(act["starter"].prog).file = "events"
  BY DEF NamesInv, StaleAlone
<1>2. ~StartSession
  <2>1. ASSUME StartSession PROVE FALSE
    <3>1. act["starter"].stage = "idle"
      BY <2>1 DEF StartSession, Ready
    <3>2. disk["sessions"] = NoDir /\ proc = "none"
      BY <1>0, <3>1 DEF StartInv, BeforeStart
    <3>3. NoDir.meta = NoFile
      BY DEF NoDir
    <3>4. WorkerStale
      BY <3>2, <3>3, StateExists DEF Stale, Unnamed, MetaOf
    <3>5. act["worker"].stage = "off" /\ act["worker"].prog # <<>>
      BY <3>2, <3>4 DEF ProcInv, WorkerStale, Holds
    <3>q. QED
      BY <3>5 DEF CodeOK, WorkerCode
  <2>q. QED
    BY <2>1
<1>3. ~LaunchWorker /\ ~LaunchFails
  BY <1>1 DEF LaunchWorker, LaunchFails, Ready
<1>4. CASE Step("starter")
  <2>1. /\ act["starter"].prog # <<>> /\ Head(act["starter"].prog).file = "events"
    BY <1>0, <1>1, <1>4, StepRuns
  <2>2. Appends("starter") \/ FileGone("starter")
    BY <1>0, <1>4, <2>1, StepAfter DEF Reads, Writes, Skips, Next1
  <2>3. Tail(act["starter"].prog) = <<>>
    BY <2>1, StarterAhead DEF M, Ev
  <2>4. act'["starter"].prog = <<>>
    BY <1>0, <2>2, <2>3, FailAfter DEF Appends, Pops, FileGone, Rested
  <2>5. act'["starter"].stage \in {act["starter"].stage, "failed"}
    BY <1>0, <1>4, StageAfterStep DEF Rested
  <2>q. QED
    BY <1>1, <1>2, <1>3, <2>4, <2>5
<1>5. CASE Starter
  BY <1>2, <1>3, <1>5, StarterAfter DEF Rested
<1>6. CASE HostCrash
  BY <1>0, <1>1, <1>2, <1>3, <1>6, HostAfter
<1>q. QED
  BY <1>1, <1>2, <1>3, <1>4, <1>5, <1>6, StarterFrame

LEMMA StaleFound ==
  ASSUME Base, NamesInv, Stale, NEW r \in Roots, Exists(MetaOf(r))
  PROVE  MetaOf(r).state \notin Active \cup {"orphaned"} /\ Unnamed(MetaOf(r))
  BY DEF NamesInv, StaleAlone, UnnamedStates, Active

LEMMA StaleHandlers ==
  ASSUME Base, ProcInv, NamesInv, [Next]_vars, Stale, NEW h \in Handlers
  PROVE  /\ act'[h].stage \notin Stopping \cup Marking
         /\ act'[h].stage = "kill" /\ act'[h].root = "sessions" => proc' # "up"
<1> USE DEF Base
<1>0. h \in Actors /\ h \notin {"starter", "worker", "boot"} /\ act[h].root \in Roots
  BY ActorNames, ActorType
<1>1. /\ act[h].stage \notin Stopping \cup Marking
      /\ act[h].stage = "kill" /\ act[h].root = "sessions" => proc # "up"
  BY DEF NamesInv, StaleAlone
<1>2. \A s \in Resting : s \notin Stopping \cup Marking \cup {"kill"}
  BY DEF Resting, Stopping, Marking
<1>3. proc # "up" => proc' # "up"
  BY ProcFrame, StaleStarter
<1>4. CASE Step(h)
  BY <1>0, <1>1, <1>2, <1>3, <1>4, StageAfterStep DEF Rested, Resting
<1>5. CASE Request(h)
  <2>1. Begins(h)
    BY <1>5, RequestAfter
  <2>2. Found = MetaOf(FoundRoot) /\ FoundRoot \in Roots /\ Exists(Found)
    BY <2>1 DEF Found, FoundRoot, MetaOf, Roots, Begins
  <2>3. Found.state \notin Active \cup {"orphaned"}
    BY <2>2, StaleFound
  <2>4. act'[h].stage = "remove"
    BY <2>1, <2>3 DEF Begins, Active
  <2>q. QED
    BY <2>4 DEF Stopping, Marking
<1>6. CASE Handler(h) \/ Awaited(h)
  <2>1. act[h].prog = <<>> /\ act[h].stage \in Removing \cup {"kill"}
    BY <1>0, <1>1, <1>6, HandlerBusy DEF CodeOK
  <2>2. ~KillSignal(h)
    <3>1. ASSUME KillSignal(h) PROVE FALSE
      <4>1. act[h].stage = "kill" /\ ~Serving(h)
        BY <1>1, <3>1 DEF KillSignal, Ready, Serving
      <4>2. ~Here(h).meta.cpid /\ ~Here(h).meta.wpid
        <5>1. CASE Exists(MetaOf(act[h].root))
          BY <1>0, <5>1, StaleFound DEF Unnamed, MetaOf, Here
        <5>2. CASE ~Exists(MetaOf(act[h].root))
          <6>1. Here(h).meta = NoFile
            BY <1>0, <5>2 DEF NoFiles, MetaOf, Here
          <6>q. QED
            BY <6>1 DEF NoFile
        <5>q. QED
          BY <5>1, <5>2
      <4>q. QED
        BY <3>1, <4>1, <4>2 DEF KillSignal
    <3>q. QED
      BY <3>1
  <2>3. ~PrepareSigterm(h) /\ ~Sigterm(h)
    BY <2>1 DEF PrepareSigterm, Sigterm, Ready, Removing
  <2>4. Turns(h) => act'[h].stage \in {"purge", "rename", "finish"}
    BY <1>1 DEF Turns
  <2>5. CASE Purge(h) \/ Archive(h) \/ Ends(h)
    <3>1. Rested(h, "done") \/ Rested(h, "failed")
      BY <1>0, <2>5, DoneAfter DEF Purge, Archive, Ends
    <3>q. QED
      BY <1>2, <3>1 DEF Rested, Resting
  <2>6. \A s \in {"purge", "rename", "finish"} : s \notin Stopping \cup Marking \cup {"kill"}
    BY DEF Stopping, Marking
  <2>q. QED
    BY <1>6, <2>2, <2>3, <2>4, <2>5, <2>6, HandlerAfter
<1>7. CASE HostCrash
  BY <1>0, <1>1, <1>2, <1>3, <1>7, HostAfter DEF Resting
<1>q. QED
  BY <1>1, <1>3, <1>4, <1>5, <1>6, <1>7, HandlerFrame

LEMMA StaleRecords ==
  ASSUME Base, ProcInv, NamesInv, [Next]_vars, Stale, Stale', NEW r \in Roots,
         Exists(disk'[r].meta)
  PROVE  Unnamed(disk'[r].meta) /\ disk'[r].meta.state # "starting"
<1> USE DEF Base
<1>0. "sessions" \in Roots /\ "worker" \in Actors /\ "boot" \in Actors
  BY ActorNames DEF Roots
<1>1. \A q \in Roots : Exists(disk[q].meta) => Unnamed(disk[q].meta)
                                               /\ disk[q].meta.state # "starting"
  BY DEF NamesInv, StaleAlone, MetaOf
<1>2. ASSUME NEW a \in Actors, FileWritten(a, r, "meta")
      PROVE  Unnamed(disk'[r].meta) /\ disk'[r].meta.state # "starting"
  <2>1. /\ Writes(a, "meta") /\ act[a].root = r /\ act[a].prog # <<>>
        /\ Head(act[a].prog).file = "meta" /\ (Tag(a) \in FreshTags \/ Exists(act[a].snap))
        /\ disk'[r].meta = Apply(Tag(a), act[a].snap, act[a].verdict)
    BY <1>2 DEF FileWritten, Writes, Next1
  <2>2. a # "starter"
    BY <2>1 DEF NamesInv, StaleAlone
  <2>3. a \notin Handlers
    BY <2>1, <2>2, MetaTagsOf, ActorNames DEF NamesInv, StaleAlone
  <2>4. CASE a = "boot"
    <3>1. Tag(a) = "reconciled"
      BY <2>1, <2>4, MetaTagsOf, ActorNames
    <3>2. Holds("boot", "meta")
      BY <2>1, <2>4, <3>1 DEF Holds, FreshTags
    <3>3. Unnamed(act[a].snap) /\ act[a].verdict = "lost"
      BY <2>4, <3>2 DEF NamesInv, StaleAlone, BootCopy
    <3>4. /\ disk'[r].meta.state = WrittenState(a)
          /\ disk'[r].meta.wpid = (act[a].snap.wpid \/ Tag(a) \in WorkerPidTags)
          /\ disk'[r].meta.cpid
               = (Tag(a) = "running" \/ (act[a].snap.cpid /\ Tag(a) # "registered"))
      BY <2>1, Written
    <3>5. WrittenState(a) = "lost"
      BY <3>1, <3>3 DEF WrittenState, NewState
    <3>6. ~disk'[r].meta.wpid /\ ~disk'[r].meta.cpid
      BY <3>1, <3>3, <3>4 DEF Unnamed, WorkerPidTags
    <3>q. QED
      BY <3>4, <3>5, <3>6 DEF Unnamed, Exists
  <2>5. CASE a = "worker"
    <3>1. act'["worker"].snap = NoFile /\ r = "sessions"
      BY <2>1, <2>5 DEF Writes, Pops, CodeOK
    <3>2. ~Exists(act'["worker"].snap)
      BY <3>1, StateExists
    <3>3. Unnamed(disk'["sessions"].meta) /\ disk'["sessions"].meta.state # "starting"
      BY <3>2 DEF Stale, WorkerStale, Holds, MetaOf, Unnamed, Exists
    <3>q. QED
      BY <3>1, <3>3
  <2>q. QED
    BY <2>2, <2>3, <2>4, <2>5, ActorNames
<1>3. ASSUME NEW h \in Handlers PROVE ~FileRemoved(h, r)
  BY StateExists DEF FileRemoved, NoDir
<1>4. ASSUME NEW h \in Handlers, FileMoved(h, r)
      PROVE  Unnamed(disk'[r].meta) /\ disk'[r].meta.state # "starting"
  BY <1>0, <1>1, <1>4 DEF FileMoved
<1>q. QED
  BY <1>1, <1>2, <1>3, <1>4, FileAfter

LEMMA StaleKept ==
  ASSUME Base, ProcInv, NamesInv, [Next]_vars PROVE StaleAlone'
<1> USE DEF Base
<1>1. CASE Stale' /\ Stale
  <2>1. "boot" \in Actors /\ act["boot"].root = "sessions" /\ "sessions" \in Roots
    BY ActorNames DEF CodeOK, Roots
  <2>2. Holds("boot", "meta")' => Unnamed(act'["boot"].snap)
    BY <1>1, <2>1, MetaRead, StaleFound DEF NamesInv, StaleAlone
  <2>3. \A r \in Roots : Exists(disk'[r].meta)
          => Unnamed(disk'[r].meta) /\ disk'[r].meta.state # "starting"
    BY <1>1, StaleRecords
  <2>4. \A h \in Handlers :
          /\ act'[h].stage \notin Stopping \cup Marking
          /\ act'[h].stage = "kill" /\ act'[h].root = "sessions" => proc' # "up"
    BY <1>1, StaleHandlers
  <2>5. /\ act'["starter"].stage # "create"
        /\ act'["starter"].prog # <<>> => Head(act'["starter"].prog).file = "events"
    BY <1>1, StaleStarter
  <2>q. QED
    BY <2>2, <2>3, <2>4, <2>5 DEF StaleAlone, MetaOf, Unnamed, Exists
<1>2. CASE Stale' /\ ~Stale
  BY <1>2, StaleBack, StaleFromStarter, StaleFromBoot
<1>q. QED
  BY <1>1, <1>2 DEF StaleAlone

LEMMA BootCopyKept ==
  ASSUME Base, NamesInv, [Next]_vars PROVE BootCopy'
<1> USE DEF Base
<1> SUFFICES ASSUME Holds("boot", "meta")', Unnamed(act'["boot"].snap)
             PROVE  act'["boot"].verdict = "lost" /\ disk'["archive"] = NoDir
  BY DEF BootCopy, Unnamed, Exists
<1>0. "boot" \in Actors /\ act["boot"].root = "sessions" /\ "sessions" \in Roots
  BY ActorNames DEF CodeOK, Roots
<1>1. CASE act'["boot"] = act["boot"] /\ Holds("boot", "meta")
  <2>1. act["boot"].verdict = "lost" /\ disk["archive"] = NoDir
    BY <1>1 DEF NamesInv, BootCopy
  <2>2. host = "boot"
    <3>1. act["boot"].stage = "finish"
      BY <1>1, BootAhead DEF Holds
    <3>q. QED
      BY <3>1 DEF HostInv
  <2>3. \A h \in Handlers : act[h].prog = <<>> /\ ~Purge(h) /\ ~Archive(h)
    <3>1. \A h \in Handlers : act[h].stage \in Resting
      BY <2>2 DEF HostInv
    <3>2. \A s \in Resting : s \notin Removing
      BY DEF Resting, Removing
    <3>q. QED
      BY <3>1, <3>2, RestingCode, PurgeStage
  <2>4. disk'["archive"] = disk["archive"]
    BY <2>3, ArchiveAfter
  <2>q. QED
    BY <1>1, <2>1, <2>4
<1>2. CASE /\ Reads("boot", "meta") /\ act'["boot"].snap = MetaOf("sessions")
           /\ Tag("boot") = "reconciled" => MetaOf("sessions").state \in Active
  <2>1. act["boot"].prog # <<>> /\ Head(act["boot"].prog).file = "meta"
    BY <1>2 DEF Reads, Next1
  <2>2. Tag("boot") = "reconciled"
    BY <1>0, <2>1, MetaTagsOf, ActorNames
  <2>3. MetaOf("sessions").state = "starting" /\ Unnamed(MetaOf("sessions"))
    BY <1>0, <1>2, <2>2 DEF NamesInv, UnnamedStates, Active
  <2>4. Created
    BY <2>3 DEF Created
  <2>5. act["boot"].verdict = "lost" /\ disk["archive"] = NoDir
    BY <2>1, <2>4 DEF NamesInv, CreatedAlone
  <2>6. act'["boot"].verdict = act["boot"].verdict /\ disk' = disk
    BY <1>2, <2>2 DEF Reads, Steady
  <2>q. QED
    BY <2>5, <2>6
<1>q. QED
  BY <1>0, <1>1, <1>2, MetaRead

-----------------------------------------------------------------------------
\* Between its own update and the worker's launch, session.start finds the
\* record as it made it.

Making == \/ act["starter"].stage = "create" /\ act["starter"].prog # CreateProgram
          \/ act["starter"].prog = LaunchFailProgram

LEMMA MakingApart ==
  /\ CreateProgram # LaunchFailProgram /\ LaunchedProgram # LaunchFailProgram
  /\ <<>> # LaunchFailProgram /\ \A e : <<Ev(e)>> # LaunchFailProgram
  /\ \A e : <<Ev(e)>> # CreateProgram
<1>1. /\ Head(CreateProgram).tag = "created" /\ Head(LaunchedProgram).tag = "launched"
      /\ Head(LaunchFailProgram).tag = "launch_failed"
      /\ Head(LaunchFailProgram).file = "meta" /\ Head(CreateProgram).file = "meta"
  BY Tuples DEF CreateProgram, LaunchedProgram, LaunchFailProgram, M
<1>2. \A e : Head(<<Ev(e)>>).file = "events"
  BY Tuples DEF Ev
<1>3. <<>> # LaunchFailProgram
  BY Tuples DEF LaunchFailProgram
<1>q. QED
  BY <1>1, <1>2, <1>3

LEMMA MakingBack ==
  ASSUME Base, [Next]_vars, Making'
  PROVE  \/ Making /\ (act'["starter"] = act["starter"] \/ Appends("starter") \/ LaunchFails)
         \/ /\ Writes("starter", "meta") /\ Tag("starter") = "created"
            /\ act["starter"].stage = "create"
<1> USE DEF Base
<1>0. "starter" \in Actors
  BY ActorNames
<1>1. CASE act'["starter"] = act["starter"]
  BY <1>1 DEF Making
<1>2. CASE Step("starter")
  <2>1. act["starter"].prog # <<>>
    BY <1>0, <1>2, StepRuns
  <2>2. ~FileGone("starter")
    BY <1>0, FailAfter, MakingApart DEF FileGone, Rested, Making
  <2>3. CASE act["starter"].prog \in {CreateProgram, LaunchFailProgram}
    <3>1. /\ Tag("starter") \in FreshTags /\ Head(act["starter"].prog).file = "meta"
          /\ act["starter"].prog = CreateProgram => Tag("starter") = "created"
                                                    /\ act["starter"].stage = "create"
          /\ act["starter"].prog = LaunchFailProgram =>
               act["starter"].stage = "tail" /\ Tail(act["starter"].prog) = <<Ev("launch_failed")>>
      BY <2>1, <2>3, StarterAhead, Tuples, MakingApart
         DEF Tag, FreshTags, CreateProgram, LaunchFailProgram, M, Ev
    <3>2. PICK f \in {"meta", "worker"} : Writes("starter", f)
      BY <1>0, <1>2, <2>2, <3>1, StepAfter DEF Reads, Skips, Appends, Next1
    <3>3. f = "meta"
      BY <3>1, <3>2 DEF Writes, Next1
    <3>4. act["starter"].prog # LaunchFailProgram
      BY <3>1, <3>2, MakingApart DEF Writes, Pops, Making
    <3>q. QED
      BY <2>3, <3>1, <3>2, <3>3, <3>4
  <2>4. CASE act["starter"].prog = LaunchedProgram
    <3>1. act["starter"].stage = "tail" /\ Tail(act["starter"].prog) = <<Ev("launched")>>
      BY <2>1, <2>4, StarterAhead, MakingApart, Tuples DEF LaunchedProgram, CreateProgram, M, Ev
    <3>2. /\ act'["starter"].stage = act["starter"].stage
          /\ act'["starter"].prog \in {act["starter"].prog, Tail(act["starter"].prog), <<>>}
      BY <1>0, <1>2, <2>2, StepAfter DEF Reads, Writes, Skips, Appends, Pops
    <3>q. QED
      BY <2>4, <3>1, <3>2, MakingApart DEF Making
  <2>5. CASE Head(act["starter"].prog).file = "events"
    <3>1. Appends("starter")
      BY <1>0, <1>2, <2>2, <2>5, StepAfter DEF Reads, Writes, Skips, Next1
    <3>2. Tail(act["starter"].prog) = <<>> /\ act["starter"].prog # CreateProgram
      BY <2>1, <2>5, StarterAhead, Tuples DEF CreateProgram, M, Ev
    <3>3. act'["starter"].prog = <<>> /\ act'["starter"].stage = act["starter"].stage
      BY <3>1, <3>2 DEF Appends, Pops
    <3>q. QED
      BY <3>1, <3>2, <3>3, MakingApart DEF Making
  <2>q. QED
    BY <2>1, <2>3, <2>4, <2>5, StarterAhead DEF Ev
<1>3. CASE Starter
  <2>1. ~StartReturns
    <3>1. ASSUME Rested("starter", "done") PROVE FALSE
      BY <3>1, MakingApart DEF Rested, Making
    <3>q. QED
      BY <1>0, <3>1, RestedAfter DEF StartReturns
  <2>2. LaunchFails
    BY <1>3, <2>1, StarterAfter, MakingApart DEF Making
  <2>3. Making
    <3>1. act["starter"].stage = "create" /\ act["starter"].prog = <<>>
      BY <2>2 DEF LaunchFails, Ready
    <3>2. <<>> # CreateProgram
      BY Tuples DEF CreateProgram
    <3>q. QED
      BY <3>1, <3>2 DEF Making
  <2>q. QED
    BY <2>2, <2>3
<1>4. CASE HostCrash
  <2>1. CASE act'["starter"] = act["starter"]
    BY <1>1, <2>1
  <2>2. CASE act'["starter"].stage = "lost" /\ act'["starter"].prog = <<>>
    BY <2>2, MakingApart DEF Making
  <2>q. QED
    BY <1>0, <1>4, <2>1, <2>2, HostAfter
<1>q. QED
  BY <1>1, <1>2, <1>3, <1>4, StarterFrame

LEMMA MakingKept ==
  ASSUME Base, ProcInv, NamesInv, [Next]_vars PROVE StarterMade'
<1> USE DEF Base
<1> SUFFICES ASSUME Making' PROVE Created'
  BY DEF StarterMade, Making
<1>0. "starter" \in Actors /\ "sessions" \in Roots /\ act["starter"].root = "sessions"
  BY ActorNames DEF CodeOK, Roots
<1>1. CASE /\ Making
           /\ act'["starter"] = act["starter"] \/ Appends("starter") \/ LaunchFails
  <2>1. Created
    BY <1>1 DEF NamesInv, StarterMade, Making
  <2>2. proc = "none" /\ host = "up"
    <3>1. act["starter"].stage \notin Resting
      BY <1>1, RestingCode, MakingApart DEF Making, Resting
    <3>q. QED
      BY <1>1, <3>1 DEF ProcInv, Making, HostInv
  <2>3. \A h \in Handlers : ~FileRemoved(h, "sessions") /\ ~FileMoved(h, "sessions")
    BY <2>1, PurgeStage DEF FileRemoved, FileMoved, NamesInv, CreatedAlone
  <2>4. ASSUME NEW a \in Actors, FileWritten(a, "sessions", "meta") PROVE FALSE
    <3>1. Running(a) /\ act[a].prog # <<>> /\ Head(act[a].prog).file = "meta" /\ Pops(a)
      BY <2>4 DEF FileWritten, Writes, Next1
    <3>2. a = "starter"
      BY <2>1, <2>2, <3>1, CreatedProgs DEF Running, Ev
    <3>3. act'["starter"].prog = Tail(act["starter"].prog)
      BY <3>1, <3>2 DEF Pops
    <3>4. ~Appends("starter") /\ ~LaunchFails
      BY <3>1, <3>2 DEF Appends, Next1, LaunchFails, Ready
    <3>5. Tail(act["starter"].prog) # act["starter"].prog
      <4>1. Tail(act["starter"].prog) \in {<<Ev("note")>>, <<Ev("launched")>>, <<Ev("launch_failed")>>}
        BY <3>1, <3>2, StarterAhead DEF Ev
      <4>2. Head(Tail(act["starter"].prog)).file = "events"
        <5>1. \A e : Head(<<Ev(e)>>).file = "events"
          BY Tuples DEF Ev
        <5>q. QED
          BY <4>1, <5>1
      <4>q. QED
        BY <3>1, <3>2, <4>2
    <3>q. QED
      BY <1>1, <3>3, <3>4, <3>5
  <2>5. disk'["sessions"].meta = disk["sessions"].meta
    BY <1>0, <2>3, <2>4, FileAfter
  <2>q. QED
    BY <2>1, <2>5 DEF Created, MetaOf, Unnamed, Exists
<1>2. CASE Writes("starter", "meta") /\ Tag("starter") = "created"
  <2>1. act["starter"].snap = NoFile
    BY <1>0, <1>2 DEF SnapOK, FreshTags
  <2>2. disk'["sessions"].meta = Apply("created", NoFile, act["starter"].verdict)
    BY <1>0, <1>2, <2>1 DEF Writes
  <2>3. /\ disk'["sessions"].meta.state = NewState("created", NoFile.state, act["starter"].verdict)
        /\ disk'["sessions"].meta.wpid = (NoFile.wpid \/ "created" \in WorkerPidTags)
        /\ disk'["sessions"].meta.cpid = ("created" = "running" \/ (NoFile.cpid /\ "created" # "registered"))
    BY <2>2 DEF Apply
  <2>4. /\ disk'["sessions"].meta.state = "starting"
        /\ ~disk'["sessions"].meta.wpid /\ ~disk'["sessions"].meta.cpid
    BY <2>3 DEF NewState, NoFile, WorkerPidTags
  <2>q. QED
    BY <2>4 DEF Created, MetaOf, Unnamed, Exists
<1>q. QED
  BY <1>1, <1>2, MakingBack

-----------------------------------------------------------------------------
LEMMA NamesKept ==
  ASSUME Base, ProcInv, NamesInv, [Next]_vars PROVE NamesInv'
<1>1. UnnamedStates' /\ HandlersNamed' /\ BootCopy'
  BY UnnamedKept, HandlersKept, BootCopyKept
<1>2. CreatedAlone' /\ StaleAlone' /\ StarterMade'
  BY CreatedKept, StaleKept, MakingKept
<1>q. QED
  BY <1>1, <1>2 DEF NamesInv

\* A stop only ever signals a process that its copy of meta.json names, for any
\* number of handlers and crashes (stop_session and signal_session, server.rs).
THEOREM StopNames == Spec => []StopNamesAProcess
<1>1. Init => Base /\ ProcInv /\ NamesInv
  BY BaseInit, ProcInit, NamesInit
<1>2. Base /\ ProcInv /\ NamesInv /\ [Next]_vars => (Base /\ ProcInv /\ NamesInv)'
  <2>1. Base /\ ProcInv /\ [Next]_vars => ProcInv'
    BY ProcKept DEF Base
  <2>q. QED
    BY <2>1, BaseKept, NamesKept
<1>3. NamesInv => StopNamesAProcess
  BY DEF NamesInv, HandlersNamed, StopNamesAProcess
<1>q. QED
  BY <1>1, <1>2, <1>3, PTL DEF Spec

-----------------------------------------------------------------------------
(* While the host boots nobody takes meta.json away, so reconciliation never  *)
(* fails.                                                                     *)

BootInv ==
  /\ act["boot"].stage # "failed"
  /\ act["boot"].stage = "judge" \/ act["boot"].prog # <<>> => Exists(MetaOf("sessions"))

LEMMA BootInvInit == Init => BootInv
<1> SUFFICES ASSUME Init PROVE BootInv
  OBVIOUS
<1>1. act["boot"] = Fresh("idle")
  BY ActorNames DEF Init
<1>q. QED
  BY <1>1, FreshFields DEF BootInv

LEMMA MetaStays ==
  ASSUME Base, [Next]_vars, NEW r \in Roots, NEW f \in {"meta", "worker"}, Exists(disk[r][f]),
         \A h \in Handlers : ~Purge(h) /\ ~Archive(h)
  PROVE  Exists(disk'[r][f])
<1>1. \A h \in Handlers : ~FileRemoved(h, r) /\ ~FileMoved(h, r)
  BY DEF FileRemoved, FileMoved
<1>2. ASSUME NEW a \in Actors, FileWritten(a, r, f) PROVE Exists(disk'[r][f])
  BY <1>2, Written DEF FileWritten, Base
<1>q. QED
  BY <1>1, <1>2, FileAfter DEF Exists, Base

LEMMA BootInvKept ==
  ASSUME Base, BootInv, [Next]_vars PROVE BootInv'
<1> USE DEF Base
<1>0. "boot" \in Actors /\ "sessions" \in Roots /\ act["boot"].root = "sessions"
      /\ "meta" \in {"meta", "worker"}
  BY ActorNames DEF CodeOK, Roots
<1>1. ~FileGone("boot")
  <2>1. ASSUME FileGone("boot") PROVE FALSE
    <3>1. act["boot"].prog # <<>>
      BY <2>1 DEF FileGone, Next1
    <3>2. Tag("boot") \notin ReadsMeta
      BY <3>1, BootAhead DEF Tag, M, W, Ev, ReadsMeta
    <3>3. ~Exists(Here("boot").meta)
      BY <2>1, <3>2 DEF FileGone
    <3>q. QED
      BY <1>0, <3>1, <3>3 DEF BootInv, Here, MetaOf
  <2>q. QED
    BY <2>1
<1>2. Step("boot") => act'["boot"].stage = act["boot"].stage
  BY <1>0, <1>1, StageAfterStep
<1>3. act'["boot"].stage # "failed"
  <2>1. Boot => act'["boot"].stage # "failed"
    BY BootAfter DEF Rested
  <2>2. HostBoot => act'["boot"].stage # "failed"
    BY HostAfter DEF Rested
  <2>3. HostCrash => act'["boot"].stage # "failed"
    BY <1>0, HostAfter DEF BootInv
  <2>q. QED
    BY <1>2, <2>1, <2>2, <2>3, BootFrame DEF BootInv
<1>4. ASSUME act'["boot"].stage = "judge" \/ act'["boot"].prog # <<>>
      PROVE  Exists(MetaOf("sessions"))'
  <2>1. host' = "boot"
    <3>1. act'["boot"].stage \in {"idle", "failed"} => act'["boot"].prog = <<>>
      <4>1. CodeOK'
        BY BaseKept
      <4>q. QED
        BY <4>1 DEF CodeOK, BootCode
    <3>2. HostInv'
      BY BaseKept
    <3>q. QED
      BY <1>4, <3>1, <3>2 DEF HostInv
  <2>2. host # "up" /\ host' # "up"
    BY <2>1, HostFrame DEF HostCrash
  <2>3. \A h \in Handlers : ~Purge(h) /\ ~Archive(h)
    BY <2>2, HandlerRuns DEF Handler
  <2>4. Exists(disk["sessions"].meta)
    <3>1. CASE act'["boot"] = act["boot"]
      BY <1>4, <3>1 DEF BootInv, MetaOf
    <3>2. CASE Step("boot")
      BY <1>0, <3>2, StepRuns DEF BootInv, MetaOf
    <3>3. CASE Boot
      <4>1. Rested("boot", "idle") => act'["boot"].prog = <<>> /\ act'["boot"].stage = "idle"
        BY DEF Rested
      <4>2. act["boot"].stage = "load" => act["boot"].prog = <<>>
        BY DEF CodeOK, BootCode
      <4>q. QED
        BY <1>4, <3>3, <4>1, <4>2, BootAfter, NeverActive DEF BootInv, MetaOf, Exists, Ready
    <3>4. ~HostBoot
      BY <1>4, HostAfter DEF Rested
    <3>5. ~HostCrash
      BY <2>1 DEF HostCrash
    <3>q. QED
      BY <3>1, <3>2, <3>3, <3>4, <3>5, BootFrame
  <2>5. Exists(disk'["sessions"].meta)
    BY <1>0, <2>3, <2>4, MetaStays
  <2>q. QED
    BY <2>5 DEF MetaOf, Exists
<1>q. QED
  BY <1>3, <1>4 DEF BootInv

-----------------------------------------------------------------------------
(* A worker.json names the worker: it is made so, and every copy keeps it.    *)

WorkerNamed ==
  /\ \A r \in Roots : Exists(disk[r].worker) => disk[r].worker.wpid
  /\ \A a \in Actors : Holds(a, "worker") => act[a].snap.wpid

LEMMA WorkerRead ==
  ASSUME Base, [Next]_vars, NEW a \in Actors, Holds(a, "worker")'
  PROVE  \/ act'[a] = act[a] /\ Holds(a, "worker")
         \/ /\ Reads(a, "worker") /\ act'[a].snap = disk[act[a].root].worker
            /\ Exists(disk[act[a].root].worker)
<1> USE DEF Base
<1>1. act'[a].prog # <<>> /\ Head(act'[a].prog).file = "worker" /\ act'[a].snap # NoFile
  BY StateExists DEF Holds, Exists
<1>2. CASE act'[a] = act[a]
  BY <1>2 DEF Holds, Exists
<1>3. ASSUME NEW f \in {"meta", "worker"}, Reads(a, f)
      PROVE  /\ Reads(a, "worker") /\ act'[a].snap = disk[act[a].root].worker
             /\ Exists(disk[act[a].root].worker)
  <2>1. f = "worker" /\ act[a].prog # <<>> /\ Head(act[a].prog).file = "worker"
    BY <1>1, <1>3 DEF Reads, Next1
  <2>2. Target(a) = disk[act[a].root].worker
    BY <2>1 DEF Target, Here
  <2>3. Tag(a) # "launched"
    BY <2>1, WorkerTagsOf
  <2>q. QED
    BY <1>3, <2>1, <2>2, <2>3 DEF Reads
<1>q. QED
  BY <1>1, <1>2, <1>3, SnapAfter DEF Holds

LEMMA WorkerNamedInit == Init => WorkerNamed
<1> SUFFICES ASSUME Init PROVE WorkerNamed
  OBVIOUS
<1>1. \A r \in Roots : disk[r].worker = NoFile
  BY DEF Init, NoDir
<1>2. \A a \in Actors : act[a].prog = <<>>
  <2>1. \A a \in Actors : act[a] = Fresh(IF a = "worker" THEN "off" ELSE "idle")
    BY DEF Init
  <2>q. QED
    BY <2>1, FreshFields
<1>q. QED
  BY <1>1, <1>2, StateExists DEF WorkerNamed, Holds

LEMMA WorkerNamedKept ==
  ASSUME Base, WorkerNamed, [Next]_vars PROVE WorkerNamed'
<1> USE DEF Base
<1>0. "worker" \in {"meta", "worker"} /\ "sessions" \in Roots
  BY DEF Roots
<1>1. ASSUME NEW r \in Roots, Exists(disk'[r].worker) PROVE disk'[r].worker.wpid
  <2>1. CASE disk'[r].worker = disk[r].worker
    BY <1>1, <2>1 DEF WorkerNamed
  <2>2. ASSUME NEW a \in Actors, FileWritten(a, r, "worker") PROVE disk'[r].worker.wpid
    <3>1. /\ Writes(a, "worker") /\ act[a].prog # <<>> /\ Head(act[a].prog).file = "worker"
          /\ (Tag(a) \in FreshTags \/ Exists(act[a].snap))
          /\ disk'[r].worker = Apply(Tag(a), act[a].snap, act[a].verdict)
      BY <2>2 DEF FileWritten, Writes, Next1
    <3>2. disk'[r].worker.wpid = (act[a].snap.wpid \/ Tag(a) \in WorkerPidTags)
      BY <1>0, <3>1, Written
    <3>3. CASE Tag(a) \in FreshTags
      <4>1. Tag(a) = "fresh"
        BY <3>1, <3>3, WorkerTagsOf DEF FreshTags
      <4>q. QED
        BY <3>2, <4>1 DEF WorkerPidTags
    <3>4. CASE Exists(act[a].snap)
      BY <3>1, <3>2, <3>4 DEF WorkerNamed, Holds
    <3>q. QED
      BY <3>1, <3>3, <3>4
  <2>3. ASSUME NEW h \in Handlers PROVE ~FileRemoved(h, r)
    BY <1>1, StateExists DEF FileRemoved, NoDir
  <2>4. ASSUME NEW h \in Handlers, FileMoved(h, r) PROVE disk'[r].worker.wpid
    BY <1>0, <1>1, <2>4 DEF FileMoved, WorkerNamed
  <2>q. QED
    BY <1>0, <2>1, <2>2, <2>3, <2>4, FileAfter
<1>2. ASSUME NEW a \in Actors, Holds(a, "worker")' PROVE act'[a].snap.wpid
  <2>1. act[a].root \in Roots
    BY ActorType
  <2>q. QED
    BY <1>2, <2>1, WorkerRead DEF WorkerNamed
<1>q. QED
  BY <1>1, <1>2 DEF WorkerNamed, Exists

-----------------------------------------------------------------------------
(* Until something is deleted, a recorded child pid has a worker.json beside  *)
(* it, and the worker has written its own.                                    *)

LEMMA PurgeIsDeletion ==
  ASSUME TypeOK, NEW h \in Handlers
  PROVE  /\ Purge(h) => history'.purged
         /\ Archive(h) => /\ disk["archive"] = NoDir /\ disk["sessions"] # NoDir
                          /\ disk'["archive"] = disk["sessions"]
  BY DEF Purge, Archive, TypeOK, Roots

LEMMA DeletedStays ==
  ASSUME Base, [Next]_vars, Deleted PROVE Deleted'
<1> USE DEF Base
<1>0. "archive" \in Roots /\ disk \in [Roots -> Dir]
  BY DEF Roots, TypeOK
<1>1. CASE history.purged
  BY <1>1, HostFrame DEF Deleted
<1>2. CASE disk["archive"] # NoDir
  <2>1. CASE disk'["archive"] = disk["archive"]
    BY <1>2, <2>1 DEF Deleted
  <2>2. ASSUME NEW a \in Actors, Appends(a)
        PROVE  disk'["archive"] = disk["archive"] \/ disk'["archive"] # NoDir
    <3>1. NoDir.events = {}
      BY DEF NoDir
    <3>2. act[a].root = "archive" => disk'["archive"].events # {}
      BY <2>2 DEF Appends
    <3>3. act[a].root # "archive" => disk'["archive"] = disk["archive"]
      BY <1>0, <2>2 DEF Appends
    <3>q. QED
      BY <3>1, <3>2, <3>3
  <2>3. ASSUME NEW a \in Actors, NEW f \in {"meta", "worker"}, Writes(a, f)
        PROVE  disk'["archive"] = disk["archive"] \/ disk'["archive"] # NoDir
    <3>1. NoDir.meta = NoFile /\ NoDir.worker = NoFile
      BY DEF NoDir
    <3>2. act[a].root = "archive" => Exists(disk'["archive"][f])
      BY <2>3, Written DEF Writes
    <3>3. act[a].root # "archive" => disk'["archive"] = disk["archive"]
      BY <1>0, <2>3 DEF Writes
    <3>4. CASE f = "meta"
      BY <3>1, <3>2, <3>3, <3>4, StateExists
    <3>5. CASE f = "worker"
      BY <3>1, <3>2, <3>3, <3>5, StateExists
    <3>q. QED
      BY <3>4, <3>5
  <2>4. ASSUME NEW h \in Handlers, Purge(h) \/ Archive(h) PROVE Deleted'
    BY <1>2, <2>4, PurgeIsDeletion DEF Deleted
  <2>5. RecordOutput => disk'["archive"] = disk["archive"]
    BY <1>0 DEF RecordOutput
  <2>6. disk'["archive"] # NoDir => Deleted'
    BY DEF Deleted
  <2>q. QED
    BY <2>1, <2>2, <2>3, <2>4, <2>5, <2>6, DiskSteady
<1>q. QED
  BY <1>1, <1>2 DEF Deleted

\* The worker has written its worker.json.
Wrote == \/ act["worker"].stage \in {"serve", "drained", "reaped", "exiting", "failing"}
         \/ act["worker"].stage = "boot" /\ act["worker"].prog = <<>>

Beside ==
  ~Deleted =>
    /\ \A a \in Actors : act[a].root = "sessions"
    /\ MetaOf("sessions").cpid => Exists(disk["sessions"].worker)
    /\ \A a \in Actors : act[a].snap.cpid => Exists(disk["sessions"].worker)
    /\ proc = "up" /\ Wrote => Exists(disk["sessions"].worker)

LEMMA BesideInit == Init => Beside
<1> SUFFICES ASSUME Init PROVE Beside
  OBVIOUS
<1>1. \A a \in Actors : act[a].root = "sessions" /\ act[a].snap = NoFile
  <2>1. \A a \in Actors : act[a] = Fresh(IF a = "worker" THEN "off" ELSE "idle")
    BY DEF Init
  <2>q. QED
    BY <2>1, FreshFields
<1>2. MetaOf("sessions") = NoFile /\ proc = "none"
  BY DEF Init, MetaOf, NoDir, Roots
<1>3. ~NoFile.cpid
  BY DEF NoFile
<1>q. QED
  BY <1>1, <1>2, <1>3 DEF Beside

LEMMA RootAfter ==
  ASSUME Base, [Next]_vars, NEW a \in Actors, act'[a].root # "sessions"
  PROVE  act[a].root # "sessions" \/ Deleted
<1> USE DEF Base
<1>0. /\ "starter" \in Actors /\ "worker" \in Actors /\ "boot" \in Actors
      /\ Handlers \subseteq Actors
  BY ActorNames
<1>1. CodeOK'
  BY BaseKept
<1>2. a \in Handlers
  BY <1>1, ActorNames DEF CodeOK
<1>3. CASE Step(a)
  BY <1>3, StageAfterStep DEF Rested
<1>4. CASE Request(a)
  <2>1. Exists(Found) /\ act'[a].root = FoundRoot
    BY <1>2, <1>4, RequestAfter DEF Begins
  <2>2. FoundRoot = "archive" /\ Found = disk["archive"].meta
    BY <2>1 DEF FoundRoot, Found
  <2>3. NoDir.meta = NoFile
    BY DEF NoDir
  <2>q. QED
    BY <2>1, <2>2, <2>3, StateExists DEF Deleted
<1>5. CASE Handler(a) \/ Awaited(a)
  <2>1. Turns(a) \/ PrepareSigterm(a) \/ Sigterm(a) \/ KillSignal(a) => act'[a].root = act[a].root
    BY <1>2, SigtermAfter DEF Turns, Kept
  <2>2. Ends(a) \/ Purge(a) \/ Archive(a) => act'[a].root = "sessions"
    BY DoneAfter DEF Ends, Purge, Archive, Rested
  <2>q. QED
    BY <1>2, <1>5, <2>1, <2>2, HandlerAfter
<1>6. CASE HostCrash
  BY <1>6, HostAfter
<1>q. QED
  BY <1>2, <1>3, <1>4, <1>5, <1>6, HandlerFrame

LEMMA WroteAfter ==
  ASSUME Base, ProcInv, [Next]_vars, proc' = "up", Wrote'
  PROVE  \/ proc = "up" /\ Wrote
         \/ FileWritten("worker", "sessions", "worker")
<1> USE DEF Base
<1>0. "worker" \in Actors
  BY ActorNames
<1>1. ~LaunchWorker
  <2>1. RegisterProgram # <<>>
    BY Tuples DEF RegisterProgram
  <2>q. QED
    BY <2>1, LaunchedAfter DEF Wrote
<1>2. proc = "up"
  BY <1>1, ProcFrame
<1>3. CASE act'["worker"] = act["worker"]
  BY <1>2, <1>3 DEF Wrote
<1>4. CASE Worker \/ WorkerCrashes
  <2>1. SpawnChild \/ SpawnFails \/ OutputEnds \/ ReapChild \/ Ready("worker", "reaped") => Wrote
    BY DEF SpawnChild, SpawnFails, OutputEnds, ReapChild, Ready, Wrote
  <2>q. QED
    BY <1>2, <1>4, <2>1, WorkerAfter
<1>5. CASE Step("worker")
  <2>1. ~FileGone("worker")
    BY <1>0, FailAfter DEF FileGone
  <2>2. act'["worker"].stage = act["worker"].stage
    BY <1>0, <1>5, <2>1, StageAfterStep DEF Rested, Wrote
  <2>3. act["worker"].prog # <<>>
    BY <1>0, <1>5, StepRuns
  <2>4. CASE act["worker"].stage # "boot"
    BY <1>2, <2>2, <2>4 DEF Wrote
  <2>5. CASE act["worker"].stage = "boot"
    <3>1. act'["worker"].prog = <<>>
      BY <2>2, <2>5 DEF Wrote
    <3>2. \/ act["worker"].prog = <<W("fresh")>> /\ Head(act["worker"].prog).file = "worker"
             /\ Tag("worker") = "fresh"
          \/ act["worker"].prog = RegisterProgram /\ Head(act["worker"].prog).file = "meta"
             /\ Tag("worker") = "registered" /\ Tail(act["worker"].prog) # <<>>
      BY <2>3, <2>5, WorkerAhead, Tuples DEF RegisterProgram, M, W, Ev, Tag
    <3>4. \A f : ~Skips("worker", f)
      BY <3>2 DEF Skips, FreshTags, Next1
    <3>3. act'["worker"].prog \in {act["worker"].prog, Tail(act["worker"].prog)}
      BY <1>0, <1>5, <2>1, <3>4, StepAfter DEF Reads, Writes, Appends, Pops
    <3>5. act["worker"].prog = <<W("fresh")>> /\ Tag("worker") \in FreshTags
          /\ Head(act["worker"].prog).file = "worker"
      BY <2>3, <3>1, <3>2, <3>3, <3>4 DEF FreshTags
    <3>6. PICK f \in {"meta", "worker"} : Writes("worker", f)
      BY <1>0, <1>5, <2>1, <3>4, <3>5, StepAfter DEF Reads, Appends, Next1
    <3>7. f = "worker" /\ act["worker"].root = "sessions"
      BY <3>5, <3>6 DEF Writes, Next1, CodeOK
    <3>q. QED
      BY <3>6, <3>7 DEF Writes, FileWritten
  <2>q. QED
    BY <2>4, <2>5
<1>q. QED
  BY <1>1, <1>3, <1>4, <1>5, WorkerFrame

LEMMA BesideKept ==
  ASSUME Base, ProcInv, Beside, [Next]_vars PROVE Beside'
<1> USE DEF Base
<1> SUFFICES ASSUME ~Deleted'
             PROVE  /\ \A a \in Actors : act'[a].root = "sessions"
                    /\ disk'["sessions"].meta.cpid => Exists(disk'["sessions"].worker)
                    /\ \A a \in Actors : act'[a].snap.cpid => Exists(disk'["sessions"].worker)
                    /\ proc' = "up" /\ Wrote' => Exists(disk'["sessions"].worker)
  BY DEF Beside, MetaOf, Exists
<1>0. "sessions" \in Roots /\ "worker" \in {"meta", "worker"} /\ "meta" \in {"meta", "worker"}
      /\ "worker" \in Actors
  BY ActorNames DEF Roots
<1>1. ~Deleted
  BY DeletedStays
<1>2. /\ \A a \in Actors : act[a].root = "sessions"
      /\ disk["sessions"].meta.cpid => Exists(disk["sessions"].worker)
      /\ \A a \in Actors : act[a].snap.cpid => Exists(disk["sessions"].worker)
      /\ proc = "up" /\ Wrote => Exists(disk["sessions"].worker)
  BY <1>1 DEF Beside, MetaOf
<1>3. \A h \in Handlers : ~Purge(h) /\ ~Archive(h)
  BY PurgeIsDeletion DEF Deleted
<1>4. Exists(disk["sessions"].worker) => Exists(disk'["sessions"].worker)
  BY <1>0, <1>3, MetaStays
<1>5. \A a \in Actors : act'[a].root = "sessions"
  BY <1>1, <1>2, RootAfter
<1>6. ASSUME disk'["sessions"].meta.cpid PROVE Exists(disk["sessions"].worker)
  <2>1. CASE disk'["sessions"].meta = disk["sessions"].meta
    BY <1>2, <1>6, <2>1
  <2>2. ASSUME NEW a \in Actors, FileWritten(a, "sessions", "meta")
        PROVE  Exists(disk["sessions"].worker)
    <3>1. /\ Writes(a, "meta") /\ Running(a) /\ act[a].prog # <<>>
          /\ Head(act[a].prog).file = "meta"
          /\ disk'["sessions"].meta = Apply(Tag(a), act[a].snap, act[a].verdict)
      BY <2>2 DEF FileWritten, Writes, Next1
    <3>2. Tag(a) = "running" \/ act[a].snap.cpid
      BY <1>0, <1>6, <3>1, Written
    <3>3. CASE Tag(a) = "running"
      <4>1. a = "worker"
        BY <3>1, <3>3, MetaTagsOf
      <4>2. act["worker"].stage = "serve"
        BY <3>1, <3>3, <4>1, WorkerAhead DEF Tag, M, W, Ev
      <4>q. QED
        BY <1>2, <3>1, <4>1, <4>2 DEF Wrote, Running
    <3>q. QED
      BY <1>2, <3>2, <3>3
  <2>3. \A h \in Handlers : ~FileRemoved(h, "sessions") /\ ~FileMoved(h, "sessions")
    BY <1>3 DEF FileRemoved, FileMoved
  <2>q. QED
    BY <1>0, <2>1, <2>2, <2>3, FileAfter
<1>7. ASSUME NEW a \in Actors, act'[a].snap.cpid PROVE Exists(disk["sessions"].worker)
  <2>1. ~NoFile.cpid /\ ~[NoFile EXCEPT !.state = "starting"].cpid
    BY DEF NoFile
  <2>2. ASSUME NEW f \in {"meta", "worker"}, Reads(a, f) PROVE Exists(disk["sessions"].worker)
    <3>1. Target(a) = disk["sessions"][f]
      BY <1>2, <2>2 DEF Reads, Next1, Target, Here
    <3>2. Exists(Target(a)) /\ act'[a].snap = Target(a)
      BY <1>7, <2>1, <2>2 DEF Reads
    <3>3. CASE f = "meta"
      BY <1>2, <1>7, <3>1, <3>2, <3>3
    <3>4. CASE f = "worker"
      BY <3>1, <3>2, <3>4
    <3>q. QED
      BY <3>3, <3>4
  <2>q. QED
    BY <1>2, <1>7, <2>1, <2>2, SnapAfter
<1>8. ASSUME proc' = "up", Wrote' PROVE Exists(disk'["sessions"].worker)
  <2>1. CASE proc = "up" /\ Wrote
    BY <1>2, <1>4, <2>1
  <2>2. CASE FileWritten("worker", "sessions", "worker")
    BY <1>0, <2>2, Written DEF FileWritten
  <2>q. QED
    BY <1>8, <2>1, <2>2, WroteAfter
<1>q. QED
  BY <1>4, <1>5, <1>6, <1>7, <1>8

-----------------------------------------------------------------------------
(* Until a boot has judged the session, a child pid is recorded beside a      *)
(* worker pid.                                                                *)

Young == \/ crashes.host = 0
         \/ crashes.host = 1 /\ (host = "down" \/ act["boot"].stage = "load")

PidsTogether ==
  Young =>
    /\ \A r \in Roots : MetaOf(r).cpid => MetaOf(r).wpid
    /\ \A a \in Actors : Holds(a, "meta") /\ act[a].snap.cpid => act[a].snap.wpid
    /\ Stale => proc = "none"

LEMMA YoungBack ==
  ASSUME Base, BootInv, [Next]_vars, Young'
  PROVE  Young /\ act["boot"].prog = <<>>
<1> USE DEF Base
<1>0. "boot" \in Actors /\ crashes.host \in Nat
  BY ActorNames DEF TypeOK
<1>1. crashes'.host \in {crashes.host, crashes.host + 1}
  BY HostFrame
<1>2. CASE crashes'.host = 0
  <2>1. crashes.host = 0
    BY <1>0, <1>1, <1>2
  <2>2. host = "up"
    BY <1>0, <2>1 DEF HostInv
  <2>3. act["boot"].prog = <<>>
    BY <2>2 DEF HostInv, CodeOK, BootCode
  <2>q. QED
    BY <2>1, <2>3 DEF Young
<1>3. CASE crashes'.host = 1 /\ (host' = "down" \/ act'["boot"].stage = "load")
  <2>1. CASE HostCrash
    <3>1. crashes.host = 0
      <4>1. crashes'.host = crashes.host + 1
        BY <1>0, <2>1 DEF HostCrash, TypeOK
      <4>q. QED
        BY <1>0, <1>3, <4>1
    <3>2. host = "up"
      BY <1>0, <3>1 DEF HostInv
    <3>3. act["boot"].prog = <<>>
      BY <3>2 DEF HostInv, CodeOK, BootCode
    <3>q. QED
      BY <3>1, <3>3 DEF Young
  <2>2. CASE HostBoot
    <3>1. host = "down" /\ crashes.host = 1
      BY <1>3, <2>2 DEF HostBoot
    <3>2. act["boot"].prog = <<>>
      BY <3>1 DEF HostInv, CodeOK, BootCode
    <3>q. QED
      BY <3>1, <3>2 DEF Young
  <2>3. CASE ~HostCrash /\ ~HostBoot
    <3>1. crashes.host = 1
      BY <1>3, <2>3, HostFrame
    <3>2. host' = "down" => host = "down"
      <4>1. ASSUME BootEnds, host' = "down" PROVE FALSE
        <5>1. act["boot"].stage = "failed"
          BY <4>1 DEF BootEnds
        <5>q. QED
          BY <5>1 DEF BootInv
      <4>q. QED
        BY <2>3, <4>1, HostFrame
    <3>3. CASE host' = "down"
      <4>1. act["boot"].prog = <<>>
        BY <3>2, <3>3 DEF HostInv, CodeOK, BootCode
      <4>q. QED
        BY <3>1, <3>2, <3>3, <4>1 DEF Young
    <3>4. CASE act'["boot"].stage = "load"
      <4>1. ~Boot
        BY <3>4, BootAfter DEF Rested
      <4>2. ~Step("boot")
        <5>1. ASSUME Step("boot") PROVE FALSE
          <6>1. act["boot"].stage = "finish"
            BY <1>0, <5>1, StepRuns, BootAhead
          <6>2. act'["boot"].stage \in {"finish", "failed"}
            BY <1>0, <5>1, <6>1, StageAfterStep DEF Rested
          <6>q. QED
            BY <3>4, <6>2
        <5>q. QED
          BY <5>1
      <4>3. act["boot"].stage = "load"
        BY <2>3, <3>4, <4>1, <4>2, BootFrame
      <4>q. QED
        BY <3>1, <4>3 DEF Young, CodeOK, BootCode
    <3>q. QED
      BY <1>3, <3>3, <3>4
  <2>q. QED
    BY <2>1, <2>2, <2>3
<1>q. QED
  BY <1>2, <1>3 DEF Young

LEMMA TogetherInit == Init => PidsTogether
<1> SUFFICES ASSUME Init PROVE PidsTogether
  OBVIOUS
<1>1. \A r \in Roots : MetaOf(r) = NoFile
  BY DEF Init, NoDir, MetaOf
<1>2. \A a \in Actors : act[a].snap = NoFile
  <2>1. \A a \in Actors : act[a] = Fresh(IF a = "worker" THEN "off" ELSE "idle")
    BY DEF Init
  <2>q. QED
    BY <2>1, FreshFields
<1>3. proc = "none" /\ ~NoFile.cpid
  BY DEF Init, NoFile
<1>q. QED
  BY <1>1, <1>2, <1>3 DEF PidsTogether

LEMMA TogetherKept ==
  ASSUME Base, ProcInv, NamesInv, BootInv, PidsTogether, [Next]_vars PROVE PidsTogether'
<1> USE DEF Base
<1> SUFFICES ASSUME Young'
             PROVE  /\ \A r \in Roots : disk'[r].meta.cpid => disk'[r].meta.wpid
                    /\ \A a \in Actors : Holds(a, "meta")' /\ act'[a].snap.cpid
                         => act'[a].snap.wpid
                    /\ Stale' => proc' = "none"
  BY DEF PidsTogether, MetaOf
<1>0. "sessions" \in Roots /\ "meta" \in {"meta", "worker"}
  BY DEF Roots
<1>1. Young /\ act["boot"].prog = <<>>
  BY YoungBack
<1>2. /\ \A r \in Roots : disk[r].meta.cpid => disk[r].meta.wpid
      /\ \A a \in Actors : Holds(a, "meta") /\ act[a].snap.cpid => act[a].snap.wpid
      /\ Stale => proc = "none"
  BY <1>1 DEF PidsTogether, MetaOf
<1>3. ~NoFile.cpid /\ ~[NoFile EXCEPT !.state = "starting"].cpid
  BY DEF NoFile
<1>4. ASSUME NEW r \in Roots, disk'[r].meta.cpid PROVE disk'[r].meta.wpid
  <2>1. CASE disk'[r].meta = disk[r].meta
    BY <1>2, <1>4, <2>1
  <2>2. ASSUME NEW a \in Actors, FileWritten(a, r, "meta") PROVE disk'[r].meta.wpid
    <3>1. /\ Writes(a, "meta") /\ Running(a) /\ act[a].prog # <<>>
          /\ Head(act[a].prog).file = "meta" /\ (Tag(a) \in FreshTags \/ Exists(act[a].snap))
          /\ disk'[r].meta = Apply(Tag(a), act[a].snap, act[a].verdict)
      BY <2>2 DEF FileWritten, Writes, Next1
    <3>2. /\ disk'[r].meta.wpid = (act[a].snap.wpid \/ Tag(a) \in WorkerPidTags)
          /\ disk'[r].meta.cpid
               = (Tag(a) = "running" \/ (act[a].snap.cpid /\ Tag(a) # "registered"))
      BY <1>0, <3>1, Written
    <3>3. CASE Tag(a) = "running"
      <4>1. a = "worker" /\ Holds("worker", "meta")
        BY <3>1, <3>3, MetaTagsOf DEF Holds, FreshTags
      <4>2. proc = "up"
        BY <3>1, <4>1 DEF Running
      <4>3. ~WorkerStale
        BY <1>2, <4>2 DEF Stale
      <4>4. ~Unnamed(act["worker"].snap)
        BY <3>3, <4>1, <4>3 DEF WorkerStale
      <4>5. act["worker"].snap.wpid \/ act["worker"].snap.cpid
        BY <4>1, <4>4 DEF Unnamed, Holds
      <4>q. QED
        BY <1>2, <3>2, <4>1, <4>5, ActorNames
    <3>4. CASE act[a].snap.cpid
      <4>1. Exists(act[a].snap)
        BY <1>3, <3>4 DEF SnapOK
      <4>q. QED
        BY <1>2, <3>1, <3>2, <3>4, <4>1 DEF Holds
    <3>q. QED
      BY <1>4, <3>2, <3>3, <3>4
  <2>3. ASSUME NEW h \in Handlers PROVE ~FileRemoved(h, r)
    <3>1. NoDir.meta = NoFile
      BY DEF NoDir
    <3>q. QED
      BY <1>3, <1>4, <3>1 DEF FileRemoved
  <2>4. ASSUME NEW h \in Handlers, FileMoved(h, r) PROVE disk'[r].meta.wpid
    BY <1>0, <1>2, <1>4, <2>4 DEF FileMoved
  <2>q. QED
    BY <1>0, <2>1, <2>2, <2>3, <2>4, FileAfter
<1>5. ASSUME NEW a \in Actors, Holds(a, "meta")', act'[a].snap.cpid PROVE act'[a].snap.wpid
  <2>1. act[a].root \in Roots
    BY ActorType
  <2>q. QED
    BY <1>2, <1>3, <1>5, <2>1, MetaRead DEF MetaOf
<1>6. ASSUME Stale' PROVE proc' = "none"
  <2>1. CASE Stale
    BY <1>2, <2>1, ProcFrame, StaleStarter
  <2>2. CASE FileWritten("starter", "sessions", "meta") /\ act["starter"].prog = LaunchFailProgram
    <3>1. proc = "none"
      BY <2>2 DEF ProcInv
    <3>q. QED
      BY <2>2, <3>1 DEF FileWritten, Writes, processes
  <2>3. ~Holds("boot", "meta")
    BY <1>1 DEF Holds
  <2>q. QED
    BY <1>6, <2>1, <2>2, <2>3, StaleBack
<1>q. QED
  BY <1>4, <1>5, <1>6

-----------------------------------------------------------------------------
(* What the boot judges by: a child pid is never known without the worker's.  *)

LEMMA LossStays ==
  ASSUME Base, [Next]_vars, WorkerPidMayBeLost PROVE WorkerPidMayBeLost'
<1>1. crashes.host \in Nat
  BY DEF Base, TypeOK
<1>2. crashes'.host \in {crashes.host, crashes.host + 1}
  BY HostFrame DEF Base
<1>q. QED
  BY <1>1, <1>2, DeletedStays DEF WorkerPidMayBeLost

JudgeInv == act["boot"].stage = "judge" =>
              WorkerPidMayBeLost \/ (act["boot"].held.cpid => act["boot"].held.wpid)

LEMMA LoadedFields ==
  ASSUME TypeOK
  PROVE  LET meta == disk["sessions"].meta worker == disk["sessions"].worker
         IN /\ Loaded.state = worker.state
            /\ Loaded.wpid = (worker.wpid \/ meta.wpid)
            /\ Loaded.cpid = (worker.cpid \/ meta.cpid)
<1>1. disk["sessions"].worker \in File /\ disk["sessions"].meta \in File
  BY DEF TypeOK, Dir, Roots
<1> DEFINE w == disk["sessions"].worker.wpid \/ disk["sessions"].meta.wpid
           c == disk["sessions"].worker.cpid \/ disk["sessions"].meta.cpid
<1>2. Loaded = [disk["sessions"].worker EXCEPT !.wpid = w, !.cpid = c]
  BY DEF Loaded
<1> HIDE DEF w, c
<1>3. Loaded.state = disk["sessions"].worker.state /\ Loaded.wpid = w /\ Loaded.cpid = c
  BY <1>1, <1>2 DEF File
<1>q. QED
  BY <1>3 DEF w, c

\* At its first look the boot of a host that crashed once finds the pids together.
LEMMA YoungAtLoad ==
  ASSUME Base, Ready("boot", "load"), ~WorkerPidMayBeLost
  PROVE  Young \/ ~Deleted
<1>1. host = "boot" /\ act["boot"].stage = "load"
  BY DEF Ready, Running
<1>2. crashes.host \in Nat /\ crashes.host > 0
  BY <1>1 DEF Base, HostInv, TypeOK
<1>q. QED
  BY <1>1, <1>2 DEF WorkerPidMayBeLost, Young

LEMMA LoadedNamed ==
  ASSUME Base, WorkerNamed, Beside, PidsTogether, Ready("boot", "load"), ~WorkerPidMayBeLost,
         Loaded.cpid
  PROVE  Loaded.wpid
<1> USE DEF Base
<1>0. "sessions" \in Roots
  BY DEF Roots
<1>1. CASE Exists(disk["sessions"].worker)
  BY <1>0, <1>1, LoadedFields DEF WorkerNamed
<1>2. CASE ~Exists(disk["sessions"].worker)
  <2>1. disk["sessions"].worker = NoFile
    BY <1>0, <1>2 DEF NoFiles
  <2>2. MetaOf("sessions").cpid
    <3>1. Loaded.cpid = (disk["sessions"].worker.cpid \/ disk["sessions"].meta.cpid)
      BY LoadedFields
    <3>2. ~disk["sessions"].worker.cpid
      BY <2>1 DEF NoFile
    <3>q. QED
      BY <3>1, <3>2 DEF MetaOf
  <2>3. Deleted
    BY <1>2, <2>2 DEF Beside
  <2>4. MetaOf("sessions").wpid
    BY <1>0, <2>2, <2>3, YoungAtLoad DEF PidsTogether
  <2>q. QED
    BY <2>4, LoadedFields DEF MetaOf
<1>q. QED
  BY <1>1, <1>2

LEMMA JudgeKept ==
  ASSUME Base, WorkerNamed, Beside, PidsTogether, JudgeInv, [Next]_vars PROVE JudgeInv'
<1> USE DEF Base
<1> SUFFICES ASSUME act'["boot"].stage = "judge", ~WorkerPidMayBeLost', act'["boot"].held.cpid
             PROVE  act'["boot"].held.wpid
  BY DEF JudgeInv
<1>0. "boot" \in Actors /\ ~WorkerPidMayBeLost
  BY ActorNames, LossStays
<1>1. CASE act'["boot"] = act["boot"]
  BY <1>0, <1>1 DEF JudgeInv
<1>2. CASE Boot
  BY <1>0, <1>2, BootAfter, LoadedNamed DEF Rested
<1>3. ~Step("boot")
  <2>1. ASSUME Step("boot") PROVE FALSE
    <3>1. act["boot"].stage = "finish"
      BY <1>0, <2>1, StepRuns, BootAhead
    <3>2. act'["boot"].stage \in {"finish", "failed"}
      BY <1>0, <2>1, <3>1, StageAfterStep DEF Rested
    <3>q. QED
      BY <3>2
  <2>q. QED
    BY <2>1
<1>4. ~HostBoot
  BY HostAfter DEF Rested
<1>5. HostCrash => act'["boot"] = act["boot"]
  BY <1>0, HostAfter
<1>q. QED
  BY <1>1, <1>2, <1>3, <1>4, <1>5, BootFrame

-----------------------------------------------------------------------------
(* A session that ran when the host booted.                                   *)

SparesInv ==
  host = "boot" /\ history.atBoot = "live" =>
    /\ child # "none"
    /\ WorkerPidMayBeLost \/ (proc = "up" /\ child = "alive" =>
                    /\ act["boot"].stage = "judge" => act["boot"].held.wpid
                    /\ act["boot"].prog = <<>>)

LEMMA LiveIsLoaded ==
  ASSUME Base, ProcInv, NamesInv, WorkerNamed, Beside, PidsTogether,
         Ready("boot", "load"), ~WorkerPidMayBeLost, disk["sessions"].meta.state \in Active,
         proc = "up", child # "none"
  PROVE  Loaded.wpid
<1> USE DEF Base
<1>0. "sessions" \in Roots
  BY DEF Roots
<1>1. act["worker"].stage \in {"serve", "drained", "reaped", "exiting"}
  BY DEF ProcInv
<1>2. CASE Exists(disk["sessions"].worker)
  BY <1>0, <1>2, LoadedFields DEF WorkerNamed
<1>3. CASE ~Exists(disk["sessions"].worker)
  <2>1. Deleted
    BY <1>1, <1>3 DEF Beside, Wrote
  <2>2. Young
    BY <2>1, YoungAtLoad
  <2>3. ~Created /\ ~Stale
    BY <1>1, <2>2 DEF PidsTogether, NamesInv, CreatedAlone, Registered
  <2>4. Exists(disk["sessions"].meta)
    BY NeverActive DEF Exists
  <2>5. disk["sessions"].meta.wpid \/ disk["sessions"].meta.cpid
    BY <2>3, <2>4 DEF Created, Stale, Unnamed, MetaOf
  <2>6. disk["sessions"].meta.wpid
    BY <1>0, <2>2, <2>5 DEF PidsTogether, MetaOf
  <2>q. QED
    BY <2>6, LoadedFields
<1>q. QED
  BY <1>2, <1>3

LEMMA LiveIsSpared ==
  ASSUME proc = "up", child = "alive", act["boot"].held.wpid
  PROVE  BootVerdict = "absent"
<1>1. Liveness(act["boot"].held.wpid, proc = "up") = "alive"
  BY DEF Liveness
<1>2. Liveness(act["boot"].held.cpid, child \in {"alive", "zombie"}) \in {"alive", "unknown"}
  <2>1. \A r : Liveness(r, TRUE) \in {"alive", "unknown"}
    <3> TAKE r
    <3>1. CASE r
      BY <3>1 DEF Liveness
    <3>2. CASE ~r
      BY <3>2 DEF Liveness
    <3>q. QED
      BY <3>1, <3>2
  <2>2. (child \in {"alive", "zombie"}) = TRUE
    OBVIOUS
  <2>q. QED
    BY <2>1, <2>2
<1>3. \A c \in {"alive", "unknown"} : \A e : Judge("alive", c, e) = "absent"
  BY DEF Judge
<1>q. QED
  BY <1>1, <1>2, <1>3 DEF BootVerdict

LEMMA SparesKept ==
  ASSUME Base, ProcInv, NamesInv, WorkerNamed, Beside, PidsTogether, SparesInv, [Next]_vars
  PROVE  SparesInv'
<1> USE DEF Base
<1> SUFFICES ASSUME host' = "boot", history'.atBoot = "live"
             PROVE  /\ child' # "none"
                    /\ ~WorkerPidMayBeLost' /\ proc' = "up" /\ child' = "alive" =>
                         /\ act'["boot"].stage = "judge" => act'["boot"].held.wpid
                         /\ act'["boot"].prog = <<>>
  BY DEF SparesInv
<1>0. "boot" \in Actors
  BY ActorNames
<1>1. CASE HostBoot
  <2>1. proc = "up" /\ child = "alive" /\ child' = child
    BY <1>1, RestOnly DEF HostBoot, TypeOK, processes
  <2>2. act'["boot"].stage = "load" /\ act'["boot"].prog = <<>>
    BY <1>1, HostAfter DEF Rested
  <2>q. QED
    BY <2>1, <2>2
<1>2. CASE ~HostBoot
  <2>1. host = "boot" /\ history.atBoot = "live" /\ ~HostCrash /\ ~BootEnds
    <3>1. HostCrash \/ BootEnds => host' # "boot"
      BY DEF HostCrash, BootEnds
    <3>q. QED
      BY <1>2, <3>1, HostFrame
  <2>2. /\ child # "none"
        /\ WorkerPidMayBeLost \/ (proc = "up" /\ child = "alive" =>
                        /\ act["boot"].stage = "judge" => act["boot"].held.wpid
                        /\ act["boot"].prog = <<>>)
    BY <2>1 DEF SparesInv
  <2>3. ~SpawnChild
    <3>1. SpawnChild => proc = "up" /\ act["worker"].stage = "boot"
      BY DEF SpawnChild, Ready, Running
    <3>q. QED
      BY <2>2, <3>1 DEF ProcInv
  <2>4. child' # "none" /\ (child' = "alive" => child = "alive")
    BY <2>2, <2>3, ChildFrame
  <2>5. proc' = "up" => proc = "up"
    <3>1. LaunchWorker => host = "up"
      BY StarterRuns DEF Starter
    <3>q. QED
      BY <2>1, <3>1, ProcFrame
  <2>6. ASSUME ~WorkerPidMayBeLost', proc' = "up", child' = "alive"
        PROVE  /\ act'["boot"].stage = "judge" => act'["boot"].held.wpid
               /\ act'["boot"].prog = <<>>
    <3>1. /\ ~WorkerPidMayBeLost /\ proc = "up" /\ child = "alive"
          /\ act["boot"].stage = "judge" => act["boot"].held.wpid
          /\ act["boot"].prog = <<>>
      BY <2>2, <2>4, <2>5, <2>6, LossStays
    <3>2. ~Step("boot")
      BY <1>0, <3>1, StepRuns
    <3>3. CASE act'["boot"] = act["boot"]
      BY <3>1, <3>3
    <3>4. CASE Boot
      <4>1. CASE Ready("boot", "load") /\ disk["sessions"].meta.state \in Active
                 /\ act'["boot"].stage = "judge" /\ act'["boot"].prog = act["boot"].prog
                 /\ act'["boot"].held = Loaded
        BY <3>1, <4>1, LiveIsLoaded
      <4>2. CASE act'["boot"].stage = "finish" /\ act'["boot"].prog = act["boot"].prog
        BY <3>1, <4>2
      <4>3. CASE Ready("boot", "judge") /\ act'["boot"].stage = "finish"
                 /\ act'["boot"].prog = IF BootVerdict = "absent" THEN <<>> ELSE ReconcileProgram
        BY <3>1, <4>3, LiveIsSpared DEF Ready
      <4>4. CASE Rested("boot", "idle")
        BY <4>4 DEF Rested
      <4>q. QED
        BY <3>4, <4>1, <4>2, <4>3, <4>4, BootAfter
    <3>q. QED
      BY <1>2, <2>1, <3>2, <3>3, <3>4, BootFrame
  <2>q. QED
    BY <2>4, <2>6
<1>q. QED
  BY <1>1, <1>2

-----------------------------------------------------------------------------
(* As long as the worker is not dead, nothing says that it is.                *)

NoOrphan ==
  /\ \A r \in Roots : /\ disk[r].meta.state # "orphaned" /\ disk[r].worker.state # "orphaned"
                      /\ disk[r].last # "orphaned"
  /\ \A a \in Actors : act[a].snap.state # "orphaned" /\ act[a].verdict # "orphaned"
  /\ act["boot"].held.state # "orphaned"

OrphanInv == WorkerPidMayBeLost \/ proc = "dead" \/ NoOrphan

LEMMA JudgeIsFair ==
  ASSUME ProcInv, JudgeInv, NoOrphan, act["boot"].stage = "judge", ~WorkerPidMayBeLost,
         proc # "dead", TypeOK
  PROVE  BootVerdict # "orphaned"
<1> DEFINE w == Liveness(act["boot"].held.wpid, proc = "up")
           c == Liveness(act["boot"].held.cpid, child \in {"alive", "zombie"})
           e == Evidence(act["boot"].held.state, disk["sessions"].last)
<1>1. e # "orphaned"
  BY DEF NoOrphan, Evidence, Roots
<1>2. w # "alive" => c # "alive"
  <2> SUFFICES ASSUME w # "alive", c = "alive" PROVE FALSE
    OBVIOUS
  <2>1. act["boot"].held.cpid /\ child \in {"alive", "zombie"}
    <3>1. CASE ~act["boot"].held.cpid
      BY <3>1 DEF Liveness
    <3>2. CASE act["boot"].held.cpid /\ child \notin {"alive", "zombie"}
      BY <3>2 DEF Liveness
    <3>q. QED
      BY <3>1, <3>2
  <2>2. act["boot"].held.wpid
    BY <2>1 DEF JudgeInv
  <2>3. proc = "up"
    BY <2>1 DEF ProcInv, TypeOK
  <2>q. QED
    BY <2>2, <2>3 DEF Liveness
<1>3. BootVerdict = Judge(w, c, e)
  BY DEF BootVerdict
<1> HIDE DEF w, c, e
<1>4. CASE w = "alive" /\ c \in {"alive", "unknown"}
  BY <1>3, <1>4 DEF Judge
<1>5. CASE w = "alive" /\ c = "dead"
  BY <1>3, <1>5 DEF Judge
<1>6. CASE w # "alive" /\ c # "alive"
  BY <1>1, <1>3, <1>6 DEF Judge
<1>7. CASE w = "alive" /\ c \notin {"alive", "unknown", "dead"}
  BY <1>1, <1>3, <1>7 DEF Judge
<1>q. QED
  BY <1>2, <1>4, <1>5, <1>6, <1>7

LEMMA OrphanVerdicts ==
  ASSUME Base, ProcInv, JudgeInv, NoOrphan, ~WorkerPidMayBeLost, proc # "dead", [Next]_vars,
         NEW a \in Actors
  PROVE  act'[a].verdict # "orphaned"
<1> USE DEF Base
<1>0. \A r \in Roots : disk[r].meta.state # "orphaned" /\ disk[r].worker.state # "orphaned"
  BY DEF NoOrphan
<1>1. CASE act'[a] = act[a]
  BY <1>1 DEF NoOrphan
<1>2. CASE \E s : Rested(a, s)
  BY <1>2 DEF Rested
<1>3. CASE Step(a)
  <2>1. ASSUME NEW f \in {"meta", "worker"}, Reads(a, f) PROVE act'[a].verdict # "orphaned"
    <3>1. act[a].root \in Roots /\ Target(a) = disk[act[a].root][f]
      BY <2>1, ActorType DEF Reads, Next1, Target, Here
    <3>2. Target(a).state # "orphaned"
      <4>1. CASE f = "meta"
        BY <1>0, <3>1, <4>1
      <4>2. CASE f = "worker"
        BY <1>0, <3>1, <4>2
      <4>q. QED
        BY <4>1, <4>2
    <3>3. act[a].verdict # "orphaned"
      BY DEF NoOrphan
    <3>q. QED
      BY <2>1, <3>2, <3>3 DEF Reads
  <2>2. CASE FileGone(a)
    BY <2>2, FailAfter DEF Rested, FileGone
  <2>3. ASSUME Pops(a) \/ \E f \in {"meta", "worker"} : Skips(a, f)
        PROVE  act'[a].verdict # "orphaned"
    BY <2>3 DEF Pops, Skips, NoOrphan
  <2>q. QED
    BY <1>3, <2>1, <2>2, <2>3, StepAfter DEF Writes, Appends
<1>4. CASE a = "starter" /\ Starter
  BY <1>4, StarterAfter DEF NoOrphan, Rested
<1>5. CASE a = "worker" /\ LaunchWorker
  <2>1. act'["worker"].verdict = "absent"
    <3>1. Ready("starter", "create") /\ act'["starter"].stage = "tail"
          /\ act'["starter"].prog = LaunchedProgram
      BY <1>5, LaunchedAfter
    <3>2. act'["worker"] = [Fresh("boot") EXCEPT !.prog = RegisterProgram]
      BY <1>5, ActorNames DEF LaunchWorker, TypeOK
    <3>q. QED
      BY <3>2 DEF Fresh
  <2>q. QED
    BY <1>5, <2>1
<1>6. CASE a = "worker" /\ (Worker \/ WorkerCrashes)
  <2>1. "orphaned" \notin Exits
    BY DEF Exits
  <2>2. act["worker"].verdict # "orphaned"
    BY <1>6 DEF NoOrphan
  <2>q. QED
    BY <1>6, <2>1, <2>2, WorkerAfter DEF Rested
<1>7. CASE a = "boot" /\ Boot
  <2>1. Ready("boot", "judge") => BootVerdict # "orphaned"
    BY JudgeIsFair DEF Ready
  <2>2. act["boot"].verdict # "orphaned"
    BY <1>7 DEF NoOrphan
  <2>q. QED
    BY <1>7, <2>1, <2>2, BootAfter DEF Rested
<1>8. CASE a = "boot" /\ HostBoot
  BY <1>8, HostAfter DEF Rested
<1>9. CASE HostCrash
  BY <1>1, <1>9, HostAfter
<1>10. CASE a \in Handlers /\ Request(a)
  <2>1. FoundRoot \in Roots
    BY DEF FoundRoot, Roots
  <2>q. QED
    BY <1>0, <1>10, <2>1, RequestAfter DEF Begins, Found
<1>11. CASE a \in Handlers /\ (Handler(a) \/ Awaited(a))
  <2>1. act[a].verdict # "orphaned" /\ MetaState(a) # "orphaned"
    BY <1>0, ActorType DEF NoOrphan, MetaState, Here
  <2>2. CASE Turns(a)
    BY <2>1, <2>2 DEF Turns
  <2>3. CASE Ends(a)
    BY <1>2, <2>3 DEF Ends
  <2>4. CASE PrepareSigterm(a) \/ Sigterm(a) \/ KillSignal(a)
    BY <1>11, <2>1, <2>4, SigtermAfter
  <2>5. CASE Purge(a) \/ Archive(a)
    BY <1>2, <2>5, DoneAfter DEF Purge, Archive
  <2>q. QED
    BY <1>11, <2>2, <2>3, <2>4, <2>5, HandlerAfter
<1>12. CASE a = "starter"
  BY <1>1, <1>3, <1>4, <1>9, <1>12, StarterFrame
<1>13. CASE a = "worker"
  BY <1>1, <1>3, <1>5, <1>6, <1>13, WorkerFrame
<1>14. CASE a = "boot"
  BY <1>1, <1>3, <1>7, <1>8, <1>9, <1>14, BootFrame
<1>15. CASE a \in Handlers
  BY <1>1, <1>3, <1>9, <1>10, <1>11, <1>15, HandlerFrame
<1>q. QED
  BY <1>12, <1>13, <1>14, <1>15, ActorNames

LEMMA OrphanFiles ==
  ASSUME Base, NoOrphan, [Next]_vars, NEW r \in Roots, NEW f \in {"meta", "worker"}
  PROVE  disk'[r][f].state # "orphaned"
<1> USE DEF Base
<1>0. \A q \in Roots : disk[q][f].state # "orphaned"
  <2>1. CASE f = "meta"
    BY <2>1 DEF NoOrphan
  <2>2. CASE f = "worker"
    BY <2>2 DEF NoOrphan
  <2>q. QED
    BY <2>1, <2>2
<1>1. CASE disk'[r][f] = disk[r][f]
  BY <1>0, <1>1
<1>2. ASSUME NEW a \in Actors, FileWritten(a, r, f) PROVE disk'[r][f].state # "orphaned"
  <2>1. disk'[r][f].state = WrittenState(a)
    BY <1>2, Written DEF FileWritten
  <2>2. act[a].snap.state # "orphaned" /\ act[a].verdict # "orphaned"
    BY DEF NoOrphan
  <2>q. QED
    BY <2>1, <2>2 DEF WrittenState, NewState
<1>3. ASSUME NEW h \in Handlers, FileRemoved(h, r) PROVE disk'[r][f].state # "orphaned"
  <2>1. NoDir.meta = NoFile /\ NoDir.worker = NoFile /\ NoFile.state # "orphaned"
    BY DEF NoDir, NoFile
  <2>q. QED
    <3>1. CASE f = "meta"
      BY <1>3, <2>1, <3>1 DEF FileRemoved
    <3>2. CASE f = "worker"
      BY <1>3, <2>1, <3>2 DEF FileRemoved
    <3>q. QED
      BY <3>1, <3>2
<1>4. ASSUME NEW h \in Handlers, FileMoved(h, r) PROVE disk'[r][f].state # "orphaned"
  BY <1>0, <1>4 DEF FileMoved, Roots
<1>q. QED
  BY <1>1, <1>2, <1>3, <1>4, FileAfter

LEMMA OrphanLast ==
  ASSUME Base, NoOrphan, [Next]_vars, NEW r \in Roots
  PROVE  disk'[r].last # "orphaned"
<1> USE DEF Base
<1>0. \A q \in Roots : disk[q].last # "orphaned" /\ disk[q].meta.state # "orphaned"
  BY DEF NoOrphan
<1>1. ASSUME NEW a \in Actors,
             disk'[r].last = EventState(Tag(a), act[a].verdict, disk[r].meta.state)
      PROVE  disk'[r].last # "orphaned"
  <2>1. act[a].verdict # "orphaned"
    BY DEF NoOrphan
  <2>q. QED
    BY <1>0, <1>1, <2>1 DEF EventState
<1>2. NoDir.last # "orphaned"
  BY DEF NoDir
<1>3. ASSUME NEW h \in Handlers, FileRemoved(h, r) PROVE disk'[r].last # "orphaned"
  BY <1>2, <1>3 DEF FileRemoved
<1>4. ASSUME NEW h \in Handlers, FileMoved(h, r) PROVE disk'[r].last # "orphaned"
  BY <1>0, <1>4 DEF FileMoved, Roots
<1>q. QED
  BY <1>0, <1>1, <1>3, <1>4, LastAfter

LEMMA OrphanSnaps ==
  ASSUME Base, NoOrphan, [Next]_vars, NEW a \in Actors
  PROVE  act'[a].snap.state # "orphaned"
<1> USE DEF Base
<1>1. ASSUME NEW f \in {"meta", "worker"}, Reads(a, f) PROVE act'[a].snap.state # "orphaned"
  <2>1. act[a].root \in Roots /\ Target(a) = disk[act[a].root][f]
    BY <1>1, ActorType DEF Reads, Next1, Target, Here
  <2>2. Target(a).state # "orphaned"
    <3>1. CASE f = "meta"
      BY <2>1, <3>1 DEF NoOrphan
    <3>2. CASE f = "worker"
      BY <2>1, <3>2 DEF NoOrphan
    <3>q. QED
      BY <3>1, <3>2
  <2>3. [NoFile EXCEPT !.state = "starting"].state # "orphaned"
    BY DEF NoFile
  <2>q. QED
    BY <1>1, <2>2, <2>3 DEF Reads
<1>2. NoFile.state # "orphaned"
  BY DEF NoFile
<1>3. act[a].snap.state # "orphaned"
  BY DEF NoOrphan
<1>q. QED
  BY <1>1, <1>2, <1>3, SnapAfter

LEMMA OrphanHeld ==
  ASSUME Base, NoOrphan, [Next]_vars
  PROVE  act'["boot"].held.state # "orphaned"
<1> USE DEF Base
<1>0. "boot" \in Actors
  BY ActorNames
<1>1. NoFile.state # "orphaned" /\ act["boot"].held.state # "orphaned"
  BY DEF NoFile, NoOrphan
<1>2. CASE act'["boot"].held = act["boot"].held
  BY <1>1, <1>2
<1>3. CASE act'["boot"].held = NoFile
  BY <1>1, <1>3
<1>4. CASE Step("boot")
  BY <1>0, <1>2, <1>3, <1>4, StepAfter, FailAfter
     DEF Reads, Writes, Skips, Appends, Pops, FileGone, Rested
<1>5. CASE Boot
  <2>1. Loaded.state # "orphaned"
    <3>1. Loaded.state = disk["sessions"].worker.state
      BY LoadedFields
    <3>q. QED
      BY <3>1 DEF NoOrphan, Roots
  <2>2. CASE Ready("boot", "judge")
    <3>1. BootJudge
      BY <1>5, <2>2 DEF Boot, BootLoad, BootEnds, Ready
    <3>2. \E p, v : Becomes("boot", [act["boot"] EXCEPT !.stage = "finish", !.verdict = v,
                                                      !.prog = p])
      BY <3>1 DEF BootJudge
    <3>3. PICK p, v : act'["boot"] = [act["boot"] EXCEPT !.stage = "finish", !.verdict = v,
                                                        !.prog = p]
      BY <1>0, <3>2, BecomesOnly, ZenonT(40)
    <3>4. act["boot"] \in Actor
      BY <1>0 DEF TypeOK
    <3>5. act'["boot"].held = act["boot"].held
      BY <3>3, <3>4 DEF Actor
    <3>q. QED
      BY <1>2, <3>5
  <2>3. CASE Ready("boot", "load") /\ disk["sessions"].meta.state \notin Active
    <3>1. act'["boot"].held = act["boot"].held
      BY <1>0, <1>5, <2>3 DEF Boot, BootLoad, BootJudge, BootEnds, Ready, Becomes, TypeOK, Actor
    <3>q. QED
      BY <1>2, <3>1
  <2>q. QED
    BY <1>3, <1>5, <2>1, <2>2, <2>3, BootAfter DEF Rested
<1>6. CASE HostCrash \/ HostBoot
  BY <1>0, <1>2, <1>3, <1>6, HostAfter DEF Rested
<1>q. QED
  BY <1>2, <1>4, <1>5, <1>6, BootFrame

LEMMA OrphanKept ==
  ASSUME Base, ProcInv, JudgeInv, OrphanInv, [Next]_vars PROVE OrphanInv'
<1> USE DEF Base
<1> SUFFICES ASSUME ~WorkerPidMayBeLost', proc' # "dead" PROVE NoOrphan'
  BY DEF OrphanInv
<1>1. ~WorkerPidMayBeLost
  BY LossStays
<1>2. proc # "dead"
  <2>1. LaunchWorker => proc = "none"
    BY LaunchedAfter DEF ProcInv, Ready
  <2>q. QED
    BY <2>1, ProcFrame
<1>3. NoOrphan
  BY <1>1, <1>2 DEF OrphanInv
<1>4. \A r \in Roots : disk'[r].meta.state # "orphaned" /\ disk'[r].worker.state # "orphaned"
                       /\ disk'[r].last # "orphaned"
  BY <1>3, OrphanFiles, OrphanLast
<1>5. \A a \in Actors : act'[a].snap.state # "orphaned" /\ act'[a].verdict # "orphaned"
  BY <1>1, <1>2, <1>3, OrphanSnaps, OrphanVerdicts
<1>q. QED
  BY <1>3, <1>4, <1>5, OrphanHeld DEF NoOrphan

-----------------------------------------------------------------------------
(* The whole invariant of startup reconciliation.                             *)

BootWorks ==
  /\ Base /\ ProcInv /\ NamesInv /\ BootInv /\ WorkerNamed /\ Beside /\ PidsTogether
  /\ JudgeInv /\ SparesInv /\ OrphanInv

LEMMA BootWorksInit == Init => BootWorks
<1> SUFFICES ASSUME Init PROVE BootWorks
  OBVIOUS
<1>1. act["boot"] = Fresh("idle") /\ host = "up"
  BY ActorNames DEF Init
<1>2. JudgeInv /\ SparesInv
  BY <1>1, FreshFields DEF JudgeInv, SparesInv
<1>3. OrphanInv
  <2>1. /\ NoDir.meta.state # "orphaned" /\ NoDir.worker.state # "orphaned"
        /\ NoDir.last # "orphaned" /\ NoFile.state # "orphaned"
    BY DEF NoDir, NoFile
  <2>2. \A a \in Actors : act[a] = Fresh(IF a = "worker" THEN "off" ELSE "idle")
    BY DEF Init
  <2>3. \A a \in Actors : act[a].snap = NoFile /\ act[a].verdict = "absent"
    BY <2>2, FreshFields
  <2>4. act["boot"].held = NoFile
    BY <1>1, FreshFields
  <2>5. \A r \in Roots : disk[r] = NoDir
    BY DEF Init
  <2>q. QED
    BY <2>1, <2>3, <2>4, <2>5 DEF OrphanInv, NoOrphan
<1>q. QED
  BY <1>2, <1>3, BaseInit, ProcInit, NamesInit, BootInvInit, WorkerNamedInit, BesideInit,
     TogetherInit DEF BootWorks

LEMMA BootWorksKept == BootWorks /\ [Next]_vars => BootWorks'
<1> SUFFICES ASSUME BootWorks, [Next]_vars PROVE BootWorks'
  OBVIOUS
<1>1. /\ Base /\ ProcInv /\ NamesInv /\ BootInv /\ WorkerNamed /\ Beside /\ PidsTogether
      /\ JudgeInv /\ SparesInv /\ OrphanInv
  BY DEF BootWorks
<1>2. Base' /\ NamesInv' /\ BootInv' /\ WorkerNamed' /\ Beside'
  BY <1>1, BaseKept, NamesKept, BootInvKept, WorkerNamedKept, BesideKept
<1>3. ProcInv'
  BY <1>1, ProcKept DEF Base
<1>4. PidsTogether' /\ JudgeInv' /\ SparesInv' /\ OrphanInv'
  BY <1>1, TogetherKept, JudgeKept, SparesKept, OrphanKept
<1>q. QED
  BY <1>2, <1>3, <1>4 DEF BootWorks

\* Startup reconciliation leaves a session alone that runs, for any number of
\* handlers and of crashes, except where a second crash meets a deletion
\* (reconcile_startup and collect_*_pids, reconcile.rs).
THEOREM SparesLive == Spec => []ReconcileSparesLive
<1>1. BootWorks => ReconcileSparesLive
  BY DEF BootWorks, SparesInv, ReconcileSparesLive
<1>q. QED
  BY <1>1, BootWorksInit, BootWorksKept, PTL DEF Spec

\* A record says orphaned only of a session whose worker is gone, with the same
\* exception: the verdict is never that, whatever the worker writes meanwhile.
THEOREM OrphanedAlone == Spec => []OrphanedMeansNoWorker
<1>1. BootWorks => OrphanedMeansNoWorker
  BY DEF BootWorks, OrphanInv, NoOrphan, OrphanedMeansNoWorker
<1>q. QED
  BY <1>1, BootWorksInit, BootWorksKept, PTL DEF Spec

-----------------------------------------------------------------------------
(* What each request asks for, and which requests take files away.            *)

ReqInv == \A h \in Handlers :
  /\ act[h].stage = "idle" => act[h].req = "none"
  /\ act[h].stage \in Stopping => act[h].req = "stop"
  /\ act[h].stage \in Marking \cup {"kill"} => act[h].req \in {"kill", "archive", "purge"}
  /\ act[h].stage \in Removing => act[h].req \in {"archive", "purge"}

LEMMA ReqInit == Init => ReqInv
<1> SUFFICES ASSUME Init, NEW h \in Handlers
             PROVE  act[h].stage = "idle" /\ act[h].req = "none"
  BY DEF ReqInv, Stopping, Marking, Removing
<1>1. act[h] = Fresh("idle")
  BY ActorNames DEF Init
<1>q. QED
  BY <1>1, FreshFields

LEMMA EndsReq ==
  ASSUME TypeOK, NEW a \in Actors
  PROVE  /\ Fail(a) => act'[a].req = act[a].req /\ act'[a].stage = "failed"
         /\ Done(a) => act'[a].req = act[a].req /\ act'[a].stage = "done"
<1>1. ASSUME NEW s, NEW q, Becomes(a, [Fresh(s) EXCEPT !.req = q])
      PROVE  act'[a].req = q /\ act'[a].stage = s
  <2>1. act'[a] = [Fresh(s) EXCEPT !.req = q]
    BY <1>1, BecomesOnly
  <2>q. QED
    BY <2>1, FreshFields
<1>q. QED
  BY <1>1 DEF Fail, Done

\* How a request goes on, and that it stays what it is.
LEMMA HandlerMoves ==
  ASSUME TypeOK, ReqInv, NEW h \in Handlers, Handler(h) \/ Awaited(h)
  PROVE  /\ act'[h].req = act[h].req
         /\ \/ act'[h].stage = "failed"
            \/ act'[h].stage = "done" /\ (act[h].stage \in Marking \/ act[h].req # "kill")
            \/ act[h].stage \in Stopping /\ act'[h].stage \in Stopping
            \/ act[h].stage \in Marking /\ act'[h].stage \in Marking
            \/ /\ act[h].stage \in Marking \cup {"remove"} /\ act'[h].stage \in Removing
               /\ act[h].req \in {"archive", "purge"}
            \/ KillSignal(h) /\ act[h].stage = "kill" /\ act'[h].stage = "mark"
<1> DEFINE Goal ==
     /\ act'[h].req = act[h].req
     /\ \/ act'[h].stage = "failed"
        \/ act'[h].stage = "done" /\ (act[h].stage \in Marking \/ act[h].req # "kill")
        \/ act[h].stage \in Stopping /\ act'[h].stage \in Stopping
        \/ act[h].stage \in Marking /\ act'[h].stage \in Marking
        \/ /\ act[h].stage \in Marking \cup {"remove"} /\ act'[h].stage \in Removing
           /\ act[h].req \in {"archive", "purge"}
        \/ KillSignal(h) /\ act[h].stage = "kill" /\ act'[h].stage = "mark"
<1>0. h \in Actors
  BY ActorNames
<1>1. ASSUME Fail(h) PROVE Goal
  BY <1>0, <1>1, EndsReq
<1>2. ASSUME Done(h), act[h].stage \in Marking \/ act[h].req # "kill" PROVE Goal
  BY <1>0, <1>2, EndsReq
<1>3. ASSUME NEW s, NEW t, NEW p, act[h].stage = t, Goto(h, s, p),
             \/ t \in Stopping /\ s \in Stopping
             \/ t \in Marking /\ s \in Marking
             \/ t \in Marking \cup {"remove"} /\ s \in Removing /\ act[h].req \in {"archive", "purge"}
      PROVE  Goal
  <2>1. act'[h].stage = s /\ act'[h].req = act[h].req
    BY <1>0, <1>3, GotoAfter DEF Kept
  <2>q. QED
    BY <1>3, <2>1
<1>4. act[h].stage \in Stopping => act[h].req = "stop"
  BY DEF ReqInv
<1>5. act[h].stage \in Removing => act[h].req \in {"archive", "purge"}
  BY DEF ReqInv
<1>6. CASE AskMillrace(h) \/ NativeStopIgnored(h) \/ Interrupt(h) \/ InterruptBlocks(h)
            \/ InterruptIgnored(h) \/ Awaited(h)
  BY <1>3, <1>6 DEF AskMillrace, NativeStopIgnored, Interrupt, InterruptBlocks,
     InterruptIgnored, Awaited, MillraceAnswers, ChildReads, Ready, Stopping
<1>7. CASE StopAnswers(h)
  <2>1. Done(h) /\ act[h].stage \in Stopping
    BY <1>7 DEF StopAnswers, Answer, Ready, Stopping
  <2>q. QED
    BY <1>2, <1>4, <2>1
<1>8. CASE StopMetaGone(h) \/ KillFails(h) \/ ArchiveFails(h)
  BY <1>1, <1>8 DEF StopMetaGone, KillFails, ArchiveFails
<1>9. CASE PrepareSigterm(h) \/ Sigterm(h)
  <2>1. act[h].stage \in Stopping
    BY <1>9 DEF PrepareSigterm, Sigterm, Ready, Stopping
  <2>2. act'[h].stage \in Stopping /\ act'[h].req = act[h].req
    BY <1>9, SigtermAfter DEF Kept, Stopping
  <2>q. QED
    BY <2>1, <2>2
<1>10. CASE KillSignal(h)
  <2>1. act[h].stage = "kill"
    BY <1>10 DEF KillSignal, Ready
  <2>2. act'[h].stage = "mark" /\ act'[h].req = act[h].req
    BY <1>10, SigtermAfter DEF Kept
  <2>q. QED
    BY <1>10, <2>1, <2>2
<1>11. CASE SettleKilled(h)
  BY <1>3, <1>11 DEF SettleKilled, Ready, Marking
<1>12. CASE Killed(h)
  <2>1. act[h].stage \in Marking
    BY <1>12 DEF Killed, Ready, Marking
  <2>2. CASE Answer(h)
    BY <1>2, <2>1, <2>2 DEF Answer
  <2>3. CASE act[h].req # "kill" /\ Goto(h, "remove", <<>>)
    <3>1. act[h].req \in {"archive", "purge"}
      BY <2>1, <2>3 DEF ReqInv
    <3>q. QED
      BY <1>3, <2>1, <2>3, <3>1 DEF Removing
  <2>q. QED
    BY <1>12, <2>2, <2>3 DEF Killed
<1>13. CASE BeginRemoval(h)
  <2>1. act[h].stage = "remove" /\ act[h].req \in {"archive", "purge"}
    BY <1>5, <1>13 DEF BeginRemoval, Ready, Removing
  <2>q. QED
    BY <1>3, <1>13, <2>1 DEF BeginRemoval, Removing
<1>14. CASE Purge(h) \/ Archive(h) \/ ArchivedAlready(h)
  <2>1. Done(h) /\ act[h].stage \in Removing
    BY <1>14 DEF Purge, Archive, ArchivedAlready, Answer, Ready, Removing
  <2>q. QED
    BY <1>2, <1>5, <2>1
<1>q. QED
  BY <1>6, <1>7, <1>8, <1>9, <1>10, <1>11, <1>12, <1>13, <1>14 DEF Handler

\* A request does not change, nor is it forgotten.
LEMMA RequestKept ==
  ASSUME TypeOK, ReqInv, [Next]_vars, NEW h \in Handlers
  PROVE  act[h].req # "none" => act'[h].req = act[h].req
<1>0. h \in Actors /\ h # "worker" /\ h # "boot"
  BY ActorNames
<1>1. CASE Step(h)
  BY <1>0, <1>1, StepAfter, EndsReq DEF Reads, Writes, Skips, Appends, Pops, Kept, FileGone
<1>2. CASE Request(h)
  BY <1>2, RequestAfter DEF Begins, Ready, ReqInv
<1>3. CASE Handler(h) \/ Awaited(h)
  BY <1>3, HandlerMoves
<1>4. CASE HostCrash
  <2>1. act'[h] = act[h] \/ act'[h] = [Fresh("lost") EXCEPT !.req = act[h].req]
    BY <1>0, <1>4 DEF HostCrash
  <2>2. [Fresh("lost") EXCEPT !.req = act[h].req].req = act[h].req
    BY DEF Fresh
  <2>q. QED
    BY <2>1, <2>2
<1>q. QED
  BY <1>1, <1>2, <1>3, <1>4, HandlerFrame

LEMMA ReqKept ==
  ASSUME TypeOK, ReqInv, [Next]_vars PROVE ReqInv'
<1> DEFINE Good(s, q) ==
     /\ s = "idle" => q = "none"
     /\ s \in Stopping => q = "stop"
     /\ s \in Marking \cup {"kill"} => q \in {"kill", "archive", "purge"}
     /\ s \in Removing => q \in {"archive", "purge"}
<1> SUFFICES ASSUME NEW h \in Handlers PROVE Good(act'[h].stage, act'[h].req)
  BY DEF ReqInv
<1>0. h \in Actors /\ h # "worker" /\ h # "boot"
  BY ActorNames
<1>1. Good(act[h].stage, act[h].req)
  BY DEF ReqInv
<1>2. ASSUME NEW s \in {"done", "failed", "lost"}, NEW q PROVE Good(s, q)
  BY DEF Stopping, Marking, Removing
<1>3. CASE Step(h)
  <2>1. CASE FileGone(h)
    BY <1>0, <1>2, <2>1, EndsReq DEF FileGone
  <2>2. CASE ~FileGone(h)
    <3>1. act'[h].stage = act[h].stage /\ act'[h].req = act[h].req
      BY <1>0, <1>3, <2>2, StepAfter DEF Reads, Writes, Skips, Appends, Pops, Kept
    <3>q. QED
      BY <1>1, <3>1
  <2>q. QED
    BY <2>1, <2>2
<1>4. CASE Request(h)
  <2>1. CASE BeginStop(h)
    <3>1. act'[h].stage = "stop" /\ act'[h].req = "stop"
      BY <2>1, BeginAfter DEF BeginStop
    <3>q. QED
      BY <3>1 DEF Stopping, Marking, Removing
  <2>2. CASE BeginKill(h)
    <3>1. act'[h].stage = "kill" /\ act'[h].req = "kill"
      BY <2>2, BeginAfter DEF BeginKill
    <3>q. QED
      BY <3>1 DEF Stopping, Marking, Removing
  <2>3. ASSUME NEW how \in {"archive", "purge"}, BeginDelete(h, how)
        PROVE  Good(act'[h].stage, act'[h].req)
    <3>1. act'[h].stage \in {"kill", "remove"} /\ act'[h].req = how
      BY <2>3, BeginAfter DEF BeginDelete
    <3>q. QED
      BY <3>1 DEF Stopping, Marking, Removing
  <2>q. QED
    BY <1>4, <2>1, <2>2, <2>3 DEF Request
<1>5. CASE Handler(h) \/ Awaited(h)
  <2>1. act'[h].req = act[h].req
    BY <1>5, HandlerMoves
  <2>2. CASE act'[h].stage \in {"done", "failed"}
    BY <1>2, <2>2
  <2>3. CASE act'[h].stage \in Stopping /\ act[h].stage \in Stopping
    BY <1>1, <2>1, <2>3 DEF Stopping, Marking, Removing
  <2>4. CASE act'[h].stage \in Marking /\ act[h].stage \in Marking \cup {"kill"}
    BY <1>1, <2>1, <2>4 DEF Stopping, Marking, Removing
  <2>5. CASE act'[h].stage \in Removing /\ act[h].req \in {"archive", "purge"}
    BY <2>1, <2>5 DEF Stopping, Marking, Removing
  <2>q. QED
    BY <1>5, <2>2, <2>3, <2>4, <2>5, HandlerMoves DEF Marking
<1>6. CASE HostCrash
  <2>1. act'[h] = act[h] \/ act'[h] = [Fresh("lost") EXCEPT !.req = act[h].req]
    BY <1>0, <1>6 DEF HostCrash
  <2>2. CASE act'[h] = act[h]
    BY <1>1, <2>2
  <2>3. CASE act'[h] = [Fresh("lost") EXCEPT !.req = act[h].req]
    <3>1. act'[h].stage = "lost"
      BY <2>3 DEF Fresh
    <3>q. QED
      BY <1>2, <3>1
  <2>q. QED
    BY <2>1, <2>2, <2>3
<1>7. act'[h] = act[h] => Good(act'[h].stage, act'[h].req)
  BY <1>1
<1>q. QED
  BY <1>3, <1>4, <1>5, <1>6, <1>7, HandlerFrame

\* Only a deletion takes files away or puts them into the archive.
Deletes == \E h \in Handlers : act[h].req \in {"archive", "purge"}
DeletedAsked == Deleted => Deletes

LEMMA DeletesStays ==
  ASSUME TypeOK, ReqInv, [Next]_vars, Deletes PROVE Deletes'
<1>1. PICK h \in Handlers : act[h].req \in {"archive", "purge"}
  BY DEF Deletes
<1>2. act'[h].req = act[h].req
  BY <1>1, RequestKept
<1>q. QED
  BY <1>1, <1>2 DEF Deletes

LEMMA RemovalAsked ==
  ASSUME ReqInv, NEW h \in Handlers, Purge(h) \/ Archive(h)
  PROVE  act[h].stage \in Removing /\ act[h].req \in {"archive", "purge"}
  BY DEF Purge, Archive, Ready, ReqInv, Removing

LEMMA DeletedAskedInit == Init => DeletedAsked
  BY DEF Init, DeletedAsked, Deleted, Roots

LEMMA DeletedAskedKept ==
  ASSUME Base, Beside, ReqInv, DeletedAsked, [Next]_vars PROVE DeletedAsked'
<1> USE DEF Base
<1> SUFFICES ASSUME ~Deletes', Deleted' PROVE FALSE
  BY DEF DeletedAsked
<1>1. ~Deletes /\ ~Deleted
  BY DeletesStays DEF DeletedAsked
<1>2. \A h \in Handlers : ~Purge(h) /\ ~Archive(h)
  BY <1>1, RemovalAsked DEF Deletes
<1>3. ~history'.purged
  BY <1>1, <1>2, HostFrame DEF Deleted
<1>4. \A a \in Actors : act[a].root # "archive"
  BY <1>1 DEF Beside
<1>5. disk'["archive"] = disk["archive"]
  <2>1. "archive" \in Roots /\ disk \in [Roots -> Dir]
    BY DEF Roots, TypeOK
  <2>2. ASSUME NEW a \in Actors, Appends(a) \/ \E f \in {"meta", "worker"} : Writes(a, f)
        PROVE  disk'["archive"] = disk["archive"]
    BY <1>4, <2>1, <2>2 DEF Appends, Writes
  <2>3. RecordOutput => disk'["archive"] = disk["archive"]
    BY <2>1 DEF RecordOutput
  <2>q. QED
    BY <1>2, <2>2, <2>3, DiskSteady
<1>q. QED
  BY <1>1, <1>3, <1>5 DEF Deleted

-----------------------------------------------------------------------------
(* A recorded child pid names a child that was spawned, a recorded worker pid *)
(* a worker that was launched.                                                *)

Launched  == act["starter"].stage \notin {"idle", "create"}
Real(f)   == (f.cpid => child # "none") /\ (f.wpid => Launched)
PidsReal  ==
  /\ \A r \in Roots : \A f \in {"meta", "worker"} : Real(disk[r][f])
  /\ \A a \in Actors : Real(act[a].snap)
  /\ act["worker"].stage = "serve" => child # "none"
  /\ act["worker"].stage \in {"reaped", "exiting"} => child \in {"zombie", "dead"}

LEMMA RealInit == Init => PidsReal
<1> SUFFICES ASSUME Init PROVE PidsReal
  OBVIOUS
<1>1. /\ ~NoFile.cpid /\ ~NoFile.wpid /\ NoDir["meta"] = NoFile /\ NoDir["worker"] = NoFile
  BY DEF NoFile, NoDir
<1>2. \A a \in Actors : act[a] = Fresh(IF a = "worker" THEN "off" ELSE "idle")
  BY DEF Init
<1>3. \A a \in Actors : act[a].snap = NoFile
  BY <1>2, FreshFields
<1>4. act["worker"].stage = "off"
  BY <1>2, ActorNames, FreshFields
<1>q. QED
  BY <1>1, <1>3, <1>4 DEF Init, PidsReal, Real

LEMMA PidsStay ==
  ASSUME TypeOK, CodeOK, [Next]_vars
  PROVE  (Launched => Launched') /\ (child # "none" => child' # "none")
<1>1. ASSUME Launched PROVE Launched'
  BY <1>1, StarterBack DEF Launched
<1>2. child # "none" => child' # "none"
  <2>1. CASE SpawnChild
    BY <2>1 DEF SpawnChild
  <2>q. QED
    BY <2>1, ChildFrame
<1>q. QED
  BY <1>1, <1>2

LEMMA RealKept ==
  ASSUME Base, ProcInv, PidsReal, [Next]_vars PROVE PidsReal'
<1> USE DEF Base
<1>0. /\ "worker" \in Actors /\ "sessions" \in Roots
      /\ Real(NoFile)' /\ NoDir["meta"] = NoFile /\ NoDir["worker"] = NoFile
  BY ActorNames DEF Roots, Real, NoFile, NoDir
<1>1. ASSUME NEW r \in Roots, NEW f \in {"meta", "worker"} PROVE Real(disk[r][f])'
  <2>0. Real(disk[r][f]) /\ Real(disk["sessions"][f])
    BY <1>0 DEF PidsReal
  <2>1. CASE disk'[r][f] = disk[r][f]
    BY <2>0, <2>1, PidsStay DEF Real
  <2>2. ASSUME NEW a \in Actors, FileWritten(a, r, f) PROVE Real(disk[r][f])'
    <3>1. /\ Writes(a, f) /\ disk'[r][f] = Apply(Tag(a), act[a].snap, act[a].verdict)
          /\ Running(a) /\ act[a].prog # <<>> /\ Head(act[a].prog).file = f
      BY <2>2 DEF FileWritten, Writes, Next1
    <3>2. /\ disk'[r][f].wpid = (act[a].snap.wpid \/ Tag(a) \in WorkerPidTags)
          /\ disk'[r][f].cpid = (Tag(a) = "running" \/ (act[a].snap.cpid /\ Tag(a) # "registered"))
      BY <3>1, Written
    <3>4. ASSUME Tag(a) \in WorkerPidTags PROVE Launched
      <4>1. \/ a = "starter" /\ Tag(a) = "launched"
            \/ a = "worker"
        BY <3>1, <3>4, MetaTagsOf, WorkerTagsOf DEF WorkerPidTags
      <4>2. CASE a = "starter" /\ Tag(a) = "launched"
        <5>1. act["starter"].stage = "tail"
          BY <3>1, <4>2, StarterAhead DEF Tag, M, Ev
        <5>q. QED
          BY <5>1 DEF Launched
      <4>3. CASE a = "worker"
        BY <3>1, <4>3 DEF Running, ProcInv, Launched
      <4>q. QED
        BY <4>1, <4>2, <4>3
    <3>5. ASSUME Tag(a) = "running" PROVE child # "none"
      <4>1. a = "worker" /\ act["worker"].stage = "serve"
        <5>1. a = "worker"
          BY <3>1, <3>5, MetaTagsOf, WorkerTagsOf
        <5>q. QED
          BY <3>1, <3>5, <5>1, WorkerAhead DEF Tag, M, W, Ev
      <4>q. QED
        BY <4>1 DEF PidsReal
    <3>6. Real(act[a].snap)
      BY DEF PidsReal
    <3>7. /\ disk'[r][f].wpid => Launched
          /\ disk'[r][f].cpid => child # "none"
      BY <3>2, <3>4, <3>5, <3>6 DEF Real
    <3>q. QED
      BY <3>7, PidsStay DEF Real
  <2>3. ASSUME NEW h \in Handlers, FileRemoved(h, r) PROVE Real(disk[r][f])'
    BY <1>0, <2>3 DEF FileRemoved
  <2>4. ASSUME NEW h \in Handlers, FileMoved(h, r) PROVE Real(disk[r][f])'
    <3>1. disk'[r][f] = disk["sessions"][f]
      BY <2>4 DEF FileMoved
    <3>q. QED
      BY <2>0, <3>1, PidsStay DEF Real
  <2>q. QED
    BY <2>1, <2>2, <2>3, <2>4, FileAfter
<1>2. ASSUME NEW a \in Actors PROVE Real(act[a].snap)'
  <2>0. Real(act[a].snap) /\ act[a].root \in Roots
    BY ActorType DEF PidsReal
  <2>1. CASE act'[a].snap = NoFile
    BY <1>0, <2>1 DEF Real
  <2>2. CASE act'[a] = act[a]
    BY <2>0, <2>2, PidsStay DEF Real
  <2>3. ASSUME NEW f \in {"meta", "worker"}, Reads(a, f) PROVE Real(act[a].snap)'
    <3>1. \/ act'[a].snap = disk[act[a].root][f]
          \/ act'[a].snap = [NoFile EXCEPT !.state = "starting"]
      BY <2>3 DEF Reads, Next1, Target, Here
    <3>2. Real(disk[act[a].root][f])
      BY <2>0 DEF PidsReal
    <3>3. CASE act'[a].snap = disk[act[a].root][f]
      BY <3>2, <3>3, PidsStay DEF Real
    <3>4. CASE act'[a].snap = [NoFile EXCEPT !.state = "starting"]
      BY <3>4 DEF Real, NoFile
    <3>q. QED
      BY <3>1, <3>3, <3>4
  <2>q. QED
    BY <2>1, <2>2, <2>3, SnapAfter
<1>3. /\ act'["worker"].stage = "serve" => child' # "none"
      /\ act'["worker"].stage \in {"reaped", "exiting"} => child' \in {"zombie", "dead"}
  <2>1. CASE SpawnChild
    <3>1. child' = "alive" /\ act'["worker"].stage = "serve"
      BY <1>0, <2>1, WorkerAfter DEF Worker, SpawnChild, SpawnFails, OutputEnds, ReapChild, Ready, Rested,
         Becomes, TypeOK
    <3>q. QED
      BY <3>1
  <2>2. CASE ~SpawnChild /\ (Worker \/ WorkerCrashes)
    BY <2>2, WorkerAfter, ChildFrame DEF Rested, SpawnFails, OutputEnds, ReapChild, Ready, PidsReal
  <2>3. CASE LaunchWorker
    BY <2>3, LaunchedAfter
  <2>4. CASE Step("worker") \/ act'["worker"] = act["worker"]
    <3>1. act'["worker"].stage \in {act["worker"].stage, "failed"}
      BY <1>0, <2>4, StageAfterStep DEF Rested
    <3>2. child' = child \/ SpawnChild \/ child' \in {"zombie", "dead"}
      BY ChildFrame
    <3>q. QED
      BY <2>1, <3>1, <3>2 DEF PidsReal
  <2>q. QED
    BY <2>1, <2>2, <2>3, <2>4, WorkerFrame
<1>q. QED
  BY <1>1, <1>2, <1>3 DEF PidsReal

-----------------------------------------------------------------------------
(* What a kill has established: no child lives, and none will.                *)

Childless ==
  \/ child \in {"zombie", "dead"}
  \/ child = "none" /\ Launched /\ (proc # "up" \/ act["worker"].stage # "boot")

LEMMA ChildlessStays ==
  ASSUME Base, ProcInv, Childless, [Next]_vars PROVE Childless'
<1> USE DEF Base
<1>0. "worker" \in Actors
  BY ActorNames
<1>1. CASE child \in {"zombie", "dead"}
  <2>1. ~SpawnChild
    <3>1. SpawnChild => proc = "up" /\ act["worker"].stage = "boot"
      BY WorkerRuns DEF Worker, SpawnChild, Ready
    <3>q. QED
      BY <1>1, <3>1 DEF ProcInv
  <2>q. QED
    BY <1>1, <2>1, ChildFrame DEF Childless
<1>2. CASE child = "none" /\ Launched /\ (proc # "up" \/ act["worker"].stage # "boot")
  <2>1. ~SpawnChild
    BY <1>2, WorkerRuns DEF Worker, SpawnChild, Ready
  <2>2. child' = "none" /\ Launched'
    BY <1>2, <2>1, ChildFrame, PidsStay
  <2>3. ~LaunchWorker
    BY <1>2 DEF LaunchWorker, Ready, Launched
  <2>4. proc' = "up" => proc = "up"
    BY <2>3, ProcFrame
  <2>5. act'["worker"].stage = "boot" => act["worker"].stage = "boot"
    BY <1>0, <2>1, <2>3, WorkerFrame, WorkerAfter, StageAfterStep DEF Rested
  <2>q. QED
    BY <1>2, <2>2, <2>4, <2>5 DEF Childless
<1>q. QED
  BY <1>1, <1>2 DEF Childless

\* The parts of the invariant: the worker of a live child serves it; a kill that
\* signalled, or was answered, left no child; a record is only missing before the
\* start or after the end.
ServedAlive == child = "alive" => proc = "up" /\ sock
KillsDone   == \A h \in Handlers :
  act[h].stage \in Marking \/ (act[h].stage = "done" /\ act[h].req = "kill") => Childless
RecordGone  == BeforeStart \/ Exists(disk["sessions"].meta) \/ Childless
\* Until a host crashed, only a session without a child is recorded as ended,
\* archived or taken away.
EndedOnly ==
  crashes.host = 0 =>
    /\ \A h \in Handlers : act[h].stage \in Removing => Childless
    /\ \A r \in Roots : \A f \in {"meta", "worker"} :
         Exists(disk[r][f]) /\ (Inactive(disk[r][f]) \/ r = "archive") => Childless
    /\ \A a \in Actors : Exists(act[a].snap) /\ Inactive(act[a].snap) => Childless

DownInv == KillMayMiss \/ (ServedAlive /\ KillsDone /\ RecordGone /\ EndedOnly)

LEMMA DownInit == Init => DownInv
<1> SUFFICES ASSUME Init PROVE DownInv
  OBVIOUS
<1>1. \A a \in Actors : act[a] = Fresh(IF a = "worker" THEN "off" ELSE "idle")
  BY DEF Init
<1>2. \A a \in Actors : act[a].snap = NoFile
  BY <1>1, FreshFields
<1>3. \A a \in Handlers \cup {"starter"} : act[a].stage = "idle"
  BY <1>1, ActorNames, FreshFields
<1>4. \A r \in Roots : disk[r]["meta"] = NoFile /\ disk[r]["worker"] = NoFile
  BY DEF Init, NoDir
<1>5. ServedAlive
  BY DEF Init, ServedAlive
<1>6. KillsDone /\ RecordGone
  BY <1>3 DEF KillsDone, RecordGone, BeforeStart, Marking
<1>7. EndedOnly
  BY <1>2, <1>3, <1>4, StateExists DEF EndedOnly, Removing
<1>q. QED
  BY <1>5, <1>6, <1>7 DEF DownInv

LEMMA CrashesFrame ==
  ASSUME TypeOK, [Next]_vars
  PROVE  crashes'.worker = crashes.worker \/ crashes'.worker = crashes.worker + 1
<1>0. crashes \in [host : 0 .. MaxHostCrashes, worker : 0 .. MaxWorkerCrashes]
  BY DEF TypeOK
<1>1. UNCHANGED vars => crashes' = crashes
  BY DEF vars
<1>2. ASSUME NEW a \in Actors, Step(a) PROVE crashes' = crashes
  BY <1>2, StepOnly DEF context
<1>3. ASSUME NEW h \in Handlers, Request(h) \/ Handler(h) \/ Awaited(h)
      PROVE  crashes' = crashes
  BY <1>3, RequestOnly, HandlerOnly DEF Steady, context
<1>4. Starter \/ Boot \/ RecordOutput \/ HostBoot \/ ChildEnds => crashes' = crashes
  BY RestOnly DEF Steady, context, LaunchWorker, HostBoot
<1>5. ASSUME Worker PROVE crashes' = crashes
  BY <1>5 DEF Worker, SpawnChild, SpawnFails, OutputEnds, ReapChild, DecideExit, WorkerExits, Goto, Fail, context
<1>6. CASE WorkerCrashes
  <2>1. crashes' = [crashes EXCEPT !.worker = crashes.worker + 1]
    BY <1>6 DEF WorkerCrashes
  <2>q. QED
    BY <1>0, <2>1
<1>7. CASE HostCrash
  <2>1. crashes' = [crashes EXCEPT !.host = crashes.host + 1]
    BY <1>7 DEF HostCrash
  <2>q. QED
    BY <1>0, <2>1
<1>q. QED
  BY <1>1, <1>2, <1>3, <1>4, <1>5, <1>6, <1>7 DEF Next

\* The exceptions stay.
LEMMA MayMissStays ==
  ASSUME Base, ReqInv, [Next]_vars, KillMayMiss PROVE KillMayMiss'
<1> USE DEF Base
<1>1. crashes.worker > 0 => crashes'.worker > 0
  <2>1. crashes.worker \in Nat
    BY DEF TypeOK
  <2>q. QED
    BY <2>1, CrashesFrame
<1>2. crashes.host > 0 => crashes'.host > 0
  <2>1. crashes.host \in Nat
    BY DEF TypeOK
  <2>2. crashes'.host \in {crashes.host, crashes.host + 1}
    BY HostFrame
  <2>q. QED
    BY <2>1, <2>2
<1>3. (\E h \in Handlers : act[h].req = "stop") => \E h \in Handlers : act'[h].req = "stop"
  BY RequestKept
<1>4. (\E h \in Handlers : act[h].req \in {"archive", "purge"})
        => \E h \in Handlers : act'[h].req \in {"archive", "purge"}
  BY DeletesStays DEF Deletes
<1>q. QED
  BY <1>1, <1>2, <1>3, <1>4 DEF KillMayMiss

DownAll == /\ Base /\ ProcInv /\ Beside /\ ReqInv /\ DeletedAsked /\ PidsReal
           /\ DownInv

\* Where the exceptions do not hold, there is no stop, and no deletion after a crash.
LEMMA Unexcepted ==
  ASSUME DownAll, ~KillMayMiss
  PROVE  /\ ServedAlive /\ KillsDone /\ RecordGone /\ EndedOnly
         /\ Pty /\ crashes.worker = 0
         /\ \A h \in Handlers : act[h].req # "stop" /\ act[h].stage \notin Stopping
         /\ Deletes => crashes.host = 0
         /\ \A h \in Handlers : act[h].stage \in Removing => Childless
<1>1. crashes.worker \in Nat /\ crashes.host \in Nat
  BY DEF DownAll, Base, TypeOK
<1>2. ServedAlive /\ KillsDone /\ RecordGone /\ EndedOnly
  BY DEF DownAll, DownInv
<1>3. Pty /\ crashes.worker = 0 /\ \A h \in Handlers : act[h].req # "stop"
  BY <1>1 DEF KillMayMiss
<1>4. Deletes => crashes.host = 0
  BY <1>1 DEF KillMayMiss, Deletes
<1>5. \A h \in Handlers : /\ act[h].stage \in Stopping => act[h].req = "stop"
                          /\ act[h].stage \in Removing => Deletes
  BY DEF DownAll, ReqInv, Deletes
<1>q. QED
  BY <1>2, <1>3, <1>4, <1>5 DEF EndedOnly

\* The signal of a kill leaves no child: a live one is reached by the worker's
\* socket, and otherwise by the pid its record names.
LEMMA SignalDown ==
  ASSUME DownAll, ~KillMayMiss, [Next]_vars, NEW h \in Handlers, KillSignal(h)
  PROVE  Childless'
<1> USE DEF Base
<1>0. Base /\ ProcInv /\ PidsReal /\ h \in Actors
  BY ActorNames DEF DownAll
<1> DEFINE meta     == Here(h).meta
           viaChild == Serving(h) \/ meta.cpid
<1>1. Ready(h, "kill") /\ (viaChild \/ meta.wpid)
  BY DEF KillSignal
<1>2. /\ meta.cpid => child # "none"
      /\ meta.wpid => Launched
      /\ meta.wpid => Exists(meta)
      /\ act[h].root \in Roots /\ meta = disk[act[h].root].meta
  <2>1. act[h].root \in Roots /\ meta = disk[act[h].root].meta
    BY <1>0, ActorType DEF Here
  <2>2. Real(disk[act[h].root]["meta"])
    BY <1>0, <2>1 DEF PidsReal
  <2>3. ~NoFile.wpid
    BY DEF NoFile
  <2>q. QED
    BY <1>0, <2>1, <2>2, <2>3 DEF Real, NoFiles
<1>3. ASSUME ~viaChild, child = "alive" PROVE FALSE
  <2>1. proc = "up" /\ sock
    BY <1>3, Unexcepted DEF ServedAlive
  <2>2. act[h].root = "archive"
    BY <1>2, <1>3, <2>1 DEF Serving, Roots
  <2>3. Deletes
    BY <1>0, <2>2 DEF DownAll, Beside, DeletedAsked
  <2>4. Exists(disk["archive"]["meta"]) /\ "archive" \in Roots
    BY <1>1, <1>2, <1>3, <2>2
  <2>5. Childless
    BY <2>3, <2>4, Unexcepted DEF EndedOnly
  <2>q. QED
    BY <1>3, <2>5 DEF Childless
<1>4. child \in {"none", "alive", "zombie", "dead"}
  BY <1>0 DEF TypeOK
<1>5. viaChild => child # "none"
  BY <1>0, <1>2 DEF Serving, ProcInv
<1>6. Launched => Launched'
  BY <1>0, PidsStay
<1>7. \/ viaChild /\ child' = Dead
      \/ ~viaChild /\ proc' = "dead" /\ child' = AfterWorkerDeath
      \/ (IF viaChild THEN child # "alive" ELSE proc # "up") /\ child' = child /\ proc' = proc
  BY DEF KillSignal, processes
<1> HIDE DEF viaChild, meta
<1>8. CASE viaChild /\ child' = Dead
  BY <1>8 DEF Dead, Childless
<1>9. CASE ~viaChild /\ proc' = "dead" /\ child' = AfterWorkerDeath
  <2>1. child # "alive" /\ Launched'
    BY <1>1, <1>2, <1>3, <1>6, <1>9
  <2>2. child' \in {"none", "zombie", "dead"}
    BY <1>4, <1>9, <2>1 DEF AfterWorkerDeath
  <2>q. QED
    BY <1>9, <2>1, <2>2 DEF Childless
<1>10. CASE (IF viaChild THEN child # "alive" ELSE proc # "up") /\ child' = child /\ proc' = proc
  <2>1. CASE viaChild
    BY <1>4, <1>5, <1>10, <2>1 DEF Childless
  <2>2. CASE ~viaChild
    <3>1. child # "alive" /\ Launched' /\ proc' # "up"
      BY <1>1, <1>2, <1>3, <1>6, <1>10, <2>2
    <3>q. QED
      BY <1>4, <1>10, <3>1 DEF Childless
  <2>q. QED
    BY <2>1, <2>2
<1>q. QED
  BY <1>7, <1>8, <1>9, <1>10

\* What ends the worker, and what takes its socket away.
LEMMA WorkerEnds ==
  ASSUME TypeOK, [Next]_vars, proc = "up", proc' # "up"
  PROVE  \/ FileGone("worker") \/ WorkerCrashes
         \/ act["worker"].stage \in {"reaped", "exiting", "failing"}
         \/ \E h \in Handlers : Sigterm(h) \/ KillSignal(h)
<1>1. ~UNCHANGED vars
  BY DEF vars
<1>2. ASSUME NEW a \in Actors, Step(a) PROVE FileGone("worker")
  BY <1>2, StepOnly
<1>3. ASSUME NEW h \in Handlers, Request(h) PROVE FALSE
  BY <1>3, RequestOnly DEF Steady, processes
<1>4. ASSUME NEW h \in Handlers, Handler(h) \/ Awaited(h)
      PROVE  Sigterm(h) \/ KillSignal(h)
  BY <1>4, HandlerOnly
<1>5. ~Starter /\ ~Boot /\ ~RecordOutput /\ ~HostBoot /\ ~ChildEnds /\ ~HostCrash
  BY RestOnly DEF Steady, processes, context, LaunchWorker
<1>6. CASE Worker
  BY <1>6 DEF Worker, SpawnChild, SpawnFails, OutputEnds, ReapChild, DecideExit, WorkerExits, Goto, Ready,
     processes
<1>q. QED
  BY <1>1, <1>2, <1>3, <1>4, <1>5, <1>6 DEF Next

LEMMA SockEnds ==
  ASSUME TypeOK, [Next]_vars, sock, ~sock'
  PROVE  SpawnChild \/ \E h \in Handlers : Purge(h) \/ Archive(h)
<1>1. ~UNCHANGED vars
  BY DEF vars
<1>2. ASSUME NEW a \in Actors, Step(a) PROVE FALSE
  BY <1>2, StepOnly DEF context
<1>3. ASSUME NEW h \in Handlers, Request(h) PROVE FALSE
  BY <1>3, RequestOnly DEF Steady, context
<1>4. ASSUME NEW h \in Handlers, Handler(h) \/ Awaited(h) PROVE Purge(h) \/ Archive(h)
  BY <1>4, HandlerAfter DEF Turns, Ends, Steady, context, PrepareSigterm, Sigterm, KillSignal
<1>5. ~Starter
  BY StarterAfter DEF Steady, context
<1>6. Worker \/ WorkerCrashes => SpawnChild
  BY WorkerAfter DEF Steady, context, ReapChild
<1>7. ~RecordOutput /\ ~ChildEnds /\ ~HostCrash /\ ~HostBoot
  BY DEF RecordOutput, ChildEnds, HostCrash, HostBoot, context
<1>8. ~Boot
  BY DEF Boot, BootLoad, BootJudge, BootEnds, context
<1>q. QED
  BY <1>1, <1>2, <1>3, <1>4, <1>5, <1>6, <1>7, <1>8 DEF Next

LEMMA ServedKept ==
  ASSUME DownAll, ~KillMayMiss, ~KillMayMiss', [Next]_vars PROVE ServedAlive'
<1> USE DEF Base
<1>0. Base /\ ProcInv /\ PidsReal /\ Base'
  BY BaseKept DEF DownAll
<1>1. SUFFICES ASSUME child' = "alive" PROVE proc' = "up" /\ sock'
  BY DEF ServedAlive
<1>2. ~Childless /\ ~Childless'
  <2>1. ~Childless'
    BY <1>1 DEF Childless
  <2>q. QED
    BY <1>0, <2>1, ChildlessStays
<1>3. CASE SpawnChild
  BY <1>0, <1>3, Unexcepted, WorkerRuns DEF SpawnChild, Worker
<1>4. CASE ~SpawnChild
  <2>1. child = "alive"
    BY <1>0, <1>1, <1>4, ChildFrame
  <2>2. proc = "up" /\ sock
    BY <2>1, Unexcepted DEF ServedAlive
  <2>3. ASSUME proc' # "up" PROVE FALSE
    <3>1. ~WorkerCrashes
      <4>1. crashes.worker \in Nat
        BY <1>0 DEF TypeOK
      <4>2. WorkerCrashes => crashes'.worker = crashes.worker + 1
        BY <1>0 DEF WorkerCrashes, TypeOK
      <4>q. QED
        BY <4>1, <4>2 DEF KillMayMiss
    <3>2. act["worker"].stage \notin {"reaped", "exiting", "failing"}
      BY <1>0, <2>1, <2>2 DEF PidsReal, ProcInv
    <3>3. \A h \in Handlers : ~Sigterm(h) /\ ~KillSignal(h)
      BY <1>2, SignalDown, Unexcepted DEF Sigterm, Ready, Stopping
    <3>4. ~FileGone("worker")
      <4>1. ASSUME FileGone("worker") PROVE ~Exists(disk["sessions"].meta)
        BY <1>0, <4>1 DEF FileGone, Here, CodeOK
      <4>2. BeforeStart => proc = "none"
        BY <1>0 DEF StartInv
      <4>q. QED
        BY <1>2, <2>2, <4>1, <4>2, Unexcepted DEF RecordGone
    <3>q. QED
      BY <1>0, <2>2, <2>3, <3>1, <3>2, <3>3, <3>4, WorkerEnds
  <2>4. ASSUME ~sock' PROVE FALSE
    <3>1. \A h \in Handlers : ~Purge(h) /\ ~Archive(h)
      BY <1>2, Unexcepted, RemovalAsked DEF DownAll
    <3>q. QED
      BY <1>0, <1>4, <2>2, <2>4, <3>1, SockEnds
  <2>q. QED
    BY <2>3, <2>4
<1>q. QED
  BY <1>3, <1>4

LEMMA KillsKept ==
  ASSUME DownAll, ~KillMayMiss, [Next]_vars PROVE KillsDone'
<1> USE DEF Base
<1>0. Base /\ ProcInv /\ ReqInv
  BY DEF DownAll
<1>1. SUFFICES ASSUME NEW h \in Handlers,
                      act'[h].stage \in Marking \/ (act'[h].stage = "done" /\ act'[h].req = "kill")
               PROVE  Childless'
  BY DEF KillsDone
<1> DEFINE Killing == act[h].stage \in Marking \/ (act[h].stage = "done" /\ act[h].req = "kill")
<1>2. Killing => Childless'
  BY <1>0, ChildlessStays, Unexcepted DEF KillsDone
<1>3. h \in Actors /\ h # "worker" /\ h # "boot"
  BY ActorNames
<1>4. CASE Step(h)
  <2>1. act'[h].stage = act[h].stage \/ act'[h].stage = "failed"
    BY <1>0, <1>3, <1>4, StageAfterStep DEF Rested
  <2>2. act[h].stage # "done"
    BY <1>0, <1>3, <1>4, StepRuns, RestingCode DEF Resting
  <2>q. QED
    BY <1>1, <1>2, <2>1, <2>2 DEF Marking
<1>5. CASE Request(h)
  BY <1>0, <1>1, <1>5, RequestAfter DEF Begins, Marking
<1>6. CASE Handler(h) \/ Awaited(h)
  <2>1. KillSignal(h) => Childless'
    BY SignalDown
  <2>2. Stopping \cap Marking = {} /\ Removing \cap Marking = {} /\ "done" \notin Stopping \cup Removing
        /\ "failed" \notin Marking
    BY DEF Stopping, Marking, Removing
  <2>3. act[h].stage \in Marking \/ KillSignal(h)
    <3>1. CASE act'[h].stage = "done" /\ act'[h].req = "kill"
      <4>1. act'[h].req = act[h].req
        BY <1>0, <1>6, HandlerMoves
      <4>q. QED
        BY <1>0, <1>6, <2>2, <3>1, <4>1, HandlerMoves
    <3>2. CASE act'[h].stage \in Marking
      <4>1. "done" \notin Marking
        BY DEF Marking
      <4>q. QED
        BY <1>0, <1>6, <2>2, <3>2, <4>1, HandlerMoves
    <3>q. QED
      BY <1>1, <3>1, <3>2
  <2>q. QED
    BY <1>2, <2>1, <2>3
<1>7. CASE HostCrash
  <2>1. act'[h] = act[h] \/ act'[h].stage = "lost"
    BY <1>0, <1>3, <1>7, HostAfter
  <2>q. QED
    BY <1>1, <1>2, <2>1 DEF Marking
<1>8. CASE act'[h] = act[h]
  BY <1>1, <1>2, <1>8
<1>q. QED
  BY <1>0, <1>4, <1>5, <1>6, <1>7, <1>8, HandlerFrame

LEMMA RecordKept ==
  ASSUME DownAll, ~KillMayMiss, [Next]_vars PROVE RecordGone'
<1> USE DEF Base
<1>0. Base /\ ProcInv /\ "starter" \in Actors /\ "sessions" \in Roots /\ Base'
  BY BaseKept, ActorNames DEF DownAll, Roots
<1>1. CASE Childless
  BY <1>0, <1>1, ChildlessStays DEF RecordGone
<1>2. CASE ~Childless /\ Exists(disk["sessions"].meta)
  <2>1. \A h \in Handlers : ~Purge(h) /\ ~Archive(h)
    BY <1>2, Unexcepted, RemovalAsked DEF DownAll
  <2>2. Exists(disk'["sessions"]["meta"])
    BY <1>0, <1>2, <2>1, MetaStays
  <2>q. QED
    BY <2>2 DEF RecordGone
<1>3. CASE BeforeStart
  <2>1. Head(CreateProgram) = M("created") /\ CreateProgram # <<>>
    BY Tuples DEF CreateProgram
  <2>2. act["starter"].prog = IF act["starter"].stage = "idle" THEN <<>> ELSE CreateProgram
    BY <1>0, <1>3, RestingCode DEF BeforeStart, Resting
  <2>3. CASE act'["starter"] = act["starter"]
    BY <1>3, <2>3 DEF BeforeStart, RecordGone
  <2>4. CASE Step("starter")
    <3>1. act["starter"].prog = CreateProgram /\ Tag("starter") = "created"
          /\ Head(act["starter"].prog).file = "meta"
      BY <1>0, <2>1, <2>2, <2>4, StepRuns DEF Tag, M
    <3>2. Writes("starter", "meta")
      <4>1. "created" \in FreshTags
        BY DEF FreshTags
      <4>q. QED
        BY <1>0, <2>4, <3>1, <4>1, StepAfter DEF Reads, Writes, Skips, Appends, FileGone, Next1
    <3>3. disk'["sessions"]["meta"] = Apply(Tag("starter"), act["starter"].snap, act["starter"].verdict)
      BY <1>0, <3>2 DEF Writes, CodeOK
    <3>4. Exists(disk'["sessions"]["meta"])
      BY <1>0, <3>2, <3>3, Written
    <3>q. QED
      BY <3>4 DEF RecordGone
  <2>5. CASE Starter
    <3>1. ~LaunchWorker /\ ~LaunchFails /\ ~StartReturns
      BY <1>3, <2>1, <2>2 DEF LaunchWorker, LaunchFails, StartReturns, Ready, BeforeStart
    <3>2. act'["starter"].stage = "create" /\ act'["starter"].prog = CreateProgram
      BY <1>0, <2>5, <3>1, StarterAfter
    <3>q. QED
      BY <3>2 DEF BeforeStart, RecordGone
  <2>6. CASE HostCrash
    <3>1. proc' = "none" /\ child' = "none"
      BY <1>0, <1>3, <2>6, RestOnly DEF StartInv, ProcInv, processes
    <3>2. act'["starter"] = act["starter"] \/ act'["starter"].stage = "lost"
      BY <1>0, <2>6, HostAfter
    <3>q. QED
      BY <1>3, <3>1, <3>2 DEF RecordGone, BeforeStart, Childless, Launched
  <2>q. QED
    BY <1>0, <2>3, <2>4, <2>5, <2>6, StarterFrame
<1>q. QED
  BY <1>1, <1>2, <1>3, Unexcepted DEF RecordGone

\* A file that is written inactive is written of a session without a child.
LEMMA EndWritten ==
  ASSUME DownAll, ~KillMayMiss, crashes.host = 0, NEW a \in Actors,
         NEW f \in {"meta", "worker"}, Writes(a, f), WrittenState(a) \notin Active
  PROVE  Childless
<1> USE DEF Base
<1>0. Base /\ ProcInv /\ PidsReal
  BY DEF DownAll
<1>1. /\ Running(a) /\ act[a].prog # <<>> /\ Head(act[a].prog).file = f
      /\ Tag(a) \in FreshTags \/ Exists(act[a].snap)
  BY DEF Writes, Next1
<1>2. CASE Tag(a) \in {"launched", "registered", "stop"}
  <2>1. WrittenState(a) = act[a].snap.state /\ Exists(act[a].snap)
    BY <1>1, <1>2 DEF WrittenState, NewState, FreshTags
  <2>q. QED
    BY <2>1, Unexcepted DEF EndedOnly, Inactive
<1>3. Tag(a) \notin {"created", "fresh", "running"}
  BY DEF WrittenState, NewState, Active
<1>4. CASE a = "starter"
  <2>1. CASE Tag(a) = "launch_failed"
    <3>1. act["starter"].stage = "tail" /\ act["starter"].prog = LaunchFailProgram
      BY <1>0, <1>1, <1>4, <2>1, MetaTagsOf, WorkerTagsOf, StarterAhead DEF Tag, M, Ev
    <3>2. proc = "none" /\ child = "none"
      BY <1>0, <3>1 DEF ProcInv
    <3>q. QED
      BY <3>1, <3>2 DEF Childless, Launched
  <2>q. QED
    BY <1>0, <1>1, <1>2, <1>3, <1>4, <2>1, MetaTagsOf, WorkerTagsOf, ActorNames
<1>5. CASE a = "worker"
  <2>1. CASE Tag(a) = "failed_start"
    <3>1. act["worker"].stage = "failing" /\ proc = "up"
      BY <1>0, <1>1, <1>5, <2>1, WorkerAhead DEF Tag, M, W, Ev, Running
    <3>2. child = "none" /\ Launched
      BY <1>0, <3>1 DEF ProcInv, Launched
    <3>q. QED
      BY <3>1, <3>2 DEF Childless
  <2>2. CASE Tag(a) = "exited"
    <3>1. act["worker"].stage = "exiting"
      BY <1>0, <1>1, <1>5, <2>2, WorkerAhead DEF Tag, M, W, Ev
    <3>q. QED
      BY <1>0, <3>1 DEF PidsReal, Childless
  <2>q. QED
    BY <1>0, <1>1, <1>2, <1>3, <1>5, <2>1, <2>2, MetaTagsOf, WorkerTagsOf, ActorNames
<1>6. CASE a = "boot"
  <2>1. crashes.host > 0
    BY <1>0, <1>1, <1>6 DEF Running, HostInv
  <2>q. QED
    BY <2>1
<1>7. CASE a \in Handlers
  <2>1. act[a].stage \in Stopping \cup Marking
    BY <1>0, <1>1, <1>7, MetaTagsOf, WorkerTagsOf, ActorNames
  <2>q. QED
    BY <1>7, <2>1, Unexcepted DEF KillsDone
<1>q. QED
  BY <1>4, <1>5, <1>6, <1>7, ActorNames

LEMMA EndedKept ==
  ASSUME DownAll, ~KillMayMiss, [Next]_vars PROVE EndedOnly'
<1> USE DEF Base
<1>0. Base /\ ProcInv /\ ReqInv
  BY DEF DownAll
<1> SUFFICES ASSUME crashes'.host = 0
             PROVE  /\ \A h \in Handlers : act'[h].stage \in Removing => Childless'
                    /\ \A r \in Roots : \A f \in {"meta", "worker"} :
                         Exists(disk'[r][f]) /\ (Inactive(disk'[r][f]) \/ r = "archive")
                           => Childless'
                    /\ \A a \in Actors : Exists(act'[a].snap) /\ Inactive(act'[a].snap)
                                           => Childless'
  BY DEF EndedOnly, Exists, Inactive
<1>1. crashes.host = 0 /\ ~HostCrash
  <2>1. crashes.host \in Nat
    BY <1>0 DEF TypeOK
  <2>2. HostCrash => crashes'.host = crashes.host + 1
    BY <1>0 DEF HostCrash, TypeOK
  <2>3. crashes'.host \in {crashes.host, crashes.host + 1}
    BY <1>0, HostFrame
  <2>q. QED
    BY <2>1, <2>2, <2>3
<1>2. Childless => Childless'
  BY <1>0, ChildlessStays
<1>3. /\ \A r \in Roots : \A f \in {"meta", "worker"} :
           Exists(disk[r][f]) /\ (Inactive(disk[r][f]) \/ r = "archive") => Childless
      /\ \A a \in Actors : Exists(act[a].snap) /\ Inactive(act[a].snap) => Childless
      /\ \A h \in Handlers : act[h].stage \in Removing \cup Marking => Childless
  BY <1>1, Unexcepted DEF EndedOnly, KillsDone
<1>4. ASSUME NEW h \in Handlers, act'[h].stage \in Removing PROVE Childless'
  <2>0. h \in Actors
    BY ActorNames
  <2>1. CASE act'[h] = act[h]
    BY <1>2, <1>3, <1>4, <2>1
  <2>2. CASE Step(h)
    BY <1>0, <1>2, <1>3, <1>4, <2>0, <2>2, StageAfterStep DEF Rested, Removing
  <2>3. CASE Request(h)
    <3>1. Exists(Found) /\ Found.state \notin Active
      BY <1>0, <1>4, <2>3, RequestAfter DEF Begins, Removing
    <3>2. Found = disk[FoundRoot]["meta"] /\ FoundRoot \in Roots
      BY DEF Found, FoundRoot, Roots
    <3>q. QED
      BY <1>2, <1>3, <3>1, <3>2 DEF Inactive
  <2>4. CASE Handler(h) \/ Awaited(h)
    <3>1. act[h].stage \in Marking \cup Removing
      BY <1>0, <1>4, <2>4, HandlerMoves DEF Stopping, Marking, Removing
    <3>q. QED
      BY <1>2, <1>3, <3>1
  <2>q. QED
    BY <1>0, <1>1, <2>1, <2>2, <2>3, <2>4, HandlerFrame
<1>5. ASSUME NEW r \in Roots, NEW f \in {"meta", "worker"}, Exists(disk'[r][f]),
             Inactive(disk'[r][f]) \/ r = "archive"
      PROVE  Childless'
  <2>1. CASE disk'[r][f] = disk[r][f]
    BY <1>2, <1>3, <1>5, <2>1
  <2>2. ASSUME NEW a \in Actors, FileWritten(a, r, f) PROVE Childless
    <3>1. /\ Writes(a, f) /\ disk'[r][f].state = WrittenState(a) /\ act[a].root = r
          /\ act[a].prog # <<>> /\ Head(act[a].prog).file = f
      <4>1. Writes(a, f) /\ act[a].root = r
            /\ disk'[r][f] = Apply(Tag(a), act[a].snap, act[a].verdict)
        BY <2>2 DEF FileWritten
      <4>q. QED
        BY <1>0, <4>1, Written DEF Writes, Next1
    <3>2. CASE WrittenState(a) \notin Active
      BY <1>1, <3>1, <3>2, EndWritten
    <3>3. CASE r = "archive"
      <4>1. a \in Handlers
        BY <1>0, <3>1, <3>3, ActorNames DEF CodeOK
      <4>2. act[a].stage \in Stopping \cup Marking
        BY <1>0, <3>1, <4>1, MetaTagsOf, WorkerTagsOf, ActorNames
      <4>q. QED
        BY <1>3, <4>1, <4>2, Unexcepted
    <3>q. QED
      BY <1>5, <3>1, <3>2, <3>3 DEF Inactive
  <2>3. ASSUME NEW h \in Handlers, FileRemoved(h, r) \/ FileMoved(h, r) PROVE Childless
    BY <1>0, <1>3, <2>3, RemovalAsked DEF FileRemoved, FileMoved
  <2>q. QED
    BY <1>0, <1>2, <2>1, <2>2, <2>3, FileAfter
<1>6. ASSUME NEW a \in Actors, Exists(act'[a].snap), Inactive(act'[a].snap) PROVE Childless'
  <2>1. CASE act'[a] = act[a]
    BY <1>2, <1>3, <1>6, <2>1
  <2>2. ASSUME NEW f \in {"meta", "worker"}, Reads(a, f) PROVE Childless
    <3>1. act[a].root \in Roots
      BY <1>0, ActorType
    <3>2. \/ Exists(disk[act[a].root][f]) /\ act'[a].snap = disk[act[a].root][f]
          \/ act'[a].snap = [NoFile EXCEPT !.state = "starting"]
      BY <2>2 DEF Reads, Next1, Target, Here
    <3>3. [NoFile EXCEPT !.state = "starting"].state \in Active
      BY DEF NoFile, Active
    <3>q. QED
      BY <1>3, <1>6, <3>1, <3>2, <3>3 DEF Inactive
  <2>3. act'[a].snap # NoFile
    BY <1>6, StateExists
  <2>q. QED
    BY <1>0, <1>2, <2>1, <2>2, <2>3, SnapAfter
<1>q. QED
  BY <1>4, <1>5, <1>6

LEMMA DownAllKept ==
  ASSUME DownAll, [Next]_vars PROVE DownAll'
<1>1. /\ Base /\ ProcInv /\ Beside /\ ReqInv /\ DeletedAsked /\ PidsReal
  BY DEF DownAll
<1>2. Base' /\ Beside' /\ PidsReal' /\ DeletedAsked'
  BY <1>1, BaseKept, BesideKept, RealKept, DeletedAskedKept
<1>3. ProcInv' /\ ReqInv'
  BY <1>1, ProcKept, ReqKept DEF Base
<1>4. DownInv'
  <2>1. CASE KillMayMiss
    BY <1>1, <2>1, MayMissStays DEF DownInv
  <2>2. CASE ~KillMayMiss
    BY <2>2, ServedKept, KillsKept, RecordKept, EndedKept DEF DownInv
  <2>q. QED
    BY <2>1, <2>2
<1>q. QED
  BY <1>2, <1>3, <1>4 DEF DownAll

\* A kill that is answered leaves no live child, for any number of handlers and
\* of crashes of the host, outside of KillMayMiss (request_kill_for_inspected).
THEOREM KillForces == Spec => []KillPutsChildDown
<1>1. Init => DownAll
  BY BaseInit, ProcInit, BesideInit, ReqInit, DeletedAskedInit, RealInit, DownInit DEF DownAll
<1>2. DownAll /\ [Next]_vars => DownAll'
  BY DownAllKept
<1>3. DownAll => KillPutsChildDown
  BY DEF DownAll, DownInv, KillsDone, KillPutsChildDown, Childless
<1>q. QED
  BY <1>1, <1>2, <1>3, PTL DEF Spec
=============================================================================
