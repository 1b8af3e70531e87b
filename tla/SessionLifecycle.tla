-------------------------- MODULE SessionLifecycle --------------------------
(***************************************************************************)
(* One session of millmux: its artifact directory, the worker process that *)
(* hosts the child, the host's request handlers, and host restarts.        *)
(*                                                                         *)
(* meta.json and worker.json are shared by every process and thread and    *)
(* are updated without a lock: an update reads the whole file, changes     *)
(* some fields and renames a new file over it.  Every actor's straight-    *)
(* line code is a program of such updates and of event appends; an update  *)
(* takes two steps (BeginUpdate reads, CommitUpdate writes), so any other  *)
(* actor may run between them.                                             *)
(*                                                                         *)
(* Out of scope here: a second start of the same session id, pid reuse,    *)
(* EPERM from kill(2), I/O errors other than a file that is gone.          *)
(***************************************************************************)
EXTENDS Naturals, Sequences

CONSTANTS
  Handlers,          \* host connections, each serving one request
  Pty,               \* TRUE: spawn_mode pty, FALSE: pipe
  Daemon,            \* TRUE: role millrace-daemon
  Kinds,             \* the requests clients send
  Early,             \* TRUE: also before session.start has returned
  MaxHostCrashes,    \* bound on host crashes
  MaxWorkerCrashes   \* bound on worker crashes (0 or 1: there is one worker)

ASSUME LifecycleAssumption ==
  /\ Handlers \cap {"starter", "worker", "boot"} = {}
  /\ Pty \in BOOLEAN /\ Daemon \in BOOLEAN /\ Early \in BOOLEAN
  /\ Kinds \subseteq {"stop", "kill", "archive", "purge"}
  /\ MaxHostCrashes \in Nat /\ MaxWorkerCrashes \in Nat

VARIABLES
  disk,     \* the session's directory below sessions/ and below archive/
  act,      \* the state of each actor
  proc,     \* the worker process
  child,    \* the hosted child process
  signalled,\* the child died of a signal
  sock,     \* the worker's control socket is on disk
  host,     \* the host process
  crashes,  \* crashes so far, of the host and of the worker
  history   \* what the properties need to remember

vars == <<disk, act, proc, child, signalled, sock, host, crashes, history>>
processes == <<proc, child, signalled>>
context   == <<sock, host, crashes, history>>

Actors == Handlers \cup {"starter", "worker", "boot"}
Roots  == {"sessions", "archive"}

Active    == {"starting", "running"}
Terminal  == {"orphaned", "exited", "crashed", "killed", "failed_start",
              "lost", "stale"}
States    == Active \cup Terminal \cup {"absent"}

\* meta.json and worker.json: the process state, whether a worker pid and a
\* child pid are recorded, and whether a stop request is recorded.
File   == [state : States, wpid : BOOLEAN, cpid : BOOLEAN, stop : BOOLEAN]
NoFile == [state |-> "absent", wpid |-> FALSE, cpid |-> FALSE, stop |-> FALSE]

\* events.jsonl: the kinds of event it holds, and the last terminal state an
\* event carries.
EventKinds == {"other", "stop_requested", "kill_requested", "process_exited"}
Dir    == [meta : File, worker : File, events : SUBSET EventKinds, last : States]
NoDir  == [meta |-> NoFile, worker |-> NoFile, events |-> {}, last |-> "absent"]

Exists(file) == file.state # "absent"

-----------------------------------------------------------------------------
\* Programs: sequences of file operations.  Two events in a row that the model
\* does not tell apart are one append.

MetaTags   == {"created", "launch_failed", "launched", "registered", "running",
               "failed_start", "exited", "stop", "killed", "reconciled"}
WorkerTags == {"fresh", "running", "failed_start", "exited", "stop", "killed",
               "reconciled"}
EventTags  == {"note", "launched", "launch_failed", "started", "failed_start",
               "exited", "stop", "sigterm", "kill", "killed", "deleted", "reconciled"}

M(tag) == [file |-> "meta",   tag |-> tag]
W(tag) == [file |-> "worker", tag |-> tag]
Ev(tag) == [file |-> "events", tag |-> tag]

Ops == {M(t) : t \in MetaTags} \cup {W(t) : t \in WorkerTags}
         \cup {Ev(t) : t \in EventTags}

CreateProgram     == <<M("created"), Ev("note")>>
LaunchedProgram   == <<M("launched"), Ev("launched")>>
LaunchFailProgram == <<M("launch_failed"), Ev("launch_failed")>>
RegisterProgram   == <<M("registered"), W("fresh")>>
RunningProgram    == <<M("running"), W("running"), Ev("started")>>
FailStartProgram  == <<M("failed_start"), W("failed_start"), Ev("failed_start")>>
\* Mutant: an exit is recorded in the files only.
ExitProgramNoEvent == <<M("exited"), W("exited")>>
ExitProgram       == <<M("exited"), W("exited"), Ev("exited")>>
StopProgram       == <<M("stop"), W("stop"), Ev("stop")>>
KillProgram       == <<M("killed"), W("killed"), Ev("killed")>>
ReconcileProgram  == <<M("reconciled"), W("reconciled"), Ev("reconciled")>>

\* Files written from scratch or from a copy in memory, with no read first.
FreshTags == {"created", "launch_failed", "fresh"}

\* What an update does to the file it read (NoFile for the fresh ones); v is
\* the state the actor decided on.
NewState(tag, old, v) ==
  CASE tag \in {"created", "fresh"}              -> "starting"
    [] tag \in {"launch_failed", "failed_start"} -> "failed_start"
    [] tag = "running"                           -> "running"
    [] tag = "killed"                            -> "killed"
    [] tag \in {"exited", "reconciled"}          -> v
    [] OTHER                                     -> old

\* Mutant: session.start leaves the worker's pid to the worker.
WorkerPidTagsWorkerOnly == {"fresh", "registered"}
WorkerPidTags == {"fresh", "launched", "registered"}

Apply(tag, f, v) ==
  [state |-> NewState(tag, f.state, v),
   wpid  |-> f.wpid \/ tag \in WorkerPidTags,
   cpid  |-> tag = "running" \/ (f.cpid /\ tag # "registered"),
   stop  |-> f.stop \/ tag = "stop"]

\* Event appends that read meta.json for the session id first.
ReadsMeta == {"started", "failed_start", "exited", "killed", "deleted"}

EventKind(tag) ==
  CASE tag \in {"stop", "sigterm"} -> "stop_requested"
    [] tag = "kill"   -> "kill_requested"
    [] tag = "exited" -> "process_exited"
    [] OTHER          -> "other"

\* The process state an event carries: v is the actor's verdict, m the state
\* meta.json has when the event is built.
EventState(tag, v, m) ==
  CASE tag \in {"failed_start", "launch_failed"}               -> "failed_start"
    [] tag = "killed"                                          -> "killed"
    [] tag = "deleted"                                         -> m
    [] tag \in {"exited", "sigterm", "kill", "reconciled", "launched"} -> v
    [] OTHER                                                   -> "absent"

-----------------------------------------------------------------------------
Stages == {"idle", "lost", "failed", "done",                      \* any actor
           "create", "tail",                                      \* starter
           "off", "boot", "serve", "drained", "reaped", "exiting", "failing", \* worker
           "load", "judge", "mark",                               \* boot, kill
           "stop", "millrace", "native", "interrupt", "blocked", "waiting", "fallback", "sigterm",
           "final", "kill", "settle", "remark", "remove", "purge", "rename",
           "finish"}
Requests == {"none", "stop", "kill", "archive", "purge"}

Actor == [stage : Stages, prog : Seq(Ops), snap : File, held : File,
          root : Roots, verdict : States, req : Requests]
Fresh(stage) == [stage |-> stage, prog |-> <<>>, snap |-> NoFile, held |-> NoFile,
                 root |-> "sessions", verdict |-> "absent", req |-> "none"]

TypeOK ==
  /\ disk \in [Roots -> Dir]
  /\ act \in [Actors -> Actor]
  /\ proc \in {"none", "up", "dead"}
  /\ child \in {"none", "alive", "zombie", "dead"}
  /\ signalled \in BOOLEAN /\ sock \in BOOLEAN
  /\ host \in {"up", "down", "boot"}
  /\ crashes \in [host : 0 .. MaxHostCrashes, worker : 0 .. MaxWorkerCrashes]
  /\ history \in [atBoot : {"none", "live", "dead"},
                  sigkilled : BOOLEAN, purged : BOOLEAN]

Init ==
  /\ disk = [r \in Roots |-> NoDir]
  /\ act = [a \in Actors |-> Fresh(IF a = "worker" THEN "off" ELSE "idle")]
  /\ proc = "none" /\ child = "none" /\ signalled = FALSE /\ sock = FALSE
  /\ host = "up"
  /\ crashes = [host |-> 0, worker |-> 0]
  /\ history = [atBoot |-> "none", sigkilled |-> FALSE, purged |-> FALSE]

-----------------------------------------------------------------------------
\* Steps every actor takes: the operations of its program, one at a time.

Running(a) ==
  CASE a = "worker" -> proc = "up"
    [] a = "boot"   -> host = "boot"
    [] OTHER        -> host = "up"

Ready(a, stage) == Running(a) /\ act[a].stage = stage /\ act[a].prog = <<>>
Next1(a, file)  == Running(a) /\ act[a].prog # <<>> /\ Head(act[a].prog).file = file
Tag(a)          == Head(act[a].prog).tag
Here(a)         == disk[act[a].root]
Popped(a)       == [act[a] EXCEPT !.prog = Tail(@), !.snap = NoFile]
Target(a)       == Here(a)[Head(act[a].prog).file]

Becomes(a, actor) == act' = [act EXCEPT ![a] = actor]

\* A handler that meets an error answers with it; the worker exits.
AfterWorkerDeath == IF child = "zombie" THEN "dead" ELSE child
Fail(a) ==
  /\ Becomes(a, [Fresh("failed") EXCEPT !.req = act[a].req])
  /\ IF a = "worker"
       THEN proc' = "dead" /\ child' = AfterWorkerDeath
       ELSE UNCHANGED <<proc, child>>
  /\ UNCHANGED <<disk, signalled, context>>

\* Read the file.  start_session falls back to its own copy of meta.json.
BeginUpdate(a) ==
  \E f \in {"meta", "worker"} :
    /\ Next1(a, f)
    /\ Tag(a) \notin FreshTags /\ ~Exists(act[a].snap)
    /\ \/ /\ Exists(Target(a))
          /\ Tag(a) = "reconciled" => Target(a).state \in Active
          /\ Becomes(a, [act[a] EXCEPT !.snap = Target(a),
               !.verdict = IF Tag(a) = "launched" THEN Target(a).state ELSE act[a].verdict])
       \/ /\ ~Exists(Target(a)) /\ Tag(a) = "launched"
          /\ Becomes(a, [act[a] EXCEPT !.snap = [NoFile EXCEPT !.state = "starting"],
                                       !.verdict = "starting"])
    /\ UNCHANGED <<disk, processes, context>>

\* Rename the new file into place; a missing directory is created again.
CommitUpdate(a) ==
  \E f \in {"meta", "worker"} :
    /\ Next1(a, f)
    /\ Tag(a) \in FreshTags \/ Exists(act[a].snap)
    /\ disk' = [disk EXCEPT ![act[a].root] =
         [Here(a) EXCEPT ![f] = Apply(Tag(a), act[a].snap, act[a].verdict)]]
    /\ Becomes(a, Popped(a))
    /\ UNCHANGED <<processes, context>>

\* update_worker does nothing without a worker.json; reconciliation leaves a
\* file that is no longer active alone, and stops if that file is meta.json.
SkipUpdate(a) ==
  \E f \in {"meta", "worker"} :
    /\ Next1(a, f)
    /\ Tag(a) \notin FreshTags /\ ~Exists(act[a].snap)
    /\ \/ f = "worker" /\ ~Exists(Target(a))
       \/ Exists(Target(a)) /\ Tag(a) = "reconciled" /\ Target(a).state \notin Active
    /\ Becomes(a, IF f = "worker" THEN Popped(a) ELSE [Popped(a) EXCEPT !.prog = <<>>])
    /\ UNCHANGED <<disk, processes, context>>

AppendEvent(a) ==
  /\ Next1(a, "events")
  /\ Tag(a) \in ReadsMeta => Exists(Here(a).meta)
  /\ LET state == EventState(Tag(a), act[a].verdict, Here(a).meta.state)
     IN disk' = [disk EXCEPT ![act[a].root] =
           [Here(a) EXCEPT !.events = Here(a).events \cup {EventKind(Tag(a))},
                           !.last = IF state \in Terminal THEN state ELSE Here(a).last]]
  /\ Becomes(a, Popped(a))
  /\ UNCHANGED <<processes, context>>

\* The directory was purged or archived under the actor's feet.
FileGone(a) ==
  /\ \/ Next1(a, "meta") /\ Tag(a) \notin FreshTags \cup {"launched"}
        /\ ~Exists(act[a].snap) /\ ~Exists(Here(a).meta)
     \/ Next1(a, "events") /\ Tag(a) \in ReadsMeta /\ ~Exists(Here(a).meta)
  /\ Fail(a)

Step(a) == \/ BeginUpdate(a) \/ CommitUpdate(a) \/ SkipUpdate(a)
           \/ AppendEvent(a) \/ FileGone(a)

\* Move to a stage and its program; nothing else changes.
Goto(a, stage, prog) ==
  /\ Becomes(a, [act[a] EXCEPT !.stage = stage, !.prog = prog])
  /\ UNCHANGED <<disk, processes, context>>

-----------------------------------------------------------------------------
\* session.start: create the record, launch the worker, record its pid.

StartSession ==
  /\ Ready("starter", "idle") /\ disk["sessions"] = NoDir
  /\ Goto("starter", "create", CreateProgram)

LaunchWorker ==
  /\ Ready("starter", "create")
  /\ proc' = "up"
  /\ act' = [act EXCEPT
       !["starter"] = [act["starter"] EXCEPT !.stage = "tail", !.prog = LaunchedProgram],
       !["worker"]  = [Fresh("boot") EXCEPT !.prog = RegisterProgram]]
  /\ UNCHANGED <<disk, child, signalled, context>>

LaunchFails ==
  /\ Ready("starter", "create")
  /\ Goto("starter", "tail", LaunchFailProgram)

StartReturns ==
  /\ Ready("starter", "tail")
  /\ Becomes("starter", Fresh("done"))
  /\ UNCHANGED <<disk, processes, context>>

-----------------------------------------------------------------------------
\* The worker's main thread.  A PTY worker binds its control socket before it
\* records that it is running.

SpawnChild ==
  /\ Ready("worker", "boot")
  /\ child' = "alive" /\ sock' = Pty
  /\ Becomes("worker", [act["worker"] EXCEPT !.stage = "serve", !.prog = RunningProgram])
  /\ UNCHANGED <<disk, proc, signalled, host, crashes, history>>

SpawnFails == Ready("worker", "boot") /\ Goto("worker", "failing", FailStartProgram)

\* Output is appended to the logs and to events.jsonl, wherever they are now.
RecordOutput ==
  /\ Ready("worker", "serve")
  /\ disk' = [disk EXCEPT !["sessions"] =
       [disk["sessions"] EXCEPT !.events = disk["sessions"].events \cup {"other"}]]
  /\ UNCHANGED <<act, processes, context>>

\* The output ends when nobody holds the terminal or the pipe any more: a child
\* may close it and live on, and what the child started may outlive the child.
OutputEnds == Ready("worker", "serve") /\ Goto("worker", "drained", <<>>)

\* child.wait(), after the end of the output only.
ReapChild ==
  /\ Ready("worker", "drained") /\ child = "zombie"
  /\ child' = "dead"
  /\ Becomes("worker", [act["worker"] EXCEPT !.stage = "reaped"])
  /\ UNCHANGED <<disk, proc, signalled, context>>

\* record_process_exit decides the state from meta.json before it updates it.
\* A PTY child's exit is recorded without its signal.
DecideExit ==
  /\ Ready("worker", "reaped")
  /\ \/ /\ Exists(disk["sessions"].meta)
        /\ Becomes("worker", [act["worker"] EXCEPT
             !.stage = "exiting", !.prog = ExitProgram,
             !.verdict = IF disk["sessions"].meta.state = "killed" THEN "killed"
                         ELSE IF signalled /\ ~Pty THEN "crashed" ELSE "exited"])
        /\ UNCHANGED <<disk, processes, context>>
     \/ ~Exists(disk["sessions"].meta) /\ Fail("worker")

WorkerExits ==
  /\ Ready("worker", "exiting") \/ Ready("worker", "failing")
  /\ proc' = "dead"
  /\ Becomes("worker", Fresh("done"))
  /\ UNCHANGED <<disk, child, signalled, context>>

WorkerCrashes ==
  /\ proc = "up" /\ crashes.worker < MaxWorkerCrashes
  /\ proc' = "dead" /\ child' = AfterWorkerDeath
  /\ Becomes("worker", Fresh("lost"))
  /\ crashes' = [crashes EXCEPT !.worker = crashes.worker + 1]
  /\ UNCHANGED <<disk, signalled, sock, host, history>>

\* The child ends: by itself, on an interrupt, SIGTERM or hangup it obeys, or
\* killed by a signal from outside millmux.
Dead == IF proc = "up" THEN "zombie" ELSE "dead"
ChildEnds ==
  /\ child = "alive" /\ child' = Dead
  /\ signalled' \in BOOLEAN
  /\ UNCHANGED <<disk, act, proc, context>>

-----------------------------------------------------------------------------
\* What the host's handlers share.

\* The registry prefers the record below sessions/ to the one below archive/.
FoundRoot == IF Exists(disk["sessions"].meta) THEN "sessions" ELSE "archive"
Found     == disk[FoundRoot].meta

Begin(h, stage, prog, req) ==
  /\ Ready(h, "idle") /\ Exists(Found)
  /\ req \in Kinds /\ (Early \/ act["starter"].stage \in {"done", "lost", "failed"})
  /\ Becomes(h, [Fresh(stage) EXCEPT !.prog = prog, !.root = FoundRoot,
                                     !.verdict = Found.state, !.req = req])
  /\ UNCHANGED <<disk, processes, context>>

Done(h) == Becomes(h, [Fresh("done") EXCEPT !.req = act[h].req])
Answer(h) == Done(h) /\ UNCHANGED <<disk, processes, context>>

\* A worker that is up answers on its socket; an archived record has none.
Serving(h) == sock /\ proc = "up" /\ act[h].root = "sessions"

MetaState(h) == Here(h).meta.state

-----------------------------------------------------------------------------
\* session.stop.  The interrupt, SIGTERM and `millrace control stop` only ask
\* the child to end: ChildEnds is what it does about them.  Each wait ends on a
\* terminal state or after the grace period, whatever the state is then.

BeginStop(h) == Found.state = "running" /\ Begin(h, "stop", StopProgram, "stop")

\* Without workspace metadata there is nobody to ask; else millrace is run, and
\* its exit awaited without a deadline.
AskMillrace(h) ==
  /\ Ready(h, "stop") /\ Daemon /\ Exists(Here(h).meta)
  /\ \E next \in {"millrace", "native"} : Goto(h, next, <<Ev("note")>>)
MillraceAnswers(h) ==
  /\ Ready(h, "millrace")
  /\ \E report \in {<<>>, <<Ev("note")>>} : Goto(h, "native", report)

NativeStopIgnored(h) ==
  \/ Ready(h, "native") /\ MetaState(h) \in Active /\ Goto(h, "interrupt", <<>>)
  \/ Ready(h, "stop") /\ ~Daemon /\ Goto(h, "interrupt", <<>>)

\* The worker writes the interrupt to the PTY, which takes it at once or not
\* before the child reads: worker_request waits for the answer without a deadline.
Interrupt(h) ==
  /\ \/ Ready(h, "interrupt") /\ Pty
     \/ Ready(h, "blocked") /\ (proc # "up" \/ child # "alive")
  /\ Goto(h, "waiting", <<>>)
InterruptBlocks(h) ==
  /\ Ready(h, "interrupt") /\ Pty /\ Serving(h) /\ child = "alive"
  /\ Goto(h, "blocked", <<>>)
ChildReads(h) == Ready(h, "blocked") /\ child = "alive" /\ Goto(h, "waiting", <<>>)

\* Mutant: the wait has no deadline.
InterruptIgnoredNoDeadline(h) ==
  Ready(h, "waiting") /\ child # "alive" /\ Goto(h, "fallback", <<>>)
InterruptIgnored(h) ==
  Ready(h, "waiting") /\ MetaState(h) \in Active /\ Goto(h, "fallback", <<>>)

PrepareSigterm(h) ==
  /\ Ready(h, "fallback") \/ (Ready(h, "interrupt") /\ ~Pty)
  /\ Exists(Here(h).meta)
  /\ Becomes(h, [act[h] EXCEPT !.stage = "sigterm", !.prog = <<Ev("sigterm")>>,
                               !.held = Here(h).meta, !.verdict = MetaState(h)])
  /\ UNCHANGED <<disk, processes, context>>

\* Without a child pid the signal goes to the worker, which it ends.
Sigterm(h) ==
  /\ Ready(h, "sigterm")
  /\ Becomes(h, [act[h] EXCEPT !.stage = "final"])
  /\ IF act[h].held.cpid \/ proc # "up"
       THEN UNCHANGED <<proc, child>>
       ELSE proc' = "dead" /\ child' = AfterWorkerDeath
  /\ UNCHANGED <<disk, signalled, context>>

StopAnswers(h) ==
  /\ \/ (Ready(h, "native") \/ Ready(h, "waiting")) /\ MetaState(h) \in Terminal
     \/ Ready(h, "final") /\ Exists(Here(h).meta)
  /\ Answer(h)

StopMetaGone(h) ==
  /\ \/ Ready(h, "stop") /\ Daemon
     \/ Ready(h, "interrupt") /\ ~Pty
     \/ \E s \in {"native", "waiting", "fallback", "final"} : Ready(h, s)
  /\ ~Exists(Here(h).meta) /\ Fail(h)

-----------------------------------------------------------------------------
\* session.kill, and the kill half of session.delete.

BeginKill(h) == Found.state = "running" /\ Begin(h, "kill", <<Ev("kill")>>, "kill")

\* Mutant: a signal that fails is not noticed.
KillSignalLost(h) == Ready(h, "kill") /\ Goto(h, "mark", KillProgram)
\* forward_kill through the worker, else SIGKILL to the pid meta.json names.
KillSignal(h) ==
  /\ Ready(h, "kill")
  /\ Serving(h) \/ Here(h).meta.cpid \/ Here(h).meta.wpid
  /\ Becomes(h, [act[h] EXCEPT !.stage = "mark", !.prog = KillProgram])
  /\ LET viaChild == Serving(h) \/ Here(h).meta.cpid
     IN \/ /\ viaChild /\ child = "alive"
           /\ child' = Dead /\ signalled' = TRUE /\ proc' = proc
           /\ history' = [history EXCEPT !.sigkilled = TRUE]
        \/ /\ ~viaChild /\ proc = "up"
           /\ proc' = "dead" /\ child' = AfterWorkerDeath /\ UNCHANGED signalled
           /\ history' = [history EXCEPT !.sigkilled = TRUE]
        \/ /\ IF viaChild THEN child # "alive" ELSE proc # "up"
           /\ UNCHANGED <<processes, history>>
  /\ UNCHANGED <<disk, sock, host, crashes>>

KillFails(h) ==
  /\ \/ Ready(h, "kill") /\ ~Serving(h) /\ ~(Here(h).meta.cpid \/ Here(h).meta.wpid)
     \/ Ready(h, "mark") /\ ~Exists(Here(h).meta)
  /\ Fail(h)

\* settle_killed_state: an exit recorded meanwhile is overwritten once more.
SettleKilled(h) ==
  /\ Ready(h, "mark") /\ Exists(Here(h).meta) /\ MetaState(h) # "killed"
  /\ Goto(h, "remark", KillProgram)

Killed(h) ==
  /\ Ready(h, "remark") \/ (Ready(h, "mark") /\ MetaState(h) = "killed")
  /\ \/ act[h].req = "kill" /\ Answer(h)
     \/ act[h].req # "kill" /\ Goto(h, "remove", <<>>)

-----------------------------------------------------------------------------
\* session.delete: archive or purge; a live session is killed first (--kill).

\* Mutant: a live session is killed without an event first.
BeginDeleteSilently(h, how) ==
  \/ Found.state \in Active \cup {"orphaned"} /\ Begin(h, "kill", <<>>, how)
  \/ Found.state \notin Active \cup {"orphaned"} /\ Begin(h, "remove", <<>>, how)
BeginDelete(h, how) ==
  \/ Found.state \in Active \cup {"orphaned"} /\ Begin(h, "kill", <<Ev("kill")>>, how)
  \/ Found.state \notin Active \cup {"orphaned"} /\ Begin(h, "remove", <<>>, how)

BeginRemoval(h) ==
  /\ Ready(h, "remove")
  /\ \/ act[h].req = "purge" /\ Goto(h, "purge", <<Ev("deleted")>>)
     \/ act[h].req = "archive" /\ act[h].root = "archive"
          /\ Goto(h, "finish", <<Ev("deleted")>>)
     \/ /\ act[h].req = "archive" /\ act[h].root = "sessions"
        /\ disk["archive"] = NoDir /\ Goto(h, "rename", <<Ev("deleted")>>)

Purge(h) ==
  /\ Ready(h, "purge") /\ Done(h)
  /\ disk' = [disk EXCEPT ![act[h].root] = NoDir]
  /\ sock' = (sock /\ act[h].root # "sessions")
  /\ history' = [history EXCEPT !.purged = TRUE]
  /\ UNCHANGED <<processes, host, crashes>>

Archive(h) ==
  /\ Ready(h, "rename") /\ disk["sessions"] # NoDir /\ disk["archive"] = NoDir
  /\ disk' = [disk EXCEPT !["archive"] = disk["sessions"], !["sessions"] = NoDir]
  /\ sock' = FALSE /\ Done(h)
  /\ UNCHANGED <<processes, host, crashes, history>>

ArchiveFails(h) ==
  /\ \/ Ready(h, "remove") /\ act[h].req = "archive" /\ act[h].root = "sessions"
          /\ disk["archive"] # NoDir
     \/ Ready(h, "rename") /\ (disk["sessions"] = NoDir \/ disk["archive"] # NoDir)
  /\ Fail(h)

ArchivedAlready(h) == Ready(h, "finish") /\ Answer(h)

-----------------------------------------------------------------------------
\* The host process, and startup reconciliation before it serves.

HostCrash ==
  /\ host # "down" /\ crashes.host < MaxHostCrashes
  /\ host' = "down"
  /\ crashes' = [crashes EXCEPT !.host = crashes.host + 1]
  /\ act' = [a \in Actors |->
               IF a = "worker" \/ act[a].stage \in {"idle", "done", "failed"} THEN act[a]
               ELSE [Fresh(IF a = "boot" THEN "idle" ELSE "lost") EXCEPT !.req = act[a].req]]
  /\ UNCHANGED <<disk, processes, sock, history>>

HostBoot ==
  /\ host = "down" /\ host' = "boot"
  /\ Becomes("boot", Fresh("load"))
  /\ history' = [history EXCEPT !.atBoot =
       CASE proc = "up" /\ child = "alive"                -> "live"
         [] proc # "up" /\ Exists(disk["sessions"].meta) -> "dead"
         [] OTHER                                        -> "none"]
  /\ UNCHANGED <<disk, processes, sock, crashes>>

\* The registry snapshot: held has worker.json's state, and the pids that
\* meta.json or worker.json names.
BootLoad ==
  /\ Ready("boot", "load")
  /\ LET meta   == disk["sessions"].meta
         worker == disk["sessions"].worker
     IN \/ /\ meta.state \in Active
           /\ Becomes("boot", [act["boot"] EXCEPT !.stage = "judge", !.held =
                [worker EXCEPT !.wpid = worker.wpid \/ meta.wpid,
                               !.cpid = worker.cpid \/ meta.cpid]])
        \/ /\ meta.state \notin Active
           /\ Becomes("boot", [act["boot"] EXCEPT !.stage = "finish"])
  /\ UNCHANGED <<disk, processes, context>>

Liveness(recorded, lives) ==
  CASE ~recorded -> "unknown" [] recorded /\ lives -> "alive" [] OTHER -> "dead"

\* Mutants: a child without a recorded pid counts as dead; worker and child swapped.
JudgeUnknownAsDead(worker, ch, evidence) ==
  CASE worker = "alive" /\ ch = "alive"   -> "absent"
    [] worker = "alive" /\ ch # "alive"   -> "stale"
    [] worker # "alive" /\ ch = "alive"   -> "orphaned"
    [] OTHER                              -> evidence
JudgeSwapped(worker, ch, evidence) ==
  CASE ch = "alive" /\ worker \in {"alive", "unknown"} -> "absent"
    [] ch = "alive" /\ worker = "dead"                 -> "stale"
    [] ch # "alive" /\ worker = "alive"                -> "orphaned"
    [] OTHER                                           -> evidence
\* The state reconciliation gives a record; "absent" leaves it alone.
Judge(worker, ch, evidence) ==
  CASE worker = "alive" /\ ch \in {"alive", "unknown"} -> "absent"
    [] worker = "alive" /\ ch = "dead"                 -> "stale"
    [] worker # "alive" /\ ch = "alive"                -> "orphaned"
    [] OTHER                                           -> evidence

\* Mutant: evidence that is not terminal.
EvidenceAnyState(workerState, last) ==
  IF workerState # "absent" THEN workerState
  ELSE IF last \in Terminal THEN last ELSE "lost"
Evidence(workerState, last) ==
  IF workerState \in Terminal THEN workerState
  ELSE IF last \in Terminal THEN last ELSE "lost"

BootJudge ==
  /\ Ready("boot", "judge")
  /\ LET held    == act["boot"].held
         verdict == Judge(Liveness(held.wpid, proc = "up"),
                          Liveness(held.cpid, child \in {"alive", "zombie"}),
                          Evidence(held.state, disk["sessions"].last))
     IN Becomes("boot", [act["boot"] EXCEPT !.stage = "finish", !.verdict = verdict,
                  !.prog = IF verdict = "absent" THEN <<>> ELSE ReconcileProgram])
  /\ UNCHANGED <<disk, processes, context>>

\* Reconciliation that fails ends the new host before it serves.
BootEnds ==
  /\ host = "boot" /\ act["boot"].prog = <<>> /\ act["boot"].stage \in {"finish", "failed"}
  /\ host' = IF act["boot"].stage = "finish" THEN "up" ELSE "down"
  /\ Becomes("boot", Fresh("idle"))
  /\ UNCHANGED <<disk, processes, sock, crashes, history>>

-----------------------------------------------------------------------------
Starter == StartSession \/ LaunchWorker \/ LaunchFails \/ StartReturns
Worker  == \/ SpawnChild \/ SpawnFails \/ OutputEnds \/ ReapChild
           \/ DecideExit \/ WorkerExits
Boot    == BootLoad \/ BootJudge \/ BootEnds
Request(h) == BeginStop(h) \/ BeginKill(h) \/ \E how \in {"archive", "purge"} : BeginDelete(h, how)
Handler(h) ==
  \/ AskMillrace(h) \/ NativeStopIgnored(h) \/ Interrupt(h) \/ InterruptBlocks(h)
  \/ InterruptIgnored(h) \/ PrepareSigterm(h) \/ Sigterm(h) \/ StopAnswers(h) \/ StopMetaGone(h)
  \/ KillSignal(h) \/ KillFails(h) \/ SettleKilled(h) \/ Killed(h)
  \/ BeginRemoval(h) \/ Purge(h) \/ Archive(h) \/ ArchiveFails(h) \/ ArchivedAlready(h)
\* What a handler waits for that is not millmux's to do.
Awaited(h) == MillraceAnswers(h) \/ ChildReads(h)

Next ==
  \/ \E a \in Actors : Step(a)
  \/ Starter \/ Worker \/ RecordOutput \/ Boot
  \/ \E h \in Handlers : Request(h) \/ Handler(h) \/ Awaited(h)
  \/ ChildEnds \/ WorkerCrashes \/ HostCrash \/ HostBoot

Spec == Init /\ [][Next]_vars

\* The scheduler runs every process and thread that is up.  Nothing makes a
\* client send a request, a child read or end, its output end with it, millrace
\* exit, a process crash or somebody restart the host.
Fairness ==
  /\ \A a \in Actors : WF_vars(Step(a))
  /\ \A h \in Handlers : WF_vars(Handler(h))
  /\ WF_vars(LaunchWorker \/ StartReturns)
  /\ WF_vars(SpawnChild \/ SpawnFails \/ ReapChild \/ DecideExit \/ WorkerExits)
  /\ WF_vars(Boot)
FairSpec == Spec /\ Fairness

Settled(a) == act[a].stage \in {"idle", "off", "done", "failed", "lost"}
Quiet == \A a \in Actors : Settled(a) /\ act[a].prog = <<>>

-----------------------------------------------------------------------------
\* A deletion took the session's files away; and one that a host which crashed
\* before it had the worker's pid recorded, then again, cannot make up for: the
\* boot's stale update dropped the pid from meta.json, and worker.json is gone.
Deleted == history.purged \/ disk["archive"] # NoDir
WorkerPidMayBeLost == crashes.host > 1 /\ Deleted

\* Startup reconciliation never touches a session that runs: as long as the
\* worker is up and the child alive, a session whose child ran when the host
\* booted gets no terminal record, although its worker may still be writing the
\* child's pid down (reconcile_startup, the Alive arm; collect_*_pids).
ReconcileSparesLive ==
  host = "boot" /\ history.atBoot = "live" /\ proc = "up" /\ child = "alive"
    => WorkerPidMayBeLost \/ act["boot"].prog = <<>>

\* A session whose worker was dead when the host booted is not shown as active
\* once the host serves ("dead active records are marked terminal").
DeadAtBootIsTerminal ==
  host = "up" /\ history.atBoot = "dead" => disk["sessions"].meta.state \notin Active

\* Orphaned is only ever recorded of a session whose worker is gone, whatever
\* the worker did between the boot's look at it and the record.
OrphanedMeansNoWorker ==
  WorkerPidMayBeLost \/ \A r \in Roots : disk[r].meta.state = "orphaned" => proc # "up"

\* A SIGKILL the host sent leaves its kill_requested event, whoever crashes and
\* wherever the directory is moved, unless it is purged (the event is appended
\* before the signal in request_kill_for_inspected).
KillEvidence ==
  history.sigkilled =>
    history.purged \/ \E r \in Roots : "kill_requested" \in disk[r].events

\* A kill that answered success left no live child behind ("Force a process
\* down", request_kill_for_inspected and settle_killed_state), except where
\* KillMayMiss: for a pipe session, which has no control socket; after a crash
\* of the worker; beside a stop, whose SIGTERM ends the worker if session.start
\* wrote a stale copy over the child's pid; and beside a deletion once a host
\* crashed, when a live session may be marked lost and its directory taken.
KillMayMiss ==
  \/ ~Pty \/ crashes.worker > 0
  \/ \E h \in Handlers : act[h].req = "stop"
  \/ crashes.host > 0 /\ \E h \in Handlers : act[h].req \in {"archive", "purge"}
KillPutsChildDown ==
  KillMayMiss \/ \A h \in Handlers :
    act[h].stage = "done" /\ act[h].req = "kill" => child # "alive"

\* Whatever meta.json a stop works from names a process to signal, although a
\* stale update may have replaced it since the session was resolved: the error
\* of signal_session for a record without pids cannot reach stop_session.
StopNamesAProcess ==
  \A h \in Handlers :
    act[h].stage \in {"sigterm", "final"} => act[h].held.wpid \/ act[h].held.cpid

\* Every request is answered or lost with its host (grace period,
\* KILL_SETTLE_TIMEOUT, WORKER_CONNECT_TIMEOUT), except for the two waits of a
\* stop that have no deadline: on `millrace control stop`, for as long as that
\* process runs, and on an interrupt that the PTY does not take, for as long as
\* the child neither reads nor ends.
RequestsAnswered ==
  \A h \in Handlers :
    ~Settled(h) ~> Settled(h) \/ act[h].stage = "blocked" \/ Ready(h, "millrace")

\* A child that ended under a live worker, and whose output ended too, ends in a
\* process_exited event, unless the worker dies or fails first or the directory
\* is purged.  While something the child started holds the output open, the worker
\* does not even look at the child.
ExitRecorded ==
  child = "zombie" /\ act["worker"].stage = "drained"
    ~> \/ \E r \in Roots : "process_exited" \in disk[r].events
       \/ proc = "dead" /\ act["worker"].stage # "done"
       \/ history.purged

-----------------------------------------------------------------------------
\* What the README says and the code does not keep.

\* "Live records are preserved" (README.md:444): ReconcileSparesLive without its
\* exception.
LiveRecordsPreserved ==
  host = "boot" /\ history.atBoot = "live" /\ proc = "up" /\ child = "alive"
    => act["boot"].prog = <<>>

\* "Force a process down and record the kill" (README.md:189): KillPutsChildDown
\* without its exceptions.
KillForcesDown ==
  \A h \in Handlers :
    act[h].stage = "done" /\ act[h].req = "kill" => child # "alive"

\* "stop is graceful and records stop evidence, including stop_requested_at and
\* stop_reason in session/worker metadata" (README.md:431): an update that read
\* meta.json before the stop's own write loses them.
StopEvidence ==
  \A h \in Handlers :
    act[h].stage = "done" /\ act[h].req = "stop" => \E r \in Roots : disk[r].meta.stop

\* "delete --purge removes artifacts" (README.md:436): a worker that is still
\* up writes the directory anew.
PurgeRemovesArtifacts ==
  history.purged /\ Quiet => disk["sessions"] = NoDir
=============================================================================
