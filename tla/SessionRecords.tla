---------------------------- MODULE SessionRecords ----------------------------
(***************************************************************************)
(* The record of one session and those who rewrite it: the end of          *)
(* session.start, the worker, the attention requests, the reconciliation   *)
(* of a host that starts, and doctor, which archives what it judges dead.  *)
(* Each reads meta.json, changes its copy and replaces the file; nobody    *)
(* holds a lock, and the directory may be in another place by then.        *)
(*                                                                         *)
(* SessionLifecycle has stop, kill and delete of the same record, with     *)
(* each file of its own; here one write of the worker is one step.         *)
(***************************************************************************)
EXTENDS Naturals, Sequences, FiniteSets, SequencesExt

CONSTANTS
  Clients,     \* clients of attention.* and doctor
  Keys,        \* dedupe keys of attention items
  NoKey,       \* the key of an item without one, which may be one of Keys
  Kinds,       \* kinds of attention items
  MaxMarks,    \* bound on the attention items that are created
  MaxCalls,    \* bound on the requests
  MaxCrashes   \* bound on the ends of hosts and workers before their time

ASSUME RecordsAssumption ==
  /\ Kinds \subseteq {"unread", "blocked"}
  /\ MaxMarks \in Nat /\ MaxCalls \in Nat /\ MaxCrashes \in Nat

VARIABLES
  dirs,     \* the session's directory in sessions/ and in archive/
  starter,  \* the end of start_session, and the copy it has in its hands
  work,     \* the worker, its child, the copy of meta.json it has in its hands, and whether the
            \* host that launched it still runs
  call,     \* what each client's handler is doing
  marks,    \* how many items were created
  calls,    \* how many requests were begun
  crashes   \* how many hosts and workers were killed

vars == <<dirs, starter, work, call, marks, calls, crashes>>

Place == {"sessions", "archive"}
Active == {"starting", "running"}
Degraded == {"lost", "stale", "orphaned"}
State == Active \cup Degraded \cup {"exited", "failed_start"}
Item ==
  [id : 1 .. MaxMarks, key : Keys, kind : Kinds, read : BOOLEAN, open : BOOLEAN]

\* A directory without meta.json is as none; state and pids are all that doctor asks of the
\* records.
NoMeta == [state |-> "none", pids |-> {}, items |-> <<>>]
NoWorkerFile == [state |-> "none", pids |-> {}]
NoDir == [meta |-> NoMeta, worker |-> NoWorkerFile]

IsMeta(m) ==
  /\ DOMAIN m = {"state", "pids", "items"}
  /\ m.state \in State \cup {"none"} /\ m.pids \subseteq {"worker", "child"}
  /\ \A i \in DOMAIN m.items : m.items[i] \in Item

Judgement == {"none", "missing_pid", "orphaned_child", "liveness_mismatch", "stale_record"}

TypeOK ==
  /\ \A p \in Place : IsMeta(dirs[p].meta) /\ dirs[p].worker.state \in State \cup {"none"}
  /\ starter.stage \in {"launch", "read", "write", "done"} /\ IsMeta(starter.hand)
  /\ work.stage \in {"none", "spawned", "registering", "registered", "spawning", "recording",
                     "up", "exiting", "failing", "gone"}
  /\ work.child \in {"none", "alive", "dead"} /\ IsMeta(work.hand)
  /\ work.parent \in BOOLEAN
  /\ \A c \in Clients :
       /\ call[c].stage \in {"idle", "write", "loading", "loaded", "checked"}
       /\ call[c].at \in Place /\ call[c].issue \in Judgement /\ IsMeta(call[c].hand)
       /\ call[c].taken \in BOOLEAN
  /\ marks \in 0 .. MaxMarks /\ calls \in 0 .. MaxCalls /\ crashes \in 0 .. MaxCrashes

FirstMeta == [state |-> "starting", pids |-> {}, items |-> <<>>]
Idle == [stage |-> "idle", at |-> "sessions", hand |-> NoMeta, issue |-> "none", taken |-> FALSE]

\* session.start has written the record of the session and is about to launch its worker.
Init ==
  /\ dirs = [p \in Place |-> IF p = "sessions" THEN [NoDir EXCEPT !.meta = FirstMeta] ELSE NoDir]
  /\ starter = [stage |-> "launch", hand |-> NoMeta]
  /\ work = [stage |-> "none", child |-> "none", hand |-> NoMeta, parent |-> TRUE]
  /\ call = [c \in Clients |-> Idle]
  /\ marks = 0 /\ calls = 0 /\ crashes = 0

Exists(p) == dirs[p].meta.state # "none"
Put(p, meta) == [dirs EXCEPT ![p].meta = meta]

-----------------------------------------------------------------------------
\* session.start, from the launch of the worker on.

StarterAlone == UNCHANGED <<call, marks, calls, crashes>>
StarterGoes(from, to, hand) ==
  starter.stage = from /\ starter' = [stage |-> to, hand |-> hand]

Launch ==
  /\ StarterGoes("launch", "read", NoMeta)
  /\ work' = [work EXCEPT !.stage = "spawned"] /\ UNCHANGED dirs /\ StarterAlone

LaunchFails ==
  /\ StarterGoes("launch", "done", NoMeta)
  /\ dirs' = Put("sessions", [FirstMeta EXCEPT !.state = "failed_start"])
  /\ UNCHANGED work /\ StarterAlone

\* A record that cannot be read is as it was before the launch.
ReadRecord ==
  /\ StarterGoes("read", "write", IF Exists("sessions") THEN dirs["sessions"].meta ELSE FirstMeta)
  /\ UNCHANGED <<dirs, work>> /\ StarterAlone

WritePid ==
  /\ StarterGoes("write", "done", NoMeta)
  /\ dirs' = Put("sessions", [starter.hand EXCEPT !.pids = @ \cup {"worker"}])
  /\ UNCHANGED work /\ StarterAlone

-----------------------------------------------------------------------------
\* The worker.  Each of its updates is a read and a write of meta.json; worker.json, which
\* only it writes here, goes with the write.

WorkerAlone == UNCHANGED <<starter, call, marks, calls>>

\* Without its record a worker gives up.
Loads(from, to) ==
  /\ work.stage = from /\ WorkerAlone /\ UNCHANGED <<dirs, crashes>>
  /\ work' = IF Exists("sessions")
             THEN [work EXCEPT !.stage = to, !.hand = dirs["sessions"].meta]
             ELSE [work EXCEPT !.stage = "gone"]

Saves(from, to, meta, file) ==
  /\ work.stage = from /\ WorkerAlone /\ UNCHANGED crashes
  /\ work' = [work EXCEPT !.stage = to, !.hand = NoMeta]
  /\ dirs' = [dirs EXCEPT !["sessions"] = [meta |-> meta, worker |-> file]]

\* update_worker leaves a file that is not there alone.
FileWith(state, pids) ==
  IF dirs["sessions"].worker = NoWorkerFile THEN NoWorkerFile ELSE [state |-> state, pids |-> pids]

LoadRecord == Loads("spawned", "registering")
Register ==
  Saves("registering", "registered", [work.hand EXCEPT !.pids = {"worker"}],
        [state |-> "starting", pids |-> {"worker"}])

SpawnChild ==
  /\ work.stage = "registered" /\ WorkerAlone /\ UNCHANGED <<dirs, crashes>>
  /\ work' = [work EXCEPT !.stage = "spawning", !.child = "alive"]
LoadForRunning == Loads("spawning", "recording")
RecordRunning ==
  Saves("recording", "up", [work.hand EXCEPT !.state = "running", !.pids = @ \cup {"child"}],
        FileWith("running", {"worker", "child"}))

LoadForFailure == work.child = "none" /\ Loads("registered", "failing")
FailedStart ==
  Saves("failing", "gone", [work.hand EXCEPT !.state = "failed_start"],
        FileWith("failed_start", {"worker"}))

ChildExits ==
  /\ work.child = "alive" /\ WorkerAlone /\ UNCHANGED <<dirs, crashes>>
  /\ work' = [work EXCEPT !.child = "dead"]
LoadForExit == work.child = "dead" /\ Loads("up", "exiting")
RecordExit ==
  Saves("exiting", "gone", [work.hand EXCEPT !.state = "exited"],
        FileWith("exited", dirs["sessions"].worker.pids))

\* The worker is killed; its child may go on.
WorkerCrashes ==
  /\ work.stage \notin {"none", "gone"} /\ crashes < MaxCrashes /\ crashes' = crashes + 1
  /\ work' = [work EXCEPT !.stage = "gone", !.hand = NoMeta]
  /\ WorkerAlone /\ UNCHANGED dirs

WorkerStep ==
  \/ LoadRecord \/ Register \/ SpawnChild \/ LoadForRunning \/ RecordRunning
  \/ LoadForFailure \/ FailedStart \/ ChildExits \/ LoadForExit \/ RecordExit

-----------------------------------------------------------------------------
\* Attention requests: resolve_session finds the record, in sessions/ before archive/; the
\* copy is changed at once and written to where it was read.

Found == IF Exists("sessions") THEN "sessions" ELSE "archive"
CallAlone == UNCHANGED <<starter, work, crashes>>
Begins(c, meta) ==
  /\ call[c] = Idle /\ Exists(Found) /\ calls < MaxCalls /\ calls' = calls + 1
  /\ call' = [call EXCEPT ![c] = [Idle EXCEPT !.stage = "write", !.at = Found, !.hand = meta]]
  /\ UNCHANGED dirs /\ CallAlone

\* Mutant: an item that was read is not found by its key any more.
SameUnread(items, key) ==
  IF key = NoKey THEN 0 ELSE SelectInSeq(items, LAMBDA i : i.open /\ ~i.read /\ i.key = key)

\* The open item with the key, if there is one.
Same(items, key) ==
  IF key = NoKey THEN 0 ELSE SelectInSeq(items, LAMBDA i : i.open /\ i.key = key)

NewItem(key, kind) ==
  [id |-> marks + 1, key |-> key, kind |-> kind, read |-> FALSE, open |-> TRUE]

\* An open item with the same key is updated in place and made unread again.
Marked(items, key, kind) ==
  IF Same(items, key) = 0 THEN Append(items, NewItem(key, kind))
  ELSE [items EXCEPT ![Same(items, key)] = [@ EXCEPT !.kind = kind, !.read = FALSE]]

MarkAttention(c) ==
  /\ marks < MaxMarks /\ marks' = marks + 1
  /\ \E key \in Keys, kind \in Kinds :
       Begins(c, [dirs[Found].meta EXCEPT !.items = Marked(@, key, kind)])

\* A request names one item, or kinds: none is all of them.
Matches(item, id, kinds) ==
  item.open /\ IF id # 0 THEN item.id = id ELSE kinds = {} \/ item.kind \in kinds

\* mutate_attention_items: where nothing changes nothing is written.
Items == dirs[Found].meta.items
Mutate(c, items) ==
  /\ UNCHANGED marks
  /\ items # Items /\ Begins(c, [dirs[Found].meta EXCEPT !.items = items])

\* A bare read means the items that are only unread.
ReadAttention(c) ==
  \E id \in 0 .. MaxMarks, kinds \in SUBSET Kinds :
    LET meant == IF id = 0 /\ kinds = {} THEN {"unread"} ELSE kinds
    IN  Mutate(c, [i \in DOMAIN Items |-> [Items[i] EXCEPT !.read = @ \/ Matches(Items[i], id, meant)]])

ClearAttention(c) ==
  \E id \in 0 .. MaxMarks, kinds \in SUBSET Kinds :
    Mutate(c, [i \in DOMAIN Items |-> [Items[i] EXCEPT !.open = @ /\ ~Matches(Items[i], id, kinds)]])

WriteAttention(c) ==
  /\ call[c].stage = "write"
  /\ dirs' = Put(call[c].at, call[c].hand)
  /\ call' = [call EXCEPT ![c] = Idle]
  /\ CallAlone /\ UNCHANGED <<marks, calls>>

-----------------------------------------------------------------------------
\* doctor --repair ARCHIVE_STALE: the records are loaded, checked, and then judged again.

DoctorGoes(c, from, next) ==
  /\ call[c].stage = from /\ call' = [call EXCEPT ![c] = next]
  /\ CallAlone /\ UNCHANGED marks

\* An archived record is neither checked nor repaired.
DoctorLoads(c) ==
  /\ call[c] = Idle /\ Exists("sessions") /\ calls < MaxCalls /\ calls' = calls + 1
  /\ DoctorGoes(c, "idle", [Idle EXCEPT !.stage = "loading", !.hand = dirs["sessions"].meta])
  /\ UNCHANGED dirs

\* worker.json is read after meta.json; either names pids.
DoctorReadsWorker(c) ==
  /\ DoctorGoes(c, "loading", [call[c] EXCEPT !.stage = "loaded",
                                              !.hand.pids = @ \cup dirs["sessions"].worker.pids])
  /\ UNCHANGED <<dirs, calls>>

Runs(pid) ==
  IF pid = "worker" THEN work.stage \notin {"none", "gone"} ELSE work.child = "alive"

\* The host waits for no worker, and the worker for its child only when it records the exit:
\* until their parent ends or waits the dead have a pid.
Lingers(pid) ==
  IF pid = "worker" THEN work.stage = "gone" /\ work.parent
  ELSE work.child = "dead" /\ work.stage \in {"spawning", "recording", "up"}

\* kill(pid, 0) tells a zombie from nobody, and not from the living.
Alive(pid) == Runs(pid) \/ Lingers(pid)

Liveness(pid, pids, alive) ==
  IF pid \notin pids THEN "unknown" ELSE IF alive THEN "alive" ELSE "dead"

\* check_session_record, as far as it judges the processes.
Judged(meta) ==
  LET worker == Liveness("worker", meta.pids, Alive("worker"))
      child == Liveness("child", meta.pids, Alive("child"))
  IN  IF meta.state \notin Active \cup {"orphaned", "stale"} THEN "none"
      ELSE IF meta.pids = {} THEN "missing_pid"
      ELSE IF worker # "alive" /\ child = "alive" THEN "orphaned_child"
      ELSE IF worker = "alive" /\ child = "dead" THEN "liveness_mismatch"
      ELSE IF \A pid \in meta.pids : ~Alive(pid) THEN "stale_record"
      ELSE "none"

\* The check does not look at the archive; that there was one by then is noted for the
\* properties.
DoctorChecks(c) ==
  /\ call[c].stage = "loaded"
  /\ DoctorGoes(c, "loaded", [call[c] EXCEPT !.stage = "checked", !.issue = Judged(call[c].hand),
                                             !.taken = Exists("archive")])
  /\ UNCHANGED <<dirs, calls>>

\* Mutant: one dead process is enough.
EligibleByOne(meta) ==
  /\ meta.state \in Active \cup Degraded
  /\ meta.pids = {} => meta.state \in Degraded
  /\ meta.pids # {} => \E pid \in meta.pids : ~Alive(pid)

\* Mutant: a record that reconciliation called stale stays where it is.
EligibleButStale(meta) ==
  /\ meta.state \in Active \cup {"lost", "orphaned"}
  /\ meta.state \in Active => meta.pids # {}
  /\ \A pid \in meta.pids : ~Alive(pid)

\* archive_eligible: of what is given up no process is known or alive, of what should run
\* every known process is dead.
Eligible(meta) ==
  /\ meta.state \in Active \cup Degraded
  /\ meta.state \in Active => meta.pids # {}
  /\ \A pid \in meta.pids : ~Alive(pid)

Archives(c) == call[c].stage = "checked" /\ Eligible(call[c].hand) /\ ~Exists("archive")

\* A target that exists fails the repair; what is moved is what is there now.
DoctorRepairs(c) ==
  /\ DoctorGoes(c, "checked", Idle) /\ UNCHANGED calls
  /\ dirs' = IF Archives(c) THEN [sessions |-> NoDir, archive |-> dirs["sessions"]] ELSE dirs

-----------------------------------------------------------------------------
\* A new host: the handlers are gone, a record that should run is judged.

KnownPids == dirs["sessions"].meta.pids \cup dirs["sessions"].worker.pids

\* The last terminal state that worker.json names; what only the events say is left open.
Evidence ==
  LET file == dirs["sessions"].worker.state
  IN  IF file \in State \ Active THEN {file} ELSE {"lost", "failed_start"}

\* The zombies of the host before are gone with it.
Reconciled ==
  LET worker == Liveness("worker", KnownPids, Runs("worker"))
      child == Liveness("child", KnownPids, Alive("child"))
  IN  CASE worker = "alive" /\ child # "dead"  -> {dirs["sessions"].meta.state}
        [] worker = "alive" /\ child = "dead"  -> {"stale"}
        [] worker # "alive" /\ child = "alive" -> {"orphaned"}
        [] OTHER                               -> Evidence

HostRestarts ==
  /\ crashes < MaxCrashes /\ crashes' = crashes + 1
  /\ starter' = [stage |-> "done", hand |-> NoMeta]
  /\ call' = [c \in Clients |-> Idle]
  /\ work' = [work EXCEPT !.parent = FALSE]
  /\ UNCHANGED <<marks, calls>>
  /\ IF dirs["sessions"].meta.state \notin Active THEN UNCHANGED dirs
     ELSE \E state \in Reconciled :
            LET file == dirs["sessions"].worker
            IN  dirs' = [dirs EXCEPT
                  !["sessions"].meta.state = state,
                  !["sessions"].worker.state = IF file.state \in Active THEN state ELSE file.state]

Next ==
  \/ Launch \/ LaunchFails \/ ReadRecord \/ WritePid
  \/ WorkerStep \/ WorkerCrashes \/ HostRestarts
  \/ \E c \in Clients :
       \/ MarkAttention(c) \/ ReadAttention(c) \/ ClearAttention(c) \/ WriteAttention(c)
       \/ DoctorLoads(c) \/ DoctorReadsWorker(c) \/ DoctorChecks(c) \/ DoctorRepairs(c)

Spec == Init /\ [][Next]_vars

-----------------------------------------------------------------------------
\* Properties.

\* However requests overtake each other, no record has two open items with one dedupe key:
\* a mark updates the open one, and a copy that is written back late is a record that was.
DedupeIsUnique ==
  \A p \in Place :
    LET items == dirs[p].meta.items
    IN  \A i, j \in DOMAIN items :
          items[i].open /\ items[j].open /\ items[i].key = items[j].key /\ items[i].key # NoKey
          => i = j

\* doctor archives no session whose worker is alive, when its records name any process:
\* files that stale copies were written over still name the worker.
DoctorSparesLive ==
  [][\A c \in Clients :
       Archives(c) /\ DoctorRepairs(c) /\ call[c].hand.pids # {} => work.stage = "gone"]_vars

\* What doctor calls a stale record while no archive of it exists, its repair finds eligible,
\* and moves: processes only die in between, and the directory is gone only if another
\* doctor has archived it since.
RepairableIsRepaired ==
  [][\A c \in Clients :
       call[c].issue = "stale_record" /\ ~call[c].taken /\ DoctorRepairs(c)
         => Eligible(call[c].hand) /\ Exists("archive")']_vars

\* The same wherever the check says "repairable", not kept: a copy that is written back after
\* the archive makes a second record, which is repairable, and whose repair fails.
RepairableIsArchived ==
  [][\A c \in Clients :
       call[c].issue = "stale_record" /\ DoctorRepairs(c)
         => Archives(c) \/ ~Exists("sessions")]_vars
=============================================================================
