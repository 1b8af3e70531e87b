# A verification development of millmux

millmux (the workspace below `src/crates/`) runs long-lived terminal and pipe
sessions.  A *host* process serves a control socket; each session has a *worker*
process of its own that owns the child and its PTY; clients (CLI, daemon console,
agent cockpit) talk to the host only.  All durable state is files below a state
root: `sessions/<id>/meta.json`, `worker.json`, `events.jsonl`, logs, replay
files, and UI contexts.  There is no database and no lock on those files.

This directory holds TLA+ modules of the parts of that program where the order
of steps matters, TLC configurations that check them on small instances, and
TLAPS proofs of what is most important.  `PROJECT.json` maps every definition to
the lines it stands for and lists runs, mutants, findings, hazards and theorems.

## Inventory

| component | state it keeps | operations | talks to | what makes it correct |
|---|---|---|---|---|
| Session requests (`host/server.rs`, `stop.rs`, `worker_launcher.rs`) | none in memory; files of the session | start, stop, kill, delete (archive or purge) | worker over its socket, signals, files | evidence precedes effects; a kill puts the child down; every request is answered; a purge removes artifacts |
| Worker lifecycle (`worker/lib.rs`, `lifecycle.rs`, `pty.rs`, `pipe.rs`) | the child; `worker.json`, `meta.json` | register, spawn, running, output, reap, exit | files it shares with the host | a child that ended is recorded as ended, once, with the right state |
| Artifact storage (`core/storage.rs`, `events.rs`, `paths.rs`) | files | atomic replace, append | everybody | a reader sees a whole file; an update is not lost |
| Startup reconciliation (`host/reconcile.rs`) | a snapshot of every record | judge by pids, mark terminal | the worker that may still be writing | spares what lives; what died is terminal; orphaned means the worker is gone |
| Registry (`host/registry.rs`) | a snapshot of every record | load, resolve, list | files | sessions/ shadows archive/ |
| Worker control server (`worker/control.rs`) | attaches, input owner, observers (in memory, one mutex); a copy in `worker.json` | acquire, release, send, resize, observe | host proxy, PTY, output thread | one input owner; released when its stream ends; nothing is typed by a stream that does not own input; the copy in `worker.json` agrees |
| Output logging and scrollback (`worker/logging.rs`, `core/scrollback.rs`) | `pty.log`, replay ring and its metadata, line scrollback | record output, persist, trim, restore | attaches read the same files | a replay is the bytes right before the cutoff, or absent |
| Attach stream (`worker/control.rs`, `host/server.rs`) | per attach: bounded queue, lag counters, pending notice, input queue | broadcast, drop, notice, initial replay, input, drain, close | output thread, client through the host proxy | every gap is announced; replay and live output neither overlap nor leave a gap |
| Log and event followers (`host/server.rs`) | cursor, byte offset | follow, subscribe | files written by worker and host | no event lost or repeated; ends only when the session is terminal |
| Host bootstrap (`host/bootstrap.rs`) | `host.lock`, `host.json`, socket | lock, remove stale socket, reconcile, bind | other hosts | at most one host serves a root; reconciliation comes before service |
| Attention (`host/server.rs`, `core/state.rs`) | items in `meta.json` | mark, read, clear, list | every other writer of `meta.json` | the rollup counts what is unread and open |
| UI contexts and input routing (`host/server.rs`) | `ui/<id>/context.json` | set, get, list, close, input.send | cockpit, CLI | input goes to the pane that has focus, or is refused |
| Doctor (`host/doctor.rs`) | none | diagnose, archive stale, close stale contexts | files | a repair never touches a live session |
| Cockpit and console (`tui/app.rs`, `pane.rs`, `keymap.rs`, `sessions/cockpit.rs`, `console.rs`) | panes, focus, modes, one attach | keys, paste, refresh, switch | host through the client | keys reach the session that is shown as focused and attached |
| Protocol, ids, errors, workspace identity, redaction, rendering, CLI | - | data, formatting | - | not modelled: no behaviour that depends on order |

The hard behaviours, in short: unlocked read-modify-write of shared JSON files by
three kinds of actor; decisions taken from one read and written after another;
directories archived or purged under a running worker; host crashes between an
event, a signal and a record; worker crashes; stop phases that end on a timer or
on the worker's record, whichever is first; ownership checked under a lock and
used after it; bounded queues that drop; replay files read while they are being
replaced.  `PROJECT.json` "hazards" has them with their lines.

## Modules, runs and theorems

| module | of what | composed with | proofs |
|---|---|---|---|
| `SessionLifecycle` | start, worker, stop, kill, delete, reconciliation of one session, file by file | - | `SessionLifecycleProofs` |
| `AttachControl` | input ownership and the input threads of one worker | implements `InputLease` | `AttachControlProofs` |
| `OutputStream` | output log, replay files, broadcast, observers | - | `OutputStreamProofs` |
| `EventFollowers`, `AttachProxy` | the host's streaming tasks | `HostConnections` | `HostConnectionsProofs` |
| `HostBootstrap` | hosts that contend for a state root | `DaemonStart` adds session.start of daemons and reconciliation | `DaemonStartProofs` |
| `SessionRecords` | everybody who rewrites `meta.json`: start, worker, attention, doctor, a new host | - | `SessionRecordsProofs` |
| `AppModel` | the pure model of the two terminal interfaces | `UiContexts` adds the host's context file, doctor and input.send; `Cockpit` the loops of the interfaces | `CockpitProofs` |
| `LineLogPane` | the pure scrolled and searched view | `ScrollViews` adds emulator, logs and refresh | `ScrollViewsProofs` |

| run | configuration | checks |
|---|---|---|
| `lifecycle_pty`, `lifecycle_two`, `lifecycle_live` | `MCSessionLifecycle` | requests, crashes and reconciliation of one session |
| `attach_lease`, `attach_input` | `MCAttachControl` | one input owner; what is typed, and that input is given back; input that is late |
| `output_stream` | `MCOutputStream` | the live stream, its notices, its replay |
| `host_connections` | `MCHostConnections` | followers and attaches of the host |
| `daemon_start`, `one_daemon` | `MCDaemonStart` | one host serves, an answered start survives; the finding |
| `session_records` | `MCSessionRecords` | attention and doctor on a record that others rewrite |
| `cockpit` | `MCCockpit` | focus, names, who owns the input, keys, confirmations |
| `scroll_views` | `MCScrollViews` | what is shown and what is copied |

Each run is described with its module below.  Thirty-nine theorems are listed in
`PROJECT.json`; all but eight (type invariants) state a property that a run checks, for
every value of the constants.  The type invariant of every system that a run explores
(`TypeOK`) is a theorem, `TypeCorrect`; TLC checked each before it was proved, and the
configurations leave it out in favour of what is specific.

Where the code does not keep what a document, a test's name or a comment says, the
module states the promise as a definition that no run checks, and the section
"Promises that are not kept" tells what breaks it; adding the definition to the
configuration named there shows the trace.  One of them, `OneDaemonPerWorkspace`, is
checked by a run that expects the violation (`one_daemon`).

What the plan has left, in order:

1. The restoration of a replay ring and of the line scrollback at the start of a
   worker, and the answers of logs and events without follow, as pure functions
   against a reference definition.
2. Two ui ids, and two interfaces of one id at the same time.

## SessionLifecycle

One session, from `session.start` to its purge.  The actors are the starting
request (`"starter"`), the worker's main thread (`"worker"`), the reconciliation
of a booting host (`"boot"`) and one handler per connection in `Handlers`.

| variable | code |
|---|---|
| `disk` | the directory of the session below `sessions/` and below `archive/`: `meta.json`, `worker.json` (state, recorded pids, stop evidence), kinds of event in `events.jsonl` and the last terminal state an event carries |
| `act` | each actor's place: `stage` (which part of the function), `prog` (the file operations it still has to do), `snap` (the file it read and has not yet replaced), `held` and `verdict` (values it read earlier), `root` (the directory it resolved) |
| `proc`, `child`, `signalled` | the worker process, the hosted child (a zombie until reaped), death by signal |
| `sock` | the worker's control socket file |
| `host`, `crashes` | the host process and the crash bounds |
| `history` | what the properties remember: was the session live at boot, did the host send SIGKILL, was it purged |

Straight-line code (`record_running`, `mark_session_killed`, ...) is a *program*:
a sequence of updates of `meta.json` and `worker.json` and appends to
`events.jsonl`.  An update is two steps, `BeginUpdate` (read) and `CommitUpdate`
(rename), because every `update_session_meta`, `update_meta`, `update_worker` is
a read, a change and a rename without a lock; everything may happen in between.
`CommitUpdate` recreates a directory that is gone, as `write_json_atomic` does.
`FileGone` is the error a read gives once the directory was archived or purged.

| run | bound | what it shows |
|---|---|---|
| `lifecycle_pty` | PTY session, one request of any kind at any time, one host crash, one worker crash | the safety properties below |
| `lifecycle_two` | pipe session, two requests among stop and archive, no crash | `KillEvidence`, with two handlers that move the same directory |
| `lifecycle_live` | fairness, one request once start returned, one crash of each kind | `RequestsAnswered`, `ExitRecorded` |

One handler is enough to meet every interleaving of a request with the worker,
the starter and reconciliation; a second one adds only request against request,
which `lifecycle_two` has for the two requests that move or rewrite what the other
one reads.  A
second host crash repeats the first, as a booted host keeps nothing of its predecessor,
with one exception that needs a deletion too (`WorkerPidMayBeLost`; see
`LiveRecordsPreserved` in "Promises that are not kept"); the proofs are for any number of
crashes.  `lifecycle_two` has no crash: that of a host between the kill's event and its
signal is in the theorem `KillLeavesEvidence`, not in a run.

Properties.  `ReconcileSparesLive`: a live session gets no terminal record at
boot, although its worker may be between any two writes, unless two hosts crashed and
its files were deleted.  `DeadAtBootIsTerminal`:
a record whose worker was dead at boot is not active once the host serves.
`OrphanedMeansNoWorker`: "orphaned" is only recorded of a session whose worker is
gone, with the same exception.  `KillEvidence`: a SIGKILL sent leaves its event, wherever the directory
goes.  `KillPutsChildDown`: once a kill is answered the child is dead, except where
`KillMayMiss`: for a pipe session, after a crash of the worker, beside a stop, and beside a
deletion once a host crashed.
`StopNamesAProcess`: a stop of an active record finds a pid to signal.
`RequestsAnswered`: every request ends, unless it is a stop that waits for `millrace
control stop` or for an interrupt that the worker is writing to a PTY nobody reads.
`ExitRecorded`: a child that ended under a live worker is recorded, once its output has
ended.

Fairness (`FairSpec`): weak fairness of every step of every thread that runs.
Threads and processes are scheduled by the operating system, and a step that waits for
another actor does so with a timeout, with these exceptions, none of which is assumed to end:

* `Command::output()` of a daemon's native stop (stop.rs:45-50) waits for `millrace` to exit:
  stage "millrace", left by `MillraceAnswers`, which is not fair;
* `worker_request` (server.rs:2622) has no read timeout, and the worker's write of an
  interrupt may be blocked by the PTY: stage "blocked", left by `ChildReads`, not fair;
* the worker reads the child's output to its end before it waits for the child
  (lib.rs:125-140, 190-208), and a descendant of the child may hold the terminal or the
  pipes open after the child ended: `OutputEnds` is not fair, and `ExitRecorded` is about
  states behind it; a child that never ends keeps `ReapChild` disabled.

A request that waits like this holds up a stop for ever, before its SIGTERM.  Nothing is
assumed of clients, of the child, of crashes or of a restart of the host.

The race of two updates of `meta.json` lets `record_process_exit`, which decides the
state before it updates, write an exit over a kill that was answered; no document says which of the
two is right, so no property does.

Proved (`SessionLifecycleProofs`), for any set of handlers, any
kinds of request and any crash bounds:

* `TypeCorrect`.
* `KillLeavesEvidence`.  `Recorded` (the event is on disk, or there was a purge)
  holds once a SIGKILL was sent, *and* for every handler that is past its
  `kill_requested` append (`Announced(h)`: in stage "kill" with an empty program).
  The first conjunct alone is not inductive, as nothing says that the handler about
  to signal has appended.  Events only grow, archive moves them as a whole and only
  `Purge` removes them (`RecordedStable`), so the invariant is kept by every step.
* `DeadIsMarked`.  `DeadAtBootIsTerminal` speaks of the file, but a stale copy in
  anybody's hands could be written after the boot; `DeadStays` says of every copy and
  every pending program that none makes the record active again.
* `StopNames`.  `NamesInv`: a record, or a copy of one, without pids exists only
  together with actors that cannot be stopping or killing, so a stop never works from one.
* `SparesLive` and `OrphanedAlone`.  `BootWorks` joins the two invariants above with what
  the worker has written at each place of its program (`WorkerNamed`: `worker.json` always
  names the worker), where a child's pid may stand alone (`Beside`, `PidsTogether`: there is
  a `worker.json` beside it until a deletion, and the worker's pid beside it until a first
  boot has judged) and what the boot concluded from what it saw (`JudgeInv`).  So a boot
  that sees a child's pid sees the worker's too, finds it alive and leaves the record alone.
  The proof is what showed the exception: the run has one host crash, and the step
  that failed needed two.

* `KillForces`.  A kill is aimed at the child through the control socket, or else at the
  pids of `meta.json`, which a stale copy may have stripped of the child's.  So the
  invariant says that the child is never alive without its worker and the socket
  (`ServedAlive`); that a kill which signalled, that of an archive or purge too, leaves none
  alive (`KillsDone`); that whoever takes the directory, and the socket in it, has
  either killed before or found a record that was over (`RecordGone`, `EndedOnly`); and that a
  record names only processes that exist (`PidsReal`).  `ReqInv` ties each
  place of a handler to the request it serves, `DeletedAsked` a directory that is gone to a
  handler that was asked to delete.  TLC checked the whole of it before the proof: one handler
  with two host crashes or with a crash of each kind, two handlers that kill with a host
  crash.  Each disjunct of `KillMayMiss` was found by a step that failed
  or by a trace; see `KillForcesDown` in "Promises that are not kept".

Left to TLC: liveness.

Abstractions: one session; a second start with the same id, reuse of pids, EPERM
and I/O errors other than a missing file are left out; consecutive events that
no property tells apart are one append; purge (`remove_file`, `remove_dir_all`)
is one step; the pid probes of one record are one step; the read inside
`append_event`'s callers and the append are one step.

## AttachControl and InputLease

The control server of one PTY worker, from the point of view of its input: who is
attached, who owns the input, what is typed, and the copy of all that in
`worker.json`.

| variable | code |
|---|---|
| `control` | `ControlState`: the owner and the attach table, behind a mutex |
| `conn` | the connection thread of each attach: where it is in `handle_observe_attach`, whether it is read-only, whether its client is still there, and whether its drain ended in time |
| `input` | the reader and writer threads of each attach, the bounded channel between them, the `closed` flag, the byte budget |
| `send` | one-shot `send` requests: checked under the lock, typed after it |
| `main`, `host` | the worker's main thread from `record_running` to its end; a host request that rewrites or removes the record |
| `file`, `update` | `worker.json`, and for each writer the copy it read and has not yet replaced |
| `typed` | what the properties remember: chunks typed after a stream was closed, and writes while another stream owned the input |

What the code does under the mutex is one step; what it does afterwards is
another: `Acquire` and `Release` change `control`, `PersistReads` and
`PersistWrites` are the read and the rename of `persist_attach_state`, `ReadInput`
checks the owner and `QueueInput` queues the frame, `TakeCommand` takes it from the
queue, `TypeInput` is the moment the PTY takes it, and `TypingFails` a write that the PTY
refuses: the chunk is lost, and the writer goes on with the next one (control.rs:1197-1199).
A Close that finds the queue full is not queued: it closes the stream at once
(control.rs:1285-1287), and what is queued before it is dropped.  `GivesUp` is a write to the
client that failed or timed out, or an observer that lagged too far;
`ResizeFails` and `PersistFails` are the two rollbacks.

`InputLease` is the promise: any number of streams may watch, at most one holds the
input, a refusal is only given while somebody holds it, and who left never comes
back.  `Role` is the refinement mapping: a stream whose connection thread is in a
stage of `Held` holds or watches.

| run | bound | what it shows |
|---|---|---|
| `attach_lease` | two streams of either kind, two frames each, budget of two, queue of one, one sender, a kill and delete by the host; `MaxActing = 1` | `OwnerIsAttached`, `LeaseSpec`, `LateInputAtMostOne` |
| `attach_input` | one stream, three frames, budget of two, queue of one, the worker's start and exit, a kill; fairness | `DeliveredBeforeRelease`, `ClosedTypesAtMostOne`, `HangupReleases` |

Two streams meet every conflict over the one owner; a third only repeats the
second's refusal.  A queue of one with three frames is full, emptied and full
again, and the budget of two is used up.  `Updates` chooses which other writers of
`worker.json` take part in a run.  `MaxActing` bounds how many of those outside the
worker (clients that send frames, senders, the host) act in one behaviour: in
`attach_lease` any one of them may, beside two streams that come, fail and go as they
like, so that a sender or a deletion is not met together with typing, nor the typing of
two clients; `attach_input` has both for its one stream.  The theorems hold for any
values.

Properties.  `OwnerIsAttached`: the table is the set of streams that hold a place,
and the owner is the one writable stream among them, on every way out.
`LeaseSpec`: the refinement.  `LateInputAtMostOne`: the owner is checked frame by frame
on a thread that the connection does not wait for, so a frame that passed the check may be
accepted after the stream gave up and another one took the input; of each stream that
is one frame at most, and none if it is read-only.
`DeliveredBeforeRelease`: an attach that drained in time accounts for all it accepted
before it gives the input back: typed, refused by the PTY (and reported) or dropped;
nothing is dropped behind a Close that was queued, and a queue of frames at most when the
Close found no room or the client hung up.
`ClosedTypesAtMostOne`: once closed, at most the chunk on its way is typed.
`HangupReleases`: a client that disappears, at whatever point, gives the input
back, although the child may never read.

Fairness: weak fairness of each thread of each attach (connection, reader, writer);
they are operating-system threads, and their waits have timeouts
(`ATTACH_STREAM_POLL`, `ATTACH_INPUT_DRAIN_TIMEOUT`).  `TypeInput` is not fair (the
child reads when it likes), nor are the client, failures, the host, or the
worker's main thread.

Two persists may leave the older of two attach states in the file of a live worker;
the next attach corrects that, and no property is about it.  `accepted_input_bytes`
never decreases (control.rs:1348): the budget is for the whole life of an attach.

Proved (`AttachControlProofs`), for any finite set of streams, any senders, queue
capacity and budget, from `ControlAssumption` (stream ids are finite in number and
distinct from the other writers' names, the capacity is at least one):

* `TypeCorrect`, with the bound of the queue.
* `OwnerCorrect`: `StepMoves` shows that every step leaves the attaches alone, or
  takes one in, turns one away, or lets one leave, with the matching change of
  `control`; `OwnerIsAttached` with `TypeOK` is inductive over these four cases.
* `LeaseImplemented`: the same four cases are a stutter, a grant or watch, a refusal
  and a departure of `InputLease`; a refusal needs `OwnerIsAttached`, to know that
  the owner named in `control` is a stream that really holds the input.
* `LateInputIsOne`: `LateInputAtMostOne` is not inductive, as the frame that will be late is
  still past the check.  `Late` adds that a stream with a late frame has left the table and has
  no other frame past the check, and none of a read-only stream ever is; with `OwnerIsAttached`
  only a stream in the table passes it, and a stream that left never comes back.
* `ClosedIsCut`: `ClosedIsSpent` adds that nothing was typed late while the stream
  was open or while the last chunk is still on its way.
* `CloseDelivers`: `DeliveredBeforeRelease` compares counters at the end of an attach.
  `Delivers` accounts for every accepted frame all along (typed, refused, dropped, in the
  queue, in the writer's hand), `CloseIsLast` says that nothing is queued behind a Close, and
  `Threaded` ties the places of the reader, the writer and the connection thread to each other.

Left to TLC: `HangupReleases`.

Abstractions: one frame of input is one chunk; resizes pass through the queue but
change nothing; the output side (observers, initial replay, lag) is part of
"serve" and has `OutputStream`; the mutex around the PTY writer is not modelled, so two writes may be
taken in either order; ids are not reused, as the host makes a fresh one per attach.

## OutputStream

The output side of the same worker: the main thread records what the child prints
and broadcasts it; each attach has an observer with a bounded queue and a connection
thread that writes to the client.

| variable | code |
|---|---|
| `main` | the main thread between reading a chunk and having broadcast it (`record_output`, `broadcast_output`) |
| `log` | the length of `pty.log` |
| `term` | `TerminalStateBuffer`: how many bytes it processed, where its raw replay starts |
| `files` | the replay ring (the interval it holds) and the metadata in `terminal.snapshot.json` |
| `obs` | `AttachObserver` (queue, drop counters, pending notice, where live output begins) and where the connection thread is |
| `served` | what the properties remember: how far the client was served, what was dropped, what it was told of |

A byte is its offset, so a frame is an interval.  `ReadOutput` locks the terminal
state until `WriteRing` and `WriteSnapshot` are done; `TakeScreen` waits for it, while
`ReadMetadata` and `ReadRing` read the two files without a lock.  `Register` reads the
length of the log under the control lock, under which `Broadcast` runs too; but the
append is not under it, so an observer may register between the append of a chunk
and its broadcast.  `Offer` follows `broadcast_output` for one observer: a pending lag
goes first, then the output, and what does not fit is dropped and counted.  The
connection thread looks at the pending slot (`Poll`) before each message (`Receive`).

`output_stream`: one observer, six bytes in chunks of one or two, a queue of two, a
ring of two bytes, closing after three dropped bytes.  Observers do not read each
other's state, so one is enough.  The bounds let the queue fill, recover, fill again,
and reach the limit, and the ring wrap several times.

Properties.  `LiveStreamJoins`: what the client was served, what is under way and what
is being dropped join offset by offset.  `NoticesAreTrue`: a lag notice names dropped
bytes only and counts them.  `ReplayMeetsLive`: the initial replay leaves no hole
before the live output.  `DropsAreAnnounced`: each dropped byte is announced, though
the child prints nothing more.

Fairness: the main thread once it has read a chunk, and each connection thread,
whose writes end by `ATTACH_STREAM_WRITE_TIMEOUT`.  The child and the arrival of
attaches are not fair.

What the model shows beside its properties, and no document denies: a replay from a
*full* ring may overlap the live output, as the freshness check compares lengths and
a full ring is replaced by one of the same length between the two reads
(`ReplayMeetsLive` names the exception); a screen may be later than the beginning of
the live output; a notice from the slot is written ahead of the output queued before
the drop, and the same drop is announced again from the queue.

Proved (`OutputStreamProofs`), for any observers, lengths and bounds: `TypeCorrect`,
`LiveJoins`, `NoticesTrue` and `ReplayMeets`.  None of the three properties is inductive.
`Served` says of one observer that the messages in its queue and in the thread's hand
follow what the client was served, in order and without overlap, up to where the next
broadcast will begin; `Drops` that what was dropped since is one span at the end of that,
which the counters and the pending notice describe; `Fair` that every notice under way
counts its own bytes, all of them lost.  They are kept by each way `Offer` can go
(`QueuedServed`, `NoticeServed`, `DroppedServed`), and a step of a connection thread touches
its own observer only.  Left to TLC: `DropsAreAnnounced`.

Abstractions: a screen that does not fit the size asked for, or a size-gated replay,
is a choice of no replay; a resize persists the same offsets again and is left out; so
are line scrollback, the `attach_stream_lagged` events, and the restoration of a ring
at the start of a worker (a session's directory is new).

## HostConnections: EventFollowers and AttachProxy

What a connection of the host becomes once its first streaming request is in: a task
that follows a file of the session, or the proxy of an attach.

| variable | code |
|---|---|
| `log`, `torn` | `events.jsonl` or `pty.log` as a sequence of records; the last one may be half in the file |
| `session` | what `meta.json` says, and whether the directory is in `sessions/`, in `archive/` or gone |
| `flw` | each follower: where its loop is, its offset, the frames of the batch it is writing, unfinished lines (`LogLineAssembler`), whether its client is there; and, for the properties, what the client was shown and told |
| `proxy` | `proxy_attach_stream`: where its `select!` loop is, the frame it is writing, which events it recorded |
| `client`, `worker` | the client's `attach` loop and the worker's end of the stream |
| `pipe` | what is under way in each socket; a frame to the client, and a line from it, is two pieces, its text and its newline |

A position in a file counts half records, so a read may end in the middle of one.
`PollEvents` keeps whole records only, `PollLogs` and `PollPty` read to the end of the
file, `Check` is the look at `meta.json` when nothing was new.  `WriteFails` differs by
kind: a subscription ends with its client, a follower of events or logs lets the
error go and stays until the session ends.  The proxy is one task for both
directions: while it writes a piece to the client it relays no input.

`host_connections`: one connection of each kind, two records of three kinds, replay
limits 0 and 1, a queue limit of 1, two lines and two frames, sockets of two.
Connections share only the file and the session, so one is enough.  Two records give
a dropped and a kept one, and a line of two parts; two frames fill a socket.

`SubscriptionHasNoGap`: what the offset has passed was sent or counted in a notice.
`EachEventOnceInOrder`: an event that is shown comes after everything the client has been
shown.  `FollowerMissesNothing`: except for a record that was read in
two halves, which the log followers lose.  `EndedSessionClosesStreams` and
`AbandonedSubscriptionEnds`: streams end with their session or, for subscriptions, with
their client.  `AttachIsAccounted`: an attach that was recorded as opened is recorded as
closed, once its worker has let go.  `LeavingReleasesProxy`: no task stays for a client
that left.  `LinesArriveInOrder`: the lines a worker takes from an attach are the first its
client typed, in order and once each, and while both stay each half of each line is in a
socket, in the host's reader or taken.  `FramesArriveInOrder`: the client is shown no frame
twice, none before an earlier one and none after `Closed`.  Both directions meet in one
`select!`, which drops the read that is under way when the other one is ready: the host's
`Lines::next_line` keeps what it has read (server.rs:3331; `ReadHalf` puts it in
`proxy.half`, where a relayed frame must leave it), the client's `read_line` does
not (client.rs:554), so frames may be missing, never out of order.  What is under way
from the worker to the host is whole lines: the same `next_line` reads them, and half of one
is in its reader as it would be in the socket.  A client that ends within a line may have sent
its text without the newline; the host's reader then yields what there is (`RelayCutLine`).

Fairness: every task and every client goes on while it can (tokio schedules them), a
worker reads its input and closes a stream that was shut; a heartbeat comes again and
again while the stream idles, hence strong fairness of `Heartbeat`.

Proved (`HostConnectionsProofs`), for any connections, records, limits and capacities:
`AttachAccounted`, `SubscriptionsComplete`, `FollowersComplete`, `EventsOnce`,
`LinesInOrder`, `FramesInOrder` and `TypeCorrect`.

`AttachIsAccounted` is not inductive.  `Books` adds, for
one attach, that what the host has opened it has recorded before it relays, and that a
`Closed` that is in the worker's pipe or in the host's hand comes from a worker that is
through; so the host, wherever it reads `Closed` or the end of the stream, may write
`attach.closed`.  Connections touch only their own entries (lemma `Moves`), so a step is
checked for one of them, by who takes it: the host's task (`TaskKeeps`, `RelayKeeps`),
the worker (`WorkerKeeps`) or the client (`ClientKeeps`).

Three follow from `Followed`, which says for each follower, of what it has shown
*or has under way* (`Reached`), that it is in the file's order (`Ordered`), that it and what
was counted in notices (`Noticed`) make up all the offset has passed (`Complete`), that
nothing is both (`LeftOut`), and for lines that the frames and the unfinished line together
are the records read (`Raw`, `Lines`).  A file only grows (`SessionKeeps`) and a read yields
consecutive records (`RecordsAre`), so no replay and no poll skips one silently (`Reads`).
The assembler of lines is a recursive function over the records of a read; that it loses
none (`PushesAll`) is an induction, made by the smallest counterexample (`Smallest`).

The order of lines and frames says nothing of what is in the sockets, where it could be
lost.  `Carried` (checked by TLC first, with three lines, four frames and sockets of
three) says of each attach that its answer is ahead of its frames (`Greeted`); that the
lines in the worker's socket and in the host's count on from what the worker took
(`Lined`, half a line in the host's reader or at the head of its socket included); and that the pieces of frames keep one order from where they are shown to where
they are read (`Framed`): what was shown, what the client's read holds, its socket, the
proxy's hand, the worker's socket, what is still unread.  A piece has a `Key`, its text
before its newline and `Closed` last, and each stage is below the next one, so a step that
moves or drops a piece keeps the chain.  `TypeCorrect` is the types of the attaches, kept
beside `Carried`, and those of the followers, kept beside `Followed`.

Left to TLC: the three liveness properties.

Reductions and abstractions: an attach starts while the file is empty, as it reads no
records; the tail that precedes a follow and the filters of a subscription are left
out.  What the model shows and no document denies: a follower looks for new
records *before* it looks at `meta.json`, so events appended in between are not sent
before `Closed` (a client that subscribes again from its cursor gets them); a follower
of a session that is archived or purged under it never ends, as a `meta.json` that
cannot be read is not terminal; a drain that times out, or a socket that was reset,
leaves no record of the end of the attach; `open_worker_attach` waits for the worker's
answer without a timeout.

## DaemonStart and HostBootstrap

| variable | code |
|---|---|
| `host`, `lock`, `sock` | each host process, the lock on `host.lock`, what is at the path of the socket |
| `client` | `ensure_host_ready`: probe, spawn one host, poll until `HOST_READY_TIMEOUT` |
| `start` | the handler of each client's `session.start`: which check it is at, the record it read |
| `ses` | each session: directory, record, recorded pid, worker and child |
| `stops` | the bound on hosts that are killed or stopped |

A host that is killed releases the lock and leaves its socket; a host that is stopped
keeps the lock until its handlers have returned.  The path may also hold the socket
of an earlier boot, or a file that is no socket.  `Reconcile` judges the records that
the handlers of the dead host left half way.

`daemon_start`: two clients that may spawn a host each, one of which is killed or
stopped: a second host, a second start, and one crash between any two steps.
`OneHostServes`, `AnsweredStartSurvives`, and, under fairness of the processes and
handlers, `SpawnLeadsToServer`: whatever was left behind, a host comes to serve unless
somebody is killed after the spawn, or it met one that was closing.  In that last
case nobody spawns another and the client fails at its deadline (client.rs:66).

`one_daemon`: the finding.  The handler looks for an active daemon and writes its own
record later, so two overlapping starts both launch one.

Proved (`DaemonStartProofs`), for any hosts, clients and bound, with no more than
`BootstrapAssumption` (no host is called `None`): `TypeCorrect`; `OneHost`, by induction over the steps
with the types of `host`, `lock` and `sock`; and `AnsweredSurvives`.  The second is
not inductive: an answered session is safe from a new host because its worker is known by
a recorded pid, and one that is not answered yet because the handler's host still holds
the lock, so nobody reconciles.  `Kept(c)` says that for each stage of the handler: its host
serves or is closing, the record and the copy in the handler's hands are active while the
session lives, and the pid is known once the start was answered.  `OneHost` is what
turns the first part into "no other host reconciles".

Abstractions: session ids differ by request; I/O errors within `start_session` are out;
reconciliation is one step here (file by file in `SessionLifecycle`).  A host killed
between `LaunchWorker` and `WritePid` lets the next host call the session lost while its
worker starts; the worker then records it running all the same, beside a daemon that
may have been started meanwhile.  The client got no answer, so no property is about it.

## SessionRecords

One record `meta.json` and those who read it, change their copy and write it back: the
end of `session.start`, the worker, a new host, attention requests and doctor.

| variable | code |
|---|---|
| `dirs` | `meta.json` (state, pids, attention items) and `worker.json` below `sessions/` and `archive/` |
| `starter`, `work` | `start_session` after the launch, and the worker, each with the copy it has in its hands |
| `call` | the handler of each client: the copy, where it was read, what doctor judged |
| `marks`, `calls`, `crashes` | bounds |

`session_records`: two clients, one dedupe key and items without one, two marks, three
requests, two hosts or workers killed.  Two marks with one key are what it takes to
have two open items; three requests put a read, clear or repair between them; and a worker
that was killed is reaped only once its host was, so a dead session takes two crashes.
`DedupeIsUnique`, `DoctorSparesLive` (no session with a live worker is archived, when a
record names any process) and `RepairableIsRepaired`: what doctor's check calls a stale
record, and of which no archive exists by then, its repair finds eligible and moves, unless
another doctor has moved it in between.  The check does not look at the archive
(doctor.rs:389-399): a stale record that a late copy brought back beside its archive is called
repairable all the same, and its repair fails (doctor.rs:889-899); see `RepairableIsArchived`
in "Promises that are not kept".

`kill(pid, 0)` takes a zombie for a living process (reconcile.rs:184).  The host never waits for
the workers it launched (worker_launcher.rs:53), and a worker waits for its child only after
the child's output has ended; `Lingers` has both, so a dead worker is only judged dead
after a restart of the host.

Proved (`SessionRecordsProofs`): `OneOpenItem`, for any clients, keys and bounds.
`DedupeIsUnique` speaks of the files, but what is written next is a copy somebody read
before; the inductive invariant `Copies` says of *every copy in anybody's hands* that
its items have one open item per key, and the lemmas on `Marked`, the read and the clear
that they keep it (`MarkedList`, `ReadList`, `ClearedList`).

Proved there too: `SparesTheLiving` and `RepairsWhatItReports`, that is `DoctorSparesLive` and
`RepairableIsRepaired`.  `Known` says of every record and copy that the pids in it are of
processes that were started, so none that it names is started later (`Onward`: a process
only dies, an archive stays); of the files that `worker.json` names the worker from its
registration until an archive is there; and of a copy in doctor's hands, which is made of
both files, that it names the worker if it names the child, and that what was called stale
is eligible until it is repaired: a process that is dead and reaped stays so.  `TypeCorrect` follows from the types that these
invariants carry and those of the counters.  That the archive is never replaced is needed: without it
a worker that comes back beside its archive could be archived while it lives.

What the model shows and no document denies: of two attention requests that overlap one
is lost, and either may write a stale state over the worker's `running` or `exited`; a
session that was called lost before its worker registered names no process, is
archived by doctor, and comes back beside the archive when its worker writes
(doctor.rs:1033).  Abstractions: a read and what is made of it are one step; each
update of the worker's is one read and one write of both files; evidence that only
events name is left open; doctor's append, existence check and rename are one step;
stop, kill and delete are in `SessionLifecycle`.

## AppModel, UiContexts, Cockpit

`AppModel` has operators only: each maps a state of the interface's model (`AppModel` in
app.rs) to the next one.  `UiContexts` adds the host's side of one ui id, `Cockpit` the
loops of `millmux cockpit` and `millmux console`.

| variable | code |
|---|---|
| `app` | panes, focus, selected daemon / agent / session, the last snapshot of the sessions, modes, prompts |
| `stage`, `plan`, `attached`, `attach` | where the interface's loop is, what its start has found, the open stream |
| `next` | the stream that a switch of the agent has opened and not yet put in place of the old one |
| `world`, `owner` | the sessions, and who owns the input of each |
| `context`, `aged`, `doctor`, `route` | `ui/<id>/context.json`, its age, doctor's judgement of it, an `input.send` under way |
| `effect`, `count` | what the last key did to a session; bounds |

`cockpit`: two agents and a daemon at home, one more than a pane of either kind shows with
the daemon elsewhere; two launches, three keys and two changes by others, four of these in all
(`MaxAll`), about 326 000 states.  The prefix key and moves in the switcher are not
counted.  Two launches are needed to restore a context; three keys to open,
move and choose in the switcher, or to open the palette, enter a command and confirm it;
two changes to end a session and start or archive another one.

`FocusIsSound` and `NamesAreListed`: after any refresh, switch and restore the focus is
on a pane that is there and not stale, and the names commands act on are listed.
`OwnershipIsKnown`: the cockpit takes itself for the owner of the input of the session it shows
exactly while its stream holds it, and holds no other input but that of the session it is
switching to.  `KeysReachShownSession`: text goes to the session the focused pane shows, and only
with its input owned.  `DestructiveIsConfirmed`: a destructive command strikes the
session whose id was typed; this is a plain check of two guards, as nothing changes the
selection while the prompt is open.  They are
safety properties; of users nothing is assumed.

A switch of the agent (cockpit.rs:867-876, 1001-1011) is several steps, between which the
streams may end, rivals come and go and the host stop: `SwitchAgentAttach` opens the new
stream while the old one is held; `SwitchFails` drops it when its first resize cannot be
written; `SwitchBinds` closes the old stream and shows the new session; then the host is
asked to mark that session's items as read, and `SwitchPublishes` publishes, or ends the
cockpit if the host is gone.

What the model shows beside them:

* the cockpit's palette has no key that closes it: after prefix p text is refused until
  the cockpit is left;
* a restored cockpit whose agent pane is stale may have no pane that shows its agent
  (docs/cockpit-pane-view-model.md:15-22 does not say what it should do), a workspace
  whose agent is gone adopts the first listed session, ended or not, and one whose
  daemons are gone adopts a daemon of another workspace;
* refreshing while the host is down, or writing to an attach that has ended, ends the
  cockpit without `UiDetached`, so the published pane stays focused and writable;
* doctor closes a context it judged before, although it may have been set anew since.

Abstractions: text, sizes and layout; all sessions are terminals; Enter in a search is the
copy of a match, j the end of a scroll; stop and kill are one command, delete, archive
and purge another; the start of a console is one step; the emulator's follow flag is
merged with the model's (`ScrollViews` has both); one ui id, one interface at a time; the
worker has given up a stream's input once the cockpit closed it (that it takes some time,
and may be refused to the next one meanwhile, is in `AttachControl`); the answer of
`attention.read` in a switch is not looked at and is only a wait; of the records that are
published only that of a switch may fail.

A console of two panes stands for one of four, which fills two more panes the same way.

Proved (`CockpitProofs`), for any sessions, workspaces, order of the answers, pane ids, keys
and bounds: `FocusSound`, `NamesListed`, `OwnershipKnown`, `KeysReach` and `TypeCorrect`, for all
properties but `DestructiveIsConfirmed`.  The assumptions are those of the modules: the
order lists every session once and daemons first (`OrderAssumption`), `None` is no session, no
workspace and no id (`PlaceAssumption`, `NoId`), the bounds are numbers (`BoundsAssumption`)
and there is an id for every pane of every run (`IdsAssumption`).

The proof goes operator by operator.  `Fine` says of a model of an interface that it has its
type, that its panes have distinct ids and are stale exactly when the snapshot cannot fill
them; `Focused` that the focus is nowhere or on a fresh pane, the only one with the mark;
`Listing` that the names are of the snapshot.  `Kept` is what most operators leave alone:
modes, agent, ids and kinds of the panes, what the agents' panes show.  Each operator of
`AppModel` has a lemma that says which of these it needs, restores and keeps: after
`AdoptAgent` a model is not `Fine` (its panes were judged by the old list), after
`RefreshStaleness` it is again.  The inductive invariant is `IInv`: `TypeOK`, `Presented`
(an interface that is open is `Fine`, `Focused` and `Listing`), `Planned` (what a start has
found belongs together), `Prior` (a context, published or read at a start, was published by
an earlier run, so that a pane added to the restored ones has an id of its own),
`KeysReachShownSession`, and `Held`: `OwnershipIsKnown` with `Opened`, which it lacks to be
inductive, that the stream a switch has opened is another session's and that the ownership
noted when it was opened is still the true one, as `SwitchBinds` puts it into the model later.

Two promises did not survive the proof.  `FocusIsSound` used to say that only the active pane
is marked; but `switch_focus` with nothing to focus gives up the active pane and leaves its mark
(app.rs:333-338; TLC needs three launches, three keys and two changes to show it), so the mark is now only spoken of while a pane is active.  And
`ContextIsShown`, that the published context shows what is on the screen, holds on
`Cockpit.cfg` and fails with two daemons at home (see "Promises that are not kept").

## LineLogPane and ScrollViews

`LineLogPane` is the pure view of pane.rs: lines, distance from their end, a match by line
number.  `ScrollViews` has two such views: the terminal, a snapshot of the emulator's
screen wherever it is scrolled to, and the log of the selected daemon, a copy of one of
the logs that a refresh fetches one after the other.

| variable | code |
|---|---|
| `files` | the logs as the daemons write them; none once purged |
| `listed`, `logs`, `daemon`, `line_log`, `todo`, `fresh` | the interface's daemons, their fetched logs, the selection and its shown copy, the refresh under way |
| `emulator`, `terminal` | lines and scroll position of the vt100 screen; the snapshot shown |
| `focus`, `mode`, `copied`, `count` | where keys go, scroll and search, the last copied line; bounds |

`scroll_views`: two daemons, two rows, scrollback of two, logs of three lines, three lines
printed, two daemons that appear or are purged, five keys; about 575 000 states.  Three
lines overflow two rows; five keys scroll, search a letter, step, and copy, with a
refresh in between.  `ShownAsLabelled` and `CopiedLineMatches`.

The search of a *terminal* is left out of `CopiedLineMatches`: its match is a row, which
stays where it is while the agent prints, so the copied line may not contain the query.
After a log could not be fetched the rest of the refresh is skipped, and the log of the
daemon selected before may stay under the new name until a later refresh; hence `fresh`.
A scrolled view keeps its distance from the end, so it moves as lines come in.
The terminal's pane shows the attached agent throughout.  The code asks twice which pane
that is: app.rs:1681-1687 by the agent of the model, cockpit.rs:1041 by the attached session;
once a refresh has adopted another agent the two differ, and a scroll key that is not
meant for the emulator moves the model's follow flag alone.  `ExitScrollMode` and `ScrollKey` have
one guard for both, so that `ShownAsLabelled` says nothing of the follow flag after an adoption.
`LOG_TAIL`, the pane's capacity and the terminal's scrollback are 4000 each in the code
and small constants here; the limit of a tail in bytes is not modelled.  How the vt100
library scrolls (`Prints`) is external.

Proved (`ScrollViewsProofs`): both properties and `TypeOK`, for any daemons, rows, scrollback,
capacity, tail, letters and bounds.  Assumed are `ViewsAssumption` (at least one daemon, one row
and one line of a tail; `None` is no daemon), `CapacityAssumption` and `NoPane` (`None` is no
view).  The operators of `LineLogPane` come first: each keeps `Stands(p)`, that a view which
follows is at its end and that the match of a search is a line that matches; only
`ReplaceLines` changes lines, and it gives up the match.  Likewise each operator of the
emulator keeps `Scrolled(e)`, the position within the scrollback, and each search of the
terminal `Pictures`, that the snapshot is the emulator's screen.  The invariant of the
refresh is `Fetching`: a daemon is `Recent` when the last refresh went through, or the one
under way has fetched its log already; a recent daemon has a log, and if it is the selected one
the shown copy has the same lines.  This is what `ShownAsLabelled` lacks to be inductive: it
speaks of no state in the middle of a refresh.  TLC checked the whole of it (`IInv`) first.

## Promises that are not kept

Each is a definition of its module.  Adding it to the configuration, with the changed
constants, shows the trace.

| definition | configuration | what happens | promised in |
|---|---|---|---|
| `OneDaemonPerWorkspace` | `one_daemon` (a run) | two overlapping starts both pass the check for duplicates | README.md:358-360 |
| `StopEvidence` | `LifecycleTwo.cfg` | a stop's evidence is written over by an update that read `meta.json` before it | README.md:431 |
| `PurgeRemovesArtifacts` | `LifecycleLive.cfg` | nobody waits for the worker, and its writes create the purged directory anew | README.md:436 |
| `LiveRecordsPreserved` | `LifecyclePty.cfg`, `Daemon = FALSE`, `Kinds = {"purge"}`, `MaxHostCrashes = 2`, `MaxWorkerCrashes = 0` | a host crashes right after the launch; the next boot marks the session lost from a record without pids (reconcile.rs:98), and its stale copy drops the worker's pid that was recorded meanwhile; a purge takes `worker.json`; the worker then records its child alone, and a boot after a second crash marks the running session orphaned (reconcile.rs:84) | README.md:444 |
| `KillForcesDown` | `LifecyclePty.cfg`, `Pty = FALSE`, `Daemon = FALSE`, `Kinds = {"kill"}`, no crashes | `session.start` writes a stale copy over the child's pid; the kill of a pipe session then reaches its worker only | README.md:189 |
| | `LifecyclePty.cfg` with two handlers, `Daemon = FALSE`, `Kinds = {"stop", "kill"}`, no crashes | likewise for a PTY session: the SIGTERM of a stop ends the worker for want of a child's pid, and its socket with it; the kill then has the dead worker's pid only | |
| | `LifecyclePty.cfg` with five handlers, without stops, one host crash (too many states to search; the trace was found with the steps prescribed) | the boot marks the session lost from a record without pids, two archivals move its directory, a purge in between takes the archive, and a purge that began at the first one writes its stale record over the second, before a kill reads it | |
| `OneTypist` | `AttachLease.cfg` | the writer thread looks at `closed`, never at the owner, and `send_text` writes after it let go of the lock: both may type while another stream owns the input | docs/m2e-hardening-release-dogfood.md:205 |
| `RepairableIsArchived` | `SessionRecords.cfg` | an attention request that read the record before doctor archived it, or a worker that was called lost before it registered, writes it back beside the archive; doctor then reports a stale record as repairable, and its repair fails with "archive target already exists" | the report itself, doctor.rs:396-399 |
| `QueuedInputDelivered` | `AttachInput.cfg` | a Close that finds the queue full drops accepted input | the test at session_lifecycle.rs:1439 |
| `TerminalFileIsClear` | `AttachInput.cfg` | a persist that read `worker.json` before the exit was recorded restores a running record with an owner | README.md:426 |
| `StreamIsWhole` | `HostConnections.cfg` | frames that arrive with the answer are lost with its reader (client.rs:325), half a frame is lost when a key cancels `read_line` (client.rs:554) | README.md:528 |
| `CursorsAreMonotonic` | `HostConnections.cfg`, `MaxRecords = 3`, `ReplayLimits = {2}` | the notice of a replay has the cursor of the last event that follows it | docs/2026-07-09-batch-4-control-api.md:25 |
| `OverlayOwnedPaneRejects` | `Cockpit.cfg` | opening the palette or the help is not published, so `input.send` reaches the pane below | README.md:236-239 |
| `ContextIsShown` | `Cockpit.cfg` with daemons `d1`, `d3` and agents `a0`, `a1` at home and daemon `d2` elsewhere, `MaxLaunches = 1`, `MaxKeys = 0`, `MaxChanges = 6`, `MaxAll = 7`; of the steps only launch, refresh, and the start, end and archiving of sessions, from a state without context, `d3` or `a0` | daemons come and go, refreshes take the cockpit to another workspace and back, and the last one binds the first listed agent to the pane (app.rs:950-966) without publishing it (cockpit.rs:686-702), while the agent of the published context runs | docs/cockpit-pane-view-model.md:15 |

## Not modelled

* Protocol types, ids, errors: declarations; their frames are types of the modules above.
* Workspace identity and redaction: I/O and a string filter.
* Rendering, widths, the shell: they draw what `AppModel` and `ScrollViews` hold.
* The CLI's parsing and printing, `context_export`, `launch_env`: one request and its
  formatted answer.
* Handlers that only read (list, status, screen, `ui.context.get`, attention list, doctor's
  other checks): a read of whole files, of which each is replaced atomically.
* Permissions, fsync, reuse of pids, EPERM; the line scrollback and the restoration of a
  ring (see the plan above).

## Only model-checked

* Liveness, out of the prover's reach: `RequestsAnswered`, `ExitRecorded`,
  `HangupReleases`, `DropsAreAnnounced`, `EndedSessionClosesStreams`,
  `AbandonedSubscriptionEnds`, `LeavingReleasesProxy`, `SpawnLeadsToServer`.
