---------------------------- MODULE AttachControl ----------------------------
(***************************************************************************)
(* The control server of a PTY worker: who is attached, who owns the PTY's *)
(* input, what reaches the PTY, and the copy of that in worker.json.       *)
(*                                                                         *)
(* ControlState is behind a mutex, so an operation on it is one step.      *)
(* What the code does after it released the mutex is another step:         *)
(* persisting the state (a read and a rename of worker.json), queueing an  *)
(* input, writing to the PTY.  Every attach has three threads: the         *)
(* connection, the reader of the client's frames and the writer of its     *)
(* input.  A frame of input is one chunk (ATTACH_INPUT_WRITE_CHUNK) long.  *)
(***************************************************************************)
EXTENDS Naturals, Sequences, FiniteSets

CONSTANTS
  Streams,       \* stream ids; the host makes one per attach and never reuses it
  Senders,       \* one-shot send requests
  NoStream,      \* no owner
  QueueCapacity, \* ATTACH_INPUT_QUEUE_CAPACITY
  MaxAccepted,   \* ATTACH_INPUT_MAX_TOTAL_BYTES, in frames
  MaxFrames,     \* bound on the frames a client sends
  MaxActing,     \* bound on the clients that send frames, senders and host that act
  Updates        \* the other updates of worker.json that take place

ASSUME ControlAssumption ==
  /\ IsFiniteSet(Streams) /\ NoStream \notin Streams
  /\ QueueCapacity \in Nat \ {0} /\ MaxAccepted \in Nat /\ MaxFrames \in Nat
  /\ MaxActing \in Nat
  /\ Updates \subseteq {"running", "exit", "stop", "kill"}
  /\ Streams \cap {"main", "host"} = {}

VARIABLES
  control,  \* ControlState
  conn,     \* the connection thread of each attach, and its client
  input,    \* the reader and writer threads of each attach, and their queue
  send,     \* one-shot senders
  main,     \* the worker's main thread
  host,     \* the host's update of the session
  file,     \* worker.json
  update,   \* each writer of worker.json: the copy it read, the state it was told
  typed     \* what was accepted, or written to the PTY, too late

vars == <<control, conn, input, send, main, host, file, update, typed>>

Owners   == Streams \cup {NoStream}
Updaters == Streams \cup {"main", "host"}

AttachState == [clients : 0 .. Cardinality(Streams), owner : Owners]
File == [state : {"starting", "running", "terminal"},
         clients : 0 .. Cardinality(Streams), owner : Owners, there : BOOLEAN]
NoAttach == [clients |-> 0, owner |-> NoStream]
NoUpdate == [read |-> FALSE, told |-> NoAttach,
             copy |-> [state |-> "starting", clients |-> 0, owner |-> NoStream, there |-> TRUE]]

Persisting == {"persist", "undo", "unpersist"}
\* The stages in which the stream is in the attach table.
Held == {"persist", "resize", "respond", "serve", "drain", "release"}
ConnStages == Held \cup {"idle", "refused", "undo", "unpersist", "closed"}

Conn  == [stage : ConnStages, readonly : BOOLEAN, client : {"on", "gone"},
          frames : 0 .. MaxFrames, drained : BOOLEAN]
Input == [reader : {"off", "reading", "checked", "done"},
          writer : {"off", "waiting", "typing", "done"},
          queue : Seq({"input", "resize", "close"}), closed : BOOLEAN,
          ended : {"no", "frame", "full", "eof"},
          accepted : 0 .. MaxAccepted, typed : Nat, failed : Nat, dropped : Nat]

TypeOK ==
  /\ control \in [owner : Owners, attaches : SUBSET Streams]
  /\ conn \in [Streams -> Conn]
  /\ input \in [Streams -> Input]
  /\ \A s \in Streams : Len(input[s].queue) <= QueueCapacity
  /\ send \in [Senders -> [stage : {"idle", "allowed", "done"}, claim : Owners]]
  /\ main \in {"starting", "recording", "running", "exiting", "recorded", "dead"}
  /\ host \in {"idle", "stop", "kill", "killed", "done"}
  /\ file \in File
  /\ update \in [Updaters -> [read : BOOLEAN, told : AttachState, copy : File]]
  /\ typed \in [late : [Streams -> Nat], closed : [Streams -> Nat], stray : SUBSET {"attach", "send"}]

Init ==
  /\ control = [owner |-> NoStream, attaches |-> {}]
  /\ conn \in [Streams -> {[stage |-> "idle", readonly |-> r, client |-> "on",
                            frames |-> 0, drained |-> FALSE] : r \in BOOLEAN}]
  /\ input = [s \in Streams |-> [reader |-> "off", writer |-> "off", queue |-> <<>>,
                closed |-> FALSE, ended |-> "no", accepted |-> 0, typed |-> 0,
                failed |-> 0, dropped |-> 0]]
  /\ send = [q \in Senders |-> [stage |-> "idle", claim |-> NoStream]]
  /\ main = (IF "running" \in Updates THEN "starting" ELSE "running") /\ host = "idle"
  /\ file = NoUpdate.copy
  /\ update = [u \in Updaters |-> NoUpdate]
  /\ typed = [late |-> [s \in Streams |-> 0], closed |-> [s \in Streams |-> 0], stray |-> {}]

-----------------------------------------------------------------------------
\* Helpers.

Up == main # "dead"
At(s, stage) == Up /\ conn[s].stage = stage
Enter(s, stage) == conn' = [conn EXCEPT ![s] = [conn[s] EXCEPT !.stage = stage]]

\* Mutant: release_attach forgets to free the input.
WithoutKeepsOwner(s) == [control EXCEPT !.attaches = control.attaches \ {s}]
Without(s) ==
  [owner |-> IF control.owner = s THEN NoStream ELSE control.owner,
   attaches |-> control.attaches \ {s}]
Attached(c) == [clients |-> Cardinality(c.attaches), owner |-> c.owner]
Tell(s, c) == update' = [update EXCEPT ![s] = [NoUpdate EXCEPT !.told = Attached(c)]]

\* send_is_allowed
Allowed(claim) == control.owner = claim

Rest == <<send, main, host, typed>>
Threads == <<input, file, Rest>>

-----------------------------------------------------------------------------
\* acquire_attach and release_attach, with the persist that follows each.

Acquire(s) ==
  /\ At(s, "idle")
  /\ \/ /\ conn[s].readonly \/ control.owner = NoStream
        /\ LET c == [owner |-> IF conn[s].readonly THEN control.owner ELSE s,
                     attaches |-> control.attaches \cup {s}]
           IN control' = c /\ Tell(s, c)
        /\ Enter(s, "persist")
     \/ /\ ~conn[s].readonly /\ control.owner # NoStream
        /\ Enter(s, "refused") /\ UNCHANGED <<control, update>>
  /\ UNCHANGED Threads

PersistReads(s) ==
  /\ Up /\ conn[s].stage \in Persisting /\ ~update[s].read /\ file.there
  /\ update' = [update EXCEPT ![s] = [update[s] EXCEPT !.read = TRUE, !.copy = file]]
  /\ UNCHANGED <<control, conn, Threads>>

\* The directory is created again when it is gone.
PersistWrites(s) ==
  /\ Up /\ conn[s].stage \in Persisting /\ update[s].read
  /\ file' = [state |-> update[s].copy.state, clients |-> update[s].told.clients,
              owner |-> update[s].told.owner, there |-> TRUE]
  /\ Enter(s, CASE conn[s].stage = "persist" -> "resize"
                [] conn[s].stage = "undo"    -> "refused"
                [] OTHER                     -> "closed")
  /\ update' = [update EXCEPT ![s] = NoUpdate]
  /\ UNCHANGED <<control, input, Rest>>

\* Without a worker.json the attach is taken back.
PersistFails(s) ==
  /\ Up /\ conn[s].stage \in Persisting /\ ~update[s].read /\ ~file.there
  /\ IF conn[s].stage = "persist"
       THEN Enter(s, "undo") /\ control' = Without(s) /\ Tell(s, Without(s))
       ELSE /\ Enter(s, IF conn[s].stage = "undo" THEN "refused" ELSE "closed")
            /\ update' = [update EXCEPT ![s] = NoUpdate] /\ UNCHANGED control
  /\ UNCHANGED Threads

-----------------------------------------------------------------------------
\* handle_observe_attach: the connection thread.

Resized(s) == At(s, "resize") /\ Enter(s, "respond") /\ UNCHANGED <<control, update, Threads>>

\* Mutant: the early return skips release_attach.
ResizeFailsKeepsAttach(s) ==
  At(s, "resize") /\ Enter(s, "refused") /\ UNCHANGED <<control, update, Threads>>
ResizeFails(s) ==
  /\ At(s, "resize")
  /\ control' = Without(s) /\ Tell(s, Without(s)) /\ Enter(s, "undo")
  /\ UNCHANGED Threads

\* The response and the start of the threads; the initial replay is part of
\* serving, for all that is told apart here.
Respond(s) ==
  /\ At(s, "respond")
  /\ Enter(s, "serve")
  /\ input' = [input EXCEPT ![s] = [input[s] EXCEPT !.reader = "reading", !.writer = "waiting"]]
  /\ UNCHANGED <<control, update, file, Rest>>

\* A write to the client fails or times out, or the observer lagged too far and
\* was dropped: the connection thread gives up.  Its other threads go on.
GivesUp(s) ==
  /\ \E stage \in {"respond", "serve"} : At(s, stage)
  /\ Enter(s, "release")
  /\ UNCHANGED <<control, update, Threads>>

ReaderDone(s) ==
  /\ At(s, "serve") /\ input[s].reader = "done"
  /\ Enter(s, "drain")
  /\ UNCHANGED <<control, update, Threads>>

\* Mutant: the reader's end is taken for the writer's.
DrainedTooEarly(s) ==
  /\ At(s, "drain")
  /\ conn' = [conn EXCEPT ![s] = [conn[s] EXCEPT !.stage = "release", !.drained = TRUE]]
  /\ UNCHANGED <<control, update, Threads>>
Drained(s) ==
  /\ At(s, "drain") /\ input[s].writer = "done"
  /\ conn' = [conn EXCEPT ![s] = [conn[s] EXCEPT !.stage = "release", !.drained = TRUE]]
  /\ UNCHANGED <<control, update, Threads>>

\* ATTACH_INPUT_DRAIN_TIMEOUT
DrainTimesOut(s) ==
  /\ At(s, "drain") /\ input[s].writer # "done"
  /\ Enter(s, "release")
  /\ input' = [input EXCEPT ![s] = [input[s] EXCEPT !.closed = TRUE]]
  /\ UNCHANGED <<control, update, file, Rest>>

Release(s) ==
  /\ At(s, "release")
  /\ control' = Without(s) /\ Tell(s, Without(s)) /\ Enter(s, "unpersist")
  /\ UNCHANGED Threads

-----------------------------------------------------------------------------
\* The bound MaxActing: those outside the worker that sent a frame or a text, or
\* changed the session, and whether one more may.
Acting == {s \in Streams : conn[s].frames > 0} \cup {q \in Senders : send[q].stage # "idle"}
            \cup {h \in {"host"} : host # "idle"}
MayAct(a) == Cardinality(Acting \ {a}) < MaxActing

\* read_attach_input_loop: the reader thread.

Reading(s) == Up /\ input[s].reader = "reading"
FrameArrives(s) ==
  /\ Reading(s) /\ conn[s].client = "on" /\ conn[s].frames < MaxFrames /\ MayAct(s)
  /\ conn' = [conn EXCEPT ![s] = [conn[s] EXCEPT !.frames = conn[s].frames + 1]]
  /\ UNCHANGED <<control, update, file, Rest>>

\* Mutant: who attached for writing is not asked again.
ReadInputUnasked(s) ==
  /\ FrameArrives(s)
  /\ IF ~conn[s].readonly
       THEN input' = [input EXCEPT ![s] = [input[s] EXCEPT !.reader = "checked"]]
       ELSE UNCHANGED input
\* Ownership is checked under the lock; the frame is queued after it.
ReadInput(s) ==
  /\ FrameArrives(s)
  /\ IF Allowed(s)
       THEN input' = [input EXCEPT ![s] = [input[s] EXCEPT !.reader = "checked"]]
       ELSE UNCHANGED input

HasRoom(s) == Len(input[s].queue) < QueueCapacity
Queue(s, command, thread) ==
  input' = [input EXCEPT ![s] = [thread EXCEPT !.queue = Append(input[s].queue, command)]]

\* queue_attach_input_bytes: the total budget, then the queue.  It is late when
\* the stream's ownership went after the check.
QueueInput(s) ==
  /\ Up /\ input[s].reader = "checked"
  /\ IF input[s].accepted < MaxAccepted /\ HasRoom(s)
       THEN /\ Queue(s, "input", [input[s] EXCEPT !.reader = "reading",
                                                  !.accepted = input[s].accepted + 1])
            /\ typed' = [typed EXCEPT !.late =
                 IF Allowed(s) THEN typed.late
                               ELSE [typed.late EXCEPT ![s] = typed.late[s] + 1]]
       ELSE /\ input' = [input EXCEPT ![s] = [input[s] EXCEPT !.reader = "reading"]]
            /\ UNCHANGED typed
  /\ UNCHANGED <<control, conn, update, file, send, main, host>>

ReadResize(s) ==
  /\ FrameArrives(s)
  /\ IF HasRoom(s) THEN Queue(s, "resize", input[s]) ELSE UNCHANGED input

ReadClose(s) ==
  /\ FrameArrives(s)
  /\ IF HasRoom(s)
       THEN Queue(s, "close", [input[s] EXCEPT !.reader = "done", !.ended = "frame"])
       ELSE input' = [input EXCEPT ![s] = [input[s] EXCEPT !.reader = "done",
                                             !.ended = "full", !.closed = TRUE]]

\* Mutant: the reader does not leave its loop.
ReadEofStays(s) ==
  /\ Reading(s) /\ conn[s].client = "gone"
  /\ input' = [input EXCEPT ![s] = [input[s] EXCEPT !.ended = "eof", !.closed = TRUE]]
  /\ UNCHANGED <<control, conn, update, file, Rest>>
ReadEof(s) ==
  /\ Reading(s) /\ conn[s].client = "gone"
  /\ input' = [input EXCEPT ![s] =
       [input[s] EXCEPT !.reader = "done", !.ended = "eof", !.closed = TRUE]]
  /\ UNCHANGED <<control, conn, update, file, Rest>>

ClientHangsUp(s) ==
  /\ conn[s].client = "on" /\ conn[s].stage \notin {"idle", "refused", "undo"}
  /\ input[s].reader # "done"
  /\ conn' = [conn EXCEPT ![s] = [conn[s] EXCEPT !.client = "gone"]]
  /\ UNCHANGED <<control, update, Threads>>

-----------------------------------------------------------------------------
\* write_attach_input_loop: the writer thread.

\* Mutant: closed is not looked at.
TakeCommandThoughClosed(s) ==
  /\ Up /\ input[s].writer = "waiting" /\ input[s].queue # <<>>
  /\ LET rest == [input[s] EXCEPT !.queue = Tail(input[s].queue)]
         command == Head(input[s].queue)
     IN input' = [input EXCEPT ![s] =
          CASE command = "input" -> [rest EXCEPT !.writer = "typing"]
            [] command = "close" -> [rest EXCEPT !.writer = "done", !.closed = TRUE]
            [] OTHER             -> rest]
  /\ UNCHANGED <<control, conn, update, file, Rest>>
\* A command taken from the queue; input is dropped once the stream is closed.
TakeCommand(s) ==
  /\ Up /\ input[s].writer = "waiting" /\ input[s].queue # <<>>
  /\ LET rest == [input[s] EXCEPT !.queue = Tail(input[s].queue)]
         command == Head(input[s].queue)
     IN input' = [input EXCEPT ![s] =
          CASE command = "input" -> IF input[s].closed
                                      THEN [rest EXCEPT !.dropped = rest.dropped + 1]
                                      ELSE [rest EXCEPT !.writer = "typing"]
            [] command = "close" -> [rest EXCEPT !.writer = "done", !.closed = TRUE]
            [] OTHER             -> rest]
  /\ UNCHANGED <<control, conn, update, file, Rest>>

\* Someone writes to the PTY although a stream that is not theirs owns it.
StrayIf(who, owners) ==
  IF control.owner \in owners \cup {NoStream} THEN typed.stray ELSE typed.stray \cup {who}

\* The PTY takes the bytes, now or much later: the child reads when it likes.
TypeInput(s) ==
  /\ Up /\ input[s].writer = "typing"
  /\ input' = [input EXCEPT ![s] =
       [input[s] EXCEPT !.writer = "waiting", !.typed = input[s].typed + 1]]
  /\ typed' = [late   |-> typed.late,
               closed |-> IF input[s].closed
                            THEN [typed.closed EXCEPT ![s] = typed.closed[s] + 1]
                            ELSE typed.closed,
               stray  |-> StrayIf("attach", {s})]
  /\ UNCHANGED <<control, conn, update, file, send, main, host>>

\* A write that the PTY refuses is reported to the client; the writer goes on.
TypingFails(s) ==
  /\ Up /\ input[s].writer = "typing"
  /\ input' = [input EXCEPT ![s] =
       [input[s] EXCEPT !.writer = "waiting", !.failed = input[s].failed + 1]]
  /\ UNCHANGED <<control, conn, update, file, Rest>>

WriterEnds(s) ==
  /\ Up /\ input[s].writer = "waiting" /\ input[s].queue = <<>> /\ input[s].reader = "done"
  /\ input' = [input EXCEPT ![s] = [input[s] EXCEPT !.writer = "done"]]
  /\ UNCHANGED <<control, conn, update, file, Rest>>

-----------------------------------------------------------------------------
\* send_text: a one-shot send, with the owner the client names.

Sent == [stage |-> "done", claim |-> NoStream]
SendChecks(q) ==
  /\ Up /\ send[q].stage = "idle" /\ MayAct(q)
  /\ \E claim \in Owners :
       send' = [send EXCEPT ![q] = IF Allowed(claim) THEN [stage |-> "allowed", claim |-> claim]
                                                     ELSE Sent]
  /\ UNCHANGED <<control, conn, input, main, host, file, update, typed>>

SendTypes(q) ==
  /\ Up /\ send[q].stage = "allowed"
  /\ send' = [send EXCEPT ![q] = Sent]
  /\ typed' = [typed EXCEPT !.stray = StrayIf("send", {send[q].claim})]
  /\ UNCHANGED <<control, conn, input, main, host, file, update>>

-----------------------------------------------------------------------------
\* The other writers of worker.json: the worker's exit, the host's requests.

Reads(u) ==
  /\ ~update[u].read /\ file.there
  /\ update' = [update EXCEPT ![u] = [update[u] EXCEPT !.read = TRUE, !.copy = file]]
Writes(u, f) ==
  /\ update[u].read
  /\ file' = f /\ update' = [update EXCEPT ![u] = NoUpdate]
Cleared(f) == [f EXCEPT !.state = "terminal", !.clients = 0, !.owner = NoStream]

\* record_running, when the control server is up already.
RunningReads ==
  /\ main = "starting" /\ main' = "recording" /\ Reads("main")
  /\ UNCHANGED <<control, conn, input, send, host, file, typed>>

RunningWrites ==
  /\ main = "recording" /\ main' = "running"
  /\ Writes("main", [update["main"].copy EXCEPT !.state = "running"])
  /\ UNCHANGED <<control, conn, input, send, host, typed>>

\* The child ended: record_process_exit.
ExitReads ==
  /\ main = "running" /\ "exit" \in Updates /\ main' = "exiting" /\ Reads("main")
  /\ UNCHANGED <<control, conn, input, send, host, file, typed>>

ExitWrites ==
  /\ main = "exiting" /\ main' = "recorded"
  /\ Writes("main", Cleared(update["main"].copy))
  /\ UNCHANGED <<control, conn, input, send, host, typed>>

\* Without a worker.json there is nothing to update; without a meta.json the
\* worker gives up.
UpdateSkipped ==
  /\ main = "starting" \/ (main = "running" /\ "exit" \in Updates)
  /\ ~file.there
  /\ main' \in {IF main = "starting" THEN "running" ELSE "recorded", "dead"}
  /\ UNCHANGED <<control, conn, input, send, host, file, update, typed>>

\* The process ends, and every thread with it.
ProcessEnds ==
  /\ main = "recorded" /\ main' = "dead"
  /\ UNCHANGED <<control, conn, input, send, host, file, update, typed>>

HostReads ==
  /\ host = "idle" /\ MayAct("host") /\ host' \in Updates \cap {"stop", "kill"} /\ Reads("host")
  /\ UNCHANGED <<control, conn, input, send, main, file, typed>>

HostWrites ==
  /\ host \in {"stop", "kill"}
  /\ host' = IF host = "kill" THEN "killed" ELSE "done"
  /\ Writes("host", IF host = "kill" THEN Cleared(update["host"].copy)
                                     ELSE update["host"].copy)
  /\ UNCHANGED <<control, conn, input, send, main, typed>>

\* delete --kill: the session's directory goes away.
HostDeletes ==
  /\ host = "killed" /\ host' = "done"
  /\ file' = [file EXCEPT !.there = FALSE]
  /\ UNCHANGED <<control, conn, input, send, main, update, typed>>

-----------------------------------------------------------------------------
Connection(s) ==
  \/ PersistReads(s) \/ PersistWrites(s) \/ PersistFails(s)
  \/ Resized(s) \/ Respond(s) \/ ReaderDone(s)
  \/ Drained(s) \/ DrainTimesOut(s) \/ Release(s)
Reader(s) == QueueInput(s) \/ ReadEof(s)
Writer(s) == TakeCommand(s) \/ WriterEnds(s)
Client(s) == \/ Acquire(s) \/ ReadInput(s) \/ ReadResize(s) \/ ReadClose(s)
             \/ ClientHangsUp(s)
Environment(s) == GivesUp(s) \/ ResizeFails(s) \/ TypeInput(s) \/ TypingFails(s)
Main == \/ RunningReads \/ RunningWrites \/ ExitReads \/ ExitWrites
        \/ UpdateSkipped \/ ProcessEnds
Host == HostReads \/ HostWrites \/ HostDeletes

Next ==
  \/ \E s \in Streams : Connection(s) \/ Reader(s) \/ Writer(s) \/ Client(s) \/ Environment(s)
  \/ \E q \in Senders : SendChecks(q) \/ SendTypes(q)
  \/ Main \/ Host

Spec == Init /\ [][Next]_vars

\* Every thread of the worker is scheduled.  Nothing is assumed of clients, of
\* the child (which may never read what is typed), of failures or of the host.
Fairness ==
  \A s \in Streams : WF_vars(Connection(s)) /\ WF_vars(Reader(s)) /\ WF_vars(Writer(s))
FairSpec == Spec /\ Fairness

-----------------------------------------------------------------------------
\* What the clients are promised (control.rs, ControlState and the attach loop).

\* A writable stream owns the input for as long as it is in the attach table and
\* nobody else ever does; every way out of the attach, the failed ones too, takes
\* the stream out of the table (InputReleaseGuard, the rollbacks).
Writable(s) == conn[s].stage \in Held /\ ~conn[s].readonly
OwnerIsAttached ==
  /\ control.attaches = {s \in Streams : conn[s].stage \in Held}
  /\ \A s \in Streams : Writable(s) <=> control.owner = s

\* The same towards the abstract lease: grants, refusals and departures are the
\* only steps a client can see.
RoleOf(s) ==
  CASE conn[s].stage = "idle" -> "waiting"
    [] conn[s].stage \in Held -> IF conn[s].readonly THEN "watching" ELSE "holding"
    [] OTHER                  -> "gone"
Role == [s \in Streams |-> RoleOf(s)]
Lease == INSTANCE InputLease WITH role <- Role
LeaseSpec == Lease!Spec

\* Input is accepted from a stream that does not own the PTY's input at most once:
\* the frame that was being queued when its connection gave the attach up, whoever
\* owns the input by then.  Ownership is asked for frame by frame, in a thread that
\* the connection does not wait for (handle_attach_input_line).  A read-only stream
\* never owned it, and gets nothing in.
LateInputAtMostOne ==
  \A s \in Streams : typed.late[s] <= IF conn[s].readonly THEN 0 ELSE 1

\* An attach that drained in time accounts for all the input it had accepted before
\* its ownership goes: typed, reported as refused by the PTY, or dropped because
\* the stream was closed.  Behind a Close frame that was queued nothing is dropped;
\* a Close that found the queue full, or a hangup, costs a queue of frames at most
\* (write_attach_input_loop, the Close arm of handle_attach_input_line).
DeliveredBeforeRelease ==
  \A s \in Streams : conn[s].drained =>
    /\ input[s].typed + input[s].failed + input[s].dropped = input[s].accepted
    /\ input[s].ended = "frame" => input[s].dropped = 0
    /\ input[s].dropped <= QueueCapacity

\* After a stream is closed at most the chunk that was on its way is still typed,
\* however much is queued (write_pty_bytes_cancellable).
ClosedTypesAtMostOne == \A s \in Streams : typed.closed[s] <= 1

\* A client that hung up, at whatever point of its attach, is released: the input
\* is free again although the child may never read.
HangupReleases ==
  \A s \in Streams :
    (conn[s].client = "gone" /\ s \in control.attaches) ~> (s \notin control.attaches \/ ~Up)

-----------------------------------------------------------------------------
\* What the documents and tests say and the code does not keep.

\* "one read/write input owner [...] rejected non-owner input"
\* (docs/m2e-hardening-release-dogfood.md:205): what a stream had queued is still
\* typed after it gave up and another stream became the owner, and a one-shot
\* send that was allowed is typed whoever owns the input by then.
OneTypist == typed.stray = {}

\* attach_stream_delivers_queued_input_before_close_release (the test at
\* session_lifecycle.rs:1439): a Close that finds the queue full drops it.
QueuedInputDelivered ==
  \A s \in Streams :
    conn[s].drained /\ input[s].ended \in {"frame", "full"} => input[s].dropped = 0

\* "lifecycle paths clear those fields for terminal records" (README.md:426): a
\* persist that read worker.json before the exit was recorded writes it back.
TerminalFileIsClear ==
  ~Up /\ host = "idle" /\ file.there
    => file.state = "terminal" /\ file.owner = NoStream /\ file.clients = 0
=============================================================================
