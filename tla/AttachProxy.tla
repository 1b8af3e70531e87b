------------------------------ MODULE AttachProxy ------------------------------
(***************************************************************************)
(* One attach between its client and its worker: the client connects to    *)
(* the host, the host opens the stream at the worker, records it, and then *)
(* copies lines both ways until one side is through.                       *)
(*                                                                         *)
(* A frame from the worker reaches the client as two writes, its text and  *)
(* its newline; so a frame under way to the client is two pieces.  A line  *)
(* of the client may arrive in parts as well, and the host's reader keeps  *)
(* the part it has.  The worker's end is AttachControl seen from outside.  *)
(***************************************************************************)
EXTENDS Naturals, Sequences

CONSTANTS
  Clients,   \* the connections
  MaxLines,  \* bound on the lines a client types
  MaxFrames, \* bound on the frames a worker sends before Closed
  Capacity   \* of a socket's buffer, in lines or, towards or from the client, in pieces

ASSUME ProxyAssumption ==
  MaxLines \in Nat /\ MaxFrames \in Nat /\ Capacity \in Nat \ {0, 1}

VARIABLES
  proxy,  \* the host's task
  client, \* the client
  worker, \* the worker's end of the stream
  pipe    \* what is under way in each direction

proxyVars == <<proxy, client, worker, pipe>>

Closed == 0                       \* AttachStreamFrame::Closed
Frames == 0 .. MaxFrames
Response == MaxFrames + 1         \* the answer to session.attach
Pieces == [frame : 0 .. MaxFrames + 1, piece : {"text", "newline"}]
Newline == 0                      \* of a client's line, whose text is its number

Proxy ==
  [stage : {"none", "opening", "record", "answer", "relay", "text", "newline", "drain", "done"},
   half : 0 .. MaxLines, hand : Frames, opened : BOOLEAN, closed : BOOLEAN, timedOut : BOOLEAN, failed : BOOLEAN,
   shut : BOOLEAN]
Client ==
  [stage : {"waiting", "looping", "typing", "midline", "ended", "broken"},
   typed : 0 .. MaxLines, got : Seq(Frames), hand : {<<>>} \cup {<<n>> : n \in Frames}]
Worker ==
  [stage : {"asked", "attached", "closed", "dead"}, sent : 0 .. MaxFrames, took : Seq(1 .. MaxLines)]
Pipe ==
  [toHost : Seq(0 .. MaxLines), toWorker : Seq(1 .. MaxLines),
   fromWorker : Seq(Frames), toClient : Seq(Pieces), reset : BOOLEAN]

ProxyTypeOK ==
  /\ proxy \in [Clients -> Proxy] /\ client \in [Clients -> Client]
  /\ worker \in [Clients -> Worker] /\ pipe \in [Clients -> Pipe]

ProxyInit ==
  /\ proxy = [c \in Clients |->
       [stage |-> "none", half |-> 0, hand |-> 0, opened |-> FALSE, closed |-> FALSE,
        timedOut |-> FALSE, failed |-> FALSE, shut |-> FALSE]]
  /\ client = [c \in Clients |->
       [stage |-> "waiting", typed |-> 0, got |-> <<>>, hand |-> <<>>]]
  /\ worker = [c \in Clients |-> [stage |-> "asked", sent |-> 0, took |-> <<>>]]
  /\ pipe = [c \in Clients |->
       [toHost |-> <<>>, toWorker |-> <<>>, fromWorker |-> <<>>, toClient |-> <<>>,
        reset |-> FALSE]]

Gone(c) == client[c].stage \in {"ended", "broken"}
At(c, stage) == proxy[c].stage = stage
ProxyGoes(c, stage) == proxy' = [proxy EXCEPT ![c].stage = stage]
HostAlone == UNCHANGED <<client, worker>>

-----------------------------------------------------------------------------
\* The host's task: open_worker_attach, then proxy_attach_stream.

\* resolve_running_session fails, the capability is missing or the worker does not answer.
RefuseAttach(c) ==
  /\ At(c, "opening") /\ worker[c].stage \in {"asked", "dead"}
  /\ ProxyGoes(c, "done") /\ HostAlone
  /\ UNCHANGED pipe

RecordOpened(c) ==
  /\ At(c, "record")
  /\ proxy' = [proxy EXCEPT ![c].stage = "answer", ![c].opened = TRUE]
  /\ HostAlone /\ UNCHANGED pipe

\* The event cannot be appended: the worker's stream is dropped, the client told.
RecordFails(c) ==
  /\ At(c, "record")
  /\ proxy' = [proxy EXCEPT ![c].stage = "done", ![c].shut = TRUE, ![c].failed = TRUE]
  /\ HostAlone /\ UNCHANGED pipe

\* A client that is gone when the answer is written is drained at once.
Answer(c) ==
  /\ At(c, "answer") /\ HostAlone
  /\ IF Gone(c)
     THEN proxy' = [proxy EXCEPT ![c].stage = "drain", ![c].shut = TRUE] /\ UNCHANGED pipe
     ELSE /\ ProxyGoes(c, "relay")
          /\ pipe' = [pipe EXCEPT ![c].toClient = <<[frame |-> Response, piece |-> "newline"]>>]

WorkerReads(c) == worker[c].stage = "attached"

\* Part of a line is in: Lines holds it, and goes on holding it when select! drops the read.
ReadHalf(c) ==
  /\ At(c, "relay") /\ pipe[c].toHost # <<>> /\ Head(pipe[c].toHost) # Newline /\ HostAlone
  /\ proxy' = [proxy EXCEPT ![c].half = Head(pipe[c].toHost)]
  /\ pipe' = [pipe EXCEPT ![c].toHost = Tail(@)]

\* A line is written to the worker.  Without its beginning it is no frame, and the worker
\* answers it with an error; a worker that is gone means its output is drained.
PassLine(c, frames, rest) ==
  /\ HostAlone
  /\ IF WorkerReads(c)
     THEN /\ Len(pipe[c].toWorker) < Capacity
          /\ \E line \in frames :
               pipe' = [pipe EXCEPT ![c].toHost = rest,
                          ![c].toWorker = IF line = 0 THEN @ ELSE Append(@, line)]
          /\ proxy' = [proxy EXCEPT ![c].half = 0]
     ELSE /\ proxy' = [proxy EXCEPT ![c].stage = "drain", ![c].half = 0]
          /\ pipe' = [pipe EXCEPT ![c].toHost = rest]

RelayInput(c) ==
  /\ At(c, "relay") /\ pipe[c].toHost # <<>> /\ Head(pipe[c].toHost) = Newline
  /\ PassLine(c, {proxy[c].half}, Tail(pipe[c].toHost))

\* The client ended within a line: what there is of it is the last line, and is a frame
\* when only the newline is missing.
RelayCutLine(c) ==
  /\ At(c, "relay") /\ pipe[c].toHost = <<>> /\ Gone(c) /\ ~pipe[c].reset
  /\ proxy[c].half # 0
  /\ PassLine(c, {0, proxy[c].half}, <<>>)

\* Mutant: the end of the input is not told from a line that is still to come.
RelayEndOfInputReset(c) ==
  /\ At(c, "relay") /\ pipe[c].toHost = <<>> /\ Gone(c) /\ HostAlone
  /\ pipe[c].reset
  /\ proxy' = [proxy EXCEPT ![c].stage = "done", ![c].shut = TRUE, ![c].failed = TRUE]
  /\ UNCHANGED pipe

\* The client has closed: read cleanly the proxy shuts the worker's stream and drains it,
\* read as a reset it gives up at once.
RelayEndOfInput(c) ==
  /\ At(c, "relay") /\ pipe[c].toHost = <<>> /\ Gone(c) /\ HostAlone
  /\ IF pipe[c].reset
     THEN proxy' = [proxy EXCEPT ![c].stage = "done", ![c].shut = TRUE, ![c].failed = TRUE]
     ELSE /\ proxy[c].half = 0
          /\ proxy' = [proxy EXCEPT ![c].stage = "drain", ![c].shut = TRUE]
  /\ UNCHANGED pipe

\* Mutant: the frame that was read is still in the buffer of the next one.
RelayOutputAgain(c) ==
  /\ At(c, "relay") /\ pipe[c].fromWorker # <<>> /\ HostAlone
  /\ proxy' = [proxy EXCEPT ![c].stage = "text", ![c].hand = Head(pipe[c].fromWorker)]
  /\ UNCHANGED pipe

\* Mutant: the read of the input that is dropped takes its part of a line with it.
RelayOutputForgets(c) ==
  /\ At(c, "relay") /\ pipe[c].fromWorker # <<>> /\ HostAlone
  /\ proxy' = [proxy EXCEPT ![c].stage = "text", ![c].hand = Head(pipe[c].fromWorker),
                            ![c].half = 0]
  /\ pipe' = [pipe EXCEPT ![c].fromWorker = Tail(@)]

RelayOutput(c) ==
  /\ At(c, "relay") /\ pipe[c].fromWorker # <<>> /\ HostAlone
  /\ proxy' = [proxy EXCEPT ![c].stage = "text", ![c].hand = Head(pipe[c].fromWorker)]
  /\ pipe' = [pipe EXCEPT ![c].fromWorker = Tail(@)]

\* record_attach_closed
Close(c) == proxy' = [proxy EXCEPT ![c].stage = "done", ![c].closed = TRUE, ![c].shut = TRUE]

WorkerEnded(c) == pipe[c].fromWorker = <<>> /\ worker[c].stage \in {"closed", "dead"}

RelayEndOfOutput(c) ==
  /\ At(c, "relay") /\ WorkerEnded(c) /\ Close(c) /\ HostAlone /\ UNCHANGED pipe

\* write_all waits for room in the client's socket; neither direction moves meanwhile.
WritePiece(c, piece, next) ==
  /\ At(c, piece) /\ ~Gone(c) /\ Len(pipe[c].toClient) < Capacity
  /\ pipe' = [pipe EXCEPT
       ![c].toClient = Append(@, [frame |-> proxy[c].hand, piece |-> piece])]
  /\ HostAlone
  /\ IF next = "relay" /\ proxy[c].hand = Closed THEN Close(c) ELSE ProxyGoes(c, next)

WriteText(c) == WritePiece(c, "text", "newline")
WriteNewline(c) == WritePiece(c, "newline", "relay")

WriteToGone(c) ==
  /\ proxy[c].stage \in {"text", "newline"} /\ Gone(c)
  /\ IF proxy[c].hand = Closed THEN Close(c)
     ELSE proxy' = [proxy EXCEPT ![c].stage = "drain", ![c].shut = TRUE]
  /\ HostAlone /\ UNCHANGED pipe

\* Mutant: any frame counts for the last one.
DrainOne(c) ==
  /\ At(c, "drain") /\ pipe[c].fromWorker # <<>> /\ HostAlone
  /\ Close(c)
  /\ pipe' = [pipe EXCEPT ![c].fromWorker = Tail(@)]

\* drain_worker_attach_close: up to Closed or the end, or until the worker is silent for
\* DEFAULT_STOP_GRACE.
Drain(c) ==
  /\ At(c, "drain") /\ pipe[c].fromWorker # <<>> /\ HostAlone
  /\ IF Head(pipe[c].fromWorker) = Closed THEN Close(c) ELSE UNCHANGED proxy
  /\ pipe' = [pipe EXCEPT ![c].fromWorker = Tail(@)]

DrainEnds(c) ==
  /\ At(c, "drain") /\ WorkerEnded(c) /\ Close(c) /\ HostAlone /\ UNCHANGED pipe

DrainTimesOut(c) ==
  /\ At(c, "drain") /\ pipe[c].fromWorker = <<>> /\ ~WorkerEnded(c)
  /\ proxy' = [proxy EXCEPT ![c].stage = "done", ![c].timedOut = TRUE, ![c].shut = TRUE]
  /\ HostAlone /\ UNCHANGED pipe

-----------------------------------------------------------------------------
\* The worker's end.

\* observe_attach succeeds, and the host reads the worker's answer.
WorkerAccepts(c) ==
  /\ At(c, "opening") /\ worker[c].stage = "asked"
  /\ worker' = [worker EXCEPT ![c].stage = "attached"]
  /\ ProxyGoes(c, "record")
  /\ UNCHANGED <<client, pipe>>

WorkerSends(c) ==
  /\ WorkerReads(c) /\ worker[c].sent < MaxFrames
  /\ ~proxy[c].shut \/ At(c, "drain")
  /\ Len(pipe[c].fromWorker) < Capacity
  /\ worker' = [worker EXCEPT ![c].sent = @ + 1]
  /\ pipe' = [pipe EXCEPT ![c].fromWorker = Append(@, worker[c].sent + 1)]
  /\ UNCHANGED <<proxy, client>>

WorkerTakes(c) ==
  /\ WorkerReads(c) /\ pipe[c].toWorker # <<>>
  /\ worker' = [worker EXCEPT ![c].took = Append(@, Head(pipe[c].toWorker))]
  /\ pipe' = [pipe EXCEPT ![c].toWorker = Tail(@)]
  /\ UNCHANGED <<proxy, client>>

\* The session ends, the observer is cut off, or a Close frame was read: Closed is the last.
WorkerCloses(c) ==
  /\ WorkerReads(c) /\ Len(pipe[c].fromWorker) < Capacity
  /\ worker' = [worker EXCEPT ![c].stage = "closed"]
  /\ pipe' = [pipe EXCEPT ![c].fromWorker = Append(@, Closed)]
  /\ UNCHANGED <<proxy, client>>

WorkerDies(c) ==
  /\ worker[c].stage \in {"asked", "attached"}
  /\ worker' = [worker EXCEPT ![c].stage = "dead"]
  /\ UNCHANGED <<proxy, client, pipe>>

-----------------------------------------------------------------------------
\* The client: SessionControlClient::attach, then the loop of run_attach.

ClientBecomes(c, new) == client' = [client EXCEPT ![c] = new]
ClientAlone == UNCHANGED <<proxy, worker>>

\* A socket closed with output unread is a reset for the host.
Hangs(c, stage) ==
  /\ ClientBecomes(c, [client[c] EXCEPT !.stage = stage, !.hand = <<>>])
  /\ pipe' = [pipe EXCEPT ![c].reset = pipe[c].toClient # <<>>, ![c].toClient = <<>>]
  /\ ClientAlone

\* The reader that took the answer's line is replaced: what it had buffered is gone with it.
ReadResponse(c) ==
  /\ client[c].stage = "waiting" /\ pipe[c].toClient # <<>>
  /\ ClientBecomes(c, [client[c] EXCEPT !.stage = "looping"])
  /\ pipe' = [pipe EXCEPT ![c].toClient = <<>>]
  /\ ClientAlone

ReadsRefusal(c) ==
  /\ client[c].stage = "waiting" /\ At(c, "done") /\ pipe[c].toClient = <<>>
  /\ Hangs(c, "ended")

Whole(c) == Len(pipe[c].toClient) > 1 /\ Head(pipe[c].toClient).piece = "text"

\* next_frame: one line of the stream is in, text and newline.
ReadFrame(c) ==
  LET first == Head(pipe[c].toClient)
  IN  /\ client[c].stage = "looping" /\ pipe[c].toClient # <<>>
      /\ Whole(c) \/ (first.piece = "newline" /\ client[c].hand # <<>>)
      /\ ClientBecomes(c, [client[c] EXCEPT
           !.got = Append(@, first.frame), !.hand = <<>>,
           !.stage = IF first.frame = Closed THEN "ended" ELSE @])
      /\ pipe' = [pipe EXCEPT ![c].toClient = SubSeq(@, IF Whole(c) THEN 3 ELSE 2, Len(@))]
      /\ ClientAlone

\* The text is in and its newline is not: read_line holds the text.
ReadText(c) ==
  LET first == Head(pipe[c].toClient)
  IN  /\ client[c].stage = "looping" /\ pipe[c].toClient # <<>>
      /\ ~Whole(c) /\ first.piece = "text"
      /\ ClientBecomes(c, [client[c] EXCEPT !.hand = <<first.frame>>])
      /\ pipe' = [pipe EXCEPT ![c].toClient = Tail(@)]
      /\ ClientAlone

\* A newline whose text was lost is an empty line, which is no frame: the attach fails.
ReadEmptyLine(c) ==
  /\ client[c].stage = "looping" /\ pipe[c].toClient # <<>>
  /\ Head(pipe[c].toClient).piece = "newline" /\ client[c].hand = <<>>
  /\ Hangs(c, "broken")

StreamEnds(c) ==
  /\ client[c].stage = "looping" /\ pipe[c].toClient = <<>> /\ At(c, "done")
  /\ Hangs(c, "ended")

\* Another branch of the select! is taken: the read under way is dropped, with its text.
TypeLine(c) ==
  /\ client[c].stage = "looping" /\ client[c].typed < MaxLines
  /\ ClientBecomes(c, [client[c] EXCEPT !.stage = "typing", !.typed = @ + 1, !.hand = <<>>])
  /\ ClientAlone /\ UNCHANGED pipe

\* write_frame: the line goes out in parts when the socket has no room for all of it.
WritePart(c, stage, part, next) ==
  /\ client[c].stage = stage
  /\ IF At(c, "done") THEN Hangs(c, "ended")
     ELSE /\ Len(pipe[c].toHost) < Capacity
          /\ ClientBecomes(c, [client[c] EXCEPT !.stage = next])
          /\ pipe' = [pipe EXCEPT ![c].toHost = Append(@, part)]
          /\ ClientAlone

BeginLine(c) == WritePart(c, "typing", client[c].typed, "midline")
FinishLine(c) == WritePart(c, "midline", Newline, "looping")

\* Ctrl-C, or the end of the client's process.
ClientQuits(c) == ~Gone(c) /\ ~At(c, "none") /\ Hangs(c, "ended")

WorkerStep(c) ==
  WorkerAccepts(c) \/ WorkerSends(c) \/ WorkerTakes(c) \/ WorkerCloses(c) \/ WorkerDies(c)

ClientStep(c) ==
  ReadResponse(c) \/ ReadsRefusal(c) \/ ReadFrame(c) \/ ReadText(c) \/ ReadEmptyLine(c)
  \/ StreamEnds(c) \/ BeginLine(c) \/ FinishLine(c)

HostStep(c) ==
  \/ RefuseAttach(c) \/ RecordOpened(c) \/ RecordFails(c) \/ Answer(c)
  \/ ReadHalf(c) \/ RelayInput(c) \/ RelayCutLine(c) \/ RelayEndOfInput(c) \/ RelayOutput(c) \/ RelayEndOfOutput(c)
  \/ WriteText(c) \/ WriteNewline(c) \/ WriteToGone(c)
  \/ Drain(c) \/ DrainEnds(c) \/ DrainTimesOut(c)

-----------------------------------------------------------------------------
\* Properties.

Shown(c) == SelectSeq(client[c].got, LAMBDA n : n # Closed)

\* Every attach the log says was opened is, when the host is through with it, also closed
\* there, unless the worker was silent past the grace or the client's socket was reset; and
\* it is not said to be closed while the worker still holds the stream.
AttachIsAccounted ==
  \A c \in Clients :
    /\ At(c, "done") /\ proxy[c].opened
         => proxy[c].closed \/ proxy[c].timedOut \/ proxy[c].failed
    /\ proxy[c].closed => proxy[c].opened /\ worker[c].stage \in {"closed", "dead"}

\* What the worker takes of a client's lines are the first ones, in order and once each, and
\* while client and worker stay every part of a line is somewhere on the way, although the
\* proxy drops its read of one direction, within a line too, whenever the other one is ready
\* (proxy_attach_stream: next_line keeps what it has read).
LinesArriveInOrder ==
  \A c \in Clients :
    /\ \A n \in DOMAIN worker[c].took : worker[c].took[n] = n
    /\ WorkerReads(c) /\ client[c].stage = "looping" =>
         2 * client[c].typed = 2 * (Len(worker[c].took) + Len(pipe[c].toWorker))
                               + (IF proxy[c].half = 0 THEN 0 ELSE 1) + Len(pipe[c].toHost)

\* No frame is shown twice or before an earlier one, and Closed is the last, whatever is lost
\* when the client drops a read of its own (see StreamIsWhole).
FramesArriveInOrder ==
  \A c \in Clients : LET got == client[c].got IN
    \A i, j \in DOMAIN got :
      i < j => got[i] # Closed /\ (got[j] = Closed \/ got[i] < got[j])

\* "byte-exact live output" (README.md:528), which the code does not keep: a client that
\* stays and reads gets every frame the worker sent, and no other end than Closed.
StreamIsWhole ==
  \A c \in Clients :
    /\ client[c].stage # "broken"
    /\ Shown(c) # <<>> => Head(Shown(c)) = 1
    /\ Closed \in {client[c].got[n] : n \in DOMAIN client[c].got} => Len(Shown(c)) = worker[c].sent

\* When the client is gone, the host's task for it ends.
LeavingReleasesProxy == \A c \in Clients : (Gone(c) /\ ~At(c, "none")) ~> At(c, "done")
=============================================================================
