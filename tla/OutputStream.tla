----------------------------- MODULE OutputStream -----------------------------
(***************************************************************************)
(* The output side of a PTY worker: what the child prints is kept in the   *)
(* terminal state, its two replay files and pty.log, and broadcast to the  *)
(* observers, each behind a bounded queue; a new observer gets a replay of *)
(* the past before the live output.                                        *)
(*                                                                         *)
(* A byte is its offset in pty.log, so a frame is the interval from ..     *)
(* to - 1 of the offsets it carries.  The main thread records and          *)
(* broadcasts; each observer has a connection thread that takes messages   *)
(* from its queue and writes them to the client.                           *)
(***************************************************************************)
EXTENDS Naturals, Sequences

CONSTANTS
  Observers,      \* the attaches
  QueueCapacity,  \* ATTACH_OBSERVER_QUEUE_CAPACITY
  RingCapacity,   \* DEFAULT_RAW_REPLAY_CAPACITY_BYTES
  CloseAfter,     \* ATTACH_OBSERVER_CLOSE_AFTER_DROPPED_BYTES
  MaxChunk,       \* bound on the bytes of one read from the PTY
  MaxOutput       \* bound on the bytes the child prints

ASSUME OutputAssumption ==
  /\ QueueCapacity \in Nat \ {0} /\ RingCapacity \in Nat \ {0} /\ CloseAfter \in Nat \ {0}
  /\ MaxChunk \in Nat \ {0} /\ MaxOutput \in Nat

VARIABLES
  main,   \* the main thread and the chunk it has read
  log,    \* the length of pty.log
  term,   \* TerminalStateBuffer: how far it got, where its raw replay starts
  files,  \* terminal.snapshot.json and the raw replay ring
  obs,    \* the observer and the connection thread of each attach
  served  \* what each client was given and was not

vars == <<main, log, term, files, obs, served>>

Offset == 0 .. MaxOutput
Bytes(m) == m.from .. m.to - 1
Message == [kind : {"output", "lag", "screen"}, from : Offset, to : Offset, bytes : Nat]
Nothing == [kind |-> "output", from |-> 0, to |-> 0, bytes |-> 0]
Notice(d) == [kind |-> "lag", from |-> d.from, to |-> d.to, bytes |-> d.bytes]
OutputOf(from, to) == [kind |-> "output", from |-> from, to |-> to, bytes |-> to - from]

Stages == {"idle", "respond", "meta", "ring", "screen", "replay", "poll", "notice",
           "receive", "write", "closed"}
Dropped == [from : Offset, to : Offset, bytes : Nat]
Metadata == [there : BOOLEAN, start : Offset, end : Offset]
Observer ==
  [stage : Stages, lags : BOOLEAN, registered : BOOLEAN, cut : BOOLEAN, live : Offset,
   queue : Seq(Message), drop : Dropped, pending : BOOLEAN, slot : Message,
   meta : Metadata, hand : Message]

TypeOK ==
  /\ main \in [stage : {"reading", "ring", "snapshot", "append", "broadcast", "dead"},
               from : Offset, to : Offset]
  /\ log \in Offset
  /\ term \in [offset : Offset, start : Offset]
  /\ files \in [from : Offset, to : Offset, meta : Metadata]
  /\ obs \in [Observers -> Observer]
  /\ \A s \in Observers : Len(obs[s].queue) <= QueueCapacity
  /\ served \in [Observers -> [next : Offset, lost : SUBSET Offset, told : SUBSET Offset]]

NoMeta == [there |-> FALSE, start |-> 0, end |-> 0]
Init ==
  /\ main = [stage |-> "reading", from |-> 0, to |-> 0]
  /\ log = 0 /\ term = [offset |-> 0, start |-> 0]
  /\ files = [from |-> 0, to |-> 0, meta |-> NoMeta]
  /\ obs = [s \in Observers |->
       [stage |-> "idle", lags |-> FALSE, registered |-> FALSE, cut |-> FALSE, live |-> 0,
        queue |-> <<>>, drop |-> [from |-> 0, to |-> 0, bytes |-> 0], pending |-> FALSE,
        slot |-> Nothing, meta |-> NoMeta, hand |-> Nothing]]
  /\ served = [s \in Observers |-> [next |-> 0, lost |-> {}, told |-> {}]]

Up == main.stage # "dead"
Later(a, b) == IF a > b THEN a ELSE b

-----------------------------------------------------------------------------
\* The main thread: record_output, then broadcast_output.

\* RawReplayBuffer::record and trim_to_capacity: the last RingCapacity bytes.
RingStart(start, end) == IF end - start > RingCapacity THEN end - RingCapacity ELSE start

\* The terminal state is locked from here until both files are written.
ReadOutput ==
  /\ main.stage = "reading"
  /\ \E n \in 1 .. MaxChunk :
       /\ log + n <= MaxOutput
       /\ main' = [stage |-> "ring", from |-> log, to |-> log + n]
       /\ term' = [offset |-> term.offset + n, start |-> RingStart(term.start, term.offset + n)]
  /\ UNCHANGED <<log, files, obs, served>>

MainGoes(from, to) == main.stage = from /\ main' = [main EXCEPT !.stage = to]

WriteRing ==
  /\ MainGoes("ring", "snapshot")
  /\ files' = [files EXCEPT !.from = term.start, !.to = term.offset]
  /\ UNCHANGED <<log, term, obs, served>>

WriteSnapshot ==
  /\ MainGoes("snapshot", "append")
  /\ files' = [files EXCEPT !.meta = [there |-> TRUE, start |-> term.start, end |-> term.offset]]
  /\ UNCHANGED <<log, term, obs, served>>

AppendLog ==
  /\ MainGoes("append", "broadcast") /\ log' = main.to
  /\ UNCHANGED <<term, files, obs, served>>

HasRoom(o) == Len(o.queue) < QueueCapacity

\* Mutant: the notice names the last chunk only.
DropWithLast(d, from, to) == [from |-> from, to |-> to, bytes |-> d.bytes + (to - from)]
DropWith(d, from, to) ==
  [from |-> IF d.bytes = 0 THEN from ELSE d.from, to |-> to, bytes |-> d.bytes + (to - from)]
Closing(o) ==
  [o EXCEPT !.registered = o.drop.bytes < CloseAfter, !.cut = o.drop.bytes >= CloseAfter]

\* Mutant: store_pending_lag_notice is forgotten.
RecordDropNoSlot(o, from, to) ==
  Closing([o EXCEPT !.drop = DropWith(o.drop, from, to), !.pending = o.lags])
\* record_drop and should_close; the slot is what the connection thread looks at
\* even when the queue stays full.
RecordDrop(o, from, to) ==
  LET d == DropWith(o.drop, from, to)
  IN Closing([o EXCEPT !.drop = d, !.pending = o.lags,
                       !.slot = IF o.lags THEN Notice(d) ELSE o.slot])

ClearLag(o) ==
  [o EXCEPT !.pending = FALSE, !.drop = [from |-> o.drop.to, to |-> o.drop.to, bytes |-> 0]]

\* trim_output: live output begins where the observer registered.
Trim(o, from) == Later(from, o.live)
\* Mutant: what was logged before the observer registered is sent again.
OfferOutputAgain(o, from, to) ==
  IF HasRoom(o) THEN [o EXCEPT !.queue = Append(o.queue, OutputOf(from, to))]
                ELSE RecordDrop(o, from, to)
OfferOutput(o, from, to) ==
  CASE to <= o.live -> o
    [] to > o.live /\ HasRoom(o) ->
         [o EXCEPT !.queue = Append(o.queue, OutputOf(Trim(o, from), to))]
    [] OTHER -> RecordDrop(o, Trim(o, from), to)

\* A pending lag goes before the output.
Offer(o, from, to) ==
  CASE ~o.registered -> o
    [] o.registered /\ o.pending /\ ~HasRoom(o) -> RecordDrop(o, from, to)
    [] o.registered /\ o.pending /\ HasRoom(o) ->
         OfferOutput(ClearLag([o EXCEPT !.queue = Append(o.queue, Notice(o.drop))]), from, to)
    [] OTHER -> OfferOutput(o, from, to)

Broadcast ==
  /\ MainGoes("broadcast", "reading")
  /\ obs' = [s \in Observers |-> Offer(obs[s], main.from, main.to)]
  /\ served' = [s \in Observers |->
       IF obs'[s].drop.bytes > 0 /\ obs'[s].drop # obs[s].drop
         THEN [served[s] EXCEPT !.lost =
                 served[s].lost \cup (Later(main.from, obs[s].live) .. main.to - 1)]
         ELSE served[s]]
  /\ UNCHANGED <<log, term, files>>

\* The child closed its terminal: the worker ends, and every thread with it.
End ==
  /\ MainGoes("reading", "dead")
  /\ UNCHANGED <<log, term, files, obs, served>>

-----------------------------------------------------------------------------
\* The connection thread of one attach.

At(s, stage) == Up /\ obs[s].stage = stage
Becomes(s, o) == obs' = [obs EXCEPT ![s] = o]
Moves(s, stage) == Becomes(s, [obs[s] EXCEPT !.stage = stage])
Output == <<main, log, term, files>>

\* Registered under the control lock, at the length of the log.
Register(s) ==
  /\ At(s, "idle")
  /\ \E lags \in BOOLEAN :
       Becomes(s, [obs[s] EXCEPT !.stage = "respond", !.lags = lags, !.registered = TRUE,
                    !.live = log, !.drop = [from |-> log, to |-> log, bytes |-> 0]])
  /\ served' = [served EXCEPT ![s] = [served[s] EXCEPT !.next = log]]
  /\ UNCHANGED Output

\* The response, then the initial replay asked for: none, raw or screen.
Respond(s) ==
  /\ At(s, "respond")
  /\ \E stage \in {"poll", "meta", "screen"} : Moves(s, stage)
  /\ UNCHANGED <<Output, served>>

\* restore_terminal_replay_bytes: the metadata is read, then the ring; there is no
\* replay without files, or of another size than the one asked for.
ReadMetadata(s) ==
  /\ At(s, "meta")
  /\ \/ files.meta.there
        /\ Becomes(s, [obs[s] EXCEPT !.stage = "ring", !.meta = files.meta])
     \/ Moves(s, "poll")
  /\ UNCHANGED <<Output, served>>

\* Mutant: only the length is compared.
FreshLength(meta, cutoff, length) == meta.end - meta.start = length
\* replay_is_fresh
Fresh(meta, cutoff, length) == meta.end = cutoff /\ meta.end - meta.start = length
ReadRing(s) ==
  /\ At(s, "ring")
  /\ IF Fresh(obs[s].meta, obs[s].live, files.to - files.from) /\ files.to > files.from
       THEN Becomes(s, [obs[s] EXCEPT !.stage = "replay", !.hand = OutputOf(files.from, files.to)])
       ELSE Moves(s, "poll")
  /\ UNCHANGED <<Output, served>>

\* screen_snapshot, under the lock of the terminal state; another size or an
\* unusable screen has none.
TakeScreen(s) ==
  /\ At(s, "screen") /\ main.stage \notin {"ring", "snapshot"}
  /\ \/ Becomes(s, [obs[s] EXCEPT !.stage = "replay", !.hand =
               [OutputOf(0, term.offset) EXCEPT !.kind = "screen"]])
     \/ Moves(s, "poll")
  /\ UNCHANGED <<Output, served>>

WriteReplay(s) ==
  /\ At(s, "replay") /\ ~obs[s].cut
  /\ Moves(s, "poll")
  /\ UNCHANGED <<Output, served>>

\* write_pending_lag_notice
Poll(s) ==
  /\ At(s, "poll")
  /\ IF obs[s].slot = Nothing
       THEN Moves(s, "receive")
       ELSE Becomes(s, [obs[s] EXCEPT !.stage = "notice", !.hand = obs[s].slot,
                                      !.slot = Nothing])
  /\ UNCHANGED <<Output, served>>

Told(s) == [served[s] EXCEPT !.told = served[s].told \cup Bytes(obs[s].hand)]

WriteNotice(s) ==
  /\ At(s, "notice") /\ ~obs[s].cut
  /\ Moves(s, "receive")
  /\ served' = [served EXCEPT ![s] = Told(s)]
  /\ UNCHANGED Output

\* recv_timeout: a message, nothing for a while, or the observer was dropped.
Receive(s) ==
  /\ At(s, "receive")
  /\ IF obs[s].queue # <<>>
       THEN Becomes(s, [obs[s] EXCEPT !.stage = "write", !.hand = Head(obs[s].queue),
                                      !.queue = Tail(obs[s].queue)])
       ELSE Moves(s, IF obs[s].registered THEN "poll" ELSE "closed")
  /\ UNCHANGED <<Output, served>>

WriteMessage(s) ==
  /\ At(s, "write") /\ ~obs[s].cut
  /\ Moves(s, "poll")
  /\ served' = [served EXCEPT ![s] =
       [IF obs[s].hand.kind = "lag" THEN Told(s) ELSE served[s] EXCEPT !.next = obs[s].hand.to]]
  /\ UNCHANGED Output

\* The client left, or a write to it failed or timed out: release_attach.
Leave(s) ==
  /\ Up /\ obs[s].stage \notin {"idle", "closed"}
  /\ Becomes(s, [obs[s] EXCEPT !.stage = "closed", !.registered = FALSE])
  /\ UNCHANGED <<Output, served>>

-----------------------------------------------------------------------------
Main == \/ ReadOutput \/ WriteRing \/ WriteSnapshot \/ AppendLog \/ Broadcast \/ End
Thread(s) ==
  \/ Respond(s) \/ ReadMetadata(s) \/ ReadRing(s) \/ TakeScreen(s) \/ WriteReplay(s)
  \/ Poll(s) \/ WriteNotice(s) \/ Receive(s) \/ WriteMessage(s)
Next == Main \/ \E s \in Observers : Register(s) \/ Thread(s) \/ Leave(s)

Spec == Init /\ [][Next]_vars

\* The threads of the worker are scheduled, and a write to a client ends: the
\* client reads, or ATTACH_STREAM_WRITE_TIMEOUT does.  The child need not print.
FairSpec ==
  /\ Spec
  /\ WF_vars(WriteRing \/ WriteSnapshot \/ AppendLog \/ Broadcast)
  /\ \A s \in Observers : WF_vars(Thread(s) \/ Leave(s))

-----------------------------------------------------------------------------
\* What an observer may rely on.

\* What is broadcast so far.
Sent == IF main.stage = "broadcast" THEN main.from ELSE log
UnderWay(s) == (IF obs[s].stage = "write" THEN <<obs[s].hand>> ELSE <<>>) \o obs[s].queue

\* The live stream has no hole and no repetition: what the client was served, what
\* is under way and what is being dropped join offset by offset, from where the
\* observer registered to what was broadcast last.  A client that does not accept
\* lag frames has holes, and nothing twice or out of order.
LiveStreamJoins ==
  \A s \in Observers : obs[s].registered =>
    LET u    == UnderWay(s)
        ends == [i \in 0 .. Len(u) |-> IF i = 0 THEN served[s].next ELSE u[i].to]
        all  == Later(obs[s].live, Sent)
    IN IF obs[s].lags
         THEN /\ \A i \in 1 .. Len(u) : u[i].from = ends[i - 1]
              /\ ends[Len(u)] = IF obs[s].pending THEN obs[s].drop.from ELSE all
              /\ obs[s].pending => obs[s].drop.to = all
         ELSE \A i \in 1 .. Len(u) : u[i].from >= ends[i - 1] /\ u[i].kind = "output"

\* A lag notice, in the slot or in the queue, tells the truth: every byte it names
\* was dropped, and it counts them.
NoticesAreTrue ==
  \A s \in Observers :
    \A m \in {obs[s].slot, obs[s].hand} \cup {obs[s].queue[i] : i \in DOMAIN obs[s].queue} :
      m.kind = "lag" => m.bytes = m.to - m.from /\ Bytes(m) \subseteq served[s].lost

\* The initial replay leaves no hole before the live output, although the log, the
\* two replay files and the terminal state are read at different moments.  It ends
\* where live output begins, save for a screen, which may be later, and for a full
\* ring, which may be replaced by one of the same length between the two reads.
ReplayMeetsLive ==
  \A s \in Observers : obs[s].stage = "replay" =>
    \/ obs[s].hand.to = obs[s].live
    \/ /\ obs[s].hand.to > obs[s].live
       /\ obs[s].hand.kind = "screen" \/ obs[s].hand.bytes = RingCapacity

\* Every dropped byte is announced to a client that accepts lag frames, also when
\* the child prints nothing more, unless the attach or the worker ends.
DropsAreAnnounced ==
  \A s \in Observers : \A b \in Offset :
    (obs[s].lags /\ b \in served[s].lost)
      ~> (b \in served[s].told \/ obs[s].stage = "closed" \/ ~Up)
=============================================================================
