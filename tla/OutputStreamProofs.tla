--------------------------- MODULE OutputStreamProofs ---------------------------
(***************************************************************************)
(* What an observer gets is whole: the live stream has no hole and no      *)
(* repetition, the notices of what was dropped are true, and the replay    *)
(* meets the live output.                                                  *)
(***************************************************************************)
EXTENDS OutputStream, TLAPS

MainStages == {"reading", "ring", "snapshot", "append", "broadcast", "dead"}
Mains == [stage : MainStages, from : Offset, to : Offset]

\* The chunk the main thread is at, and how far the log and the terminal state are with it.
Chunk ==
  /\ main.stage \in {"reading", "dead"} => term.offset = log
  /\ main.stage \in {"ring", "snapshot", "append"}
       => main.from = log /\ main.to = term.offset /\ log < main.to
  /\ main.stage = "broadcast" => log = main.to /\ term.offset = log /\ main.from < main.to

\* A ring is full or begins with the first byte.
Ring(start, end) ==
  start <= end /\ ((start = 0 /\ end <= RingCapacity) \/ end = start + RingCapacity)

Rings ==
  /\ Ring(term.start, term.offset) /\ Ring(files.from, files.to) /\ files.to <= term.offset
  /\ files.meta.there => Ring(files.meta.start, files.meta.end) /\ files.meta.end <= files.to
  /\ main.stage = "snapshot" => files.to = term.offset

-----------------------------------------------------------------------------
\* One observer o and its client v, when `sent` is broadcast and the log is `end` long.

Fair(m, v) == m.kind = "lag" => m.bytes = m.to - m.from /\ Bytes(m) \subseteq v.lost

Idle(o) == o.stage = "idle" => o.queue = <<>> /\ ~o.pending /\ ~o.registered

\* The metadata read before the ring is of a ring the files have been at; a replay is as
\* ReplayMeetsLive says.
Replays(o, end, ring) ==
  /\ o.live <= end
  /\ o.stage = "ring" => Ring(o.meta.start, o.meta.end) /\ o.meta.end <= ring
  /\ o.stage = "replay" =>
       \/ o.hand.to = o.live
       \/ /\ o.hand.to > o.live
          /\ (o.hand.kind = "screen" \/ o.hand.bytes = RingCapacity)

\* What is dropped and not yet announced is one interval, up to what was broadcast last.
Drops(o, v, sent, end) ==
  /\ o.live <= sent \/ o.live = end
  /\ o.drop.to <= Later(o.live, sent)
  /\ o.pending => o.lags
  /\ o.lags => /\ o.pending <=> o.drop.bytes > 0
               /\ o.drop.to = o.drop.from + o.drop.bytes /\ Bytes(o.drop) \subseteq v.lost
  /\ o.pending /\ o.registered => o.drop.to = sent /\ o.drop.to > o.live
  /\ Fair(o.slot, v) /\ Fair(o.hand, v) /\ \A i \in DOMAIN o.queue : Fair(o.queue[i], v)

Coming(o) == (IF o.stage = "write" THEN <<o.hand>> ELSE <<>>) \o o.queue

\* Messages that join, from `next` to `last`; and messages that are in order.
Joined(next, u, last) ==
  /\ IF u = <<>> THEN last = next ELSE u[1].from = next /\ u[Len(u)].to = last
  /\ \A i \in 1 .. Len(u) - 1 : u[i + 1].from = u[i].to
Ordered(next, u, last) ==
  /\ IF u = <<>> THEN next <= last ELSE next <= u[1].from /\ u[Len(u)].to <= last
  /\ \A i \in 1 .. Len(u) - 1 : u[i].to <= u[i + 1].from
  /\ \A i \in 1 .. Len(u) : u[i].kind = "output"

Stream(o, v, sent) ==
  o.registered =>
    IF o.lags
    THEN Joined(v.next, Coming(o), IF o.pending THEN o.drop.from ELSE Later(o.live, sent))
    ELSE Ordered(v.next, Coming(o), Later(o.live, sent))

Served(o, v, sent, end, ring) ==
  Idle(o) /\ Replays(o, end, ring) /\ Drops(o, v, sent, end) /\ Stream(o, v, sent)

Inv ==
  /\ TypeOK /\ Chunk /\ Rings
  /\ \A s \in Observers : Served(obs[s], served[s], Sent, log, files.to)
-----------------------------------------------------------------------------
\* Sequences of messages.

LEMMA Offsets == Offset \subseteq Nat /\ 0 \in Offset
  BY OutputAssumption DEF Offset

LEMMA MessageOf ==
  ASSUME NEW m \in Message
  PROVE  m.from \in Nat /\ m.to \in Nat /\ m.bytes \in Nat
  BY Offsets DEF Message

LEMMA JoinedAppend ==
  ASSUME NEW next, NEW last, NEW u \in Seq(Message), NEW m \in Message,
         Joined(next, u, last), m.from = last
  PROVE  Joined(next, Append(u, m), m.to)
<1> DEFINE w == Append(u, m)
<1>1. Len(w) = Len(u) + 1 /\ w[Len(u) + 1] = m /\ w # <<>> /\ \A i \in 1 .. Len(u) : w[i] = u[i]
  OBVIOUS
<1>2. w[1].from = next
  <2>1. CASE u = <<>>
    BY <1>1, <2>1 DEF Joined
  <2>2. CASE u # <<>>
    BY <1>1, <2>2 DEF Joined
  <2>q. QED
    BY <2>1, <2>2
<1>3. ASSUME NEW i \in 1 .. Len(w) - 1 PROVE w[i + 1].from = w[i].to
  <2>1. CASE i < Len(u)
    BY <1>1, <2>1 DEF Joined
  <2>2. CASE i = Len(u)
    BY <1>1, <2>2 DEF Joined
  <2>q. QED
    BY <1>1, <2>1, <2>2
<1> HIDE DEF w
<1>q. QED
  BY <1>1, <1>2, <1>3 DEF Joined, w

LEMMA OrderedAppend ==
  ASSUME NEW next, NEW last \in Nat, NEW u \in Seq(Message), NEW m \in Message, next \in Nat,
         Ordered(next, u, last), last <= m.from, m.kind = "output"
  PROVE  Ordered(next, Append(u, m), m.to)
<1> DEFINE w == Append(u, m)
<1>1. /\ Len(w) = Len(u) + 1 /\ w[Len(u) + 1] = m /\ w # <<>>
      /\ \A i \in 1 .. Len(u) : w[i] = u[i] /\ u[i] \in Message
  OBVIOUS
<1>2. next <= w[1].from
  <2>1. CASE u = <<>>
    BY <1>1, <2>1, MessageOf DEF Ordered
  <2>2. CASE u # <<>>
    BY <1>1, <2>2 DEF Ordered
  <2>q. QED
    BY <2>1, <2>2
<1>3. ASSUME NEW i \in 1 .. Len(w) - 1 PROVE w[i].to <= w[i + 1].from
  <2>1. CASE i < Len(u)
    BY <1>1, <2>1 DEF Ordered
  <2>2. CASE i = Len(u)
    <3>1. u # <<>> /\ u[i] \in Message
      BY <1>1, <2>2
    <3>q. QED
      BY <1>1, <2>2, <3>1, MessageOf DEF Ordered
  <2>q. QED
    BY <1>1, <2>1, <2>2
<1>4. ASSUME NEW i \in 1 .. Len(w) PROVE w[i].kind = "output"
  BY <1>1 DEF Ordered
<1>5. w[Len(w)].to <= m.to
  BY <1>1, MessageOf
<1> HIDE DEF w
<1>q. QED
  BY <1>1, <1>2, <1>3, <1>4, <1>5 DEF Ordered, w

\* The first message is written.
LEMMA FirstOf ==
  ASSUME NEW u \in Seq(Message), NEW m \in Message
  PROVE  LET w == <<m>> \o u IN
         w \in Seq(Message) /\ Len(w) = Len(u) + 1 /\ w[1] = m /\ \A i \in 1 .. Len(u) : w[i + 1] = u[i]
  OBVIOUS

LEMMA JoinedRest ==
  ASSUME NEW next, NEW last, NEW u \in Seq(Message), NEW m \in Message, Joined(next, <<m>> \o u, last)
  PROVE  Joined(m.to, u, last)
<1> DEFINE w == <<m>> \o u
<1>1. /\ w \in Seq(Message) /\ Len(w) = Len(u) + 1 /\ w[1] = m /\ w # <<>>
      /\ \A i \in 1 .. Len(u) : w[i + 1] = u[i]
  BY FirstOf
<1> HIDE DEF w
<1>2. Joined(next, w, last)
  BY DEF w
<1>3. CASE u = <<>>
  BY <1>1, <1>2, <1>3 DEF Joined
<1>4. CASE u # <<>>
  <2>1. u[1].from = m.to
    BY <1>1, <1>2, <1>4 DEF Joined
  <2>2. u[Len(u)].to = last
    BY <1>1, <1>2, <1>4 DEF Joined
  <2>3. ASSUME NEW i \in 1 .. Len(u) - 1 PROVE u[i + 1].from = u[i].to
    <3>1. i + 1 \in 1 .. Len(w) - 1 /\ w[i + 2] = u[i + 1] /\ w[i + 1] = u[i]
      BY <1>1
    <3>q. QED
      BY <1>2, <3>1 DEF Joined
  <2>q. QED
    BY <1>4, <2>1, <2>2, <2>3 DEF Joined
<1>q. QED
  BY <1>3, <1>4

LEMMA OrderedRest ==
  ASSUME NEW next \in Nat, NEW last \in Nat, NEW u \in Seq(Message), NEW m \in Message,
         Ordered(next, <<m>> \o u, last)
  PROVE  Ordered(m.to, u, last)
<1> DEFINE w == <<m>> \o u
<1>1. /\ w \in Seq(Message) /\ Len(w) = Len(u) + 1 /\ w[1] = m /\ w # <<>>
      /\ \A i \in 1 .. Len(u) : w[i + 1] = u[i]
  BY FirstOf
<1> HIDE DEF w
<1>2. Ordered(next, w, last)
  BY DEF w
<1>3. CASE u = <<>>
  BY <1>1, <1>2, <1>3 DEF Ordered
<1>4. CASE u # <<>>
  <2>1. m.to <= u[1].from
    BY <1>1, <1>2, <1>4 DEF Ordered
  <2>2. u[Len(u)].to <= last
    BY <1>1, <1>2, <1>4 DEF Ordered
  <2>3. ASSUME NEW i \in 1 .. Len(u) - 1 PROVE u[i].to <= u[i + 1].from
    <3>1. i + 1 \in 1 .. Len(w) - 1 /\ w[i + 2] = u[i + 1] /\ w[i + 1] = u[i]
      BY <1>1
    <3>q. QED
      BY <1>2, <3>1 DEF Ordered
  <2>4. ASSUME NEW i \in 1 .. Len(u) PROVE u[i].kind = "output"
    BY <1>1, <1>2 DEF Ordered
  <2>q. QED
    BY <1>4, <2>1, <2>2, <2>3, <2>4 DEF Ordered
<1>q. QED
  BY <1>3, <1>4

\* What is under way when a message is queued, taken from the queue, or written.
LEMMA ComingAppend ==
  ASSUME NEW o \in Observer, NEW p \in Observer, NEW m \in Message,
         p.stage = o.stage, p.hand = o.hand, p.queue = Append(o.queue, m)
  PROVE  Coming(o) \in Seq(Message) /\ Coming(p) = Append(Coming(o), m)
<1>1. o.queue \in Seq(Message) /\ o.hand \in Message
  BY DEF Observer
<1>2. CASE o.stage = "write"
  <2>1. <<o.hand>> \o Append(o.queue, m) = Append(<<o.hand>> \o o.queue, m)
    BY <1>1
  <2>q. QED
    BY <1>1, <1>2, <2>1 DEF Coming
<1>3. CASE o.stage # "write"
  <2>1. <<>> \o o.queue = o.queue /\ <<>> \o Append(o.queue, m) = Append(o.queue, m)
    BY <1>1
  <2>q. QED
    BY <1>1, <1>3, <2>1 DEF Coming
<1>q. QED
  BY <1>2, <1>3

LEMMA ComingTaken ==
  ASSUME NEW o \in Observer, NEW p \in Observer, o.queue # <<>>, o.stage # "write",
         p.stage = "write", p.hand = Head(o.queue), p.queue = Tail(o.queue)
  PROVE  Coming(p) = Coming(o)
<1>1. o.queue \in Seq(Message)
  BY DEF Observer
<1>2. <<Head(o.queue)>> \o Tail(o.queue) = o.queue /\ <<>> \o o.queue = o.queue
  BY <1>1
<1>q. QED
  BY <1>2 DEF Coming

LEMMA ComingQueue ==
  ASSUME NEW o \in Observer
  PROVE  /\ o.stage # "write" => Coming(o) = o.queue
         /\ o.stage = "write" => Coming(o) = <<o.hand>> \o o.queue
         /\ o.queue \in Seq(Message) /\ o.hand \in Message /\ Coming(o) \in Seq(Message)
<1>1. o.queue \in Seq(Message) /\ o.hand \in Message
  BY DEF Observer
<1>2. <<>> \o o.queue = o.queue
  BY <1>1
<1>3. <<o.hand>> \o o.queue \in Seq(Message)
  BY <1>1, FirstOf
<1>q. QED
  BY <1>1, <1>2, <1>3 DEF Coming

-----------------------------------------------------------------------------
\* One observer at a broadcast of from .. to - 1, which is all that pty.log gained.

Client == [next : Offset, lost : SUBSET Offset, told : SUBSET Offset]

LEMMA OffsetIsNat == ASSUME NEW x \in Offset PROVE x \in Nat /\ x <= MaxOutput
  BY OutputAssumption DEF Offset

LEMMA OrderedMore ==
  ASSUME NEW next \in Nat, NEW u \in Seq(Message), NEW last \in Nat, NEW more \in Nat,
         Ordered(next, u, last), last <= more
  PROVE  Ordered(next, u, more)
<1>1. CASE u = <<>>
  BY <1>1 DEF Ordered
<1>2. CASE u # <<>>
  <2>1. u[Len(u)] \in Message
    BY <1>2
  <2>q. QED
    BY <1>2, <2>1, MessageOf DEF Ordered
<1>q. QED
  BY <1>1, <1>2

LEMMA FairMore ==
  ASSUME NEW m, NEW v, NEW w, v.lost \subseteq w.lost, Fair(m, v)
  PROVE  Fair(m, w)
  BY DEF Fair

\* The observer was not registered, or registered when the chunk was in the log.
LEMMA KeptServed ==
  ASSUME NEW o \in Observer, NEW v, NEW from \in Offset, NEW to \in Offset, from < to, NEW ring,
         Served(o, v, from, to, ring), ~o.registered \/ to <= o.live
  PROVE  Served(o, v, to, to, ring)
<1>1. o.live \in Nat /\ o.drop.to \in Nat /\ from \in Nat /\ to \in Nat
  BY Offsets DEF Observer, Dropped
<1>2. o.drop.to <= Later(o.live, to) /\ (o.live <= to \/ o.live = to)
  BY <1>1 DEF Served, Drops, Later
<1>3. CASE ~o.registered
  BY <1>2, <1>3 DEF Served, Drops, Stream
<1>4. CASE o.registered
  <2>1. o.live = to /\ Later(o.live, from) = to /\ Later(o.live, to) = to
    BY <1>1, <1>4 DEF Served, Drops, Later
  <2>2. ~o.pending
    BY <1>1, <1>4, <2>1 DEF Served, Drops
  <2>3. Drops(o, v, to, to)
    BY <1>2, <2>2 DEF Served, Drops
  <2>4. Stream(o, v, to)
    BY <2>1, <2>2 DEF Served, Stream
  <2>q. QED
    BY <2>3, <2>4 DEF Served
<1>q. QED
  BY <1>3, <1>4

LEMMA Flags ==
  ASSUME NEW q \in Observer, NEW b \in BOOLEAN, NEW c \in BOOLEAN
  PROVE  [q EXCEPT !.registered = b, !.cut = c] \in Observer
  BY DEF Observer

\* The chunk is dropped for want of room.
LEMMA DroppedServed ==
  ASSUME NEW o \in Observer, NEW v \in Client, NEW w \in Client,
         NEW from \in Offset, NEW to \in Offset, from < to, NEW ring, NEW f,
         f = Later(from, o.live), o.registered, to > o.live, Served(o, v, from, to, ring),
         w = [v EXCEPT !.lost = v.lost \cup (f .. to - 1)]
  PROVE  LET p == RecordDrop(o, f, to) IN
         /\ p \in Observer /\ p.queue = o.queue /\ p.drop.bytes > 0 /\ p.drop.to = to
         /\ p.drop.bytes # o.drop.bytes /\ Served(p, w, to, to, ring)
<1> DEFINE d == DropWith(o.drop, f, to)
           p == RecordDrop(o, f, to)
<1>1. /\ o.live \in Nat /\ from \in Nat /\ to \in Nat /\ o.drop \in Dropped /\ o.drop.bytes \in Nat
      /\ o.drop.from \in Nat /\ o.drop.to \in Nat
      /\ f \in Offset /\ f \in Nat /\ f < to /\ o.lags \in BOOLEAN /\ o.pending \in BOOLEAN
  BY Offsets DEF Observer, Dropped, Later
<1>2. /\ d = [from |-> IF o.drop.bytes = 0 THEN f ELSE o.drop.from, to |-> to,
              bytes |-> o.drop.bytes + (to - f)]
      /\ d \in Dropped /\ d.bytes > 0 /\ d.to = to /\ d.bytes # o.drop.bytes
      /\ d.from \in Nat
  BY <1>1 DEF DropWith, Dropped
<1>3. Notice(d) \in Message
  BY <1>2 DEF Notice, Message, Dropped
<1>4. /\ p \in Observer /\ p.stage = o.stage /\ p.lags = o.lags /\ p.live = o.live
      /\ p.queue = o.queue /\ p.drop = d /\ p.pending = o.lags /\ p.meta = o.meta
      /\ p.hand = o.hand /\ p.slot = IF o.lags THEN Notice(d) ELSE o.slot
  <2> DEFINE slot == IF o.lags THEN Notice(d) ELSE o.slot
             q == [o EXCEPT !.drop = d, !.pending = o.lags, !.slot = slot]
  <2>1. slot \in Message
    BY <1>3 DEF Observer
  <2> HIDE DEF slot, d
  <2>2. /\ q \in Observer /\ q.stage = o.stage /\ q.lags = o.lags /\ q.live = o.live
        /\ q.queue = o.queue /\ q.drop = d /\ q.pending = o.lags /\ q.meta = o.meta
        /\ q.hand = o.hand /\ q.slot = slot
    BY <1>1, <1>2, <2>1 DEF Observer
  <2>3. p = Closing(q)
    BY DEF RecordDrop, slot, d
  <2> HIDE DEF q
  <2> DEFINE b == q.drop.bytes < CloseAfter
             c == q.drop.bytes >= CloseAfter
  <2>4. p = [q EXCEPT !.registered = b, !.cut = c] /\ b \in BOOLEAN /\ c \in BOOLEAN
    BY <2>3 DEF Closing
  <2> HIDE DEF b, c
  <2>5. p \in Observer
    BY <2>2, <2>4, Flags, ZenonT(40)
  <2>q. QED
    BY <2>2, <2>4, <2>5 DEF Observer, slot
<1> HIDE DEF p
<1>5. v.lost \subseteq w.lost /\ (f .. to - 1) \subseteq w.lost /\ w.next = v.next
  BY DEF Client
<1>6. Idle(p)
  BY <1>4 DEF Served, Idle
<1>7. Replays(p, to, ring)
  BY <1>4 DEF Served, Replays
<1>8. o.lags => d.from + d.bytes = to /\ Bytes(d) \subseteq w.lost
  <2>1. SUFFICES ASSUME o.lags PROVE d.from + d.bytes = to /\ Bytes(d) \subseteq w.lost
    OBVIOUS
  <2>2. CASE o.drop.bytes = 0
    BY <1>1, <1>2, <1>5, <2>2 DEF Bytes
  <2>3. CASE o.drop.bytes # 0
    <3>1. o.pending /\ o.drop.to = from /\ o.drop.to > o.live /\ f = from
      BY <1>1, <2>1, <2>3 DEF Served, Drops, Later
    <3>2. o.drop.from + o.drop.bytes = f /\ d.from = o.drop.from
      BY <1>1, <1>2, <2>1, <2>3, <3>1 DEF Served, Drops
    <3>3. o.drop.from .. f - 1 \subseteq v.lost
      BY <1>1, <2>1, <3>1 DEF Served, Drops, Bytes
    <3>q. QED
      BY <1>1, <1>2, <1>5, <3>2, <3>3 DEF Bytes
  <2>q. QED
    BY <2>2, <2>3
<1>9. Drops(p, w, to, to)
  <2> Fair(o.slot, v) /\ Fair(o.hand, v) /\ \A i \in DOMAIN o.queue : Fair(o.queue[i], v)
    BY DEF Served, Drops
  <2>1. Fair(p.slot, w)
    <3>1. CASE o.lags
      BY <1>1, <1>2, <1>4, <1>8, <3>1 DEF Fair, Notice, Bytes
    <3>2. CASE ~o.lags
      BY <1>4, <1>5, <3>2, FairMore
    <3>q. QED
      BY <3>1, <3>2
  <2>2. Fair(p.hand, w) /\ \A i \in DOMAIN p.queue : Fair(p.queue[i], w)
    <3>1. p.hand = o.hand /\ p.queue = o.queue /\ v.lost \subseteq w.lost
      BY <1>4, <1>5
    <3>q. QED
      BY <3>1, FairMore, ZenonT(40)
  <2>3. p.live <= to /\ p.drop.to <= Later(p.live, to)
    BY <1>1, <1>2, <1>4 DEF Later
  <2>4. p.lags => /\ p.pending <=> p.drop.bytes > 0
                  /\ p.drop.to = p.drop.from + p.drop.bytes /\ Bytes(p.drop) \subseteq w.lost
    BY <1>2, <1>4, <1>8
  <2>q. QED
    BY <1>1, <1>2, <1>4, <2>1, <2>2, <2>3, <2>4 DEF Drops
<1>10. Stream(p, w, to)
  <2>1. Coming(p) = Coming(o) /\ Coming(o) \in Seq(Message) /\ v.next \in Nat
    BY <1>4, ComingQueue, Offsets DEF Coming, Client
  <2>2. CASE o.lags
    <3>1. Joined(v.next, Coming(o), IF o.pending THEN o.drop.from ELSE Later(o.live, from))
      BY <2>2 DEF Served, Stream
    <3>2. d.from = IF o.pending THEN o.drop.from ELSE Later(o.live, from)
      BY <1>1, <1>2, <2>2 DEF Served, Drops, Later
    <3>q. QED
      BY <1>4, <1>5, <2>1, <2>2, <3>1, <3>2 DEF Stream
  <2>3. CASE ~o.lags
    <3>1. Ordered(v.next, Coming(o), Later(o.live, from))
      BY <2>3 DEF Served, Stream
    <3>2. Later(o.live, from) \in Nat /\ Later(o.live, to) \in Nat /\ Later(o.live, from) <= Later(o.live, to)
      BY <1>1 DEF Later
    <3>3. Ordered(v.next, Coming(o), Later(o.live, to))
      BY <2>1, <3>1, <3>2, OrderedMore
    <3>q. QED
      BY <1>4, <1>5, <2>1, <2>3, <3>3 DEF Stream
  <2>q. QED
    BY <2>2, <2>3
<1>q. QED
  BY <1>2, <1>4, <1>6, <1>7, <1>9, <1>10 DEF Served, p

\* A message joins the queue: what is queued, and what the client may rely on.
LEMMA AppendedQueue ==
  ASSUME NEW o \in Observer, NEW m \in Message, Len(o.queue) < QueueCapacity
  PROVE  LET p == [o EXCEPT !.queue = Append(o.queue, m)] IN
         /\ p \in Observer /\ p.queue = Append(o.queue, m) /\ Len(p.queue) <= QueueCapacity
         /\ p.stage = o.stage /\ p.lags = o.lags /\ p.registered = o.registered
         /\ p.live = o.live /\ p.drop = o.drop /\ p.pending = o.pending /\ p.slot = o.slot
         /\ p.meta = o.meta /\ p.hand = o.hand
<1>1. o.queue \in Seq(Message) /\ Append(o.queue, m) \in Seq(Message)
  BY DEF Observer
<1>2. Len(Append(o.queue, m)) <= QueueCapacity
  BY <1>1, OutputAssumption
<1>q. QED
  BY <1>1, <1>2 DEF Observer

LEMMA FairQueue ==
  ASSUME NEW u \in Seq(Message), NEW m \in Message, NEW v, Fair(m, v),
         \A i \in DOMAIN u : Fair(u[i], v)
  PROVE  \A i \in DOMAIN Append(u, m) : Fair(Append(u, m)[i], v)
<1>1. ASSUME NEW i \in DOMAIN Append(u, m) PROVE Fair(Append(u, m)[i], v)
  <2>1. CASE i = Len(u) + 1
    <3>1. Append(u, m)[i] = m
      BY <2>1
    <3>q. QED
      BY <3>1
  <2>2. CASE i # Len(u) + 1
    <3>1. i \in DOMAIN u /\ Append(u, m)[i] = u[i]
      BY <2>2
    <3>q. QED
      BY <3>1
  <2>q. QED
    BY <2>1, <2>2
<1>q. QED
  BY <1>1

\* The chunk is queued.
LEMMA QueuedServed ==
  ASSUME NEW o \in Observer, NEW v \in Client,
         NEW from \in Offset, NEW to \in Offset, from < to, NEW ring, NEW f,
         f = Later(from, o.live), o.registered, ~o.pending, to > o.live,
         Len(o.queue) < QueueCapacity, Served(o, v, from, to, ring)
  PROVE  LET p == [o EXCEPT !.queue = Append(o.queue, OutputOf(f, to))] IN
         p \in Observer /\ Len(p.queue) <= QueueCapacity /\ Served(p, v, to, to, ring)
<1> DEFINE m == OutputOf(f, to)
           p == [o EXCEPT !.queue = Append(o.queue, m)]
<1>1. /\ o.live \in Nat /\ from \in Nat /\ to \in Nat /\ o.drop.to \in Nat /\ o.drop.bytes \in Nat
      /\ f \in Offset /\ f \in Nat /\ f < to
  BY Offsets DEF Observer, Dropped, Later
<1>2. m \in Message /\ m.kind = "output" /\ m.from = f /\ m.to = to
  BY <1>1 DEF OutputOf, Message
<1> HIDE DEF m
<1>3. /\ p \in Observer /\ p.queue = Append(o.queue, m) /\ Len(p.queue) <= QueueCapacity
      /\ p.stage = o.stage /\ p.lags = o.lags /\ p.registered = o.registered
      /\ p.live = o.live /\ p.drop = o.drop /\ p.pending = o.pending /\ p.slot = o.slot
      /\ p.meta = o.meta /\ p.hand = o.hand
  BY <1>2, AppendedQueue
<1> HIDE DEF p
<1>4. Idle(p) /\ Replays(p, to, ring)
  BY <1>3 DEF Served, Idle, Replays
<1>5. Drops(p, v, to, to)
  <2>1. Fair(m, v)
    BY <1>2 DEF Fair
  <2>2. o.queue \in Seq(Message) /\ \A i \in DOMAIN o.queue : Fair(o.queue[i], v)
    BY DEF Observer, Served, Drops
  <2>3. \A i \in DOMAIN p.queue : Fair(p.queue[i], v)
    BY <1>2, <1>3, <2>1, <2>2, FairQueue
  <2>4. p.drop.to <= Later(p.live, to)
    BY <1>1, <1>3 DEF Served, Drops, Later
  <2>5. ~p.pending /\ (p.lags => p.drop.to = p.drop.from + p.drop.bytes /\ ~(p.drop.bytes > 0)
                                  /\ Bytes(p.drop) \subseteq v.lost)
    BY <1>3 DEF Served, Drops
  <2>6. Fair(p.slot, v) /\ Fair(p.hand, v)
    BY <1>3 DEF Served, Drops
  <2>7. p.live <= to
    BY <1>1, <1>3
  <2>q. QED
    BY <2>3, <2>4, <2>5, <2>6, <2>7 DEF Drops
<1>6. Stream(p, v, to)
  <2>1. Coming(o) \in Seq(Message) /\ Coming(p) = Append(Coming(o), m) /\ v.next \in Nat
    BY <1>2, <1>3, ComingAppend, Offsets DEF Client
  <2>2. f = Later(o.live, from) /\ to = Later(o.live, to) /\ p.registered
    BY <1>1, <1>3 DEF Later
  <2>3. CASE o.lags
    <3>1. Joined(v.next, Coming(o), f)
      BY <2>2, <2>3 DEF Served, Stream
    <3>2. Joined(v.next, Coming(p), to)
      BY <1>2, <2>1, <3>1, JoinedAppend
    <3>q. QED
      BY <1>3, <2>2, <2>3, <3>2 DEF Stream
  <2>4. CASE ~o.lags
    <3>1. Ordered(v.next, Coming(o), f)
      BY <2>2, <2>4 DEF Served, Stream
    <3>2. Ordered(v.next, Coming(p), to)
      BY <1>1, <1>2, <2>1, <3>1, OrderedAppend
    <3>q. QED
      BY <1>3, <2>2, <2>4, <3>2 DEF Stream
  <2>q. QED
    BY <2>3, <2>4
<1>q. QED
  BY <1>3, <1>4, <1>5, <1>6 DEF Served, p, m

\* The notice of what is pending is queued.
LEMMA NoticeServed ==
  ASSUME NEW o \in Observer, NEW v \in Client, NEW from \in Offset, NEW to \in Offset, NEW ring,
         o.registered, o.pending, Len(o.queue) < QueueCapacity, Served(o, v, from, to, ring)
  PROVE  LET p == ClearLag([o EXCEPT !.queue = Append(o.queue, Notice(o.drop))]) IN
         /\ p \in Observer /\ Len(p.queue) <= QueueCapacity /\ p.live = o.live
         /\ p.registered /\ ~p.pending /\ p.drop.bytes = 0 /\ o.live < from
         /\ p.drop.to = from /\ Served(p, v, from, to, ring)
<1> DEFINE m == Notice(o.drop)
           q == [o EXCEPT !.queue = Append(o.queue, m)]
           e == [from |-> o.drop.to, to |-> o.drop.to, bytes |-> 0]
           p == ClearLag(q)
<1>1. /\ o.live \in Nat /\ from \in Nat /\ to \in Nat /\ o.drop \in Dropped /\ o.drop.to \in Nat
      /\ o.drop.from \in Nat /\ o.drop.bytes \in Nat
  BY Offsets DEF Observer, Dropped
<1>2. /\ m \in Message /\ m.from = o.drop.from /\ m.to = o.drop.to /\ m.kind = "lag"
      /\ m.bytes = o.drop.bytes
  BY <1>1 DEF Notice, Message, Dropped
<1>3. /\ o.lags /\ o.drop.to = from /\ from > o.live /\ o.drop.to = o.drop.from + o.drop.bytes
      /\ Bytes(o.drop) \subseteq v.lost
  BY DEF Served, Drops
<1> HIDE DEF m
<1>4. /\ q \in Observer /\ q.queue = Append(o.queue, m) /\ Len(q.queue) <= QueueCapacity
      /\ q.stage = o.stage /\ q.lags = o.lags /\ q.registered = o.registered
      /\ q.live = o.live /\ q.drop = o.drop /\ q.pending = o.pending /\ q.slot = o.slot
      /\ q.meta = o.meta /\ q.hand = o.hand
  BY <1>2, AppendedQueue
<1> HIDE DEF q
<1>5. e \in Dropped /\ e.from = from /\ e.to = from /\ e.bytes = 0
  BY <1>1, <1>3 DEF Dropped
<1>6. p = [q EXCEPT !.pending = FALSE, !.drop = e]
  BY <1>4 DEF ClearLag
<1> HIDE DEF p, e
<1>7. /\ p \in Observer /\ p.queue = Append(o.queue, m) /\ p.stage = o.stage /\ p.lags = o.lags
      /\ p.registered = o.registered /\ p.live = o.live /\ p.drop = e /\ p.pending = FALSE
      /\ p.slot = o.slot /\ p.meta = o.meta /\ p.hand = o.hand
  BY <1>4, <1>5, <1>6 DEF Observer
<1>8. Idle(p) /\ Replays(p, to, ring)
  BY <1>7 DEF Served, Idle, Replays
<1>9. Drops(p, v, from, to)
  <2>1. Fair(m, v)
    BY <1>1, <1>2, <1>3 DEF Fair, Bytes
  <2>2. o.queue \in Seq(Message) /\ \A i \in DOMAIN o.queue : Fair(o.queue[i], v)
    BY DEF Observer, Served, Drops
  <2>3. \A i \in DOMAIN p.queue : Fair(p.queue[i], v)
    BY <1>2, <1>7, <2>1, <2>2, FairQueue
  <2>4. p.drop.to <= Later(p.live, from) /\ p.live <= from
    BY <1>1, <1>3, <1>5, <1>7 DEF Later
  <2>5. ~p.pending /\ p.drop.to = p.drop.from + p.drop.bytes /\ ~(p.drop.bytes > 0)
        /\ Bytes(p.drop) \subseteq v.lost
    BY <1>1, <1>5, <1>7 DEF Bytes
  <2>6. Fair(p.slot, v) /\ Fair(p.hand, v)
    BY <1>7 DEF Served, Drops
  <2>q. QED
    BY <2>3, <2>4, <2>5, <2>6 DEF Drops
<1>10. Stream(p, v, from)
  <2>1. Coming(o) \in Seq(Message) /\ Coming(p) = Append(Coming(o), m) /\ v.next \in Nat
    BY <1>2, <1>7, ComingAppend, Offsets DEF Client
  <2>2. Joined(v.next, Coming(o), o.drop.from)
    BY <1>3 DEF Served, Stream
  <2>3. Joined(v.next, Coming(p), o.drop.to)
    BY <1>2, <2>1, <2>2, JoinedAppend
  <2>4. Later(p.live, from) = from
    BY <1>1, <1>3, <1>7 DEF Later
  <2>q. QED
    BY <1>3, <1>7, <2>3, <2>4 DEF Stream
<1>q. QED
  BY <1>3, <1>4, <1>5, <1>7, <1>8, <1>9, <1>10 DEF Served, p, q, m

LEMMA LostMore ==
  ASSUME NEW v \in Client, NEW a \in Nat, NEW to \in Offset
  PROVE  [v EXCEPT !.lost = v.lost \cup (a .. to - 1)] \in Client
<1> DEFINE lost == v.lost \cup (a .. to - 1)
<1>1. lost \subseteq Offset
  BY OutputAssumption DEF Client, Offset
<1> HIDE DEF lost
<1>2. [v EXCEPT !.lost = lost] \in Client
  BY <1>1 DEF Client
<1>q. QED
  BY <1>2 DEF lost

\* One observer is offered the chunk; w is what its client is then told to have lost.
LEMMA OfferServes ==
  ASSUME NEW o \in Observer, NEW v \in Client, NEW w \in Client,
         NEW from \in Offset, NEW to \in Offset, from < to, NEW ring,
         Len(o.queue) <= QueueCapacity, Served(o, v, from, to, ring),
         w = IF Offer(o, from, to).drop.bytes > 0 /\ Offer(o, from, to).drop # o.drop
               THEN [v EXCEPT !.lost = v.lost \cup (Later(from, o.live) .. to - 1)]
               ELSE v
  PROVE  LET p == Offer(o, from, to) IN
         p \in Observer /\ Len(p.queue) <= QueueCapacity /\ Served(p, w, to, to, ring)
<1> DEFINE p == Offer(o, from, to)
           f == Later(from, o.live)
<1>0. o.live \in Nat /\ from \in Nat /\ to \in Nat /\ o.drop.bytes \in Nat
  BY Offsets DEF Observer, Dropped
<1>1. CASE ~o.registered
  <2>1. p = o
    BY <1>1 DEF Offer
  <2>2. w = v
    BY <2>1
  <2>q. QED
    BY <1>1, <2>1, <2>2, KeptServed
<1>2. CASE o.registered /\ o.pending /\ ~HasRoom(o)
  <2>1. p = RecordDrop(o, from, to) /\ from > o.live /\ f = from /\ to > o.live
    BY <1>0, <1>2 DEF Offer, Served, Drops, Later
  <2> DEFINE x == [v EXCEPT !.lost = v.lost \cup (f .. to - 1)]
  <2>2. x \in Client
    BY <1>0, LostMore DEF Later
  <2>3. /\ p \in Observer /\ p.queue = o.queue /\ p.drop.bytes > 0 /\ p.drop.bytes # o.drop.bytes
        /\ Served(p, x, to, to, ring)
    BY <1>2, <2>1, <2>2, DroppedServed
  <2>4. w = x
    BY <2>3
  <2>q. QED
    BY <2>3, <2>4
<1>3. CASE o.registered /\ o.pending /\ HasRoom(o)
  <2>1. PICK q \in Observer :
           /\ q = ClearLag([o EXCEPT !.queue = Append(o.queue, Notice(o.drop))])
           /\ Len(q.queue) <= QueueCapacity /\ q.live = o.live
           /\ q.registered /\ ~q.pending /\ q.drop.bytes = 0 /\ o.live < from /\ q.drop.to = from
           /\ Served(q, v, from, to, ring)
    BY <1>3, NoticeServed DEF HasRoom
  <2>2. p = OfferOutput(q, from, to)
    BY <1>3, <2>1 DEF Offer
  <2>3. to > q.live /\ f = from /\ f = Later(from, q.live) /\ Trim(q, from) = f
    BY <1>0, <2>1 DEF Later, Trim
  <2>4. CASE HasRoom(q)
    <3> DEFINE y == [q EXCEPT !.queue = Append(q.queue, OutputOf(f, to))]
    <3>0. OfferOutput(q, from, to) = [q EXCEPT !.queue = Append(q.queue, OutputOf(Trim(q, from), to))]
      <4>1. q.live \in Nat /\ from \in Nat /\ to \in Nat /\ to > q.live
        BY <1>0, <2>1, <2>3
      <4>q. QED
        BY <2>4, <4>1 DEF OfferOutput
    <3>1. p = y
      BY <2>2, <2>3, <3>0
    <3>2. y \in Observer /\ Len(y.queue) <= QueueCapacity /\ Served(y, v, to, to, ring)
      BY <2>1, <2>3, <2>4, QueuedServed DEF HasRoom
    <3>3. p.drop = q.drop
      BY <2>1, <3>1 DEF Observer
    <3>4. w = v
      BY <2>1, <3>3
    <3>q. QED
      BY <3>1, <3>2, <3>4
  <2>5. CASE ~HasRoom(q)
    <3>1. p = RecordDrop(q, f, to)
      BY <1>0, <2>1, <2>2, <2>3, <2>5 DEF OfferOutput
    <3> DEFINE x == [v EXCEPT !.lost = v.lost \cup (f .. to - 1)]
    <3>2. x \in Client
      BY <1>0, LostMore DEF Later
    <3>3. /\ p \in Observer /\ p.queue = q.queue /\ p.drop.bytes > 0 /\ p.drop.to = to
          /\ Served(p, x, to, to, ring)
      BY <2>1, <2>3, <3>1, <3>2, DroppedServed
    <3>4. o.drop.to = from
      BY <1>3 DEF Served, Drops
    <3>5. w = x
      BY <1>0, <3>3, <3>4
    <3>q. QED
      BY <2>1, <3>3, <3>5
  <2>q. QED
    BY <2>4, <2>5
<1>4. CASE o.registered /\ ~o.pending
  <2>1. p = OfferOutput(o, from, to) /\ Trim(o, from) = f
    BY <1>4 DEF Offer, Trim
  <2>2. CASE to <= o.live
    <3>1. p = o
      BY <1>0, <2>1, <2>2 DEF OfferOutput
    <3>2. w = v
      BY <3>1
    <3>q. QED
      BY <2>2, <3>1, <3>2, KeptServed
  <2>3. CASE to > o.live /\ HasRoom(o)
    <3>1. p = [o EXCEPT !.queue = Append(o.queue, OutputOf(f, to))]
      BY <1>0, <2>1, <2>3 DEF OfferOutput
    <3>2. p \in Observer /\ Len(p.queue) <= QueueCapacity /\ Served(p, v, to, to, ring)
      BY <1>4, <2>3, <3>1, QueuedServed, SMTT(30) DEF HasRoom
    <3>3. p.drop = o.drop
      BY <3>1 DEF Observer
    <3>4. w = v
      BY <3>3
    <3>q. QED
      BY <3>2, <3>4
  <2>4. CASE to > o.live /\ ~HasRoom(o)
    <3>1. p = RecordDrop(o, f, to)
      BY <1>0, <2>1, <2>4 DEF OfferOutput
    <3> DEFINE x == [v EXCEPT !.lost = v.lost \cup (f .. to - 1)]
    <3>2. x \in Client
      BY <1>0, LostMore DEF Later
    <3>3. /\ p \in Observer /\ p.queue = o.queue /\ p.drop.bytes > 0
          /\ p.drop.bytes # o.drop.bytes /\ Served(p, x, to, to, ring)
      BY <1>4, <2>4, <3>1, <3>2, DroppedServed
    <3>4. w = x
      BY <3>3
    <3>q. QED
      BY <3>3, <3>4
  <2>q. QED
    BY <1>0, <2>2, <2>3, <2>4
<1>q. QED
  BY <1>1, <1>2, <1>3, <1>4

-----------------------------------------------------------------------------
\* The initial states, and the steps of the main thread.

USE DEF Mains, MainStages

LEMMA NothingThere ==
  /\ Nothing \in Message /\ Nothing.kind = "output" /\ NoMeta \in Metadata /\ ~NoMeta.there
  /\ <<>> \in Seq(Message)
  BY Offsets DEF Nothing, Message, NoMeta, Metadata

LEMMA InitInv == ASSUME Init PROVE Inv
<1>0. 0 \in Offset /\ 0 \in Nat /\ OutputAssumption
  BY Offsets, OutputAssumption
<1>1. Chunk /\ Rings /\ Sent = 0
  BY <1>0, NothingThere DEF Init, Chunk, Rings, Ring, Sent
<1> DEFINE o == [stage |-> "idle", lags |-> FALSE, registered |-> FALSE, cut |-> FALSE, live |-> 0,
                 queue |-> <<>>, drop |-> [from |-> 0, to |-> 0, bytes |-> 0], pending |-> FALSE,
                 slot |-> Nothing, meta |-> NoMeta, hand |-> Nothing]
           v == [next |-> 0, lost |-> {}, told |-> {}]
<1>2. o \in Observer
  BY <1>0, NothingThere DEF Observer, Stages, Dropped
<1>3. v \in Client
  BY <1>0 DEF Client
<1>4. obs = [s \in Observers |-> o] /\ served = [s \in Observers |-> v]
  BY DEF Init
<1>5. Idle(o) /\ Replays(o, 0, 0) /\ Stream(o, v, 0)
  BY DEF Idle, Replays, Stream
<1>6. Drops(o, v, 0, 0)
  BY NothingThere DEF Drops, Fair, Later
<1>7. Len(o.queue) <= QueueCapacity
  BY <1>0
<1> HIDE DEF o, v
<1>8. TypeOK
  <2>1. /\ main \in Mains
        /\ log \in Offset /\ term \in [offset : Offset, start : Offset]
        /\ files \in [from : Offset, to : Offset, meta : Metadata]
    BY <1>0, NothingThere DEF Init
  <2>q. QED
    BY <1>2, <1>3, <1>4, <1>7, <2>1 DEF TypeOK, Client
<1>9. files.to = 0 /\ log = 0
  BY DEF Init
<1>q. QED
  BY <1>1, <1>4, <1>5, <1>6, <1>8, <1>9 DEF Inv, Served

\* More of the log and more of the files is no harm to an observer.
LEMMA ServedMore ==
  ASSUME NEW o \in Observer, NEW v, NEW sent \in Offset, NEW end \in Offset, NEW more \in Offset,
         NEW ring \in Offset, NEW later \in Offset, Served(o, v, sent, end, ring),
         ring <= later, end <= more, sent = end \/ end = more
  PROVE  Served(o, v, sent, more, later)
<1>1. /\ o.live \in Nat /\ sent \in Nat /\ end \in Nat /\ more \in Nat /\ ring \in Nat
      /\ later \in Nat /\ o.meta.end \in Nat
  BY Offsets DEF Observer, Metadata
<1>2. Replays(o, more, later)
  BY <1>1 DEF Served, Replays
<1>3. Drops(o, v, sent, more)
  BY <1>1 DEF Served, Drops
<1>q. QED
  BY <1>2, <1>3 DEF Served

\* A step of the main thread that touches no observer.
LEMMA MainStep ==
  ASSUME Inv, UNCHANGED <<obs, served>>, Chunk', Rings', Sent' = Sent, Sent \in Offset,
         main' \in Mains,
         log' \in Offset, term' \in [offset : Offset, start : Offset],
         files' \in [from : Offset, to : Offset, meta : Metadata],
         log <= log', files.to <= files.to', Sent = log \/ log' = log
  PROVE  Inv'
<1>1. TypeOK /\ \A s \in Observers : Served(obs[s], served[s], Sent, log, files.to)
  BY DEF Inv
<1>2. log \in Offset /\ files.to \in Offset /\ files.to' \in Offset /\ \A s \in Observers : obs[s] \in Observer
  BY <1>1 DEF TypeOK
<1>3. TypeOK'
  BY <1>1 DEF TypeOK
<1>4. \A s \in Observers : Served(obs[s], served[s], Sent, log', files.to')
  BY <1>1, <1>2, ServedMore
<1>5. (\A s \in Observers : Served(obs[s], served[s], Sent, log, files.to))'
  BY <1>4
<1>q. QED
  BY <1>3, <1>5 DEF Inv

LEMMA Types ==
  ASSUME Inv
  PROVE  /\ log \in Nat /\ log \in Offset /\ main.from \in Offset /\ main.to \in Offset
         /\ main.from \in Nat /\ main.to \in Nat /\ term.offset \in Nat /\ term.start \in Nat
         /\ term.offset \in Offset /\ term.start \in Offset
         /\ files.from \in Nat /\ files.to \in Nat /\ files.from \in Offset /\ files.to \in Offset
         /\ files.meta \in Metadata /\ files.meta.start \in Nat /\ files.meta.end \in Nat
         /\ files.meta.start \in Offset /\ files.meta.end \in Offset
         /\ Sent \in Offset /\ Sent \in Nat /\ Sent <= log
         /\ RingCapacity \in Nat /\ RingCapacity > 0
<1>1. /\ main \in Mains
      /\ log \in Offset /\ term \in [offset : Offset, start : Offset]
      /\ files \in [from : Offset, to : Offset, meta : Metadata] /\ Chunk
  BY DEF Inv, TypeOK
<1>2. files.meta \in Metadata /\ files.meta.start \in Offset /\ files.meta.end \in Offset
  BY <1>1 DEF Metadata
<1>3. /\ main.from \in Offset /\ main.to \in Offset /\ term.offset \in Offset
      /\ term.start \in Offset /\ files.from \in Offset /\ files.to \in Offset /\ log \in Offset
  BY <1>1
<1>4. /\ main.from \in Nat /\ main.to \in Nat /\ term.offset \in Nat /\ log \in Nat
      /\ term.start \in Nat /\ files.from \in Nat /\ files.to \in Nat
      /\ files.meta.start \in Nat /\ files.meta.end \in Nat
  BY <1>2, <1>3, Offsets
<1>5. Sent \in Offset /\ Sent \in Nat /\ Sent <= log
  BY <1>1, <1>3, <1>4 DEF Sent, Chunk
<1>6. RingCapacity \in Nat /\ RingCapacity > 0
  BY OutputAssumption
<1>q. QED
  BY <1>2, <1>3, <1>4, <1>5, <1>6

LEMMA ReadOutputInv == ASSUME Inv, ReadOutput PROVE Inv'
<1>0. Chunk /\ Rings /\ main.stage = "reading" /\ main \in Mains
  BY DEF Inv, ReadOutput, TypeOK
<1>1. PICK n \in 1 .. MaxChunk :
        /\ log + n <= MaxOutput
        /\ main' = [stage |-> "ring", from |-> log, to |-> log + n]
        /\ term' = [offset |-> term.offset + n, start |-> RingStart(term.start, term.offset + n)]
  BY DEF ReadOutput
<1>2. n \in Nat /\ n > 0 /\ term.offset = log /\ log + n \in Offset
  BY <1>0, <1>1, Types, OutputAssumption DEF Chunk, Offset
<1>3. RingStart(term.start, term.offset + n) \in Offset /\ Ring(term.start, term.offset)'
  BY <1>0, <1>1, <1>2, Types, OutputAssumption DEF RingStart, Rings, Ring, Offset
<1>4. UNCHANGED <<log, files, obs, served>>
  BY DEF ReadOutput
<1>5. Chunk' /\ Sent' = Sent
  BY <1>0, <1>1, <1>2, <1>4, Types DEF Chunk, Sent
<1>6. Rings'
  BY <1>0, <1>1, <1>2, <1>3, <1>4, Types DEF Rings
<1>7. /\ main' \in Mains
      /\ term' \in [offset : Offset, start : Offset]
      /\ files' \in [from : Offset, to : Offset, meta : Metadata]
  BY <1>1, <1>2, <1>3, <1>4, Types DEF Inv, TypeOK
<1>q. QED
  BY <1>4, <1>5, <1>6, <1>7, Types, MainStep

\* The main thread goes on, with the chunk it is at.
LEMMA MainMoved ==
  ASSUME Inv, NEW a, NEW b \in MainStages,
         MainGoes(a, b)
  PROVE  /\ main.stage = a /\ main'.stage = b /\ main'.from = main.from /\ main'.to = main.to
         /\ main' \in Mains
  BY DEF MainGoes, Inv, TypeOK

LEMMA WriteRingInv == ASSUME Inv, WriteRing PROVE Inv'
<1>0. Chunk /\ Rings /\ files \in [from : Offset, to : Offset, meta : Metadata]
      /\ term \in [offset : Offset, start : Offset]
  BY DEF Inv, TypeOK
<1>1. /\ main.stage = "ring" /\ main'.stage = "snapshot" /\ main'.from = main.from
      /\ main'.to = main.to
      /\ main' \in Mains
  BY MainMoved DEF WriteRing
<1>2. /\ UNCHANGED <<log, term, obs, served>> /\ files'.from = term.start
      /\ files'.to = term.offset /\ files'.meta = files.meta
      /\ files' \in [from : Offset, to : Offset, meta : Metadata]
  BY <1>0, Types DEF WriteRing
<1>3. Chunk' /\ Sent' = Sent
  BY <1>0, <1>1, <1>2 DEF Chunk, Sent
<1>4. Rings'
  BY <1>0, <1>1, <1>2, Types DEF Rings, Ring
<1>q. QED
  BY <1>0, <1>1, <1>2, <1>3, <1>4, Types, MainStep DEF Rings

LEMMA WriteSnapshotInv == ASSUME Inv, WriteSnapshot PROVE Inv'
<1>0. Chunk /\ Rings /\ files \in [from : Offset, to : Offset, meta : Metadata]
      /\ term \in [offset : Offset, start : Offset]
  BY DEF Inv, TypeOK
<1>1. /\ main.stage = "snapshot" /\ main'.stage = "append" /\ main'.from = main.from
      /\ main'.to = main.to
      /\ main' \in Mains
  BY MainMoved DEF WriteSnapshot
<1>2. /\ UNCHANGED <<log, term, obs, served>> /\ files'.from = files.from
      /\ files'.to = files.to /\ files'.meta.start = term.start /\ files'.meta.end = term.offset
      /\ files' \in [from : Offset, to : Offset, meta : Metadata]
  BY <1>0, Types DEF WriteSnapshot, Metadata
<1>3. Chunk' /\ Sent' = Sent
  BY <1>0, <1>1, <1>2 DEF Chunk, Sent
<1>4. Rings'
  BY <1>0, <1>1, <1>2, Types DEF Rings, Ring
<1>q. QED
  BY <1>0, <1>1, <1>2, <1>3, <1>4, Types, MainStep

LEMMA AppendLogInv == ASSUME Inv, AppendLog PROVE Inv'
<1>0. Chunk /\ Rings /\ files \in [from : Offset, to : Offset, meta : Metadata]
      /\ term \in [offset : Offset, start : Offset]
  BY DEF Inv, TypeOK
<1>1. /\ main.stage = "append" /\ main'.stage = "broadcast" /\ main'.from = main.from
      /\ main'.to = main.to
      /\ main' \in Mains
  BY MainMoved DEF AppendLog
<1>2. UNCHANGED <<term, files, obs, served>> /\ log' = main.to
  BY DEF AppendLog
<1>3. Chunk' /\ Sent' = Sent /\ Sent = log /\ log <= log'
  BY <1>0, <1>1, <1>2, Types DEF Chunk, Sent
<1>4. Rings'
  BY <1>0, <1>1, <1>2 DEF Rings
<1>q. QED
  BY <1>0, <1>1, <1>2, <1>3, <1>4, Types, MainStep

LEMMA EndInv == ASSUME Inv, End PROVE Inv'
<1>0. Chunk /\ Rings /\ files \in [from : Offset, to : Offset, meta : Metadata]
      /\ term \in [offset : Offset, start : Offset]
  BY DEF Inv, TypeOK
<1>1. /\ main.stage = "reading" /\ main'.stage = "dead" /\ main'.from = main.from
      /\ main'.to = main.to
      /\ main' \in Mains
  BY MainMoved DEF End
<1>2. UNCHANGED <<log, term, files, obs, served>>
  BY DEF End
<1>3. Chunk' /\ Sent' = Sent
  BY <1>0, <1>1, <1>2 DEF Chunk, Sent
<1>4. Rings'
  BY <1>0, <1>1, <1>2 DEF Rings
<1>q. QED
  BY <1>0, <1>1, <1>2, <1>3, <1>4, Types, MainStep

LEMMA BroadcastInv == ASSUME Inv, Broadcast PROVE Inv'
<1>0. Chunk /\ Rings /\ TypeOK /\ \A s \in Observers : Served(obs[s], served[s], Sent, log, files.to)
  BY DEF Inv
<1>1. /\ main.stage = "broadcast" /\ main'.stage = "reading"
      /\ main' \in Mains
  BY MainMoved DEF Broadcast
<1>2. /\ UNCHANGED <<log, term, files>>
      /\ obs' = [s \in Observers |-> Offer(obs[s], main.from, main.to)]
  BY DEF Broadcast
<1>3. Sent = main.from /\ main.to = log /\ main.from < main.to /\ Sent' = log
  BY <1>0, <1>1, <1>2 DEF Chunk, Sent
<1>4. Chunk' /\ Rings'
  BY <1>0, <1>1, <1>2 DEF Chunk, Rings
<1>5. ASSUME NEW s \in Observers
      PROVE  /\ obs'[s] \in Observer /\ Len(obs'[s].queue) <= QueueCapacity
             /\ served'[s] \in Client /\ Served(obs'[s], served'[s], log, log, files.to)
  <2> DEFINE o == obs[s]
             v == served[s]
             p == Offer(o, main.from, main.to)
             w == IF p.drop.bytes > 0 /\ p.drop # o.drop
                    THEN [v EXCEPT !.lost = v.lost \cup (Later(main.from, o.live) .. main.to - 1)]
                    ELSE v
  <2>1. o \in Observer /\ Len(o.queue) <= QueueCapacity /\ v \in Client
    BY <1>0 DEF TypeOK, Client
  <2>2. obs'[s] = p
    BY <1>2
  <2>3. served'[s] = w
    BY <2>2 DEF Broadcast
  <2>4. w \in Client
    <3>1. Later(main.from, o.live) \in Nat
      BY <2>1, Offsets, Types DEF Observer, Later
    <3>2. [v EXCEPT !.lost = v.lost \cup (Later(main.from, o.live) .. main.to - 1)] \in Client
      BY <2>1, <3>1, LostMore, Types
    <3>q. QED
      BY <2>1, <3>2
  <2>5. Served(o, v, main.from, main.to, files.to)
    BY <1>0, <1>3
  <2>6. p \in Observer /\ Len(p.queue) <= QueueCapacity /\ Served(p, w, main.to, main.to, files.to)
    BY <1>3, <2>1, <2>4, <2>5, OfferServes, Types
  <2>q. QED
    BY <1>3, <2>2, <2>3, <2>4, <2>6
<1>6. (\A s \in Observers : Served(obs[s], served[s], Sent, log, files.to))'
  BY <1>2, <1>3, <1>5
<1>7. obs' \in [Observers -> Observer] /\ served' \in [Observers -> Client]
  <2>1. /\ obs' = [s \in Observers |-> obs'[s]]
    BY <1>2
  <2>2. served' = [s \in Observers |-> served'[s]]
    BY DEF Broadcast
  <2>q. QED
    BY <1>5, <2>1, <2>2
<1>8. TypeOK'
  BY <1>0, <1>1, <1>2, <1>5, <1>7 DEF TypeOK, Client
<1>q. QED
  BY <1>4, <1>6, <1>8 DEF Inv

-----------------------------------------------------------------------------
\* The steps of the connection threads.

LEMMA ObserverStep ==
  ASSUME Inv, UNCHANGED Output, NEW s \in Observers, NEW p \in Observer,
         Len(p.queue) <= QueueCapacity, Becomes(s, p), NEW w \in Client,
         served' = [served EXCEPT ![s] = w], Served(p, w, Sent, log, files.to)
  PROVE  Inv'
<1>1. /\ TypeOK /\ Chunk /\ Rings
      /\ \A t \in Observers : Served(obs[t], served[t], Sent, log, files.to)
  BY DEF Inv
<1>2. UNCHANGED <<main, log, term, files>> /\ obs' = [obs EXCEPT ![s] = p]
  BY DEF Output, Becomes
<1>3. obs \in [Observers -> Observer] /\ served \in [Observers -> Client]
  BY <1>1 DEF TypeOK, Client
<1>4. \A t \in Observers : /\ obs'[t] = IF t = s THEN p ELSE obs[t]
                           /\ served'[t] = IF t = s THEN w ELSE served[t]
  BY <1>2, <1>3
<1>5. obs' \in [Observers -> Observer] /\ served' \in [Observers -> Client]
  BY <1>2, <1>3
<1>6. TypeOK'
  BY <1>1, <1>2, <1>4, <1>5 DEF TypeOK, Client
<1>7. Chunk' /\ Rings' /\ Sent' = Sent
  BY <1>1, <1>2 DEF Chunk, Rings, Sent
<1>8. (\A t \in Observers : Served(obs[t], served[t], Sent, log, files.to))'
  BY <1>1, <1>2, <1>4, <1>7
<1>q. QED
  BY <1>6, <1>7, <1>8 DEF Inv

\* What is known of one attach.
LEMMA OneOf ==
  ASSUME Inv, NEW s \in Observers
  PROVE  /\ obs[s] \in Observer /\ Len(obs[s].queue) <= QueueCapacity
         /\ served[s] \in Client /\ served = [served EXCEPT ![s] = served[s]]
         /\ Served(obs[s], served[s], Sent, log, files.to)
         /\ Fair(obs[s].slot, served[s]) /\ Fair(obs[s].hand, served[s])
         /\ obs[s].live \in Nat /\ obs[s].live <= log
         /\ obs[s].hand \in Message /\ obs[s].slot \in Message /\ obs[s].meta \in Metadata
         /\ obs[s].queue \in Seq(Message)
<1>1. /\ obs \in [Observers -> Observer] /\ served \in [Observers -> Client]
      /\ Len(obs[s].queue) <= QueueCapacity
      /\ Served(obs[s], served[s], Sent, log, files.to)
  BY DEF Inv, TypeOK, Client
<1>2. obs[s] \in Observer /\ served[s] \in Client /\ served = [served EXCEPT ![s] = served[s]]
  BY <1>1
<1>3. obs[s].live \in Offset /\ obs[s].hand \in Message /\ obs[s].slot \in Message
      /\ obs[s].meta \in Metadata /\ obs[s].queue \in Seq(Message)
  BY <1>2 DEF Observer
<1>4. Fair(obs[s].slot, served[s]) /\ Fair(obs[s].hand, served[s]) /\ obs[s].live <= log
  BY <1>1 DEF Served, Drops, Replays
<1>q. QED
  BY <1>1, <1>2, <1>3, <1>4, Offsets

\* A step that leaves the queue and what is dropped alone, and writes no live message.
LEMMA KeepsStream ==
  ASSUME Inv, UNCHANGED Output, NEW s \in Observers, NEW p \in Observer, Becomes(s, p),
         UNCHANGED served,
         p.lags = obs[s].lags, p.registered = obs[s].registered,
         p.live = obs[s].live, p.queue = obs[s].queue,
         p.drop = obs[s].drop, p.pending = obs[s].pending, obs[s].stage # "write",
         p.stage \notin {"write", "idle"},
         Replays(p, log, files.to), Fair(p.slot, served[s]), Fair(p.hand, served[s])
  PROVE  Inv'
<1> DEFINE o == obs[s]
           v == served[s]
<1>1. /\ o \in Observer /\ Len(o.queue) <= QueueCapacity /\ v \in Client
      /\ served = [served EXCEPT ![s] = v] /\ Served(o, v, Sent, log, files.to)
  BY OneOf
<1>2. Idle(p)
  BY DEF Idle
<1>3. Drops(p, v, Sent, log)
  BY <1>1 DEF Served, Drops
<1>4. Coming(p) = Coming(o)
  BY DEF Coming
<1>5. Stream(p, v, Sent)
  BY <1>1, <1>4 DEF Served, Stream
<1>6. Served(p, v, Sent, log, files.to)
  BY <1>2, <1>3, <1>5 DEF Served
<1>q. QED
  BY <1>1, <1>6, ObserverStep

LEMMA StageMoves ==
  ASSUME Inv, UNCHANGED Output, NEW s \in Observers, NEW stage \in Stages, Moves(s, stage),
         UNCHANGED served, obs[s].stage # "write",
         stage \notin {"write", "idle", "ring", "replay"}
  PROVE  Inv'
<1> DEFINE p == [obs[s] EXCEPT !.stage = stage]
<1>0. obs[s] \in Observer /\ Served(obs[s], served[s], Sent, log, files.to)
      /\ Fair(obs[s].slot, served[s]) /\ Fair(obs[s].hand, served[s])
  BY OneOf
<1>1. /\ p \in Observer /\ p.stage = stage /\ p.lags = obs[s].lags
      /\ p.registered = obs[s].registered /\ p.live = obs[s].live /\ p.queue = obs[s].queue
      /\ p.drop = obs[s].drop /\ p.pending = obs[s].pending
      /\ p.slot = obs[s].slot /\ p.hand = obs[s].hand
  BY <1>0 DEF Observer
<1>2. Becomes(s, p)
  BY DEF Moves
<1> HIDE DEF p
<1>3. Replays(p, log, files.to)
  BY <1>0, <1>1 DEF Served, Replays
<1>q. QED
  BY <1>0, <1>1, <1>2, <1>3, KeepsStream

LEMMA RegisterInv == ASSUME Inv, NEW s \in Observers, Register(s) PROVE Inv'
<1> DEFINE o == obs[s]
           e == [from |-> log, to |-> log, bytes |-> 0]
           w == [served[s] EXCEPT !.next = log]
<1>0. /\ o \in Observer /\ Len(o.queue) <= QueueCapacity /\ served[s] \in Client
      /\ Served(o, served[s], Sent, log, files.to)
      /\ Fair(o.slot, served[s]) /\ Fair(o.hand, served[s])
  BY OneOf
<1>1. o.stage = "idle" /\ UNCHANGED Output /\ served' = [served EXCEPT ![s] = w]
  BY DEF Register, At
<1>2. log \in Offset /\ log \in Nat /\ Sent \in Nat /\ Sent <= log /\ e \in Dropped
  BY Types DEF Dropped
<1>3. PICK lags \in BOOLEAN :
        Becomes(s, [o EXCEPT !.stage = "respond", !.lags = lags, !.registered = TRUE,
                     !.live = log, !.drop = e])
  BY DEF Register
<1> DEFINE p == [o EXCEPT !.stage = "respond", !.lags = lags, !.registered = TRUE,
                  !.live = log, !.drop = e]
<1>4. o.queue = <<>> /\ ~o.pending
  BY <1>0, <1>1 DEF Served, Idle
<1> HIDE DEF e
<1>5. /\ p \in Observer /\ p.stage = "respond" /\ p.lags = lags /\ p.live = log
      /\ p.queue = o.queue /\ p.drop = e /\ p.pending = o.pending /\ p.slot = o.slot
      /\ p.hand = o.hand
  BY <1>0, <1>2 DEF Observer, Stages
<1> HIDE DEF p
<1>6. w \in Client /\ w.next = log /\ w.lost = served[s].lost
  BY <1>0, <1>2 DEF Client
<1> HIDE DEF w
<1>7. Idle(p) /\ Replays(p, log, files.to)
  BY <1>2, <1>5 DEF Idle, Replays
<1>8. Drops(p, w, Sent, log)
  <2>1. Fair(p.slot, w) /\ Fair(p.hand, w)
    BY <1>0, <1>5, <1>6 DEF Fair
  <2>2. \A i \in DOMAIN p.queue : Fair(p.queue[i], w)
    BY <1>4, <1>5
  <2>3. p.drop.bytes = 0 /\ p.drop.to = log /\ p.drop.from = log /\ Bytes(p.drop) = {}
    BY <1>2, <1>5 DEF e, Bytes
  <2>4. Later(log, Sent) = log
    BY <1>2 DEF Later
  <2>q. QED
    BY <1>2, <1>4, <1>5, <2>1, <2>2, <2>3, <2>4 DEF Drops
<1>9. Stream(p, w, Sent)
  <2>1. Coming(p) = <<>>
    BY <1>4, <1>5, ComingQueue
  <2>2. Later(p.live, Sent) = log
    BY <1>2, <1>5 DEF Later
  <2>3. Joined(log, <<>>, log) /\ Ordered(log, <<>>, log)
    BY <1>2 DEF Joined, Ordered
  <2>q. QED
    BY <1>4, <1>5, <1>6, <2>1, <2>2, <2>3 DEF Stream
<1>10. Served(p, w, Sent, log, files.to)
  BY <1>7, <1>8, <1>9 DEF Served
<1>11. Len(p.queue) <= QueueCapacity /\ Becomes(s, p)
  BY <1>0, <1>3, <1>5 DEF p
<1>q. QED
  BY <1>1, <1>5, <1>6, <1>10, <1>11, ObserverStep

LEMMA RespondInv == ASSUME Inv, NEW s \in Observers, Respond(s) PROVE Inv'
<1>1. PICK stage \in {"poll", "meta", "screen"} : Moves(s, stage)
  BY DEF Respond
<1>2. UNCHANGED Output /\ UNCHANGED served /\ obs[s].stage = "respond"
  BY DEF Respond, At
<1>q. QED
  BY <1>1, <1>2, StageMoves DEF Stages

LEMMA ReadMetadataInv == ASSUME Inv, NEW s \in Observers, ReadMetadata(s) PROVE Inv'
<1>1. UNCHANGED Output /\ UNCHANGED served /\ obs[s].stage = "meta"
  BY DEF ReadMetadata, At
<1>2. CASE Moves(s, "poll")
  BY <1>1, <1>2, StageMoves DEF Stages
<1> DEFINE p == [obs[s] EXCEPT !.stage = "ring", !.meta = files.meta]
<1>3. CASE files.meta.there /\ Becomes(s, p)
  <2>0. obs[s] \in Observer /\ Served(obs[s], served[s], Sent, log, files.to)
        /\ Fair(obs[s].slot, served[s]) /\ Fair(obs[s].hand, served[s]) /\ Rings
        /\ files.meta \in Metadata /\ obs[s].live <= log
    BY OneOf, Types DEF Inv
  <2>1. /\ p \in Observer /\ p.stage = "ring" /\ p.lags = obs[s].lags
        /\ p.registered = obs[s].registered /\ p.live = obs[s].live /\ p.queue = obs[s].queue
        /\ p.drop = obs[s].drop /\ p.pending = obs[s].pending
        /\ p.slot = obs[s].slot /\ p.hand = obs[s].hand /\ p.meta = files.meta
    BY <2>0 DEF Observer, Stages
  <2> HIDE DEF p
  <2>2. Replays(p, log, files.to)
    BY <1>3, <2>0, <2>1 DEF Replays, Rings
  <2>q. QED
    BY <1>1, <1>3, <2>0, <2>1, <2>2, KeepsStream
<1>q. QED
  BY <1>2, <1>3 DEF ReadMetadata

\* A replay is taken into the hand.
LEMMA TakesReplay ==
  ASSUME Inv, NEW s \in Observers, UNCHANGED Output, UNCHANGED served,
         obs[s].stage \in {"ring", "screen"}, NEW m \in Message, m.kind # "lag",
         Becomes(s, [obs[s] EXCEPT !.stage = "replay", !.hand = m]),
         \/ m.to = obs[s].live
         \/ m.to > obs[s].live /\ (m.kind = "screen" \/ m.bytes = RingCapacity)
  PROVE  Inv'
<1> DEFINE p == [obs[s] EXCEPT !.stage = "replay", !.hand = m]
<1>0. obs[s] \in Observer /\ Fair(obs[s].slot, served[s]) /\ obs[s].live <= log
  BY OneOf
<1>1. /\ p \in Observer /\ p.stage = "replay" /\ p.lags = obs[s].lags
      /\ p.registered = obs[s].registered /\ p.live = obs[s].live /\ p.queue = obs[s].queue
      /\ p.drop = obs[s].drop /\ p.pending = obs[s].pending
      /\ p.slot = obs[s].slot /\ p.hand = m
  BY <1>0 DEF Observer, Stages
<1>2. Becomes(s, p)
  OBVIOUS
<1> HIDE DEF p
<1>3. Replays(p, log, files.to) /\ Fair(m, served[s])
  BY <1>0, <1>1 DEF Replays, Fair
<1>q. QED
  BY <1>0, <1>1, <1>2, <1>3, KeepsStream

LEMMA ReadRingInv == ASSUME Inv, NEW s \in Observers, ReadRing(s) PROVE Inv'
<1>1. UNCHANGED Output /\ UNCHANGED served /\ obs[s].stage = "ring"
  BY DEF ReadRing, At
<1>2. CASE Moves(s, "poll")
  BY <1>1, <1>2, StageMoves DEF Stages
<1> DEFINE m == OutputOf(files.from, files.to)
           meta == obs[s].meta
<1>3. CASE /\ Fresh(meta, obs[s].live, files.to - files.from) /\ files.to > files.from
           /\ Becomes(s, [obs[s] EXCEPT !.stage = "replay", !.hand = m])
  <2>0. /\ obs[s].live \in Nat /\ meta \in Metadata
        /\ Served(obs[s], served[s], Sent, log, files.to) /\ Rings
    BY OneOf DEF Inv
  <2>1. m \in Message /\ m.kind = "output" /\ m.to = files.to /\ m.bytes = files.to - files.from
    BY <1>3, Types DEF OutputOf, Message
  <2>2. meta.start \in Nat /\ meta.end \in Nat
    BY <2>0, Offsets DEF Metadata
  <2>3. Ring(meta.start, meta.end) /\ meta.end <= files.to /\ Ring(files.from, files.to)
    BY <1>1, <2>0 DEF Served, Replays, Rings
  <2>4. meta.end = obs[s].live /\ meta.end - meta.start = files.to - files.from
    BY <1>3 DEF Fresh
  <2>5. files.to = obs[s].live \/ (files.to > obs[s].live /\ files.to - files.from = RingCapacity)
    BY <2>2, <2>3, <2>4, Types DEF Ring
  <2>q. QED
    BY <1>1, <1>3, <2>1, <2>5, TakesReplay
<1>q. QED
  BY <1>2, <1>3 DEF ReadRing

LEMMA TakeScreenInv == ASSUME Inv, NEW s \in Observers, TakeScreen(s) PROVE Inv'
<1>1. /\ UNCHANGED Output /\ UNCHANGED served /\ obs[s].stage = "screen"
      /\ main.stage \notin {"ring", "snapshot"}
  BY DEF TakeScreen, At
<1>2. CASE Moves(s, "poll")
  BY <1>1, <1>2, StageMoves DEF Stages
<1> DEFINE m == [OutputOf(0, term.offset) EXCEPT !.kind = "screen"]
<1>3. CASE Becomes(s, [obs[s] EXCEPT !.stage = "replay", !.hand = m])
  <2>1. m \in Message /\ m.kind = "screen" /\ m.to = term.offset
    BY Types, Offsets DEF OutputOf, Message
  <2>2. term.offset >= log
    BY <1>1, Types DEF Inv, Chunk, TypeOK
  <2>3. term.offset >= obs[s].live
    BY <2>2, OneOf, Types
  <2>4. m.to = obs[s].live \/ (m.to > obs[s].live /\ m.kind = "screen")
    BY <2>1, <2>3, OneOf, Types
  <2>5. m.kind # "lag"
    BY <2>1
  <2> HIDE DEF m
  <2>q. QED
    BY <1>1, <1>3, <2>1, <2>4, <2>5, TakesReplay
<1>q. QED
  BY <1>2, <1>3 DEF TakeScreen

LEMMA WriteReplayInv == ASSUME Inv, NEW s \in Observers, WriteReplay(s) PROVE Inv'
<1>1. UNCHANGED Output /\ UNCHANGED served /\ obs[s].stage = "replay" /\ Moves(s, "poll")
  BY DEF WriteReplay, At
<1>q. QED
  BY <1>1, StageMoves DEF Stages

LEMMA PollInv == ASSUME Inv, NEW s \in Observers, Poll(s) PROVE Inv'
<1>1. UNCHANGED Output /\ UNCHANGED served /\ obs[s].stage = "poll"
  BY DEF Poll, At
<1>2. CASE Moves(s, "receive")
  BY <1>1, <1>2, StageMoves DEF Stages
<1> DEFINE p == [obs[s] EXCEPT !.stage = "notice", !.hand = obs[s].slot, !.slot = Nothing]
<1>3. CASE Becomes(s, p)
  <2>0. obs[s] \in Observer /\ Fair(obs[s].slot, served[s]) /\ obs[s].slot \in Message
        /\ obs[s].live <= log
    BY OneOf
  <2>1. /\ p \in Observer /\ p.stage = "notice" /\ p.lags = obs[s].lags
        /\ p.registered = obs[s].registered /\ p.live = obs[s].live /\ p.queue = obs[s].queue
        /\ p.drop = obs[s].drop /\ p.pending = obs[s].pending
        /\ p.slot = Nothing /\ p.hand = obs[s].slot
    BY <2>0, NothingThere DEF Observer, Stages
  <2> HIDE DEF p
  <2>2. Replays(p, log, files.to) /\ Fair(Nothing, served[s])
    BY <2>0, <2>1, NothingThere DEF Replays, Fair
  <2>q. QED
    BY <1>1, <1>3, <2>0, <2>1, <2>2, KeepsStream
<1>q. QED
  BY <1>2, <1>3 DEF Poll

LEMMA LeaveInv == ASSUME Inv, NEW s \in Observers, Leave(s) PROVE Inv'
<1> DEFINE p == [obs[s] EXCEPT !.stage = "closed", !.registered = FALSE]
<1>0. /\ obs[s] \in Observer /\ Len(obs[s].queue) <= QueueCapacity /\ served[s] \in Client
      /\ served = [served EXCEPT ![s] = served[s]]
      /\ Served(obs[s], served[s], Sent, log, files.to)
  BY OneOf
<1>1. UNCHANGED Output /\ UNCHANGED served /\ Becomes(s, p)
  BY DEF Leave
<1>2. /\ p \in Observer /\ p.stage = "closed" /\ p.lags = obs[s].lags
      /\ p.registered = FALSE /\ p.live = obs[s].live /\ p.queue = obs[s].queue
      /\ p.drop = obs[s].drop /\ p.pending = obs[s].pending
      /\ p.slot = obs[s].slot /\ p.hand = obs[s].hand
  BY <1>0 DEF Observer, Stages
<1> HIDE DEF p
<1>3. Served(p, served[s], Sent, log, files.to)
  <2>1. Idle(p) /\ Replays(p, log, files.to)
    BY <1>0, <1>2 DEF Served, Idle, Replays
  <2>2. Drops(p, served[s], Sent, log)
    BY <1>0, <1>2 DEF Served, Drops
  <2>q. QED
    BY <1>2, <2>1, <2>2 DEF Served, Stream
<1>q. QED
  BY <1>0, <1>1, <1>2, <1>3, ObserverStep

LEMMA ToldIsClient ==
  ASSUME NEW v \in Client, NEW m \in Message
  PROVE  LET w == [v EXCEPT !.told = v.told \cup Bytes(m)] IN
         w \in Client /\ w.next = v.next /\ w.lost = v.lost
<1> DEFINE told == v.told \cup Bytes(m)
<1>1. told \subseteq Offset
  BY MessageOf, OutputAssumption DEF Client, Message, Offset, Bytes
<1> HIDE DEF told
<1>2. [v EXCEPT !.told = told] \in Client
  BY <1>1 DEF Client
<1>q. QED
  BY <1>2 DEF Client, told

LEMMA WriteNoticeInv == ASSUME Inv, NEW s \in Observers, WriteNotice(s) PROVE Inv'
<1> DEFINE p == [obs[s] EXCEPT !.stage = "receive"]
           w == Told(s)
<1>0. /\ obs[s] \in Observer /\ Len(obs[s].queue) <= QueueCapacity /\ served[s] \in Client
      /\ Served(obs[s], served[s], Sent, log, files.to) /\ obs[s].hand \in Message
  BY OneOf
<1>1. /\ UNCHANGED Output /\ Becomes(s, p) /\ obs[s].stage = "notice"
      /\ served' = [served EXCEPT ![s] = w]
  BY DEF WriteNotice, At, Moves
<1>2. /\ p \in Observer /\ p.stage = "receive" /\ p.lags = obs[s].lags
      /\ p.registered = obs[s].registered /\ p.live = obs[s].live /\ p.queue = obs[s].queue
      /\ p.drop = obs[s].drop /\ p.pending = obs[s].pending
      /\ p.slot = obs[s].slot /\ p.hand = obs[s].hand
  BY <1>0 DEF Observer, Stages
<1>3. w \in Client /\ w.next = served[s].next /\ w.lost = served[s].lost
  BY <1>0, ToldIsClient DEF Told
<1> HIDE DEF p, w
<1>4. Idle(p) /\ Replays(p, log, files.to)
  BY <1>0, <1>2 DEF Served, Idle, Replays
<1>5. Drops(p, w, Sent, log)
  BY <1>0, <1>2, <1>3 DEF Served, Drops, Fair
<1>6. Stream(p, w, Sent)
  <2>1. Coming(p) = Coming(obs[s])
    BY <1>1, <1>2 DEF Coming
  <2>q. QED
    BY <1>0, <1>2, <1>3, <2>1 DEF Served, Stream
<1>7. Served(p, w, Sent, log, files.to)
  BY <1>4, <1>5, <1>6 DEF Served
<1>q. QED
  BY <1>0, <1>1, <1>2, <1>3, <1>7, ObserverStep

LEMMA ReceiveInv == ASSUME Inv, NEW s \in Observers, Receive(s) PROVE Inv'
<1> DEFINE o == obs[s]
           v == served[s]
           p == [o EXCEPT !.stage = "write", !.hand = Head(o.queue), !.queue = Tail(o.queue)]
<1>0. /\ o \in Observer /\ Len(o.queue) <= QueueCapacity /\ v \in Client
      /\ served = [served EXCEPT ![s] = v] /\ Served(o, v, Sent, log, files.to)
      /\ o.queue \in Seq(Message)
  BY OneOf
<1>1. UNCHANGED Output /\ UNCHANGED served /\ o.stage = "receive"
  BY DEF Receive, At
<1>2. CASE o.queue # <<>> /\ Becomes(s, p)
  <2>1. Head(o.queue) \in Message /\ Tail(o.queue) \in Seq(Message)
        /\ Len(Tail(o.queue)) <= Len(o.queue) /\ Len(Tail(o.queue)) \in Nat
    BY <1>0, <1>2
  <2>2. /\ p \in Observer /\ p.stage = "write" /\ p.lags = o.lags
        /\ p.registered = o.registered /\ p.live = o.live /\ p.queue = Tail(o.queue)
        /\ p.drop = o.drop /\ p.pending = o.pending
        /\ p.slot = o.slot /\ p.hand = Head(o.queue)
    BY <1>0, <2>1 DEF Observer, Stages
  <2>3. Becomes(s, p)
    BY <1>2
  <2> HIDE DEF p
  <2>4. Coming(p) = Coming(o)
    BY <1>0, <1>1, <1>2, <2>2, ComingTaken
  <2>5. Idle(p) /\ Replays(p, log, files.to)
    BY <1>0, <2>2 DEF Served, Idle, Replays
  <2>6. Drops(p, v, Sent, log)
    <3>1. \A i \in DOMAIN o.queue : Fair(o.queue[i], v)
      BY <1>0 DEF Served, Drops
    <3>2. Fair(p.hand, v)
      <4>1. Head(o.queue) = o.queue[1] /\ 1 \in DOMAIN o.queue
        BY <1>0, <1>2
      <4>q. QED
        BY <2>2, <3>1, <4>1
    <3>3. ASSUME NEW i \in DOMAIN p.queue PROVE Fair(p.queue[i], v)
      <4>1. i + 1 \in DOMAIN o.queue /\ p.queue[i] = o.queue[i + 1]
        BY <1>0, <1>2, <2>2
      <4>q. QED
        BY <3>1, <4>1
    <3>q. QED
      BY <1>0, <2>2, <3>2, <3>3 DEF Served, Drops
  <2>7. Stream(p, v, Sent)
    BY <1>0, <2>2, <2>4 DEF Served, Stream
  <2>8. Served(p, v, Sent, log, files.to)
    BY <2>5, <2>6, <2>7 DEF Served
  <2>9. Len(p.queue) <= QueueCapacity
    BY <1>0, <2>1, <2>2, OutputAssumption
  <2>q. QED
    BY <1>0, <1>1, <2>2, <2>3, <2>8, <2>9, ObserverStep
<1>3. CASE \E stage \in {"poll", "closed"} : Moves(s, stage)
  BY <1>1, <1>3, StageMoves DEF Stages
<1>q. QED
  BY <1>2, <1>3 DEF Receive

LEMMA WriteMessageInv == ASSUME Inv, NEW s \in Observers, WriteMessage(s) PROVE Inv'
<1> DEFINE o == obs[s]
           v == served[s]
           p == [o EXCEPT !.stage = "poll"]
           x == IF o.hand.kind = "lag" THEN Told(s) ELSE v
           w == [x EXCEPT !.next = o.hand.to]
<1>0. /\ o \in Observer /\ Len(o.queue) <= QueueCapacity /\ v \in Client
      /\ Served(o, v, Sent, log, files.to) /\ o.hand \in Message /\ o.queue \in Seq(Message)
  BY OneOf
<1>1. /\ UNCHANGED Output /\ Becomes(s, p) /\ o.stage = "write"
      /\ served' = [served EXCEPT ![s] = w]
  BY DEF WriteMessage, At, Moves
<1>2. /\ p \in Observer /\ p.stage = "poll" /\ p.lags = o.lags
      /\ p.registered = o.registered /\ p.live = o.live /\ p.queue = o.queue
      /\ p.drop = o.drop /\ p.pending = o.pending
      /\ p.slot = o.slot /\ p.hand = o.hand
  BY <1>0 DEF Observer, Stages
<1>3. x \in Client /\ x.lost = v.lost
  BY <1>0, ToldIsClient DEF Told
<1> HIDE DEF x
<1>4. w \in Client /\ w.next = o.hand.to /\ w.lost = v.lost
  BY <1>0, <1>3 DEF Client, Message
<1> HIDE DEF p, w
<1>5. Idle(p) /\ Replays(p, log, files.to)
  BY <1>0, <1>2 DEF Served, Idle, Replays
<1>6. Drops(p, w, Sent, log)
  BY <1>0, <1>2, <1>4 DEF Served, Drops, Fair
<1>7. Stream(p, w, Sent)
  <2>1. Coming(p) = o.queue /\ Coming(o) = <<o.hand>> \o o.queue
    BY <1>0, <1>1, <1>2, ComingQueue
  <2>2. SUFFICES ASSUME o.registered PROVE Stream(p, w, Sent)
    BY <1>2 DEF Stream
  <2>3. CASE o.lags
    <3>1. Joined(v.next, <<o.hand>> \o o.queue,
                 IF o.pending THEN o.drop.from ELSE Later(o.live, Sent))
      BY <1>0, <2>1, <2>2, <2>3 DEF Served, Stream
    <3>2. Joined(o.hand.to, o.queue, IF o.pending THEN o.drop.from ELSE Later(o.live, Sent))
      BY <1>0, <3>1, JoinedRest
    <3>q. QED
      BY <1>2, <1>4, <2>1, <2>3, <3>2 DEF Stream
  <2>4. CASE ~o.lags
    <3>0. Later(o.live, Sent) \in Nat /\ v.next \in Nat
      BY <1>0, OneOf, Types, Offsets DEF Later, Client
    <3>1. Ordered(v.next, <<o.hand>> \o o.queue, Later(o.live, Sent))
      BY <1>0, <2>1, <2>2, <2>4 DEF Served, Stream
    <3>2. Ordered(o.hand.to, o.queue, Later(o.live, Sent))
      BY <1>0, <3>0, <3>1, OrderedRest
    <3>q. QED
      BY <1>2, <1>4, <2>1, <2>4, <3>2 DEF Stream
  <2>q. QED
    BY <2>3, <2>4
<1>8. Served(p, w, Sent, log, files.to)
  BY <1>5, <1>6, <1>7 DEF Served
<1>q. QED
  BY <1>0, <1>1, <1>2, <1>4, <1>8, ObserverStep

-----------------------------------------------------------------------------
\* The theorems.

LEMMA NextInv == ASSUME Inv, [Next]_vars PROVE Inv'
<1>1. CASE Main
  BY <1>1, ReadOutputInv, WriteRingInv, WriteSnapshotInv, AppendLogInv, BroadcastInv, EndInv
     DEF Main
<1>2. ASSUME NEW s \in Observers, Register(s) \/ Thread(s) \/ Leave(s) PROVE Inv'
  BY <1>2, RegisterInv, RespondInv, ReadMetadataInv, ReadRingInv, TakeScreenInv, WriteReplayInv,
     PollInv, WriteNoticeInv, ReceiveInv, WriteMessageInv, LeaveInv DEF Thread
<1>3. CASE UNCHANGED vars
  BY <1>3 DEF vars, Inv, TypeOK, Chunk, Rings, Sent
<1>q. QED
  BY <1>1, <1>2, <1>3 DEF Next

LEMMA Invariance == Spec => []Inv
<1>1. Init => Inv
  BY InitInv
<1>2. Inv /\ [Next]_vars => Inv'
  BY NextInv
<1>q. QED
  BY <1>1, <1>2, PTL DEF Spec

\* The states of the main thread, the files, the observers and the clients are those declared,
\* and no observer's queue (ATTACH_OBSERVER_QUEUE_CAPACITY) is ever more than full.
THEOREM TypeCorrect == Spec => []TypeOK
<1>1. Inv => TypeOK
  BY DEF Inv
<1>q. QED
  BY <1>1, Invariance, PTL

\* What the connection thread is about to write as a lag frame, from the slot or the queue, was
\* dropped for this observer, all of it, and the frame counts it.
THEOREM NoticesTrue == Spec => []NoticesAreTrue
<1>1. Inv => NoticesAreTrue
  BY DEF Inv, NoticesAreTrue, Served, Drops, Fair
<1>q. QED
  BY <1>1, Invariance, PTL

\* The initial replay ends where the observer's live output begins, or, for a screen and a full
\* ring, later: never before it, whatever is written between the reads of the two files.
THEOREM ReplayMeets == Spec => []ReplayMeetsLive
<1>1. Inv => ReplayMeetsLive
  BY DEF Inv, ReplayMeetsLive, Served, Replays
<1>q. QED
  BY <1>1, Invariance, PTL

LEMMA StreamJoins ==
  ASSUME Inv, NEW s \in Observers, obs[s].registered,
         NEW u, u = UnderWay(s), NEW all, all = Later(obs[s].live, Sent),
         NEW ends, ends = [i \in 0 .. Len(u) |-> IF i = 0 THEN served[s].next ELSE u[i].to]
  PROVE  IF obs[s].lags
           THEN /\ \A i \in 1 .. Len(u) : u[i].from = ends[i - 1]
                /\ ends[Len(u)] = IF obs[s].pending THEN obs[s].drop.from ELSE all
                /\ obs[s].pending => obs[s].drop.to = all
           ELSE \A i \in 1 .. Len(u) : u[i].from >= ends[i - 1] /\ u[i].kind = "output"
<1> DEFINE o == obs[s]
           v == served[s]
<1>1. /\ o \in Observer /\ v \in Client /\ Served(o, v, Sent, log, files.to)
      /\ o.live \in Nat /\ Sent \in Nat
  BY OneOf, Types
<1>2. u = Coming(o) /\ u \in Seq(Message) /\ Len(u) \in Nat
  <2>1. u = Coming(o)
    BY DEF Coming, UnderWay
  <2>2. Coming(o) \in Seq(Message)
    BY <1>1, ComingQueue
  <2>q. QED
    BY <2>1, <2>2
<1>3. \A i \in 0 .. Len(u) : ends[i] = IF i = 0 THEN v.next ELSE u[i].to
  OBVIOUS
<1>4. CASE o.lags
  <2> DEFINE last == IF o.pending THEN o.drop.from ELSE all
  <2>1. Joined(v.next, u, last)
    BY <1>1, <1>2, <1>4 DEF Served, Stream
  <2> HIDE DEF last
  <2>2. ASSUME NEW i \in 1 .. Len(u) PROVE u[i].from = ends[i - 1]
    <3>1. CASE i = 1
      BY <1>2, <1>3, <2>1, <3>1 DEF Joined
    <3>2. CASE i # 1
      <4>1. i - 1 \in 1 .. Len(u) - 1 /\ i - 1 \in 0 .. Len(u) /\ i - 1 # 0 /\ (i - 1) + 1 = i
        BY <1>2, <3>2
      <4>2. u[(i - 1) + 1].from = u[i - 1].to
        BY <2>1, <4>1 DEF Joined
      <4>q. QED
        BY <1>3, <4>1, <4>2
    <3>q. QED
      BY <3>1, <3>2
  <2>3. ends[Len(u)] = last
    BY <1>2, <1>3, <2>1 DEF Joined
  <2>4. o.pending => o.drop.to = all
    BY <1>1 DEF Served, Drops, Later
  <2>q. QED
    BY <1>4, <2>2, <2>3, <2>4 DEF last
<1>5. CASE ~o.lags
  <2>1. Ordered(v.next, u, all)
    BY <1>1, <1>2, <1>5 DEF Served, Stream
  <2>2. ASSUME NEW i \in 1 .. Len(u) PROVE u[i].from >= ends[i - 1] /\ u[i].kind = "output"
    <3>0. u[i].from \in Nat /\ v.next \in Nat /\ u[i].kind = "output"
      <4>1. u[i] \in Message /\ v.next \in Offset
        BY <1>1, <1>2 DEF Client
      <4>2. u[i].kind = "output"
        BY <2>1 DEF Ordered
      <4>q. QED
        BY <4>1, <4>2, MessageOf, Offsets
    <3>1. CASE i = 1
      BY <1>2, <1>3, <2>1, <3>0, <3>1 DEF Ordered
    <3>2. CASE i # 1
      <4>1. i - 1 \in 1 .. Len(u) - 1 /\ i - 1 \in 0 .. Len(u) /\ i - 1 # 0 /\ (i - 1) + 1 = i
            /\ i - 1 \in 1 .. Len(u)
        BY <1>2, <3>2
      <4>2. u[i - 1].to <= u[(i - 1) + 1].from
        BY <2>1, <4>1 DEF Ordered
      <4>3. u[i - 1].to \in Nat /\ ends[i - 1] = u[i - 1].to
        BY <1>2, <1>3, <4>1, MessageOf
      <4>q. QED
        BY <3>0, <4>1, <4>2, <4>3
    <3>q. QED
      BY <3>1, <3>2
  <2>q. QED
    BY <1>5, <2>2
<1>q. QED
  BY <1>4, <1>5

\* What an observer that accepts lag frames was served, what is under way to it and what is being
\* dropped join offset by offset, from the offset it registered at to the last byte broadcast; one
\* that does not accept them is served output in order and nothing twice.
THEOREM LiveJoins == Spec => []LiveStreamJoins
<1>1. Inv => LiveStreamJoins
  BY StreamJoins DEF LiveStreamJoins
<1>q. QED
  BY <1>1, Invariance, PTL
=====
