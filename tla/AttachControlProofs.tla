------------------------- MODULE AttachControlProofs -------------------------
(***************************************************************************)
(* Proofs about AttachControl, for any number of streams and senders and   *)
(* any bounds.                                                             *)
(***************************************************************************)
EXTENDS AttachControl, FiniteSetTheorems, SequenceTheorems, TLAPS

Command == {"input", "resize", "close"}
SendType == [stage : {"idle", "allowed", "done"}, claim : Owners]
Update == [read : BOOLEAN, told : AttachState, copy : File]

\* The changes the actions make to one attach keep its parts typed.
LEMMA ConnTyped ==
  ASSUME NEW c \in Conn
  PROVE  /\ \A stage \in ConnStages : [c EXCEPT !.stage = stage] \in Conn
         /\ \A stage \in ConnStages : [c EXCEPT !.stage = stage, !.drained = TRUE] \in Conn
         /\ [c EXCEPT !.client = "gone"] \in Conn
         /\ c.frames < MaxFrames => [c EXCEPT !.frames = c.frames + 1] \in Conn
<1>1. c.frames < MaxFrames => c.frames + 1 \in 0 .. MaxFrames
  BY ControlAssumption DEF Conn
<1>q. QED
  BY <1>1 DEF Conn

LEMMA FileTyped ==
  /\ NoAttach \in AttachState /\ NoUpdate.copy \in File /\ NoUpdate \in Update
  /\ NoStream \in Owners
<1>1. Cardinality(Streams) \in Nat
  BY FS_CardinalityType, ControlAssumption
<1>2. NoStream \in Owners /\ 0 \in 0 .. Cardinality(Streams)
  BY <1>1 DEF Owners
<1>q. QED
  BY <1>2 DEF NoAttach, NoUpdate, AttachState, File, Update

LEMMA AttachedTyped ==
  ASSUME NEW c \in [owner : Owners, attaches : SUBSET Streams]
  PROVE  Attached(c) \in AttachState
<1>1. /\ Cardinality(c.attaches) \in Nat /\ Cardinality(Streams) \in Nat
      /\ Cardinality(c.attaches) <= Cardinality(Streams)
  BY FS_Subset, FS_CardinalityType, ControlAssumption
<1>q. QED
  BY <1>1 DEF Attached, AttachState

LEMMA ControlTyped ==
  ASSUME TypeOK, NEW s \in Streams
  PROVE  /\ Without(s) \in [owner : Owners, attaches : SUBSET Streams]
         /\ \A o \in Owners : [owner |-> o, attaches |-> control.attaches \cup {s}]
                                 \in [owner : Owners, attaches : SUBSET Streams]
BY FileTyped DEF TypeOK, Without

LEMMA TellTyped ==
  ASSUME TypeOK, NEW s \in Streams, NEW c \in [owner : Owners, attaches : SUBSET Streams],
         Tell(s, c)
  PROVE  update' \in [Updaters -> Update]
<1>1. [NoUpdate EXCEPT !.told = Attached(c)] \in Update
  BY AttachedTyped, FileTyped DEF Update, NoUpdate
<1>2. update \in [Updaters -> Update] /\ s \in Updaters
  BY DEF TypeOK, Update, Updaters
<1>q. QED
  BY <1>1, <1>2 DEF Tell

LEMMA EnterTyped ==
  ASSUME TypeOK, NEW s \in Streams, NEW stage \in ConnStages, Enter(s, stage)
  PROVE  conn' \in [Streams -> Conn]
<1>1. conn[s] \in Conn
  BY DEF TypeOK
<1>q. QED
  BY <1>1, ConnTyped DEF TypeOK, Enter

\* The queue of an attach stays within its capacity.
InputBounded(i) == i \in Input /\ Len(i.queue) <= QueueCapacity

LEMMA InputTyped ==
  ASSUME NEW i, InputBounded(i)
  PROVE  /\ \A r \in {"off", "reading", "checked", "done"} : InputBounded([i EXCEPT !.reader = r])
         /\ \A w \in {"off", "waiting", "typing", "done"} : InputBounded([i EXCEPT !.writer = w])
         /\ InputBounded([i EXCEPT !.closed = TRUE])
         /\ \A e \in {"no", "frame", "full", "eof"} : InputBounded([i EXCEPT !.ended = e])
         /\ InputBounded([i EXCEPT !.typed = i.typed + 1])
         /\ InputBounded([i EXCEPT !.failed = i.failed + 1])
         /\ InputBounded([i EXCEPT !.dropped = i.dropped + 1])
         /\ i.accepted < MaxAccepted => InputBounded([i EXCEPT !.accepted = i.accepted + 1])
         /\ i.queue # <<>> => /\ InputBounded([i EXCEPT !.queue = Tail(i.queue)])
                              /\ Head(i.queue) \in Command
         /\ Len(i.queue) < QueueCapacity =>
              \A c \in Command : InputBounded([i EXCEPT !.queue = Append(i.queue, c)])
<1>1. i.accepted < MaxAccepted => i.accepted + 1 \in 0 .. MaxAccepted
  BY ControlAssumption DEF Input, InputBounded
<1>2. i.queue \in Seq(Command) /\ Len(i.queue) \in Nat
  BY DEF Input, InputBounded, Command
<1>3. ASSUME i.queue # <<>>
      PROVE  /\ Tail(i.queue) \in Seq(Command) /\ Len(Tail(i.queue)) <= Len(i.queue)
             /\ Head(i.queue) \in Command
  BY <1>2, <1>3, HeadTailProperties
<1>4. ASSUME NEW c \in Command
      PROVE  Append(i.queue, c) \in Seq(Command) /\ Len(Append(i.queue, c)) = Len(i.queue) + 1
  BY <1>2, AppendProperties
<1>5. QueueCapacity \in Nat
  BY ControlAssumption
<1>6. ASSUME NEW q \in Seq(Command), Len(q) <= QueueCapacity
      PROVE  InputBounded([i EXCEPT !.queue = q])
  BY <1>2, <1>6 DEF InputBounded, Input, Command
<1>7. ASSUME i.queue # <<>> PROVE InputBounded([i EXCEPT !.queue = Tail(i.queue)])
  <2>1. Len(Tail(i.queue)) \in Nat /\ Len(i.queue) <= QueueCapacity
    BY <1>3, <1>7 DEF InputBounded
  <2>2. Len(Tail(i.queue)) <= QueueCapacity
    BY <1>2, <1>3, <1>5, <1>7, <2>1
  <2>q. QED
    BY <1>3, <1>6, <1>7, <2>2
<1>8. ASSUME Len(i.queue) < QueueCapacity, NEW c \in Command
      PROVE  InputBounded([i EXCEPT !.queue = Append(i.queue, c)])
  <2>1. Len(Append(i.queue, c)) <= QueueCapacity
    BY <1>2, <1>4, <1>5, <1>8
  <2>q. QED
    BY <1>4, <1>6, <2>1
<1>9. i.accepted < MaxAccepted => InputBounded([i EXCEPT !.accepted = i.accepted + 1])
  BY <1>1 DEF InputBounded, Input
<1>10. /\ InputBounded([i EXCEPT !.typed = i.typed + 1])
       /\ InputBounded([i EXCEPT !.failed = i.failed + 1])
       /\ InputBounded([i EXCEPT !.dropped = i.dropped + 1])
  <2>1. i.typed + 1 \in Nat /\ i.failed + 1 \in Nat /\ i.dropped + 1 \in Nat
    BY DEF InputBounded, Input
  <2>2. \A n \in Nat : /\ InputBounded([i EXCEPT !.typed = n])
                      /\ InputBounded([i EXCEPT !.failed = n])
                      /\ InputBounded([i EXCEPT !.dropped = n])
    BY DEF InputBounded, Input
  <2>q. QED
    BY <2>1, <2>2
<1>11. /\ \A r \in {"off", "reading", "checked", "done"} : InputBounded([i EXCEPT !.reader = r])
       /\ \A w \in {"off", "waiting", "typing", "done"} : InputBounded([i EXCEPT !.writer = w])
       /\ InputBounded([i EXCEPT !.closed = TRUE])
       /\ \A e \in {"no", "frame", "full", "eof"} : InputBounded([i EXCEPT !.ended = e])
  BY DEF InputBounded, Input
<1>q. QED
  BY <1>3, <1>7, <1>8, <1>9, <1>10, <1>11

LEMMA InputsTyped ==
  ASSUME TypeOK, NEW s \in Streams, NEW i, InputBounded(i),
         input' = [input EXCEPT ![s] = i]
  PROVE  /\ input' \in [Streams -> Input]
         /\ \A r \in Streams : Len(input'[r].queue) <= QueueCapacity
BY DEF TypeOK, InputBounded

LEMMA InputOf == ASSUME TypeOK, NEW s \in Streams PROVE InputBounded(input[s])
BY DEF TypeOK, InputBounded

LEMMA ConnOf == ASSUME TypeOK, NEW s \in Streams PROVE conn[s] \in Conn
BY DEF TypeOK

-----------------------------------------------------------------------------
\* Every step of the threads of an attach keeps the types.
LEMMA ConnectionTyped ==
  ASSUME TypeOK, NEW s \in Streams, Connection(s) \/ Acquire(s) \/ GivesUp(s) \/ ResizeFails(s)
  PROVE  TypeOK'
<1> USE DEF Threads, Rest
<1>0. {"idle", "persist", "resize", "respond", "serve", "drain", "release", "refused",
        "undo", "unpersist", "closed"} \subseteq ConnStages
  BY DEF ConnStages, Held
<1>1. /\ update \in [Updaters -> Update] /\ s \in Updaters
      /\ update[s] \in Update /\ conn[s] \in Conn
  BY ConnOf DEF TypeOK, Update, Updaters
<1>2. ASSUME NEW c \in [owner : Owners, attaches : SUBSET Streams], Tell(s, c)
      PROVE  update' \in [Updaters -> [read : BOOLEAN, told : AttachState, copy : File]]
  BY <1>2, TellTyped DEF Update
<1>3. CASE Acquire(s)
  <2>1. CASE conn[s].stage = "idle" /\ UNCHANGED <<control, update>> /\ Enter(s, "refused")
    BY <1>0, <1>3, <2>1, EnterTyped DEF Acquire, TypeOK
  <2>2. ASSUME NEW o \in Owners,
               control' = [owner |-> o, attaches |-> control.attaches \cup {s}],
               Tell(s, [owner |-> o, attaches |-> control.attaches \cup {s}]),
               Enter(s, "persist")
        PROVE  TypeOK'
    BY <1>0, <1>2, <1>3, <2>2, EnterTyped, ControlTyped DEF Acquire, TypeOK
  <2>3. control.owner \in Owners /\ s \in Owners
    BY DEF TypeOK, Owners
  <2>q. QED
    BY <1>3, <2>1, <2>2, <2>3 DEF Acquire, At
<1>4. CASE PersistReads(s)
  <2>1. [update[s] EXCEPT !.read = TRUE, !.copy = file] \in Update
    BY <1>1 DEF TypeOK, Update
  <2>2. update' \in [Updaters -> Update]
    BY <1>1, <1>4, <2>1 DEF PersistReads
  <2>q. QED
    BY <1>4, <2>2 DEF PersistReads, TypeOK, Update
<1>5. CASE PersistWrites(s)
  <2>1. update' \in [Updaters -> Update]
    BY <1>1, <1>5, FileTyped DEF PersistWrites
  <2>2. file' \in File
    BY <1>1, <1>5 DEF PersistWrites, Update, AttachState, File
  <2>3. conn' \in [Streams -> Conn]
    BY <1>0, <1>5, EnterTyped DEF PersistWrites
  <2>q. QED
    BY <1>5, <2>1, <2>2, <2>3 DEF PersistWrites, TypeOK, Update
<1>6. CASE PersistFails(s)
  <2>1. CASE conn[s].stage = "persist"
    BY <1>0, <1>2, <1>6, <2>1, EnterTyped, ControlTyped DEF PersistFails, TypeOK
  <2>2. CASE conn[s].stage # "persist"
    <3>1. update' \in [Updaters -> Update]
      BY <1>1, <1>6, <2>2, FileTyped DEF PersistFails
    <3>2. conn' \in [Streams -> Conn]
      BY <1>0, <1>6, <2>2, EnterTyped DEF PersistFails
    <3>q. QED
      BY <1>6, <2>2, <3>1, <3>2 DEF PersistFails, TypeOK, Update
  <2>q. QED
    BY <2>1, <2>2
<1>7. CASE ResizeFails(s) \/ Release(s)
  BY <1>0, <1>2, <1>7, EnterTyped, ControlTyped DEF ResizeFails, Release, TypeOK
<1>8. CASE Resized(s) \/ GivesUp(s) \/ ReaderDone(s)
  BY <1>0, <1>8, EnterTyped DEF Resized, GivesUp, ReaderDone, TypeOK
<1>9. CASE Respond(s)
  <2>1. InputBounded([[input[s] EXCEPT !.reader = "reading"] EXCEPT !.writer = "waiting"])
    BY InputOf, InputTyped
  <2>2. [[input[s] EXCEPT !.reader = "reading"] EXCEPT !.writer = "waiting"]
          = [input[s] EXCEPT !.reader = "reading", !.writer = "waiting"]
    BY InputOf DEF InputBounded, Input
  <2>q. QED
    BY <1>0, <1>9, <2>1, <2>2, EnterTyped, InputsTyped DEF Respond, TypeOK
<1>10. CASE Drained(s)
  <2>1. conn' \in [Streams -> Conn]
    BY <1>0, <1>1, <1>10, ConnTyped DEF Drained, TypeOK
  <2>q. QED
    BY <1>10, <2>1 DEF Drained, TypeOK
<1>11. CASE DrainTimesOut(s)
  BY <1>0, <1>11, EnterTyped, InputsTyped, InputOf, InputTyped DEF DrainTimesOut, TypeOK
<1>q. QED
  BY <1>3, <1>4, <1>5, <1>6, <1>7, <1>8, <1>9, <1>10, <1>11 DEF Connection

LEMMA ReaderTyped ==
  ASSUME TypeOK, NEW s \in Streams,
         \/ ReadInput(s) \/ ReadResize(s) \/ ReadClose(s) \/ ClientHangsUp(s) \/ Reader(s)
  PROVE  TypeOK'
<1> USE DEF Threads, Rest
<1>1. InputBounded(input[s]) /\ conn[s] \in Conn
  BY InputOf, ConnOf
<1>2. ASSUME NEW i, InputBounded(i), Len(i.queue) < QueueCapacity, NEW c \in Command
      PROVE  InputBounded([i EXCEPT !.queue = Append(i.queue, c)])
  BY <1>2, InputTyped
<1>3. ASSUME FrameArrives(s) PROVE conn' \in [Streams -> Conn]
  BY <1>1, <1>3, ConnTyped DEF FrameArrives, TypeOK
<1>4. {"input", "resize", "close"} = Command
  BY DEF Command
<1>5. CASE ReadInput(s)
  <2>1. /\ input' \in [Streams -> Input]
        /\ \A r \in Streams : Len(input'[r].queue) <= QueueCapacity
    BY <1>1, <1>5, InputTyped, InputsTyped DEF ReadInput, TypeOK
  <2>q. QED
    BY <1>3, <1>5, <2>1 DEF ReadInput, FrameArrives, TypeOK
<1>6. CASE ReadResize(s)
  <2>1. /\ input' \in [Streams -> Input]
        /\ \A r \in Streams : Len(input'[r].queue) <= QueueCapacity
    BY <1>1, <1>2, <1>4, <1>6, InputsTyped DEF ReadResize, HasRoom, Queue, TypeOK
  <2>q. QED
    BY <1>3, <1>6, <2>1 DEF ReadResize, FrameArrives, TypeOK
<1>7. CASE ReadClose(s)
  <2> DEFINE i == [input[s] EXCEPT !.reader = "done", !.ended = "frame"]
             j == [input[s] EXCEPT !.reader = "done", !.ended = "full", !.closed = TRUE]
  <2>1. /\ i = [[input[s] EXCEPT !.reader = "done"] EXCEPT !.ended = "frame"]
        /\ j = [[[input[s] EXCEPT !.reader = "done"] EXCEPT !.ended = "full"]
                  EXCEPT !.closed = TRUE]
        /\ i.queue = input[s].queue
    BY <1>1 DEF InputBounded, Input
  <2>2. InputBounded(i) /\ InputBounded(j)
    BY <1>1, <2>1, InputTyped
  <2>3. \/ /\ Len(i.queue) < QueueCapacity
           /\ input' = [input EXCEPT ![s] = [i EXCEPT !.queue = Append(i.queue, "close")]]
        \/ input' = [input EXCEPT ![s] = j]
    BY <1>7, <2>1 DEF ReadClose, HasRoom, Queue
  <2> HIDE DEF i, j
  <2>4. \E k : InputBounded(k) /\ input' = [input EXCEPT ![s] = k]
    BY <1>2, <1>4, <2>2, <2>3
  <2>q. QED
    BY <1>3, <1>7, <2>4, InputsTyped DEF ReadClose, FrameArrives, TypeOK
<1>8. CASE ClientHangsUp(s)
  BY <1>1, <1>8, ConnTyped DEF ClientHangsUp, TypeOK
<1>9. CASE QueueInput(s)
  <2> DEFINE i == [input[s] EXCEPT !.reader = "reading", !.accepted = input[s].accepted + 1]
  <2>1. /\ i = [[input[s] EXCEPT !.reader = "reading"] EXCEPT !.accepted = input[s].accepted + 1]
        /\ i.queue = input[s].queue
        /\ [input[s] EXCEPT !.reader = "reading"].accepted = input[s].accepted
    BY <1>1 DEF InputBounded, Input
  <2>2. /\ input[s].accepted < MaxAccepted => InputBounded(i)
        /\ InputBounded([input[s] EXCEPT !.reader = "reading"])
    BY <1>1, <2>1, InputTyped
  <2>3. \/ /\ Len(i.queue) < QueueCapacity /\ input[s].accepted < MaxAccepted
           /\ input' = [input EXCEPT ![s] = [i EXCEPT !.queue = Append(i.queue, "input")]]
        \/ input' = [input EXCEPT ![s] = [input[s] EXCEPT !.reader = "reading"]]
    BY <1>9, <2>1 DEF QueueInput, HasRoom, Queue
  <2> HIDE DEF i
  <2>4. \E k : InputBounded(k) /\ input' = [input EXCEPT ![s] = k]
    BY <1>2, <1>4, <2>2, <2>3
  <2>5. typed' \in [late : [Streams -> Nat], closed : [Streams -> Nat],
                    stray : SUBSET {"attach", "send"}]
    <3>1. typed \in [late : [Streams -> Nat], closed : [Streams -> Nat],
                     stray : SUBSET {"attach", "send"}]
      BY DEF TypeOK
    <3>2. [typed.late EXCEPT ![s] = typed.late[s] + 1] \in [Streams -> Nat]
      BY <3>1
    <3>3. \/ typed' = typed \/ typed' = [typed EXCEPT !.late = typed.late]
          \/ typed' = [typed EXCEPT !.late = [typed.late EXCEPT ![s] = typed.late[s] + 1]]
      BY <1>9 DEF QueueInput
    <3> DEFINE more == [typed.late EXCEPT ![s] = typed.late[s] + 1]
    <3> HIDE DEF more
    <3>q. QED
      BY <3>1, <3>2, <3>3 DEF more
  <2>q. QED
    BY <1>9, <2>4, <2>5, InputsTyped DEF QueueInput, TypeOK
<1>10. CASE ReadEof(s)
  <2> DEFINE i == [input[s] EXCEPT !.reader = "done", !.ended = "eof", !.closed = TRUE]
  <2>1. i = [[[input[s] EXCEPT !.reader = "done"] EXCEPT !.ended = "eof"] EXCEPT !.closed = TRUE]
    BY <1>1 DEF InputBounded, Input
  <2>2. InputBounded(i)
    BY <1>1, <2>1, InputTyped
  <2>q. QED
    BY <1>10, <2>2, InputsTyped DEF ReadEof, TypeOK
<1>q. QED
  BY <1>5, <1>6, <1>7, <1>8, <1>9, <1>10 DEF Reader

LEMMA WriterTyped ==
  ASSUME TypeOK, NEW s \in Streams, Writer(s) \/ TypeInput(s) \/ TypingFails(s)
  PROVE  TypeOK'
<1> USE DEF Rest
<1>1. InputBounded(input[s])
  BY InputOf
<1>2. CASE TakeCommand(s)
  <2> DEFINE rest == [input[s] EXCEPT !.queue = Tail(input[s].queue)]
             i == CASE Head(input[s].queue) = "input"
                         -> IF input[s].closed
                              THEN [rest EXCEPT !.dropped = rest.dropped + 1]
                              ELSE [rest EXCEPT !.writer = "typing"]
                    [] Head(input[s].queue) = "close"
                         -> [rest EXCEPT !.writer = "done", !.closed = TRUE]
                    [] OTHER -> rest
  <2>1. InputBounded(rest)
    BY <1>1, <1>2, InputTyped DEF TakeCommand
  <2>2. [rest EXCEPT !.writer = "done", !.closed = TRUE]
          = [[rest EXCEPT !.writer = "done"] EXCEPT !.closed = TRUE]
    BY <2>1 DEF InputBounded, Input
  <2>3. input' = [input EXCEPT ![s] = i]
    BY <1>2 DEF TakeCommand
  <2>4. InputBounded(i)
    <3>1. /\ InputBounded([rest EXCEPT !.writer = "typing"])
          /\ InputBounded([rest EXCEPT !.dropped = rest.dropped + 1])
          /\ InputBounded([rest EXCEPT !.writer = "done", !.closed = TRUE])
      <4> HIDE DEF rest
      <4>q. QED
        BY <2>1, <2>2, InputTyped
    <3> HIDE DEF rest
    <3>q. QED
      BY <2>1, <3>1
  <2> HIDE DEF i
  <2>q. QED
    BY <1>2, <2>3, <2>4, InputsTyped DEF TakeCommand, TypeOK
<1>3. CASE WriterEnds(s)
  BY <1>1, <1>3, InputTyped, InputsTyped DEF WriterEnds, TypeOK
<1>4. CASE TypeInput(s)
  <2> DEFINE i == [input[s] EXCEPT !.writer = "waiting", !.typed = input[s].typed + 1]
  <2>1. /\ i = [[input[s] EXCEPT !.writer = "waiting"] EXCEPT !.typed = input[s].typed + 1]
        /\ [input[s] EXCEPT !.writer = "waiting"].typed = input[s].typed
    BY <1>1 DEF InputBounded, Input
  <2>2. InputBounded(i)
    BY <1>1, <2>1, InputTyped
  <2>3. typed' \in [late : [Streams -> Nat], closed : [Streams -> Nat], stray : SUBSET {"attach", "send"}]
    BY <1>4 DEF TypeInput, StrayIf, TypeOK
  <2>q. QED
    BY <1>4, <2>2, <2>3, InputsTyped DEF TypeInput, TypeOK
<1>5. CASE TypingFails(s)
  <2> DEFINE i == [input[s] EXCEPT !.writer = "waiting", !.failed = input[s].failed + 1]
  <2>1. /\ i = [[input[s] EXCEPT !.writer = "waiting"] EXCEPT !.failed = input[s].failed + 1]
        /\ [input[s] EXCEPT !.writer = "waiting"].failed = input[s].failed
    BY <1>1 DEF InputBounded, Input
  <2>2. InputBounded(i)
    BY <1>1, <2>1, InputTyped
  <2>q. QED
    BY <1>5, <2>2, InputsTyped DEF TypingFails, TypeOK
<1>q. QED
  BY <1>2, <1>3, <1>4, <1>5 DEF Writer

\* One-shot senders and the other writers of worker.json.
LEMMA OthersTyped ==
  ASSUME TypeOK, (\E q \in Senders : SendChecks(q) \/ SendTypes(q)) \/ Main \/ Host
  PROVE  TypeOK'
<1>1. ASSUME NEW q \in Senders, SendChecks(q) \/ SendTypes(q) PROVE TypeOK'
  <2>1. Sent \in [stage : {"idle", "allowed", "done"}, claim : Owners]
    BY FileTyped DEF Sent
  <2>2. CASE SendChecks(q)
    BY <2>1, <2>2 DEF SendChecks, TypeOK
  <2>3. CASE SendTypes(q)
    <3>1. typed' \in [late : [Streams -> Nat], closed : [Streams -> Nat], stray : SUBSET {"attach", "send"}]
      BY <2>3 DEF SendTypes, StrayIf, TypeOK
    <3>q. QED
      BY <2>1, <2>3, <3>1 DEF SendTypes, TypeOK
  <2>q. QED
    BY <1>1, <2>2, <2>3
<1>2. /\ update \in [Updaters -> Update] /\ {"main", "host"} \subseteq Updaters
      /\ file \in File
  BY DEF TypeOK, Update, Updaters
<1>3. ASSUME NEW u \in Updaters, Reads(u)
      PROVE  update' \in [Updaters -> [read : BOOLEAN, told : AttachState, copy : File]]
  <2>1. [update[u] EXCEPT !.read = TRUE, !.copy = file] \in Update
    BY <1>2 DEF Update
  <2>q. QED
    BY <1>2, <1>3, <2>1 DEF Reads, Update
<1>4. ASSUME NEW u \in Updaters, NEW f \in File, Writes(u, f)
      PROVE  /\ file' \in File
             /\ update' \in [Updaters -> [read : BOOLEAN, told : AttachState, copy : File]]
  BY <1>2, <1>4, FileTyped DEF Writes, Update
<1>5. ASSUME NEW f \in File
      PROVE  Cleared(f) \in File /\ [f EXCEPT !.state = "running"] \in File
  <2>1. 0 \in 0 .. Cardinality(Streams) /\ NoStream \in Owners
    BY FileTyped DEF NoAttach, AttachState
  <2>2. Cleared(f) = [[[f EXCEPT !.state = "terminal"] EXCEPT !.clients = 0]
                        EXCEPT !.owner = NoStream]
    BY <1>5 DEF Cleared, File
  <2>q. QED
    BY <2>1, <2>2 DEF File
<1>6. \A u \in Updaters : update[u].copy \in File
  BY <1>2 DEF Update
<1>7. CASE RunningReads \/ ExitReads \/ HostReads
  BY <1>2, <1>3, <1>7 DEF RunningReads, ExitReads, HostReads, TypeOK
<1>8. CASE RunningWrites \/ ExitWrites \/ HostWrites
  BY <1>2, <1>4, <1>5, <1>6, <1>8 DEF RunningWrites, ExitWrites, HostWrites, TypeOK
<1>9. CASE UpdateSkipped \/ ProcessEnds
  BY <1>9 DEF UpdateSkipped, ProcessEnds, TypeOK
<1>10. CASE HostDeletes
  BY <1>10 DEF HostDeletes, TypeOK, File
<1>q. QED
  BY <1>1, <1>7, <1>8, <1>9, <1>10 DEF Main, Host

LEMMA InitTyped == Init => TypeOK
<1> SUFFICES ASSUME Init PROVE TypeOK
  OBVIOUS
<1>1. /\ 0 \in 0 .. MaxFrames /\ 0 \in 0 .. MaxAccepted
      /\ <<>> \in Seq({"input", "resize", "close"}) /\ Len(<<>>) <= QueueCapacity
  BY ControlAssumption
<1>2. conn \in [Streams -> Conn]
  <2> DEFINE Start(r) == [stage |-> "idle", readonly |-> r, client |-> "on",
                          frames |-> 0, drained |-> FALSE]
  <2>1. \A r \in BOOLEAN : Start(r) \in Conn
    BY <1>1 DEF Conn, ConnStages
  <2>2. conn \in [Streams -> {Start(r) : r \in BOOLEAN}]
    BY DEF Init
  <2> HIDE DEF Start
  <2>q. QED
    BY <2>1, <2>2
<1>3. input \in [Streams -> Input] /\ \A s \in Streams : Len(input[s].queue) <= QueueCapacity
  BY <1>1 DEF Init, Input
<1>4. update \in [Updaters -> [read : BOOLEAN, told : AttachState, copy : File]]
  BY FileTyped DEF Init, Update
<1>q. QED
  BY <1>2, <1>3, <1>4, FileTyped DEF Init, TypeOK

LEMMA NextTyped == TypeOK /\ [Next]_vars => TypeOK'
<1>1. CASE UNCHANGED vars
  BY <1>1 DEF vars, TypeOK
<1>q. QED
  BY <1>1, ConnectionTyped, ReaderTyped, WriterTyped, OthersTyped
     DEF Next, Client, Environment

\* Every variable keeps its type, for any number of streams and senders, any
\* queue length and any input budget; with it the input queue never exceeds its
\* capacity.
THEOREM TypeCorrect == Spec => []TypeOK
BY InitTyped, NextTyped, PTL DEF Spec

-----------------------------------------------------------------------------
\* What a step can do to the attaches: nothing, or one stream is taken in, is
\* refused, or leaves, and the control state goes with it.

Like(t) == /\ conn'[t].readonly = conn[t].readonly
           /\ conn'[t].stage \in Held <=> conn[t].stage \in Held
           /\ conn'[t].stage = "idle" <=> conn[t].stage = "idle"
OthersLike(s) == \A t \in Streams \ {s} : Like(t)
Stays == control' = control /\ \A t \in Streams : Like(t)
Taken(s) ==
  /\ conn[s].stage = "idle" /\ conn'[s].stage \in Held
  /\ conn'[s].readonly = conn[s].readonly /\ OthersLike(s)
  /\ conn[s].readonly \/ control.owner = NoStream
  /\ control' = [owner |-> IF conn[s].readonly THEN control.owner ELSE s,
                 attaches |-> control.attaches \cup {s}]
TurnedAway(s) ==
  /\ conn[s].stage = "idle" /\ conn'[s].stage = "refused"
  /\ conn'[s].readonly = conn[s].readonly /\ OthersLike(s)
  /\ ~conn[s].readonly /\ control.owner # NoStream /\ control' = control
Leaves(s) ==
  /\ conn[s].stage \in Held /\ conn'[s].stage \in {"undo", "unpersist"}
  /\ conn'[s].readonly = conn[s].readonly /\ OthersLike(s)
  /\ control' = Without(s)
OneMoves == Stays \/ \E s \in Streams : Taken(s) \/ TurnedAway(s) \/ Leaves(s)

LEMMA EnterMoves ==
  ASSUME TypeOK, NEW s \in Streams, NEW stage \in ConnStages, Enter(s, stage)
  PROVE  /\ conn'[s].stage = stage /\ conn'[s].readonly = conn[s].readonly
         /\ \A t \in Streams \ {s} : conn'[t] = conn[t]
BY DEF TypeOK, Conn, Enter

LEMMA SameConn ==
  ASSUME TypeOK, control' = control, conn' = conn PROVE Stays
BY DEF Stays, Like

LEMMA ConnectionMoves ==
  ASSUME TypeOK, NEW s \in Streams, Connection(s) \/ GivesUp(s) \/ ResizeFails(s)
  PROVE  OneMoves
<1> USE DEF ConnStages, Held
<1>1. CASE PersistReads(s)
  BY <1>1, SameConn DEF PersistReads, OneMoves
<1>2. CASE PersistWrites(s)
  BY <1>2, EnterMoves DEF PersistWrites, OneMoves, Stays, Like, Persisting, Rest
<1>3. CASE PersistFails(s)
  <2>1. CASE conn[s].stage = "persist"
    <3>1. Leaves(s)
      BY <1>3, <2>1, EnterMoves DEF PersistFails, Leaves, OthersLike, Like
    <3>q. QED
      BY <3>1 DEF OneMoves
  <2>2. CASE conn[s].stage # "persist"
    BY <1>3, <2>2, EnterMoves DEF PersistFails, OneMoves, Stays, Like, Persisting
  <2>q. QED
    BY <2>1, <2>2
<1>4. CASE Resized(s) \/ Respond(s) \/ ReaderDone(s) \/ DrainTimesOut(s) \/ GivesUp(s)
  BY <1>4, EnterMoves DEF Resized, Respond, ReaderDone, DrainTimesOut, GivesUp, At,
     OneMoves, Stays, Like
<1>5. CASE Drained(s)
  BY <1>5 DEF Drained, At, TypeOK, Conn, OneMoves, Stays, Like
<1>6. CASE Release(s) \/ ResizeFails(s)
  <2>1. Leaves(s)
    BY <1>6, EnterMoves DEF Release, ResizeFails, At, Leaves, OthersLike, Like
  <2>q. QED
    BY <2>1 DEF OneMoves
<1>q. QED
  BY <1>1, <1>2, <1>3, <1>4, <1>5, <1>6 DEF Connection

LEMMA AcquireMoves ==
  ASSUME TypeOK, NEW s \in Streams, Acquire(s) PROVE Taken(s) \/ TurnedAway(s)
<1> USE DEF ConnStages, Held
<1>1. /\ conn[s].stage = "idle" /\ \A t \in Streams \ {s} : conn'[t] = conn[t]
      /\ conn'[s].readonly = conn[s].readonly
  BY EnterMoves DEF Acquire, At
<1>2. CASE conn[s].readonly \/ control.owner = NoStream
  <2>1. Enter(s, "persist")
    BY <1>2 DEF Acquire
  <2>q. QED
    BY <1>1, <1>2, <2>1, EnterMoves DEF Acquire, Taken, OthersLike, Like
<1>3. CASE ~conn[s].readonly /\ control.owner # NoStream
  <2>1. Enter(s, "refused")
    BY <1>3 DEF Acquire
  <2>q. QED
    BY <1>1, <1>3, <2>1, EnterMoves DEF Acquire, TurnedAway, OthersLike, Like
<1>q. QED
  BY <1>2, <1>3

LEMMA StepMoves ==
  ASSUME TypeOK, [Next]_vars PROVE OneMoves
<1>1. CASE UNCHANGED vars
  BY <1>1, SameConn DEF vars, OneMoves
<1>2. ASSUME NEW s \in Streams, Connection(s) \/ GivesUp(s) \/ ResizeFails(s) \/ Acquire(s)
      PROVE  OneMoves
  BY <1>2, ConnectionMoves, AcquireMoves DEF OneMoves
<1>3. ASSUME NEW s \in Streams, ReadInput(s) \/ ReadResize(s) \/ ReadClose(s)
      PROVE  OneMoves
  <2>1. control' = control /\ conn' = [conn EXCEPT ![s] = [conn[s] EXCEPT !.frames = conn[s].frames + 1]]
    BY <1>3 DEF ReadInput, ReadResize, ReadClose, FrameArrives
  <2>q. QED
    BY <2>1 DEF TypeOK, Conn, OneMoves, Stays, Like
<1>4. ASSUME NEW s \in Streams, ClientHangsUp(s) PROVE OneMoves
  BY <1>4 DEF ClientHangsUp, TypeOK, Conn, OneMoves, Stays, Like
<1>5. ASSUME NEW s \in Streams, Reader(s) \/ Writer(s) \/ TypeInput(s) \/ TypingFails(s)
      PROVE  OneMoves
  BY <1>5, SameConn
     DEF Reader, Writer, QueueInput, ReadEof, TakeCommand, WriterEnds, TypeInput, TypingFails,
         OneMoves
<1>6. ASSUME NEW q \in Senders, SendChecks(q) \/ SendTypes(q) PROVE OneMoves
  BY <1>6, SameConn DEF SendChecks, SendTypes, OneMoves
<1>7. CASE Main \/ Host
  BY <1>7, SameConn DEF Main, Host, RunningReads, RunningWrites, ExitReads, ExitWrites,
     UpdateSkipped, ProcessEnds, HostReads, HostWrites, HostDeletes, OneMoves
<1>q. QED
  BY <1>1, <1>2, <1>3, <1>4, <1>5, <1>6, <1>7 DEF Next, Client, Environment

-----------------------------------------------------------------------------
\* OwnerIsAttached is inductive once the types are known.

LEMMA OwnerInit == Init => OwnerIsAttached
<1> SUFFICES ASSUME Init PROVE OwnerIsAttached
  OBVIOUS
<1>1. \A s \in Streams : conn[s].stage = "idle" /\ s # NoStream
  BY ControlAssumption DEF Init
<1>q. QED
  BY <1>1 DEF Init, OwnerIsAttached, Writable, Held

LEMMA OwnerStep ==
  ASSUME TypeOK, TypeOK', OwnerIsAttached, [Next]_vars PROVE OwnerIsAttached'
<1> NoStream \notin Streams
  BY ControlAssumption
<1>1. CASE Stays
  BY <1>1 DEF Stays, Like, OwnerIsAttached, Writable
<1>2. ASSUME NEW s \in Streams, Taken(s) PROVE OwnerIsAttached'
  <2>1. control'.attaches = {t \in Streams : conn'[t].stage \in Held}
    BY <1>2 DEF Taken, OthersLike, Like, OwnerIsAttached
  <2>2. "idle" \notin Held
    BY DEF Held
  <2>3. \A t \in Streams : Writable(t)' <=> control'.owner = t
    BY <1>2, <2>2 DEF Taken, OthersLike, Like, OwnerIsAttached, Writable
  <2>q. QED
    BY <2>1, <2>3 DEF OwnerIsAttached
<1>3. ASSUME NEW s \in Streams, TurnedAway(s) PROVE OwnerIsAttached'
  BY <1>3 DEF TurnedAway, OthersLike, Like, OwnerIsAttached, Writable, Held
<1>4. ASSUME NEW s \in Streams, Leaves(s) PROVE OwnerIsAttached'
  <2>1. conn'[s].stage \notin Held
    BY <1>4 DEF Leaves, Held
  <2>2. control'.attaches = {t \in Streams : conn'[t].stage \in Held}
    BY <1>4, <2>1 DEF Leaves, OthersLike, Like, OwnerIsAttached, Without
  <2>3. \A t \in Streams : Writable(t)' <=> control'.owner = t
    BY <1>4, <2>1 DEF Leaves, OthersLike, Like, OwnerIsAttached, Without, Writable
  <2>q. QED
    BY <2>2, <2>3 DEF OwnerIsAttached
<1>q. QED
  BY <1>1, <1>2, <1>3, <1>4, StepMoves DEF OneMoves

\* The attach table is the set of streams that hold a place and the owner is the
\* one writable stream among them, whatever fails between (acquire_attach,
\* release_attach, the rollbacks of handle_observe_attach).
THEOREM OwnerCorrect == Spec => []OwnerIsAttached
<1>1. Init => OwnerIsAttached
  BY OwnerInit
<1>2. TypeOK /\ TypeOK' /\ OwnerIsAttached /\ [Next]_vars => OwnerIsAttached'
  BY OwnerStep
<1>q. QED
  BY <1>1, <1>2, TypeCorrect, PTL DEF Spec

-----------------------------------------------------------------------------
\* The refinement of InputLease.

LEMMA RolesFollow ==
  ASSUME NEW s \in Streams, OthersLike(s)
  PROVE  Role' = [Role EXCEPT ![s] = RoleOf(s)']
<1>1. \A t \in Streams \ {s} : RoleOf(t)' = RoleOf(t)
  BY DEF OthersLike, Like, RoleOf
<1>q. QED
  BY <1>1 DEF Role

LEMMA HoldersAre ==
  ASSUME OwnerIsAttached
  PROVE  Lease!Holders = {} <=> control.owner \notin Streams
<1>1. \A s \in Streams : Role[s] = "holding" <=> Writable(s)
  BY DEF Role, RoleOf, Writable, Held
<1>q. QED
  BY <1>1 DEF Lease!Holders, OwnerIsAttached

LEMMA LeaseInit == Init => Lease!Init
<1> SUFFICES ASSUME Init PROVE Lease!Init
  OBVIOUS
<1>1. \A s \in Streams : conn[s].stage = "idle"
  <2> TAKE s \in Streams
  <2>q. QED
    BY DEF Init
<1>2. \A s \in Streams : RoleOf(s) = "waiting"
  BY <1>1 DEF RoleOf, Held
<1>q. QED
  BY <1>2 DEF Lease!Init, Role

LEMMA LeaseStep ==
  ASSUME TypeOK, OwnerIsAttached, [Next]_vars PROVE [Lease!Next]_Role
<1> USE DEF Held
<1>1. CASE Stays
  BY <1>1 DEF Stays, Like, Role, RoleOf
<1>2. ASSUME NEW s \in Streams, Taken(s) PROVE Lease!Next
  <2>1. Role' = [Role EXCEPT ![s] = RoleOf(s)'] /\ Role[s] = "waiting"
    BY <1>2, RolesFollow DEF Taken, Role, RoleOf
  <2>2. CASE conn[s].readonly
    <3>1. RoleOf(s)' = "watching"
      BY <1>2, <2>2 DEF Taken, RoleOf
    <3>q. QED
      BY <2>1, <3>1 DEF Lease!Next, Lease!Watch, Lease!Becomes
  <2>3. CASE ~conn[s].readonly
    <3>1. RoleOf(s)' = "holding"
      BY <1>2, <2>3 DEF Taken, RoleOf
    <3>2. Lease!Holders = {}
      BY <1>2, <2>3, HoldersAre, ControlAssumption DEF Taken
    <3>q. QED
      BY <2>1, <3>1, <3>2 DEF Lease!Next, Lease!Grant, Lease!Becomes
  <2>q. QED
    BY <2>2, <2>3
<1>3. ASSUME NEW s \in Streams, TurnedAway(s) PROVE Lease!Next
  <2>1. Role' = [Role EXCEPT ![s] = RoleOf(s)'] /\ Role[s] = "waiting"
    BY <1>3, RolesFollow DEF TurnedAway, Role, RoleOf
  <2>2. RoleOf(s)' = "gone"
    BY <1>3 DEF TurnedAway, RoleOf
  <2>3. Lease!Holders # {}
    BY <1>3, HoldersAre DEF TurnedAway, TypeOK, Owners
  <2>q. QED
    BY <2>1, <2>2, <2>3 DEF Lease!Next, Lease!Refuse, Lease!Becomes
<1>4. ASSUME NEW s \in Streams, Leaves(s) PROVE Lease!Next
  <2>1. Role' = [Role EXCEPT ![s] = RoleOf(s)'] /\ Role[s] \in {"watching", "holding"}
    BY <1>4, RolesFollow DEF Leaves, Role, RoleOf
  <2>2. RoleOf(s)' = "gone"
    BY <1>4 DEF Leaves, RoleOf
  <2>q. QED
    BY <2>1, <2>2 DEF Lease!Next, Lease!Leave, Lease!Becomes
<1>q. QED
  BY <1>1, <1>2, <1>3, <1>4, StepMoves DEF OneMoves

\* The control server implements the lease: towards its clients every step of
\* acquire_attach, release_attach and the rollbacks is a grant, a refusal or a
\* departure, and nothing else is visible.
THEOREM LeaseImplemented == Spec => LeaseSpec
<1>1. Init => Lease!Init
  BY LeaseInit
<1>2. TypeOK /\ OwnerIsAttached /\ [Next]_vars => [Lease!Next]_Role
  BY LeaseStep
<1>q. QED
  BY <1>1, <1>2, TypeCorrect, OwnerCorrect, PTL DEF Spec, LeaseSpec, Lease!Spec

-----------------------------------------------------------------------------
\* A step of the threads of one attach leaves the input of the others alone.

LEMMA OneAttachMoves ==
  ASSUME TypeOK, NEW s \in Streams,
         Connection(s) \/ Reader(s) \/ Writer(s) \/ Client(s) \/ Environment(s)
  PROVE  \A t \in Streams \ {s} : input'[t] = input[t]
<1> input \in [Streams -> Input]
  BY DEF TypeOK
<1>1. CASE Connection(s)
  BY <1>1 DEF Connection, PersistReads, PersistWrites, PersistFails, Resized, Respond,
     ReaderDone, Drained, DrainTimesOut, Release, Threads
<1>2. CASE Reader(s) \/ Writer(s)
  BY <1>2 DEF Reader, Writer, QueueInput, Queue, ReadEof, TakeCommand, WriterEnds
<1>3. CASE Client(s)
  BY <1>3 DEF Client, Acquire, ReadInput, ReadResize, ReadClose, Queue, ClientHangsUp, Threads
<1>4. CASE Environment(s)
  BY <1>4 DEF Environment, GivesUp, ResizeFails, TypeInput, TypingFails, Threads, Rest
<1>q. QED
  BY <1>1, <1>2, <1>3, <1>4

LEMMA OneInputMoves ==
  ASSUME TypeOK, [Next]_vars
  PROVE  \/ input' = input
         \/ \E s \in Streams :
              /\ Connection(s) \/ Reader(s) \/ Writer(s) \/ Client(s) \/ Environment(s)
              /\ \A t \in Streams \ {s} : input'[t] = input[t]
<1>1. CASE UNCHANGED vars
  BY <1>1 DEF vars
<1>3. ASSUME NEW q \in Senders, SendChecks(q) \/ SendTypes(q) PROVE input' = input
  BY <1>3 DEF SendChecks, SendTypes
<1>4. CASE Main \/ Host
  BY <1>4 DEF Main, Host, RunningReads, RunningWrites, ExitReads, ExitWrites,
     UpdateSkipped, ProcessEnds, HostReads, HostWrites, HostDeletes
<1>q. QED
  BY <1>1, <1>3, <1>4, OneAttachMoves DEF Next

-----------------------------------------------------------------------------
\* The one chunk that is still typed once a stream is closed was on its way before:
\* what is closed stays closed and its writer takes no input any more.

Spent(i, n) ==
  /\ n \in 0 .. 1
  /\ ~i.closed => n = 0
  /\ i.closed /\ i.writer = "typing" => n = 0
ClosedIsSpent == \A s \in Streams : Spent(input[s], typed.closed[s])

LEMMA SpentStep ==
  ASSUME TypeOK, NEW s \in Streams, Spent(input[s], typed.closed[s]),
         Connection(s) \/ Reader(s) \/ Writer(s) \/ Client(s) \/ Environment(s)
  PROVE  /\ Spent(input'[s], typed'.closed[s])
         /\ \A t \in Streams \ {s} : typed'.closed[t] = typed.closed[t]
<1> DEFINE i == input[s]
<1> i \in Input /\ input \in [Streams -> Input] /\ typed.closed \in [Streams -> Nat]
  BY DEF TypeOK
<1> USE DEF Threads, Rest
<1>1. CASE TypeInput(s)
  <2>1. input'[s] = [i EXCEPT !.writer = "waiting", !.typed = i.typed + 1] /\ i.writer = "typing"
    BY <1>1 DEF TypeInput
  <2>2. input'[s].closed = i.closed /\ input'[s].writer = "waiting"
    BY <2>1 DEF Input
  <2>3. CASE i.closed
    <3>1. typed'.closed = [typed.closed EXCEPT ![s] = typed.closed[s] + 1]
      BY <1>1, <2>3 DEF TypeInput
    <3>q. QED
      BY <2>1, <2>2, <2>3, <3>1 DEF Spent
  <2>4. CASE ~i.closed
    BY <1>1, <2>2, <2>4 DEF TypeInput, Spent
  <2>q. QED
    BY <2>3, <2>4
<1>2. CASE typed' = typed /\ input' = input
  BY <1>2
<1>3. CASE /\ typed'.closed = typed.closed
           /\ i.closed => input'[s].closed
           /\ input'[s].closed /\ input'[s].writer = "typing" => i.writer = "typing"
  BY <1>3 DEF Spent
<1>4. CASE Respond(s)
  BY <1>3, <1>4 DEF Respond, Input
<1>5. CASE DrainTimesOut(s) \/ ReadEof(s) \/ WriterEnds(s)
  <2>1. /\ typed' = typed
        /\ \/ input'[s] = [i EXCEPT !.closed = TRUE] \/ input'[s] = [i EXCEPT !.writer = "done"]
           \/ input'[s] = [i EXCEPT !.reader = "done", !.ended = "eof", !.closed = TRUE]
    BY <1>5 DEF DrainTimesOut, ReadEof, WriterEnds
  <2>q. QED
    BY <1>3, <2>1 DEF Input
<1>6. CASE ReadInput(s) \/ QueueInput(s)
  <2>1. /\ typed'.closed = typed.closed
        /\ \/ input' = input \/ input'[s] = [i EXCEPT !.reader = "checked"]
           \/ input'[s] = [i EXCEPT !.reader = "reading"]
           \/ input'[s] = [[i EXCEPT !.reader = "reading", !.accepted = i.accepted + 1]
                             EXCEPT !.queue = Append(i.queue, "input")]
    BY <1>6 DEF ReadInput, FrameArrives, QueueInput, Queue, TypeOK
  <2>q. QED
    BY <1>2, <1>3, <2>1 DEF Input
<1>7. CASE ReadResize(s) \/ ReadClose(s)
  <2>1. /\ typed' = typed
        /\ \/ input' = input \/ input'[s] = [i EXCEPT !.queue = Append(i.queue, "resize")]
           \/ input'[s] = [[i EXCEPT !.reader = "done", !.ended = "frame"]
                             EXCEPT !.queue = Append(i.queue, "close")]
           \/ input'[s] = [i EXCEPT !.reader = "done", !.ended = "full", !.closed = TRUE]
    BY <1>7 DEF ReadResize, ReadClose, FrameArrives, Queue
  <2>q. QED
    BY <1>2, <1>3, <2>1 DEF Input
<1>8. CASE TakeCommand(s)
  <2> DEFINE rest == [i EXCEPT !.queue = Tail(i.queue)]
  <2>1. /\ typed' = typed
        /\ \/ ~i.closed /\ input'[s] = [rest EXCEPT !.writer = "typing"]
           \/ input'[s] = [rest EXCEPT !.writer = "done", !.closed = TRUE]
           \/ input'[s] = [rest EXCEPT !.dropped = rest.dropped + 1]
           \/ input'[s] = rest
    BY <1>8 DEF TakeCommand
  <2>q. QED
    BY <1>3, <2>1 DEF Input
<1>9. CASE Connection(s) /\ ~Respond(s) /\ ~DrainTimesOut(s)
  BY <1>2, <1>9 DEF Connection, PersistReads, PersistWrites, PersistFails, Resized, ReaderDone,
     Drained, Release
<1>10. CASE Acquire(s) \/ ClientHangsUp(s) \/ GivesUp(s) \/ ResizeFails(s)
  BY <1>2, <1>10 DEF Acquire, ClientHangsUp, GivesUp, ResizeFails
<1>11. CASE TypingFails(s)
  <2>1. /\ typed' = typed
        /\ input'[s] = [i EXCEPT !.writer = "waiting", !.failed = i.failed + 1]
    BY <1>11 DEF TypingFails
  <2>q. QED
    BY <1>3, <2>1 DEF Input
<1>q. QED
  BY <1>1, <1>4, <1>5, <1>6, <1>7, <1>8, <1>9, <1>10, <1>11
     DEF Reader, Writer, Client, Environment

LEMMA SpentStays ==
  ASSUME TypeOK, ClosedIsSpent, [Next]_vars PROVE ClosedIsSpent'
<1>1. CASE input' = input /\ typed'.closed = typed.closed
  BY <1>1 DEF ClosedIsSpent, Spent
<1>2. ASSUME NEW s \in Streams,
             Connection(s) \/ Reader(s) \/ Writer(s) \/ Client(s) \/ Environment(s)
      PROVE  ClosedIsSpent'
  <2>1. \A t \in Streams \ {s} : input'[t] = input[t]
    BY <1>2, OneAttachMoves
  <2>q. QED
    BY <1>2, <2>1, SpentStep DEF ClosedIsSpent, Spent
<1>3. ASSUME NEW q \in Senders, SendChecks(q) \/ SendTypes(q) PROVE ClosedIsSpent'
  BY <1>1, <1>3 DEF SendChecks, SendTypes, TypeOK
<1>4. CASE Main \/ Host \/ UNCHANGED vars
  BY <1>1, <1>4 DEF Main, Host, RunningReads, RunningWrites, ExitReads, ExitWrites,
     UpdateSkipped, ProcessEnds, HostReads, HostWrites, HostDeletes, vars
<1>q. QED
  BY <1>2, <1>3, <1>4 DEF Next

\* Once a stream is closed at most the chunk on its way is typed, however much is
\* queued (write_pty_bytes_cancellable, the closed flag of AttachInputQueue).
THEOREM ClosedIsCut == Spec => []ClosedTypesAtMostOne
<1>1. Init => ClosedIsSpent
  BY DEF Init, ClosedIsSpent, Spent
<1>2. TypeOK /\ ClosedIsSpent /\ [Next]_vars => ClosedIsSpent'
  BY SpentStays
<1>3. ClosedIsSpent => ClosedTypesAtMostOne
  BY DEF ClosedIsSpent, Spent, ClosedTypesAtMostOne
<1>q. QED
  BY <1>1, <1>2, <1>3, TypeCorrect, PTL DEF Spec

-----------------------------------------------------------------------------
\* What a stream has accepted is settled, in its queue or at the writer; what is
\* dropped was queued when the stream was closed; and a Close frame is the last of
\* its queue.

Inputs(q) == {k \in DOMAIN q : q[k] = "input"}
Pending(q) == Cardinality(Inputs(q))
InHand(i) == IF i.writer = "typing" THEN 1 ELSE 0
Settled(i) == i.typed + i.failed + i.dropped

Counted(i) == i.accepted = Settled(i) + InHand(i) + Pending(i.queue)
DropBounded(i) ==
  IF i.closed THEN i.dropped + Len(i.queue) <= QueueCapacity ELSE i.dropped = 0
CloseIsLast(i) ==
  /\ \A k \in DOMAIN i.queue : i.queue[k] = "close" => i.ended = "frame" /\ k = Len(i.queue)
  /\ i.ended = "frame" /\ ~i.closed => i.queue # <<>> /\ i.queue[Len(i.queue)] = "close"
Threaded(i) ==
  /\ i.ended = "frame" => i.reader = "done"
  /\ i.reader = "off" => i.writer = "off" /\ i.ended = "no"
  /\ i.closed \/ i.writer = "done" => i.reader = "done"
  /\ i.writer = "done" => i.queue = <<>>
NoneDropped(i) == i.writer = "done" /\ i.dropped = 0
Served(c, i) ==
  /\ c.stage \in {"idle", "persist", "resize", "respond"} => i.reader = "off"
  /\ c.stage = "drain" => i.reader = "done"
  /\ c.stage \in {"serve", "drain"} /\ i.ended = "frame" /\ i.closed => NoneDropped(i)
  /\ c.drained => /\ c.stage \in {"release", "unpersist", "closed"}
                  /\ i.reader = "done" /\ i.writer = "done"
                  /\ i.ended = "frame" => NoneDropped(i)
Delivers(c, i) ==
  Counted(i) /\ DropBounded(i) /\ CloseIsLast(i) /\ Threaded(i) /\ Served(c, i)
Delivering == \A s \in Streams : Delivers(conn[s], input[s])

LEMMA InputsFinite ==
  ASSUME NEW q \in Seq(Command)
  PROVE  IsFiniteSet(Inputs(q)) /\ Pending(q) \in Nat
<1>1. IsFiniteSet(1 .. Len(q)) /\ Inputs(q) \subseteq 1 .. Len(q)
  BY FS_Interval DEF Inputs
<1>q. QED
  BY <1>1, FS_Subset, FS_CardinalityType DEF Pending

LEMMA NonePending == Pending(<<>>) = 0
<1>1. Inputs(<<>>) = {}
  BY DEF Inputs
<1>q. QED
  BY <1>1, FS_EmptySet DEF Pending

LEMMA PendingAppend ==
  ASSUME NEW q \in Seq(Command), NEW c \in Command
  PROVE  Pending(Append(q, c)) = Pending(q) + IF c = "input" THEN 1 ELSE 0
<1> DEFINE w == Append(q, c)
<1>1. /\ Len(q) \in Nat /\ DOMAIN q = 1 .. Len(q) /\ DOMAIN w = 1 .. Len(q) + 1
      /\ w[Len(q) + 1] = c /\ \A k \in 1 .. Len(q) : w[k] = q[k]
  BY AppendProperties
<1> HIDE DEF w
<1>2. Inputs(w) = Inputs(q) \cup IF c = "input" THEN {Len(q) + 1} ELSE {}
  BY <1>1 DEF Inputs
<1>3. Len(q) + 1 \notin Inputs(q)
  BY <1>1 DEF Inputs
<1>4. IsFiniteSet(Inputs(q)) /\ Pending(q) \in Nat
  BY InputsFinite
<1>5. CASE c = "input"
  <2>1. Pending(w) = Pending(q) + 1
    BY <1>2, <1>3, <1>4, <1>5, FS_AddElement DEF Pending
  <2>q. QED
    BY <1>5, <2>1 DEF w
<1>6. CASE c # "input"
  <2>1. Pending(w) = Pending(q)
    BY <1>2, <1>6 DEF Pending
  <2>q. QED
    BY <1>4, <1>6, <2>1 DEF w
<1>q. QED
  BY <1>5, <1>6

LEMMA PendingTail ==
  ASSUME NEW q \in Seq(Command), q # <<>>
  PROVE  Pending(q) = Pending(Tail(q)) + IF Head(q) = "input" THEN 1 ELSE 0
<1> DEFINE w == Tail(q)
           Shifted == {k \in Inputs(q) : k # 1}
<1>1. /\ Len(q) \in Nat /\ Len(q) > 0 /\ DOMAIN q = 1 .. Len(q) /\ w \in Seq(Command)
      /\ Len(w) = Len(q) - 1 /\ DOMAIN w = 1 .. Len(q) - 1 /\ Head(q) = q[1]
      /\ \A k \in 1 .. Len(q) - 1 : w[k] = q[k + 1]
  BY HeadTailProperties
<1> HIDE DEF w
<1>2. IsFiniteSet(Inputs(w)) /\ Pending(w) \in Nat /\ IsFiniteSet(Inputs(q)) /\ Pending(q) \in Nat
  BY <1>1, InputsFinite
<1>3. Cardinality(Shifted) = Pending(w)
  <2> DEFINE f == [k \in Inputs(w) |-> k + 1]
  <2>1. \A k \in Inputs(w) : k \in Int /\ k + 1 \in Shifted
    BY <1>1 DEF Inputs
  <2>2. \A k \in Shifted : k - 1 \in Inputs(w) /\ k \in Int
    BY <1>1 DEF Inputs
  <2>3. f \in [Inputs(w) -> Shifted]
    BY <2>1
  <2>4. \A a, b \in Inputs(w) : f[a] = f[b] => a = b
    BY <2>1
  <2>5. \A k \in Shifted : \E a \in Inputs(w) : f[a] = k
    <3> TAKE k \in Shifted
    <3>1. k - 1 \in Inputs(w) /\ f[k - 1] = k
      BY <2>2
    <3>q. QED
      BY <3>1
  <2> HIDE DEF f, Shifted
  <2>6. f \in Bijection(Inputs(w), Shifted)
    BY <2>3, <2>4, <2>5 DEF Bijection, Injection, Surjection, IsInjective
  <2>q. QED
    BY <1>2, <2>6, FS_Bijection DEF ExistsBijection, Pending
<1>4. CASE Head(q) = "input"
  <2>1. 1 \in Inputs(q) /\ Shifted = Inputs(q) \ {1}
    BY <1>1, <1>4 DEF Inputs
  <2>2. Cardinality(Shifted) = Pending(q) - 1
    BY <1>2, <2>1, FS_RemoveElement DEF Pending
  <2>q. QED
    BY <1>2, <1>3, <1>4, <2>2 DEF w
<1>5. CASE Head(q) # "input"
  <2>1. Shifted = Inputs(q)
    BY <1>1, <1>5 DEF Inputs
  <2>2. Pending(q) = Pending(w)
    BY <1>3, <2>1 DEF Pending
  <2>q. QED
    BY <1>2, <1>5, <2>2 DEF w
<1>q. QED
  BY <1>4, <1>5

\* The Close frame stays the last of the queue.
LEMMA CloseAppended ==
  ASSUME NEW q \in Seq(Command), NEW c \in Command, \A k \in DOMAIN q : q[k] # "close"
  PROVE  /\ Append(q, c) # <<>> /\ Append(q, c)[Len(Append(q, c))] = c
         /\ \A k \in DOMAIN Append(q, c) : Append(q, c)[k] = "close" => c = "close" /\ k = Len(Append(q, c))
  BY AppendProperties

LEMMA CloseTaken ==
  ASSUME NEW q \in Seq(Command), q # <<>>, NEW frame \in BOOLEAN,
         \A k \in DOMAIN q : q[k] = "close" => frame /\ k = Len(q)
  PROVE  /\ \A k \in DOMAIN Tail(q) : Tail(q)[k] = "close" => frame /\ k = Len(Tail(q))
         /\ Head(q) = "close" => frame /\ Tail(q) = <<>>
         /\ Head(q) # "close" /\ q[Len(q)] = "close" =>
              Tail(q) # <<>> /\ Tail(q)[Len(Tail(q))] = "close"
<1> DEFINE w == Tail(q)
<1>1. /\ Len(q) \in Nat /\ Len(q) > 0 /\ DOMAIN q = 1 .. Len(q) /\ w \in Seq(Command)
      /\ Len(w) = Len(q) - 1 /\ DOMAIN w = 1 .. Len(q) - 1 /\ Head(q) = q[1]
      /\ \A k \in 1 .. Len(q) - 1 : w[k] = q[k + 1]
  BY HeadTailProperties
<1>2. w = <<>> <=> Len(q) = 1
  BY <1>1, EmptySeq
<1> HIDE DEF w
<1>q. QED
  BY <1>1, <1>2 DEF w

\* One attach at each step of its threads and its client.
LEMMA StreamOf ==
  ASSUME TypeOK, NEW s \in Streams
  PROVE  /\ conn[s] \in Conn /\ input[s] \in Input /\ input[s].queue \in Seq(Command)
         /\ conn \in [Streams -> Conn] /\ input \in [Streams -> Input]
         /\ Pending(input[s].queue) \in Nat /\ Settled(input[s]) \in Nat /\ input[s].dropped \in Nat
         /\ input[s].accepted \in Nat /\ input[s].closed \in BOOLEAN
         /\ Len(input[s].queue) \in Nat /\ Len(input[s].queue) <= QueueCapacity
<1>1. conn \in [Streams -> Conn] /\ input \in [Streams -> Input]
  BY DEF TypeOK
<1>2. /\ input[s].queue \in Seq(Command) /\ Settled(input[s]) \in Nat
      /\ input[s].dropped \in Nat /\ input[s].accepted \in Nat /\ input[s].closed \in BOOLEAN
      /\ Len(input[s].queue) \in Nat /\ Len(input[s].queue) <= QueueCapacity
  BY <1>1, ControlAssumption DEF TypeOK, Input, Command, Settled
<1>q. QED
  BY <1>1, <1>2, InputsFinite

\* A step of the connection that leaves the threads of the input alone.
LEMMA StageDelivers ==
  ASSUME NEW c, NEW d, NEW i, Delivers(c, i), d.drained = c.drained,
         \/ d.stage = c.stage
         \/ /\ d.stage \in {"idle", "persist", "resize", "respond"} => i.reader = "off"
            /\ d.stage = "drain" => i.reader = "done" /\ c.stage = "serve"
            /\ d.stage # "serve"
            /\ c.drained => d.stage \in {"release", "unpersist", "closed"}
  PROVE  Delivers(d, i)
BY DEF Delivers, Served

\* Closing a stream drops nothing yet.
LEMMA ClosingDrops ==
  ASSUME TypeOK, NEW s \in Streams, DropBounded(input[s]), NEW j, j.closed,
         j.dropped = input[s].dropped, j.queue = input[s].queue
  PROVE  DropBounded(j)
<1>1. /\ input[s].dropped \in Nat /\ Len(input[s].queue) \in Nat
      /\ Len(input[s].queue) <= QueueCapacity
  BY StreamOf
<1>2. input[s].dropped + Len(input[s].queue) <= QueueCapacity
  BY <1>1 DEF DropBounded
<1>q. QED
  BY <1>2 DEF DropBounded

LEMMA ConnectionDelivers ==
  ASSUME TypeOK, NEW s \in Streams, Delivers(conn[s], input[s]),
         Connection(s) \/ Acquire(s) \/ GivesUp(s) \/ ResizeFails(s)
  PROVE  Delivers(conn'[s], input'[s])
<1> DEFINE c == conn[s]
           i == input[s]
           d == conn'[s]
           j == input'[s]
<1> USE DEF Threads, Rest
<1>0. /\ c \in Conn /\ i \in Input /\ i.queue \in Seq(Command)
      /\ conn \in [Streams -> Conn] /\ input \in [Streams -> Input]
  BY StreamOf
<1>1. ASSUME NEW stage \in ConnStages, Enter(s, stage)
      PROVE  d.stage = stage /\ d.drained = c.drained
  BY <1>0, <1>1 DEF Enter, Conn
<1>2. c.drained => c.stage \in {"release", "unpersist", "closed"}
  BY DEF Delivers, Served
<1>3. CASE PersistReads(s)
  BY <1>3 DEF PersistReads
<1>4. CASE PersistWrites(s) \/ PersistFails(s) \/ Acquire(s) \/ ResizeFails(s)
  <2>1. input' = input
    BY <1>4 DEF PersistWrites, PersistFails, Acquire, ResizeFails
  <2>2. \/ c.stage \in {"idle", "persist"} /\ (Enter(s, "persist") \/ Enter(s, "resize") \/ Enter(s, "undo"))
        \/ c.stage = "idle" /\ Enter(s, "refused")
        \/ c.stage = "undo" /\ Enter(s, "refused")
        \/ c.stage = "unpersist" /\ Enter(s, "closed")
        \/ c.stage = "resize" /\ Enter(s, "undo")
    BY <1>4 DEF PersistWrites, PersistFails, Acquire, ResizeFails, At, Persisting
  <2>3. /\ d.drained = c.drained
        /\ \/ c.stage \in {"idle", "persist"} /\ d.stage \in {"persist", "resize", "undo", "refused"}
           \/ c.stage \in {"undo", "resize"} /\ d.stage \in {"refused", "undo"}
           \/ c.stage = "unpersist" /\ d.stage = "closed"
    BY <1>1, <2>2 DEF ConnStages, Held
  <2>4. c.stage \in {"idle", "persist"} => i.reader = "off"
    BY DEF Delivers, Served
  <2>5. Delivers(d, i)
    BY <1>2, <2>3, <2>4, StageDelivers
  <2>q. QED
    BY <2>1, <2>5
<1>5. CASE Resized(s) \/ GivesUp(s) \/ ReaderDone(s) \/ Release(s)
  <2>1. input' = input
    BY <1>5 DEF Resized, GivesUp, ReaderDone, Release
  <2>2. \/ c.stage = "resize" /\ Enter(s, "respond")
        \/ c.stage \in {"respond", "serve"} /\ Enter(s, "release")
        \/ c.stage = "serve" /\ i.reader = "done" /\ Enter(s, "drain")
        \/ c.stage = "release" /\ Enter(s, "unpersist")
    BY <1>5 DEF Resized, GivesUp, ReaderDone, Release, At
  <2>3. /\ d.drained = c.drained
        /\ \/ c.stage = "resize" /\ d.stage = "respond"
           \/ c.stage \in {"respond", "serve"} /\ d.stage = "release"
           \/ c.stage = "serve" /\ i.reader = "done" /\ d.stage = "drain"
           \/ c.stage = "release" /\ d.stage = "unpersist"
    BY <1>1, <2>2 DEF ConnStages, Held
  <2>4. c.stage = "resize" => i.reader = "off"
    BY DEF Delivers, Served
  <2>5. Delivers(d, i)
    BY <1>2, <2>3, <2>4, StageDelivers
  <2>q. QED
    BY <2>1, <2>5
<1>6. CASE Respond(s)
  <2>1. c.stage = "respond" /\ d.stage = "serve" /\ d.drained = c.drained
    BY <1>1, <1>6 DEF Respond, At, ConnStages, Held
  <2>2. j = [i EXCEPT !.reader = "reading", !.writer = "waiting"]
    BY <1>0, <1>6 DEF Respond
  <2>3. /\ j.reader = "reading" /\ j.writer = "waiting" /\ j.queue = i.queue /\ j.closed = i.closed
        /\ j.ended = i.ended /\ j.accepted = i.accepted /\ Settled(j) = Settled(i) /\ j.dropped = i.dropped
    BY <1>0, <2>2 DEF Input, Settled
  <2>4. i.ended = "no" /\ i.writer = "off" /\ ~c.drained
    BY <2>1 DEF Delivers, DropBounded, Threaded, Served
  <2>q. QED
    BY <2>1, <2>3, <2>4 DEF Delivers, Counted, DropBounded, CloseIsLast, Threaded, Served, InHand
<1>7. CASE Drained(s)
  <2>1. c.stage = "drain" /\ i.writer = "done" /\ input' = input
    BY <1>7 DEF Drained, At
  <2>2. d.stage = "release" /\ d.drained
    BY <1>0, <1>7 DEF Drained, Conn
  <2>3. i.reader = "done" /\ (i.ended = "frame" => NoneDropped(i))
    BY <2>1 DEF Delivers, DropBounded, CloseIsLast, Threaded, Served
  <2>q. QED
    BY <2>1, <2>2, <2>3 DEF Delivers, Served
<1>8. CASE DrainTimesOut(s)
  <2>1. c.stage = "drain" /\ d.stage = "release" /\ d.drained = c.drained
    BY <1>1, <1>8 DEF DrainTimesOut, At, ConnStages, Held
  <2>2. j = [i EXCEPT !.closed = TRUE]
    BY <1>0, <1>8 DEF DrainTimesOut
  <2>3. /\ j.reader = i.reader /\ j.writer = i.writer /\ j.queue = i.queue /\ j.closed
        /\ j.ended = i.ended /\ j.accepted = i.accepted /\ Settled(j) = Settled(i) /\ j.dropped = i.dropped
    BY <1>0, <2>2 DEF Input, Settled
  <2>4. DropBounded(j)
    BY <2>3, ClosingDrops DEF Delivers
  <2>q. QED
    BY <1>2, <2>1, <2>3, <2>4 DEF Delivers, Counted, InHand, CloseIsLast, Threaded, Served
<1>q. QED
  BY <1>3, <1>4, <1>5, <1>6, <1>7, <1>8 DEF Connection

LEMMA ReaderDelivers ==
  ASSUME TypeOK, NEW s \in Streams, Delivers(conn[s], input[s]),
         \/ ReadInput(s) \/ ReadResize(s) \/ ReadClose(s) \/ ClientHangsUp(s) \/ Reader(s)
  PROVE  Delivers(conn'[s], input'[s])
<1> DEFINE c == conn[s]
           i == input[s]
           d == conn'[s]
           j == input'[s]
<1> USE DEF Threads, Rest
<1>0. /\ c \in Conn /\ i \in Input /\ i.queue \in Seq(Command)
      /\ conn \in [Streams -> Conn] /\ input \in [Streams -> Input]
      /\ Pending(i.queue) \in Nat /\ Settled(i) \in Nat /\ i.dropped \in Nat /\ i.accepted \in Nat
      /\ i.closed \in BOOLEAN
  BY StreamOf
<1>1. d.stage = c.stage /\ d.drained = c.drained
  BY <1>0 DEF ReadInput, ReadResize, ReadClose, ClientHangsUp, Reader, QueueInput, ReadEof,
     FrameArrives, Conn
<1>2. CASE ClientHangsUp(s) \/ input' = input
  <2>1. input' = input
    BY <1>2 DEF ClientHangsUp
  <2>q. QED
    BY <1>1, <2>1, StageDelivers
<1>a. i.reader \in {"reading", "checked"} =>
        /\ i.ended # "frame" /\ ~c.drained /\ ~i.closed /\ i.writer # "done"
        /\ c.stage \notin {"idle", "persist", "resize", "respond", "drain"}
        /\ i.accepted = Settled(i) + InHand(i) + Pending(i.queue)
        /\ \A k \in DOMAIN i.queue : i.queue[k] # "close"
  BY DEF Delivers, Counted, DropBounded, CloseIsLast, Threaded, Served
<1>3. CASE j = [i EXCEPT !.reader = "checked"] /\ i.reader = "reading"
  <2>1. /\ j.reader = "checked" /\ j.writer = i.writer /\ j.queue = i.queue /\ j.closed = i.closed
        /\ j.ended = i.ended /\ j.accepted = i.accepted /\ Settled(j) = Settled(i) /\ j.dropped = i.dropped
    BY <1>0, <1>3 DEF Input, Settled
  <2>q. QED
    BY <1>1, <1>3, <1>a, <2>1 DEF Delivers, Counted, DropBounded, CloseIsLast, Threaded, Served, InHand
<1>4. CASE ReadInput(s)
  <2>1. input' = input \/ (j = [i EXCEPT !.reader = "checked"] /\ i.reader = "reading")
    BY <1>0, <1>4 DEF ReadInput, FrameArrives, Reading
  <2>q. QED
    BY <1>2, <1>3, <2>1
<1>5. CASE QueueInput(s)
  <2>1. i.reader = "checked"
    BY <1>5 DEF QueueInput
  <2>2. CASE j = [i EXCEPT !.reader = "reading"]
    <3>1. /\ j.reader = "reading" /\ j.writer = i.writer /\ j.queue = i.queue /\ j.closed = i.closed
          /\ j.ended = i.ended /\ j.accepted = i.accepted /\ Settled(j) = Settled(i) /\ j.dropped = i.dropped
      BY <1>0, <2>2 DEF Input, Settled
    <3>q. QED
      BY <1>1, <1>a, <2>1, <3>1 DEF Delivers, Counted, DropBounded, CloseIsLast, Threaded, Served, InHand
  <2>3. CASE j = [[i EXCEPT !.reader = "reading", !.accepted = i.accepted + 1]
                    EXCEPT !.queue = Append(i.queue, "input")]
    <3>1. /\ j.reader = "reading" /\ j.writer = i.writer /\ j.queue = Append(i.queue, "input")
          /\ j.closed = i.closed /\ j.ended = i.ended /\ j.accepted = i.accepted + 1
          /\ Settled(j) = Settled(i) /\ j.dropped = i.dropped
      BY <1>0, <2>3 DEF Input, Settled
    <3>2. Pending(j.queue) = Pending(i.queue) + 1
      BY <1>0, <3>1, PendingAppend DEF Command
    <3>3. \A k \in DOMAIN j.queue : j.queue[k] # "close"
      BY <1>0, <1>a, <2>1, <3>1, CloseAppended DEF Command
    <3>4. Counted(j)
      <4>1. InHand(j) = InHand(i) /\ InHand(i) \in Nat
        BY <3>1 DEF InHand
      <4>2. i.accepted = Settled(i) + InHand(i) + Pending(i.queue)
        BY <1>a, <2>1
      <4>3. i.accepted \in Nat /\ Settled(i) \in Nat /\ Pending(i.queue) \in Nat
        BY <1>0
      <4>4. j.accepted = i.accepted + 1 /\ Settled(j) = Settled(i) /\ j.dropped = i.dropped
        BY <3>1
      <4> HIDE DEF i, j
      <4>5. j.accepted = Settled(j) + InHand(j) + Pending(j.queue)
        BY <3>2, <4>1, <4>2, <4>3, <4>4
      <4>q. QED
        BY <4>5 DEF Counted
    <3>q. QED
      BY <1>1, <1>a, <2>1, <3>1, <3>3, <3>4 DEF Delivers, DropBounded, CloseIsLast, Threaded, Served
  <2>q. QED
    BY <1>0, <1>5, <2>2, <2>3 DEF QueueInput, Queue
<1>6. CASE ReadResize(s) \/ ReadClose(s)
  <2>1. i.reader = "reading"
    BY <1>6 DEF ReadResize, ReadClose, FrameArrives, Reading
  <2>2. CASE j = [i EXCEPT !.queue = Append(i.queue, "resize")]
    <3>1. /\ j.reader = i.reader /\ j.writer = i.writer /\ j.queue = Append(i.queue, "resize")
          /\ j.closed = i.closed /\ j.ended = i.ended /\ j.accepted = i.accepted
          /\ Settled(j) = Settled(i) /\ j.dropped = i.dropped
      BY <1>0, <2>2 DEF Input, Settled
    <3>2. Pending(j.queue) = Pending(i.queue)
      BY <1>0, <3>1, PendingAppend DEF Command
    <3>3. \A k \in DOMAIN j.queue : j.queue[k] # "close"
      BY <1>0, <1>a, <2>1, <3>1, CloseAppended DEF Command
    <3>4. Counted(j)
      BY <1>0, <1>a, <2>1, <3>1, <3>2 DEF Counted, InHand
    <3>q. QED
      BY <1>1, <1>a, <2>1, <3>1, <3>3, <3>4 DEF Delivers, DropBounded, CloseIsLast, Threaded, Served
  <2>3. CASE j = [[i EXCEPT !.reader = "done", !.ended = "frame"]
                    EXCEPT !.queue = Append(i.queue, "close")]
    <3>1. /\ j.reader = "done" /\ j.writer = i.writer /\ j.queue = Append(i.queue, "close")
          /\ j.closed = i.closed /\ j.ended = "frame" /\ j.accepted = i.accepted
          /\ Settled(j) = Settled(i) /\ j.dropped = i.dropped
      BY <1>0, <2>3 DEF Input, Settled
    <3>2. Pending(j.queue) = Pending(i.queue)
      BY <1>0, <3>1, PendingAppend DEF Command
    <3>3. CloseIsLast(j)
      BY <1>0, <1>a, <2>1, <3>1, CloseAppended DEF Command, CloseIsLast
    <3>4. Counted(j)
      BY <1>0, <1>a, <2>1, <3>1, <3>2 DEF Counted, InHand
    <3>q. QED
      BY <1>1, <1>a, <2>1, <3>1, <3>3, <3>4 DEF Delivers, DropBounded, Threaded, Served
  <2>4. CASE j = [i EXCEPT !.reader = "done", !.ended = "full", !.closed = TRUE]
    <3>1. /\ j.reader = "done" /\ j.writer = i.writer /\ j.queue = i.queue
          /\ j.closed /\ j.ended = "full" /\ j.accepted = i.accepted
          /\ Settled(j) = Settled(i) /\ j.dropped = i.dropped
      BY <1>0, <2>4 DEF Input, Settled
    <3>2. DropBounded(j)
      BY <3>1, ClosingDrops DEF Delivers
    <3>q. QED
      BY <1>1, <1>a, <2>1, <3>1, <3>2 DEF Delivers, Counted, InHand, CloseIsLast, Threaded, Served
  <2>q. QED
    BY <1>0, <1>2, <1>6, <2>2, <2>3, <2>4 DEF ReadResize, ReadClose, Queue
<1>7. CASE ReadEof(s)
  <2>1. i.reader = "reading" /\ j = [i EXCEPT !.reader = "done", !.ended = "eof", !.closed = TRUE]
    BY <1>0, <1>7 DEF ReadEof, Reading
  <2>2. /\ j.reader = "done" /\ j.writer = i.writer /\ j.queue = i.queue
        /\ j.closed /\ j.ended = "eof" /\ j.accepted = i.accepted
        /\ Settled(j) = Settled(i) /\ j.dropped = i.dropped
    BY <1>0, <2>1 DEF Input, Settled
  <2>3. DropBounded(j)
    BY <2>2, ClosingDrops DEF Delivers
  <2>q. QED
    BY <1>1, <1>a, <2>1, <2>2, <2>3 DEF Delivers, Counted, InHand, CloseIsLast, Threaded, Served
<1>q. QED
  BY <1>2, <1>4, <1>5, <1>6, <1>7 DEF Reader

LEMMA WriterDelivers ==
  ASSUME TypeOK, NEW s \in Streams, Delivers(conn[s], input[s]),
         Writer(s) \/ TypeInput(s) \/ TypingFails(s)
  PROVE  Delivers(conn'[s], input'[s])
<1> DEFINE c == conn[s]
           i == input[s]
           j == input'[s]
<1>0. /\ c \in Conn /\ i \in Input /\ i.queue \in Seq(Command)
      /\ conn \in [Streams -> Conn] /\ input \in [Streams -> Input]
      /\ Pending(i.queue) \in Nat /\ Settled(i) \in Nat /\ i.dropped \in Nat /\ i.accepted \in Nat
      /\ i.closed \in BOOLEAN
  BY StreamOf
<1>1. conn' = conn
  BY DEF Writer, TakeCommand, WriterEnds, TypeInput, TypingFails, Rest
<1>2. CASE TypeInput(s) \/ TypingFails(s)
  <2>1. /\ i.writer = "typing"
        /\ \/ j = [i EXCEPT !.writer = "waiting", !.typed = i.typed + 1]
           \/ j = [i EXCEPT !.writer = "waiting", !.failed = i.failed + 1]
    BY <1>0, <1>2 DEF TypeInput, TypingFails
  <2>2. /\ j.reader = i.reader /\ j.writer = "waiting" /\ j.queue = i.queue /\ j.closed = i.closed
        /\ j.ended = i.ended /\ j.accepted = i.accepted
        /\ Settled(j) = Settled(i) + 1 /\ j.dropped = i.dropped
    <3>1. i.typed \in Nat /\ i.failed \in Nat /\ i.dropped \in Nat
      BY <1>0 DEF Input
    <3>2. /\ j.reader = i.reader /\ j.writer = "waiting" /\ j.queue = i.queue
          /\ j.closed = i.closed /\ j.ended = i.ended /\ j.accepted = i.accepted
          /\ j.dropped = i.dropped
          /\ \/ j.typed = i.typed + 1 /\ j.failed = i.failed
             \/ j.typed = i.typed /\ j.failed = i.failed + 1
      BY <1>0, <2>1 DEF Input
    <3> HIDE DEF i, j
    <3>q. QED
      BY <3>1, <3>2 DEF Settled
  <2>3. Counted(j)
    BY <1>0, <2>1, <2>2 DEF Delivers, Counted, InHand
  <2>4. ~(c.stage \in {"serve", "drain"} /\ i.ended = "frame" /\ i.closed) /\ ~c.drained
        /\ i.reader # "off"
    BY <2>1 DEF Delivers, Served, NoneDropped, Threaded
  <2>q. QED
    BY <1>1, <2>1, <2>2, <2>3, <2>4 DEF Delivers, DropBounded, CloseIsLast, Threaded, Served
<1>3. CASE WriterEnds(s)
  <2>1. /\ i.writer = "waiting" /\ i.queue = <<>> /\ i.reader = "done"
        /\ j = [i EXCEPT !.writer = "done"]
    BY <1>0, <1>3 DEF WriterEnds
  <2>2. /\ j.reader = i.reader /\ j.writer = "done" /\ j.queue = i.queue /\ j.closed = i.closed
        /\ j.ended = i.ended /\ j.accepted = i.accepted /\ Settled(j) = Settled(i) /\ j.dropped = i.dropped
    BY <1>0, <2>1 DEF Input, Settled
  <2>3. ~(c.stage \in {"serve", "drain"} /\ i.ended = "frame" /\ i.closed) /\ ~c.drained
    BY <2>1 DEF Delivers, Served, NoneDropped
  <2>q. QED
    BY <1>1, <2>1, <2>2, <2>3 DEF Delivers, Counted, DropBounded, CloseIsLast, Threaded, Served, InHand
<1>4. CASE TakeCommand(s)
  <2> DEFINE q == Tail(i.queue)
             rest == [i EXCEPT !.queue = q]
  <2>1. i.writer = "waiting" /\ i.queue # <<>>
    BY <1>4 DEF TakeCommand
  <2>2. q \in Seq(Command) /\ Head(i.queue) \in Command
    BY <1>0, <2>1, HeadTailProperties
  <2>3. /\ Pending(i.queue) = Pending(q) + (IF Head(i.queue) = "input" THEN 1 ELSE 0)
        /\ Pending(q) \in Nat /\ Len(q) = Len(i.queue) - 1 /\ Len(i.queue) \in Nat
    <3>1. Len(q) = Len(i.queue) - 1 /\ Len(i.queue) \in Nat
      BY <1>0, <2>1, HeadTailProperties
    <3>2. /\ Pending(i.queue) = Pending(q) + (IF Head(i.queue) = "input" THEN 1 ELSE 0)
          /\ Pending(q) \in Nat
      BY <1>0, <2>1, <2>2, PendingTail, InputsFinite
    <3>q. QED
      BY <3>1, <3>2
  <2>4. /\ \A k \in DOMAIN q : q[k] = "close" => i.ended = "frame" /\ k = Len(q)
        /\ Head(i.queue) = "close" => i.ended = "frame" /\ q = <<>>
        /\ Head(i.queue) # "close" /\ i.queue[Len(i.queue)] = "close" =>
             q # <<>> /\ q[Len(q)] = "close"
    <3> DEFINE frame == i.ended = "frame"
    <3>1. frame \in BOOLEAN /\ \A k \in DOMAIN i.queue : i.queue[k] = "close" => frame /\ k = Len(i.queue)
      BY DEF Delivers, CloseIsLast
    <3> HIDE DEF frame
    <3>2. /\ \A k \in DOMAIN q : q[k] = "close" => frame /\ k = Len(q)
          /\ Head(i.queue) = "close" => frame /\ q = <<>>
          /\ Head(i.queue) # "close" /\ i.queue[Len(i.queue)] = "close" =>
               q # <<>> /\ q[Len(q)] = "close"
      BY <1>0, <2>1, <3>1, CloseTaken
    <3>q. QED
      BY <3>2 DEF frame
  <2>5. ~(c.stage \in {"serve", "drain"} /\ i.ended = "frame" /\ i.closed) /\ ~c.drained
        /\ i.reader # "off"
    BY <2>1 DEF Delivers, Served, NoneDropped, Threaded
  <2>6. \/ Head(i.queue) = "input" /\ ~i.closed /\ j = [rest EXCEPT !.writer = "typing"]
        \/ Head(i.queue) = "close" /\ j = [rest EXCEPT !.writer = "done", !.closed = TRUE]
        \/ /\ Head(i.queue) = "input" /\ i.closed
           /\ j = [rest EXCEPT !.dropped = rest.dropped + 1]
        \/ Head(i.queue) = "resize" /\ j = rest
    BY <1>0, <1>4, <2>2 DEF TakeCommand, Command
  <2> HIDE DEF q
  <2>7. CASE Head(i.queue) = "input" /\ ~i.closed /\ j = [rest EXCEPT !.writer = "typing"]
    <3>1. /\ j.reader = i.reader /\ j.writer = "typing" /\ j.queue = q /\ j.closed = i.closed
          /\ j.ended = i.ended /\ j.accepted = i.accepted /\ Settled(j) = Settled(i) /\ j.dropped = i.dropped
      BY <1>0, <2>7 DEF Input, Settled
    <3>2. Counted(j)
      BY <1>0, <2>1, <2>3, <2>7, <3>1 DEF Delivers, Counted, InHand
    <3>q. QED
      BY <1>1, <2>4, <2>5, <2>7, <3>1, <3>2 DEF Delivers, DropBounded, CloseIsLast, Threaded, Served
  <2>8. CASE Head(i.queue) = "close" /\ j = [rest EXCEPT !.writer = "done", !.closed = TRUE]
    <3>1. /\ j.reader = i.reader /\ j.writer = "done" /\ j.queue = q /\ j.closed
          /\ j.ended = i.ended /\ j.accepted = i.accepted /\ Settled(j) = Settled(i) /\ j.dropped = i.dropped
      BY <1>0, <2>8 DEF Input, Settled
    <3>2. q = <<>> /\ i.ended = "frame" /\ Pending(q) = 0
      BY <2>4, <2>8, NonePending
    <3>3. Counted(j)
      BY <1>0, <2>1, <2>3, <2>8, <3>1 DEF Delivers, Counted, InHand
    <3>4. DropBounded(j)
      <4>1. DropBounded(i) /\ QueueCapacity \in Nat /\ Len(i.queue) <= QueueCapacity
        BY StreamOf, ControlAssumption DEF Delivers
      <4>2. i.dropped + Len(i.queue) <= QueueCapacity
        BY <1>0, <2>3, <4>1 DEF DropBounded
      <4>3. j.dropped + Len(j.queue) <= QueueCapacity
        BY <1>0, <2>3, <3>1, <4>1, <4>2
      <4>q. QED
        BY <3>1, <4>3 DEF DropBounded
    <3>5. c.stage \in {"serve", "drain"} => NoneDropped(j)
      BY <2>5, <3>1, <3>2 DEF NoneDropped, Delivers, DropBounded
    <3>6. i.reader = "done"
      BY <3>2 DEF Delivers, Threaded
    <3>q. QED
      BY <1>1, <2>4, <2>5, <3>1, <3>2, <3>3, <3>4, <3>5, <3>6
         DEF Delivers, CloseIsLast, Threaded, Served
  <2>9. CASE /\ Head(i.queue) = "input" /\ i.closed
              /\ j = [rest EXCEPT !.dropped = rest.dropped + 1]
    <3>1. /\ j.reader = i.reader /\ j.writer = "waiting" /\ j.queue = q /\ j.closed = i.closed
          /\ j.ended = i.ended /\ j.accepted = i.accepted
          /\ Settled(j) = Settled(i) + 1 /\ j.dropped = i.dropped + 1
      <4>1. i.typed \in Nat /\ i.failed \in Nat /\ i.dropped \in Nat
        BY <1>0 DEF Input
      <4>2. /\ j.reader = i.reader /\ j.writer = "waiting" /\ j.queue = q
            /\ j.closed = i.closed /\ j.ended = i.ended /\ j.accepted = i.accepted
            /\ j.typed = i.typed /\ j.failed = i.failed /\ j.dropped = i.dropped + 1
        BY ZenonT(60), <1>0, <2>1, <2>9 DEF Input
      <4> HIDE DEF i, j
      <4>q. QED
        BY <4>1, <4>2 DEF Settled
    <3>2. Counted(j)
      BY SMTT(30), <1>0, <2>1, <2>3, <2>9, <3>1 DEF Delivers, Counted, InHand
    <3>3. DropBounded(j)
      BY SMTT(30), <1>0, <2>3, <2>9, <3>1, ControlAssumption DEF Delivers, DropBounded
    <3>q. QED
      BY <1>1, <2>4, <2>5, <2>9, <3>1, <3>2, <3>3 DEF Delivers, CloseIsLast, Threaded, Served
  <2>10. CASE Head(i.queue) = "resize" /\ j = rest
    <3>1. /\ j.reader = i.reader /\ j.writer = "waiting" /\ j.queue = q /\ j.closed = i.closed
          /\ j.ended = i.ended /\ j.accepted = i.accepted /\ Settled(j) = Settled(i) /\ j.dropped = i.dropped
      BY <1>0, <2>1, <2>10 DEF Input, Settled
    <3>2. Counted(j)
      BY SMTT(30), <1>0, <2>1, <2>3, <2>10, <3>1 DEF Delivers, Counted, InHand
    <3>3. DropBounded(j)
      BY SMTT(30), <1>0, <2>3, <2>10, <3>1, ControlAssumption DEF Delivers, DropBounded
    <3>q. QED
      BY <1>1, <2>4, <2>5, <2>10, <3>1, <3>2, <3>3 DEF Delivers, CloseIsLast, Threaded, Served
  <2>q. QED
    BY <2>6, <2>7, <2>8, <2>9, <2>10
<1>q. QED
  BY <1>2, <1>3, <1>4 DEF Writer

LEMMA DeliveringStep ==
  ASSUME TypeOK, Delivering, [Next]_vars PROVE Delivering'
<1>1. CASE input' = input /\ conn' = conn
  BY <1>1 DEF Delivering
<1>2. ASSUME NEW s \in Streams,
             Connection(s) \/ Reader(s) \/ Writer(s) \/ Client(s) \/ Environment(s)
      PROVE  Delivering'
  <2>1. \A t \in Streams \ {s} : input'[t] = input[t]
    BY <1>2, OneAttachMoves
  <2>2. \A t \in Streams \ {s} : conn'[t] = conn[t]
    <3>1. conn \in [Streams -> Conn]
      BY DEF TypeOK
    <3>2. CASE Connection(s)
      BY <3>1, <3>2 DEF Connection, PersistReads, PersistWrites, PersistFails, Resized, Respond,
         ReaderDone, Drained, DrainTimesOut, Release, Enter
    <3>3. CASE Reader(s) \/ Writer(s)
      BY <3>3 DEF Reader, Writer, QueueInput, ReadEof, TakeCommand, WriterEnds
    <3>4. CASE Client(s) \/ Environment(s)
      BY <3>1, <3>4 DEF Client, Environment, Acquire, ReadInput, ReadResize, ReadClose,
         ClientHangsUp, FrameArrives, GivesUp, ResizeFails, TypeInput, TypingFails, Rest, Enter
    <3>q. QED
      BY <1>2, <3>2, <3>3, <3>4
  <2>3. Delivers(conn'[s], input'[s])
    BY <1>2, ConnectionDelivers, ReaderDelivers, WriterDelivers
       DEF Delivering, Client, Environment
  <2>q. QED
    BY <2>1, <2>2, <2>3 DEF Delivering
<1>3. ASSUME NEW q \in Senders, SendChecks(q) \/ SendTypes(q) PROVE Delivering'
  BY <1>1, <1>3 DEF SendChecks, SendTypes
<1>4. CASE Main \/ Host \/ UNCHANGED vars
  BY <1>1, <1>4 DEF Main, Host, RunningReads, RunningWrites, ExitReads, ExitWrites,
     UpdateSkipped, ProcessEnds, HostReads, HostWrites, HostDeletes, vars
<1>q. QED
  BY <1>2, <1>3, <1>4 DEF Next

LEMMA DeliveringInit == Init => Delivering
<1> SUFFICES ASSUME Init, NEW s \in Streams PROVE Delivers(conn[s], input[s])
  BY DEF Delivering
<1>1. conn[s].stage = "idle" /\ ~conn[s].drained
  BY DEF Init
<1>2. input[s] = [reader |-> "off", writer |-> "off", queue |-> <<>>, closed |-> FALSE,
                  ended |-> "no", accepted |-> 0, typed |-> 0,
                  failed |-> 0, dropped |-> 0]
  BY DEF Init
<1>3. Settled(input[s]) = 0
  BY <1>2 DEF Settled
<1>q. QED
  BY <1>1, <1>2, <1>3, NonePending DEF Delivers, Counted, DropBounded, CloseIsLast, Threaded, Served, InHand

\* An attach whose writer was waited for has accounted for all it had accepted when
\* its ownership goes, however the three threads of the attach interleave and whichever
\* writes the PTY refuses: behind a queued Close frame nothing was dropped; a Close that
\* did not fit is not sent again, it closes the stream, and that costs at most what the
\* queue held (handle_attach_input_line, write_attach_input_loop, the drain of
\* handle_observe_attach).
THEOREM CloseDelivers == Spec => []DeliveredBeforeRelease
<1>1. Init => Delivering
  BY DeliveringInit
<1>2. TypeOK /\ Delivering /\ [Next]_vars => Delivering'
  BY DeliveringStep
<1>3. TypeOK /\ Delivering => DeliveredBeforeRelease
  <2> SUFFICES ASSUME TypeOK, Delivering, NEW s \in Streams, conn[s].drained
               PROVE  /\ Settled(input[s]) = input[s].accepted
                      /\ input[s].ended = "frame" => input[s].dropped = 0
                      /\ input[s].dropped <= QueueCapacity
    BY DEF DeliveredBeforeRelease, Settled
  <2> DEFINE i == input[s]
  <2>1. /\ i.writer = "done" /\ i.queue = <<>> /\ Counted(i) /\ DropBounded(i)
        /\ i.ended = "frame" => i.dropped = 0
    BY DEF Delivering, Delivers, Served, Threaded, NoneDropped
  <2>2. /\ Settled(i) \in Nat /\ i.dropped \in Nat /\ i.closed \in BOOLEAN /\ Len(i.queue) = 0
    BY <2>1, StreamOf
  <2>3. Settled(i) = i.accepted
    BY <2>1, <2>2, NonePending DEF Counted, InHand
  <2>4. i.dropped <= QueueCapacity
    BY <2>1, <2>2, ControlAssumption DEF DropBounded
  <2>q. QED
    BY <2>1, <2>3, <2>4
<1>q. QED
  BY <1>1, <1>2, <1>3, TypeCorrect, PTL DEF Spec

-----------------------------------------------------------------------------
\* A frame that is queued late was checked while its stream still owned the input;
\* once that went it does not come back, and no further frame passes the check.

Late(s) ==
  /\ typed.late[s] \in {0, 1}
  /\ conn[s].readonly => typed.late[s] = 0 /\ input[s].reader # "checked"
  /\ typed.late[s] = 1 => /\ input[s].reader # "checked"
                          /\ conn[s].stage \notin Held \cup {"idle"}
LateBounded == \A s \in Streams : Late(s)

\* What a step does to the reader of a stream and to its count of late frames.
Quiet(s) == /\ typed'.late[s] = typed.late[s]
            /\ input'[s].reader = "checked" => input[s].reader = "checked"
Checks(s) == /\ Allowed(s) /\ conn'[s].stage = conn[s].stage
             /\ typed'.late[s] = typed.late[s]
Queues(s) == /\ input[s].reader = "checked" /\ input'[s].reader = "reading"
             /\ conn' = conn /\ ~Allowed(s) /\ typed'.late[s] = typed.late[s] + 1

LEMMA AttachQuiet ==
  ASSUME TypeOK, NEW s \in Streams,
         Connection(s) \/ Reader(s) \/ Writer(s) \/ Client(s) \/ Environment(s)
  PROVE  /\ Quiet(s) \/ Checks(s) \/ Queues(s)
         /\ \A t \in Streams \ {s} : Quiet(t)
<1> DEFINE i == input[s]
           j == input'[s]
<1> USE DEF Threads, Rest
<1>0. /\ i \in Input /\ input \in [Streams -> Input] /\ conn \in [Streams -> Conn]
      /\ typed.late \in [Streams -> Nat]
      /\ typed \in [late : [Streams -> Nat], closed : [Streams -> Nat],
                    stray : SUBSET {"attach", "send"}]
  BY StreamOf DEF TypeOK
<1>1. \A t \in Streams \ {s} : input'[t] = input[t]
  BY OneAttachMoves
<1>2. ASSUME typed'.late = typed.late, j.reader = "checked" => i.reader = "checked"
      PROVE  Quiet(s) /\ \A t \in Streams \ {s} : Quiet(t)
  BY <1>1, <1>2 DEF Quiet
<1>3. CASE QueueInput(s)
  <2>1. i.reader = "checked" /\ conn' = conn /\ j.reader = "reading"
    <3>1. \/ j = [[i EXCEPT !.reader = "reading", !.accepted = i.accepted + 1]
                    EXCEPT !.queue = Append(i.queue, "input")]
          \/ j = [i EXCEPT !.reader = "reading"]
      BY <1>0, <1>3 DEF QueueInput, Queue
    <3>q. QED
      BY <1>0, <1>3, <3>1 DEF QueueInput, Input
  <2>2. \/ typed'.late = typed.late
        \/ ~Allowed(s) /\ typed'.late = [typed.late EXCEPT ![s] = typed.late[s] + 1]
    BY <1>0, <1>3 DEF QueueInput
  <2>3. CASE typed'.late = typed.late
    BY <1>2, <2>1, <2>3
  <2>4. CASE ~Allowed(s) /\ typed'.late = [typed.late EXCEPT ![s] = typed.late[s] + 1]
    BY <1>0, <1>1, <2>1, <2>4 DEF Queues, Quiet
  <2>q. QED
    BY <2>2, <2>3, <2>4
<1>4. CASE ReadInput(s)
  <2>1. conn'[s].stage = conn[s].stage /\ typed' = typed
    BY <1>0, <1>4 DEF ReadInput, FrameArrives, Conn
  <2>2. CASE Allowed(s)
    BY <1>1, <2>1, <2>2 DEF Checks, Quiet
  <2>3. CASE ~Allowed(s)
    <3>1. input' = input
      BY <1>4, <2>3 DEF ReadInput
    <3>q. QED
      BY <1>2, <2>1, <3>1
  <2>q. QED
    BY <2>2, <2>3
<1>5. CASE Respond(s) \/ DrainTimesOut(s) \/ ReadEof(s) \/ WriterEnds(s) \/ TypingFails(s)
            \/ TypeInput(s)
  <2>1. \/ j = [i EXCEPT !.reader = "reading", !.writer = "waiting"]
        \/ j = [i EXCEPT !.closed = TRUE] \/ j = [i EXCEPT !.writer = "done"]
        \/ j = [i EXCEPT !.reader = "done", !.ended = "eof", !.closed = TRUE]
        \/ j = [i EXCEPT !.writer = "waiting", !.failed = i.failed + 1]
        \/ j = [i EXCEPT !.writer = "waiting", !.typed = i.typed + 1]
    BY <1>0, <1>5 DEF Respond, DrainTimesOut, ReadEof, WriterEnds, TypingFails, TypeInput
  <2>2. j.reader = "checked" => i.reader = "checked"
    BY <1>0, <2>1 DEF Input
  <2>3. typed'.late = typed.late
    BY <1>5 DEF Respond, DrainTimesOut, ReadEof, WriterEnds, TypingFails, TypeInput
  <2>q. QED
    BY <1>2, <2>2, <2>3
<1>6. CASE ReadResize(s) \/ ReadClose(s)
  <2>1. \/ j = i \/ j = [i EXCEPT !.queue = Append(i.queue, "resize")]
        \/ j = [[i EXCEPT !.reader = "done", !.ended = "frame"]
                  EXCEPT !.queue = Append(i.queue, "close")]
        \/ j = [i EXCEPT !.reader = "done", !.ended = "full", !.closed = TRUE]
    BY <1>0, <1>6 DEF ReadResize, ReadClose, Queue
  <2>2. j.reader = "checked" => i.reader = "checked"
    BY <1>0, <2>1 DEF Input
  <2>3. typed' = typed
    BY <1>6 DEF ReadResize, ReadClose, FrameArrives
  <2>q. QED
    BY <1>2, <2>2, <2>3
<1>7. CASE TakeCommand(s)
  <2> DEFINE rest == [i EXCEPT !.queue = Tail(i.queue)]
  <2>1. /\ typed' = typed
        /\ \/ j = [rest EXCEPT !.writer = "typing"]
           \/ j = [rest EXCEPT !.writer = "done", !.closed = TRUE]
           \/ j = [rest EXCEPT !.dropped = rest.dropped + 1] \/ j = rest
    BY <1>0, <1>7 DEF TakeCommand
  <2>2. j.reader = "checked" => i.reader = "checked"
    BY <1>0, <2>1 DEF Input
  <2>q. QED
    BY <1>2, <2>1, <2>2
<1>8. CASE Connection(s) /\ ~Respond(s) /\ ~DrainTimesOut(s)
  <2>1. input' = input /\ typed' = typed
    BY <1>8 DEF Connection, PersistReads, PersistWrites, PersistFails, Resized, ReaderDone,
       Drained, Release
  <2>q. QED
    BY <1>2, <2>1
<1>9. CASE Acquire(s) \/ ClientHangsUp(s) \/ GivesUp(s) \/ ResizeFails(s)
  <2>1. input' = input /\ typed' = typed
    BY <1>9 DEF Acquire, ClientHangsUp, GivesUp, ResizeFails
  <2>q. QED
    BY <1>2, <2>1
<1>q. QED
  BY <1>3, <1>4, <1>5, <1>6, <1>7, <1>8, <1>9 DEF Reader, Writer, Client, Environment

LEMMA StepQuiet ==
  ASSUME TypeOK, [Next]_vars, NEW t \in Streams
  PROVE  Quiet(t) \/ Checks(t) \/ Queues(t)
<1>1. CASE input' = input /\ typed'.late = typed.late
  BY <1>1 DEF Quiet
<1>2. ASSUME NEW s \in Streams,
             Connection(s) \/ Reader(s) \/ Writer(s) \/ Client(s) \/ Environment(s)
      PROVE  Quiet(t) \/ Checks(t) \/ Queues(t)
  BY <1>2, AttachQuiet
<1>3. ASSUME NEW q \in Senders, SendChecks(q) \/ SendTypes(q)
      PROVE  Quiet(t)
  <2>1. typed \in [late : [Streams -> Nat], closed : [Streams -> Nat],
                  stray : SUBSET {"attach", "send"}]
    BY DEF TypeOK
  <2>2. input' = input /\ typed'.late = typed.late
    BY <1>3, <2>1 DEF SendChecks, SendTypes
  <2>q. QED
    BY <2>2 DEF Quiet
<1>4. CASE Main \/ Host \/ UNCHANGED vars
  BY <1>1, <1>4 DEF Main, Host, RunningReads, RunningWrites, ExitReads, ExitWrites,
     UpdateSkipped, ProcessEnds, HostReads, HostWrites, HostDeletes, vars
<1>q. QED
  BY <1>2, <1>3, <1>4 DEF Next

\* A stream that left does not come back, and one that is read-only stays so.
LEMMA LeftForGood ==
  ASSUME TypeOK, [Next]_vars, NEW t \in Streams
  PROVE  /\ conn'[t].readonly = conn[t].readonly
         /\ conn[t].stage \notin Held \cup {"idle"} => conn'[t].stage \notin Held \cup {"idle"}
<1>1. OneMoves
  BY StepMoves
<1>q. QED
  BY <1>1 DEF OneMoves, Stays, Taken, TurnedAway, Leaves, OthersLike, Like, Held

LEMMA LateStep ==
  ASSUME TypeOK, OwnerIsAttached, Delivering, LateBounded, [Next]_vars
  PROVE  LateBounded'
<1> SUFFICES ASSUME NEW t \in Streams PROVE Late(t)'
  BY DEF LateBounded
<1>1. /\ conn'[t].readonly = conn[t].readonly
      /\ conn[t].stage \notin Held \cup {"idle"} => conn'[t].stage \notin Held \cup {"idle"}
  BY LeftForGood
<1>2. Late(t)
  BY DEF LateBounded
<1>3. CASE Quiet(t)
  BY <1>1, <1>2, <1>3 DEF Quiet, Late
<1>4. CASE Checks(t)
  <2>1. conn[t].stage \in Held /\ ~conn[t].readonly
    BY <1>4 DEF Checks, Allowed, OwnerIsAttached, Writable
  <2>2. typed.late[t] = 0
    BY <1>2, <2>1 DEF Late
  <2>q. QED
    BY <1>1, <1>4, <2>1, <2>2 DEF Checks, Late
<1>5. CASE Queues(t)
  <2>1. /\ typed.late[t] = 0 /\ typed'.late[t] = 1 /\ ~conn[t].readonly
        /\ input'[t].reader # "checked" /\ conn' = conn
    BY <1>2, <1>5 DEF Queues, Late
  <2>2. conn[t].stage \notin Held
    BY <1>5, <2>1 DEF Queues, Allowed, OwnerIsAttached, Writable
  <2>3. conn[t].stage # "idle"
    BY <1>5 DEF Queues, Delivering, Delivers, Served
  <2>q. QED
    BY <2>1, <2>2, <2>3 DEF Late
<1>q. QED
  BY <1>3, <1>4, <1>5, StepQuiet

\* Of a stream that does not own the input at most the one frame is accepted that was
\* being queued when the ownership went, and of a read-only stream none, for any number
\* of streams that come and go and whatever they send (handle_attach_input_line,
\* send_is_allowed, release_attach).
THEOREM LateInputIsOne == Spec => []LateInputAtMostOne
<1>1. Init => LateBounded
  BY DEF Init, LateBounded, Late
<1>2. TypeOK /\ OwnerIsAttached /\ Delivering /\ LateBounded /\ [Next]_vars => LateBounded'
  BY LateStep
<1>3. LateBounded => LateInputAtMostOne
  BY DEF LateBounded, Late, LateInputAtMostOne
<1>4. Init => Delivering
  BY DeliveringInit
<1>5. TypeOK /\ Delivering /\ [Next]_vars => Delivering'
  BY DeliveringStep
<1>q. QED
  BY <1>1, <1>2, <1>3, <1>4, <1>5, TypeCorrect, OwnerCorrect, PTL DEF Spec
=============================================================================
