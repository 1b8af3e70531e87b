-------------------------- MODULE HostConnectionsProofs --------------------------
(***************************************************************************)
(* The host's log accounts for every attach, whatever fails on the way,    *)
(* its followers skip nothing silently and send nothing twice, and what    *)
(* an attach carries arrives in order, in both directions.                 *)
(***************************************************************************)
EXTENDS HostConnections, FiniteSetTheorems, SequenceTheorems, WellFoundedInduction, TLAPS

User == [stage : {"waiting", "looping", "typing", "midline", "ended", "broken"},
         typed : 0 .. MaxLines, got : Seq(Nat), hand : Seq(Nat)]
Far == [stage : {"asked", "attached", "closed", "dead"}, sent : Nat, took : Seq(Nat)]
Part == [frame : Nat, piece : {"text", "newline"}]
Wires == [toHost : Seq(0 .. MaxLines), toWorker : Seq(Nat), fromWorker : Seq(Frames), toClient : Seq(Part),
          reset : BOOLEAN]

Sides ==
  /\ proxy \in [Clients -> Proxy] /\ client \in [Clients -> User]
  /\ worker \in [Clients -> Far] /\ pipe \in [Clients -> Wires]

Over(w) == w.stage \in {"closed", "dead"}

LEMMA HeadTail ==
  ASSUME NEW S, NEW s \in Seq(S), s # <<>>
  PROVE  Head(s) \in S /\ Tail(s) \in Seq(S)
OBVIOUS

LEMMA HalfGone ==
  ASSUME NEW p \in Proxy
  PROVE  /\ [p EXCEPT !.half = 0] \in Proxy
         /\ [p EXCEPT !.stage = "drain", !.half = 0] \in Proxy
<1>1. 0 \in 0 .. MaxLines
  BY ProxyAssumption
<1>2. [p EXCEPT !.half = 0] \in Proxy
  BY <1>1 DEF Proxy
<1>3. [p EXCEPT !.stage = "drain", !.half = 0] \in Proxy
  BY <1>1 DEF Proxy
<1>q. QED
  BY <1>2, <1>3

\* Closed is under way only from a worker that is through, and what the host has opened it
\* has recorded.
Books(p, w, q) ==
  /\ p.stage = "done" /\ p.opened => p.closed \/ p.timedOut \/ p.failed
  /\ p.closed => p.opened /\ Over(w)
  /\ p.stage \in {"answer", "relay", "text", "newline", "drain"} => p.opened
  /\ p.stage \in {"none", "opening", "record"} => ~p.opened
  /\ p.stage \in {"text", "newline"} /\ p.hand = Closed => Over(w)
  /\ \A i \in DOMAIN q.fromWorker : q.fromWorker[i] = Closed => Over(w)

Accounted == \A c \in Clients : Books(proxy[c], worker[c], pipe[c])

LEMMA Moves ==
  ASSUME Sides, Accounted, NEW c \in Clients,
         NEW p \in Proxy, proxy' = [proxy EXCEPT ![c] = p],
         NEW w \in Far, worker' = [worker EXCEPT ![c] = w],
         NEW q \in Wires, pipe' = [pipe EXCEPT ![c] = q],
         NEW u \in User, client' = [client EXCEPT ![c] = u],
         Books(p, w, q)
  PROVE  Sides' /\ Accounted'
<1>1. Sides'
  BY DEF Sides
<1>2. ASSUME NEW d \in Clients PROVE Books(proxy[d], worker[d], pipe[d])'
  <2>1. CASE d # c
    BY <2>1 DEF Sides, Accounted, Books, Over
  <2>2. CASE d = c
    BY <2>2 DEF Sides, Books, Over
  <2>q. QED
    BY <2>1, <2>2
<1>q. QED
  BY <1>1, <1>2 DEF Accounted

LEMMA Stands ==
  ASSUME Sides, NEW c \in Clients
  PROVE  /\ proxy[c] \in Proxy /\ proxy = [proxy EXCEPT ![c] = proxy[c]]
         /\ worker[c] \in Far /\ worker = [worker EXCEPT ![c] = worker[c]]
         /\ pipe[c] \in Wires /\ pipe = [pipe EXCEPT ![c] = pipe[c]]
         /\ client[c] \in User /\ client = [client EXCEPT ![c] = client[c]]
  BY DEF Sides

\* What is unchanged but for one connection.
LEMMA HostMoves ==
  ASSUME Sides, Accounted, NEW c \in Clients,
         NEW p \in Proxy, proxy' = [proxy EXCEPT ![c] = p],
         NEW q \in Wires, pipe' = [pipe EXCEPT ![c] = q],
         UNCHANGED <<client, worker>>, Books(p, worker[c], q)
  PROVE  Sides' /\ Accounted'
BY Stands, Moves

LEMMA WorkerMoves ==
  ASSUME Sides, Accounted, NEW c \in Clients,
         NEW w \in Far, worker' = [worker EXCEPT ![c] = w],
         NEW q \in Wires, pipe' = [pipe EXCEPT ![c] = q],
         UNCHANGED <<proxy, client>>, Books(proxy[c], w, q)
  PROVE  Sides' /\ Accounted'
BY Stands, Moves

LEMMA ClientMoves ==
  ASSUME Sides, Accounted, NEW c \in Clients,
         NEW u \in User, client' = [client EXCEPT ![c] = u],
         NEW q \in Wires, pipe' = [pipe EXCEPT ![c] = q], q.fromWorker = pipe[c].fromWorker,
         UNCHANGED <<proxy, worker>>
  PROVE  Sides' /\ Accounted'
<1>1. Books(proxy[c], worker[c], q)
  BY DEF Accounted, Books
<1>q. QED
  BY <1>1, Stands, Moves

LEMMA FirstFrame ==
  ASSUME NEW s \in Seq(Frames), s # <<>>
  PROVE  /\ Head(s) \in Frames /\ Tail(s) \in Seq(Frames) /\ Head(s) = s[1] /\ 1 \in DOMAIN s
         /\ \A i \in DOMAIN Tail(s) : i + 1 \in DOMAIN s /\ Tail(s)[i] = s[i + 1]
  OBVIOUS

LEMMA LastFrame ==
  ASSUME NEW s \in Seq(Frames), NEW f \in Frames
  PROVE  /\ Append(s, f) \in Seq(Frames)
         /\ \A i \in DOMAIN Append(s, f) :
              (i \in DOMAIN s /\ Append(s, f)[i] = s[i]) \/ Append(s, f)[i] = f
  OBVIOUS

\* A step of the host's task that moves nothing.
LEMMA TaskKeeps ==
  ASSUME Sides, Accounted, NEW c \in Clients,
         \/ RefuseAttach(c) \/ RecordOpened(c) \/ RecordFails(c) \/ RelayEndOfInput(c)
         \/ RelayEndOfOutput(c) \/ WriteToGone(c) \/ DrainEnds(c) \/ DrainTimesOut(c)
  PROVE  Sides' /\ Accounted'
<1>0. /\ Books(proxy[c], worker[c], pipe[c]) /\ proxy[c] \in Proxy
      /\ pipe[c] \in Wires /\ pipe = [pipe EXCEPT ![c] = pipe[c]]
  BY Stands DEF Accounted
<1>1. ASSUME NEW p \in Proxy, proxy' = [proxy EXCEPT ![c] = p], UNCHANGED <<client, worker, pipe>>,
             Books(p, worker[c], pipe[c])
      PROVE  Sides' /\ Accounted'
  BY <1>0, <1>1, HostMoves
<1> DEFINE closed == [proxy[c] EXCEPT !.stage = "done", !.closed = TRUE, !.shut = TRUE]
           drains == [proxy[c] EXCEPT !.stage = "drain", !.shut = TRUE]
           fails == [proxy[c] EXCEPT !.stage = "done", !.shut = TRUE, !.failed = TRUE]
<1>2. closed \in Proxy /\ drains \in Proxy /\ fails \in Proxy
  BY <1>0 DEF Proxy
<1>3. CASE RefuseAttach(c)
  <2>1. [proxy[c] EXCEPT !.stage = "done"] \in Proxy
    BY <1>0 DEF Proxy
  <2>2. Books([proxy[c] EXCEPT !.stage = "done"], worker[c], pipe[c])
    BY <1>0, <1>3 DEF RefuseAttach, At, Books, Proxy
  <2>q. QED
    BY <1>1, <1>3, <2>1, <2>2 DEF RefuseAttach, ProxyGoes, HostAlone
<1>4. CASE RecordOpened(c)
  <2> DEFINE p == [proxy[c] EXCEPT !.stage = "answer", !.opened = TRUE]
  <2>1. p \in Proxy
    BY <1>0 DEF Proxy
  <2>2. Books(p, worker[c], pipe[c])
    BY <1>0, <1>4 DEF RecordOpened, At, Books, Proxy
  <2>q. QED
    BY <1>1, <1>4, <2>1, <2>2 DEF RecordOpened, HostAlone
<1>5. CASE RecordFails(c)
  <2>1. Books(fails, worker[c], pipe[c])
    BY <1>0, <1>5 DEF RecordFails, At, Books, Proxy
  <2>q. QED
    BY <1>1, <1>2, <1>5, <2>1 DEF RecordFails, HostAlone
<1>6. CASE RelayEndOfInput(c)
  <2>1. Books(fails, worker[c], pipe[c]) /\ Books(drains, worker[c], pipe[c])
    BY <1>0, <1>6 DEF RelayEndOfInput, At, Books, Proxy
  <2>2. /\ proxy' = [proxy EXCEPT ![c] = fails] \/ proxy' = [proxy EXCEPT ![c] = drains]
        /\ UNCHANGED <<client, worker, pipe>>
    BY <1>6 DEF RelayEndOfInput, HostAlone
  <2> HIDE DEF fails, drains
  <2>q. QED
    BY <1>1, <1>2, <2>1, <2>2
<1>7. CASE RelayEndOfOutput(c) \/ DrainEnds(c)
  <2>1. Over(worker[c]) /\ proxy[c].stage \in {"relay", "drain"} /\ proxy' = [proxy EXCEPT ![c] = closed]
        /\ UNCHANGED <<client, worker, pipe>>
    BY <1>7 DEF RelayEndOfOutput, DrainEnds, WorkerEnded, At, Over, Close, HostAlone
  <2>2. Books(closed, worker[c], pipe[c])
    BY <1>0, <2>1 DEF Books, Proxy
  <2> HIDE DEF closed
  <2>q. QED
    BY <1>1, <1>2, <2>1, <2>2
<1>8. CASE WriteToGone(c)
  <2>1. proxy[c].hand = Closed => Books(closed, worker[c], pipe[c])
    BY <1>0, <1>8 DEF WriteToGone, Books, Proxy
  <2>2. Books(drains, worker[c], pipe[c])
    BY <1>0, <1>8 DEF WriteToGone, Books, Proxy
  <2>3. /\ UNCHANGED <<client, worker, pipe>>
        /\ \/ proxy[c].hand = Closed /\ proxy' = [proxy EXCEPT ![c] = closed]
           \/ proxy' = [proxy EXCEPT ![c] = drains]
    BY <1>8 DEF WriteToGone, Close, HostAlone
  <2> HIDE DEF closed, drains
  <2>q. QED
    BY <1>1, <1>2, <2>1, <2>2, <2>3
<1>9. CASE DrainTimesOut(c)
  <2> DEFINE p == [proxy[c] EXCEPT !.stage = "done", !.timedOut = TRUE, !.shut = TRUE]
  <2>1. p \in Proxy
    BY <1>0 DEF Proxy
  <2>2. Books(p, worker[c], pipe[c])
    BY <1>0, <1>9 DEF DrainTimesOut, At, Books, Proxy
  <2>q. QED
    BY <1>1, <1>9, <2>1, <2>2 DEF DrainTimesOut, HostAlone
<1>q. QED
  BY <1>3, <1>4, <1>5, <1>6, <1>7, <1>8, <1>9

\* A step of the host's task that takes a line or a frame, or writes one.
LEMMA RelayKeeps ==
  ASSUME Sides, Accounted, NEW c \in Clients,
         \/ Answer(c) \/ ReadHalf(c) \/ RelayInput(c) \/ RelayCutLine(c) \/ RelayOutput(c)
         \/ WriteText(c) \/ WriteNewline(c) \/ Drain(c)
  PROVE  Sides' /\ Accounted'
<1>0. /\ Books(proxy[c], worker[c], pipe[c]) /\ proxy[c] \in Proxy
      /\ proxy = [proxy EXCEPT ![c] = proxy[c]]
      /\ pipe[c] \in Wires /\ pipe = [pipe EXCEPT ![c] = pipe[c]]
  BY Stands DEF Accounted
<1> DEFINE closed == [proxy[c] EXCEPT !.stage = "done", !.closed = TRUE, !.shut = TRUE]
           drains == [proxy[c] EXCEPT !.stage = "drain", !.shut = TRUE]
<1>1. closed \in Proxy /\ drains \in Proxy /\ \A s \in {"relay", "newline", "drain"} :
        [proxy[c] EXCEPT !.stage = s] \in Proxy
  BY <1>0 DEF Proxy
<1>2. CASE Answer(c)
  <2> DEFINE q == [pipe[c] EXCEPT !.toClient = <<[frame |-> Response, piece |-> "newline"]>>]
             p == [proxy[c] EXCEPT !.stage = "relay"]
  <2>1. q \in Wires /\ q.fromWorker = pipe[c].fromWorker
    <3>1. [frame |-> Response, piece |-> "newline"] \in Part
      BY ProxyAssumption DEF Response, Part
    <3>2. <<[frame |-> Response, piece |-> "newline"]>> \in Seq(Part)
      BY <3>1
    <3>q. QED
      BY <1>0, <3>2 DEF Wires
  <2>2. Books(drains, worker[c], pipe[c]) /\ Books(p, worker[c], q)
    BY <1>0, <1>2, <2>1 DEF Answer, At, Books, Proxy
  <2>3. CASE Gone(c)
    <3>1. proxy' = [proxy EXCEPT ![c] = drains] /\ UNCHANGED <<client, worker, pipe>>
      BY <1>2, <2>3 DEF Answer, HostAlone
    <3> HIDE DEF drains
    <3>q. QED
      BY <1>0, <1>1, <2>2, <3>1, HostMoves
  <2>4. CASE ~Gone(c)
    <3>1. proxy' = [proxy EXCEPT ![c] = p] /\ pipe' = [pipe EXCEPT ![c] = q]
      BY <1>2, <2>4 DEF Answer, ProxyGoes
    <3> HIDE DEF p, q
    <3>q. QED
      BY <1>1, <1>2, <2>1, <2>2, <3>1, HostMoves DEF Answer, HostAlone, p
  <2>q. QED
    BY <2>3, <2>4
<1>3. ASSUME NEW frames \in SUBSET (0 .. MaxLines), NEW rest \in Seq(0 .. MaxLines),
             At(c, "relay"), PassLine(c, frames, rest)
      PROVE  Sides' /\ Accounted'
  <2> DEFINE idle == [proxy[c] EXCEPT !.half = 0]
             stops == [proxy[c] EXCEPT !.stage = "drain", !.half = 0]
             took == [pipe[c] EXCEPT !.toHost = rest]
             gave(line) == [pipe[c] EXCEPT !.toHost = rest, !.toWorker = Append(@, line)]
  <2>1. idle \in Proxy /\ stops \in Proxy
    BY <1>0, HalfGone
  <2>2. took \in Wires /\ took.fromWorker = pipe[c].fromWorker
    BY <1>0 DEF Wires
  <2>3. ASSUME NEW line \in frames
        PROVE  gave(line) \in Wires /\ gave(line).fromWorker = pipe[c].fromWorker
    <3>1. line \in Nat
      BY ProxyAssumption
    <3>2. Append(pipe[c].toWorker, line) \in Seq(Nat)
      BY <1>0, <3>1 DEF Wires
    <3>q. QED
      BY <1>0, <3>2 DEF Wires
  <2>4. ASSUME NEW q \in Wires, q.fromWorker = pipe[c].fromWorker
        PROVE  Books(idle, worker[c], q) /\ Books(stops, worker[c], q)
    BY <1>0, <1>3, <2>4 DEF At, Books, Proxy
  <2>5. UNCHANGED <<client, worker>>
    BY <1>3 DEF PassLine, HostAlone
  <2>6. CASE WorkerReads(c)
    <3>1. PICK line \in frames : /\ pipe' = [pipe EXCEPT ![c].toHost = rest,
                                     ![c].toWorker = IF line = 0 THEN @ ELSE Append(@, line)]
                                 /\ proxy' = [proxy EXCEPT ![c] = idle]
      BY <1>3, <2>6 DEF PassLine
    <3>2. pipe' = [pipe EXCEPT ![c] = took] \/ pipe' = [pipe EXCEPT ![c] = gave(line)]
      BY <1>0, <3>1 DEF Wires
    <3> HIDE DEF took, gave, idle
    <3>q. QED
      BY <2>1, <2>2, <2>3, <2>4, <2>5, <3>1, <3>2, HostMoves
  <2>7. CASE ~WorkerReads(c)
    <3>1. pipe' = [pipe EXCEPT ![c] = took] /\ proxy' = [proxy EXCEPT ![c] = stops]
      BY <1>3, <2>7 DEF PassLine
    <3> HIDE DEF took, stops
    <3>q. QED
      BY <2>1, <2>2, <2>4, <2>5, <3>1, HostMoves
  <2>q. QED
    BY <2>6, <2>7
<1>r. CASE RelayInput(c) \/ RelayCutLine(c)
  <2>1. pipe[c].toHost \in Seq(0 .. MaxLines) /\ proxy[c].half \in 0 .. MaxLines
    BY <1>0 DEF Wires, Proxy
  <2>2. CASE RelayInput(c)
    <3>1. pipe[c].toHost # <<>>
      BY <2>2 DEF RelayInput
    <3>2. Tail(pipe[c].toHost) \in Seq(0 .. MaxLines)
      BY <2>1, <3>1, HeadTail
    <3>3. {proxy[c].half} \in SUBSET (0 .. MaxLines)
      BY <2>1
    <3>q. QED
      BY <1>3, <2>2, <3>2, <3>3 DEF RelayInput
  <2>3. CASE RelayCutLine(c)
    <3>1. <<>> \in Seq(0 .. MaxLines) /\ {0, proxy[c].half} \in SUBSET (0 .. MaxLines)
      BY <2>1, ProxyAssumption
    <3>q. QED
      BY <1>3, <2>3, <3>1 DEF RelayCutLine
  <2>q. QED
    BY <1>r, <2>2, <2>3
<1>h. CASE ReadHalf(c)
  <2> DEFINE p == [proxy[c] EXCEPT !.half = Head(pipe[c].toHost)]
             q == [pipe[c] EXCEPT !.toHost = Tail(@)]
  <2>1. Head(pipe[c].toHost) \in 0 .. MaxLines /\ Tail(pipe[c].toHost) \in Seq(0 .. MaxLines)
    <3>1. pipe[c].toHost \in Seq(0 .. MaxLines)
      BY <1>0 DEF Wires
    <3>2. pipe[c].toHost # <<>>
      BY <1>h DEF ReadHalf
    <3>q. QED
      BY <3>1, <3>2, HeadTail
  <2>2. p \in Proxy /\ q \in Wires /\ q.fromWorker = pipe[c].fromWorker
    BY <1>0, <2>1 DEF Proxy, Wires
  <2>3. Books(p, worker[c], q)
    BY <1>0, <1>h, <2>2 DEF ReadHalf, At, Books, Proxy
  <2>4. proxy' = [proxy EXCEPT ![c] = p] /\ pipe' = [pipe EXCEPT ![c] = q] /\ UNCHANGED <<client, worker>>
    BY <1>h DEF ReadHalf, HostAlone
  <2> HIDE DEF p, q
  <2>q. QED
    BY <2>2, <2>3, <2>4, HostMoves
<1>4. CASE RelayOutput(c)
  <2> DEFINE p == [proxy[c] EXCEPT !.stage = "text", !.hand = Head(pipe[c].fromWorker)]
             q == [pipe[c] EXCEPT !.fromWorker = Tail(@)]
  <2>1. pipe[c].fromWorker \in Seq(Frames) /\ pipe[c].fromWorker # <<>>
    BY <1>0, <1>4 DEF RelayOutput, Wires
  <2>2. Head(pipe[c].fromWorker) \in Frames /\ Tail(pipe[c].fromWorker) \in Seq(Frames)
    BY <2>1, FirstFrame
  <2>3. p \in Proxy /\ q \in Wires
    BY <1>0, <2>2 DEF Proxy, Wires
  <2>4. proxy' = [proxy EXCEPT ![c] = p] /\ pipe' = [pipe EXCEPT ![c] = q] /\ UNCHANGED <<client, worker>>
    BY <1>4 DEF RelayOutput, HostAlone
  <2>5. Books(p, worker[c], q)
    BY <1>0, <1>4, <2>1, FirstFrame DEF RelayOutput, At, Books, Over, Proxy, Wires
  <2> HIDE DEF p, q
  <2>q. QED
    BY <2>3, <2>4, <2>5, HostMoves
<1>5. ASSUME NEW piece \in {"text", "newline"}, NEW next \in {"newline", "relay"}, WritePiece(c, piece, next)
      PROVE  Sides' /\ Accounted'
  <2> DEFINE q == [pipe[c] EXCEPT !.toClient = Append(@, [frame |-> proxy[c].hand, piece |-> piece])]
             p == [proxy[c] EXCEPT !.stage = next]
  <2>1. q \in Wires /\ q.fromWorker = pipe[c].fromWorker
    <3>1. [frame |-> proxy[c].hand, piece |-> piece] \in Part
      BY <1>0, ProxyAssumption DEF Proxy, Frames, Part
    <3>2. Append(pipe[c].toClient, [frame |-> proxy[c].hand, piece |-> piece]) \in Seq(Part)
      BY <1>0, <3>1 DEF Wires
    <3>q. QED
      BY <1>0, <3>2 DEF Wires
  <2>2. pipe' = [pipe EXCEPT ![c] = q] /\ UNCHANGED <<client, worker>>
    BY <1>5 DEF WritePiece, HostAlone
  <2>3. proxy[c].hand = Closed => Books(closed, worker[c], q)
    BY <1>0, <1>5, <2>1 DEF WritePiece, At, Books, Proxy
  <2>4. Books(p, worker[c], q)
    BY <1>0, <1>5, <2>1 DEF WritePiece, At, Books, Proxy
  <2>5. \/ proxy[c].hand = Closed /\ proxy' = [proxy EXCEPT ![c] = closed]
        \/ proxy' = [proxy EXCEPT ![c] = p]
    BY <1>5 DEF WritePiece, Close, ProxyGoes
  <2>6. p \in Proxy
    BY <1>1
  <2> HIDE DEF p, q, closed
  <2>q. QED
    BY <1>1, <2>1, <2>2, <2>3, <2>4, <2>5, <2>6, HostMoves
<1>6. CASE Drain(c)
  <2> DEFINE q == [pipe[c] EXCEPT !.fromWorker = Tail(@)]
  <2>1. pipe[c].fromWorker \in Seq(Frames) /\ pipe[c].fromWorker # <<>>
    BY <1>0, <1>6 DEF Drain, Wires
  <2>2. q \in Wires
    BY <1>0, <2>1, FirstFrame DEF Wires
  <2>3. pipe' = [pipe EXCEPT ![c] = q] /\ UNCHANGED <<client, worker>>
    BY <1>6 DEF Drain, HostAlone
  <2>4. Head(pipe[c].fromWorker) = Closed => Books(closed, worker[c], q)
    BY <1>0, <1>6, <2>1, FirstFrame DEF Drain, At, Books, Over, Proxy, Wires
  <2>5. Books(proxy[c], worker[c], q)
    BY <1>0, <1>6, <2>1, FirstFrame DEF Drain, At, Books, Over, Proxy, Wires
  <2>6. \/ Head(pipe[c].fromWorker) = Closed /\ proxy' = [proxy EXCEPT ![c] = closed]
        \/ UNCHANGED proxy
    BY <1>6 DEF Drain, Close
  <2> HIDE DEF q, closed
  <2>q. QED
    BY <1>0, <1>1, <2>2, <2>3, <2>4, <2>5, <2>6, HostMoves
<1>q. QED
  BY <1>2, <1>r, <1>h, <1>4, <1>5, <1>6 DEF WriteText, WriteNewline

\* A step of the worker.
LEMMA WorkerKeeps ==
  ASSUME Sides, Accounted, NEW c \in Clients, WorkerStep(c)
  PROVE  Sides' /\ Accounted'
<1>0. /\ Books(proxy[c], worker[c], pipe[c]) /\ proxy[c] \in Proxy /\ worker[c] \in Far
      /\ pipe[c] \in Wires /\ pipe = [pipe EXCEPT ![c] = pipe[c]]
      /\ client[c] \in User /\ client = [client EXCEPT ![c] = client[c]]
  BY Stands DEF Accounted
<1>1. CASE WorkerAccepts(c)
  <2> DEFINE w == [worker[c] EXCEPT !.stage = "attached"]
             p == [proxy[c] EXCEPT !.stage = "record"]
  <2>1. w \in Far /\ p \in Proxy
    BY <1>0 DEF Far, Proxy
  <2>2. Books(p, w, pipe[c])
    BY <1>0, <1>1 DEF WorkerAccepts, At, Books, Over, Proxy, Far
  <2>3. worker' = [worker EXCEPT ![c] = w] /\ proxy' = [proxy EXCEPT ![c] = p] /\ UNCHANGED <<client, pipe>>
    BY <1>1 DEF WorkerAccepts, ProxyGoes
  <2> HIDE DEF w, p
  <2>q. QED
    BY <1>0, <2>1, <2>2, <2>3, Moves
<1>2. CASE WorkerSends(c)
  <2> DEFINE w == [worker[c] EXCEPT !.sent = @ + 1]
             q == [pipe[c] EXCEPT !.fromWorker = Append(@, worker[c].sent + 1)]
  <2>1. pipe[c].fromWorker \in Seq(Frames) /\ worker[c].sent + 1 \in Frames /\ worker[c].sent + 1 # Closed
    BY <1>0, <1>2, ProxyAssumption, SMTT(30) DEF WorkerSends, Far, Wires, Frames, Closed
  <2>2. q \in Wires /\ w \in Far
    <3>1. worker[c].sent + 1 \in Nat
      BY <1>0 DEF Far
    <3>2. w \in Far
      BY <1>0, <3>1 DEF Far
    <3>3. Append(pipe[c].fromWorker, worker[c].sent + 1) \in Seq(Frames)
      BY <2>1, LastFrame
    <3>q. QED
      BY <1>0, <3>2, <3>3 DEF Wires
  <2>3. w.stage = worker[c].stage /\ q.fromWorker = Append(pipe[c].fromWorker, worker[c].sent + 1)
    BY <1>0 DEF Far, Wires
  <2>4. Books(proxy[c], w, q)
    <3>1. \A i \in DOMAIN q.fromWorker : q.fromWorker[i] = Closed => Over(w)
      BY <1>0, <2>1, <2>3, LastFrame DEF Books, Over
    <3> HIDE DEF w, q
    <3>q. QED
      BY <1>0, <2>3, <3>1 DEF Books, Over
  <2>5. worker' = [worker EXCEPT ![c] = w] /\ pipe' = [pipe EXCEPT ![c] = q] /\ UNCHANGED <<proxy, client>>
    BY <1>2 DEF WorkerSends
  <2> HIDE DEF w, q
  <2>q. QED
    BY <2>2, <2>4, <2>5, WorkerMoves
<1>3. CASE WorkerTakes(c)
  <2> DEFINE w == [worker[c] EXCEPT !.took = Append(@, Head(pipe[c].toWorker))]
             q == [pipe[c] EXCEPT !.toWorker = Tail(@)]
  <2>1. /\ Tail(pipe[c].toWorker) \in Seq(Nat)
        /\ Append(worker[c].took, Head(pipe[c].toWorker)) \in Seq(Nat)
    BY <1>0, <1>3 DEF WorkerTakes, Wires, Far
  <2>2. q \in Wires /\ w \in Far /\ w.stage = worker[c].stage /\ q.fromWorker = pipe[c].fromWorker
    BY <1>0, <2>1 DEF Wires, Far
  <2>3. worker' = [worker EXCEPT ![c] = w] /\ pipe' = [pipe EXCEPT ![c] = q] /\ UNCHANGED <<proxy, client>>
    BY <1>3 DEF WorkerTakes
  <2> HIDE DEF w, q
  <2>4. Books(proxy[c], w, q)
    BY <1>0, <2>2 DEF Books, Over
  <2>q. QED
    BY <2>2, <2>3, <2>4, WorkerMoves
<1>4. CASE WorkerCloses(c)
  <2> DEFINE w == [worker[c] EXCEPT !.stage = "closed"]
             q == [pipe[c] EXCEPT !.fromWorker = Append(@, Closed)]
  <2>1. pipe[c].fromWorker \in Seq(Frames) /\ Closed \in Frames
    BY <1>0, ProxyAssumption DEF Wires, Frames, Closed
  <2>2. q \in Wires /\ w \in Far /\ Over(w)
    BY <1>0, <2>1, LastFrame DEF Wires, Far, Over
  <2>3. worker' = [worker EXCEPT ![c] = w] /\ pipe' = [pipe EXCEPT ![c] = q] /\ UNCHANGED <<proxy, client>>
    BY <1>4 DEF WorkerCloses
  <2> HIDE DEF w, q
  <2>4. Books(proxy[c], w, q)
    BY <1>0, <2>2 DEF Books
  <2>q. QED
    BY <2>2, <2>3, <2>4, WorkerMoves
<1>5. CASE WorkerDies(c)
  <2> DEFINE w == [worker[c] EXCEPT !.stage = "dead"]
  <2>1. w \in Far /\ Over(w)
    BY <1>0 DEF Far, Over
  <2>2. worker' = [worker EXCEPT ![c] = w] /\ UNCHANGED <<proxy, client, pipe>>
    BY <1>5 DEF WorkerDies
  <2> HIDE DEF w
  <2>3. Books(proxy[c], w, pipe[c])
    BY <1>0, <2>1 DEF Books
  <2>q. QED
    BY <1>0, <2>1, <2>2, <2>3, WorkerMoves
<1>q. QED
  BY <1>1, <1>2, <1>3, <1>4, <1>5 DEF WorkerStep

\* A step of the client touches neither the host nor what the worker has sent.
LEMMA ClientKeeps ==
  ASSUME Sides, Accounted, NEW c \in Clients, ClientStep(c) \/ TypeLine(c) \/ ClientQuits(c)
  PROVE  Sides' /\ Accounted'
<1>0. /\ client[c] \in User /\ pipe[c] \in Wires /\ pipe = [pipe EXCEPT ![c] = pipe[c]]
  BY Stands
<1> DEFINE quiet == [pipe[c] EXCEPT !.toClient = <<>>]
           hung == [pipe[c] EXCEPT !.reset = pipe[c].toClient # <<>>, !.toClient = <<>>]
           read(n) == [pipe[c] EXCEPT !.toClient = SubSeq(@, n, Len(@))]
           read1 == [pipe[c] EXCEPT !.toClient = Tail(@)]
<1>1. /\ quiet \in Wires /\ quiet.fromWorker = pipe[c].fromWorker
      /\ hung \in Wires /\ hung.fromWorker = pipe[c].fromWorker
  <2>1. <<>> \in Seq(Part)
    OBVIOUS
  <2>2. (pipe[c].toClient # <<>>) \in BOOLEAN
    OBVIOUS
  <2>q. QED
    BY <1>0, <2>1, <2>2 DEF Wires
<1>2. ASSUME NEW n \in {2, 3} PROVE read(n) \in Wires /\ read(n).fromWorker = pipe[c].fromWorker
  <2>1. pipe[c].toClient \in Seq(Part)
    BY <1>0 DEF Wires
  <2>2. SubSeq(pipe[c].toClient, n, Len(pipe[c].toClient)) \in Seq(Part)
    BY <2>1
  <2>q. QED
    BY <1>0, <2>2 DEF Wires
<1>3. pipe[c].toClient # <<>> =>
        read1 \in Wires /\ read1.fromWorker = pipe[c].fromWorker /\ Head(pipe[c].toClient).frame \in Nat
  <2>1. pipe[c].toClient # <<>> =>
          Tail(pipe[c].toClient) \in Seq(Part) /\ Head(pipe[c].toClient) \in Part
    BY <1>0 DEF Wires
  <2>q. QED
    BY <1>0, <2>1 DEF Wires, Part
<1>e. <<>> \in Seq(Nat)
  OBVIOUS
<1>4. ASSUME NEW stage \in {"ended", "broken"}, Hangs(c, stage)
      PROVE  Sides' /\ Accounted'
  <2> DEFINE u == [client[c] EXCEPT !.stage = stage, !.hand = <<>>]
  <2>1. u \in User
    BY <1>0, <1>e DEF User
  <2>2. client' = [client EXCEPT ![c] = u] /\ pipe' = [pipe EXCEPT ![c] = hung] /\ UNCHANGED <<proxy, worker>>
    BY <1>4 DEF Hangs, ClientBecomes, ClientAlone
  <2> HIDE DEF u, hung
  <2>q. QED
    BY <1>1, <2>1, <2>2, ClientMoves
<1>5. CASE ReadResponse(c)
  <2> DEFINE u == [client[c] EXCEPT !.stage = "looping"]
  <2>1. u \in User
    BY <1>0 DEF User
  <2>2. client' = [client EXCEPT ![c] = u] /\ pipe' = [pipe EXCEPT ![c] = quiet] /\ UNCHANGED <<proxy, worker>>
    BY <1>5 DEF ReadResponse, ClientBecomes, ClientAlone
  <2> HIDE DEF u, quiet
  <2>q. QED
    BY <1>1, <2>1, <2>2, ClientMoves
<1>6. CASE ReadFrame(c)
  <2> DEFINE first == Head(pipe[c].toClient)
             u == [client[c] EXCEPT !.got = Append(@, first.frame), !.hand = <<>>,
                                    !.stage = IF first.frame = Closed THEN "ended" ELSE @]
  <2>1. Append(client[c].got, first.frame) \in Seq(Nat)
    BY <1>0, <1>3, <1>6 DEF ReadFrame, User
  <2>2. u \in User
    BY <1>0, <1>e, <2>1 DEF User
  <2>3. PICK n \in {2, 3} : pipe' = [pipe EXCEPT ![c] = read(n)]
    <3>1. Whole(c) => pipe' = [pipe EXCEPT ![c] = read(3)]
      BY <1>6 DEF ReadFrame
    <3>2. ~Whole(c) => pipe' = [pipe EXCEPT ![c] = read(2)]
      BY <1>6 DEF ReadFrame
    <3> HIDE DEF read
    <3>q. QED
      BY <3>1, <3>2
  <2>4. client' = [client EXCEPT ![c] = u] /\ UNCHANGED <<proxy, worker>>
    BY <1>6 DEF ReadFrame, ClientBecomes, ClientAlone
  <2>5. read(n) \in Wires /\ read(n).fromWorker = pipe[c].fromWorker
    BY <1>2
  <2> HIDE DEF u, read
  <2>q. QED
    BY <2>2, <2>3, <2>4, <2>5, ClientMoves
<1>7. CASE ReadText(c)
  <2> DEFINE u == [client[c] EXCEPT !.hand = <<Head(pipe[c].toClient).frame>>]
  <2>1. read1 \in Wires /\ read1.fromWorker = pipe[c].fromWorker
        /\ <<Head(pipe[c].toClient).frame>> \in Seq(Nat)
    BY <1>3, <1>7 DEF ReadText
  <2>2. u \in User
    BY <1>0, <2>1 DEF User
  <2>3. client' = [client EXCEPT ![c] = u] /\ pipe' = [pipe EXCEPT ![c] = read1] /\ UNCHANGED <<proxy, worker>>
    BY <1>7 DEF ReadText, ClientBecomes, ClientAlone
  <2> HIDE DEF u, read1
  <2>q. QED
    BY <2>1, <2>2, <2>3, ClientMoves
<1>8. CASE TypeLine(c)
  <2> DEFINE u == [client[c] EXCEPT !.stage = "typing", !.typed = @ + 1, !.hand = <<>>]
  <2>1. u \in User
    <3>1. client[c].typed + 1 \in 0 .. MaxLines
      BY <1>0, <1>8, ProxyAssumption DEF TypeLine, User
    <3>q. QED
      BY <1>0, <1>e, <3>1 DEF User
  <2>2. client' = [client EXCEPT ![c] = u] /\ UNCHANGED <<proxy, worker, pipe>>
    BY <1>8 DEF TypeLine, ClientBecomes, ClientAlone
  <2> HIDE DEF u
  <2>q. QED
    BY <1>0, <2>1, <2>2, ClientMoves
<1>9. ASSUME NEW stage, NEW part \in 0 .. MaxLines, NEW next \in {"midline", "looping"},
             WritePart(c, stage, part, next), ~At(c, "done")
      PROVE  Sides' /\ Accounted'
  <2> DEFINE u == [client[c] EXCEPT !.stage = next]
             line == [pipe[c] EXCEPT !.toHost = Append(@, part)]
  <2>1. u \in User
    BY <1>0 DEF User
  <2>2. line \in Wires /\ line.fromWorker = pipe[c].fromWorker
    <3>1. Append(pipe[c].toHost, part) \in Seq(0 .. MaxLines)
      BY <1>0 DEF Wires
    <3>q. QED
      BY <1>0, <3>1 DEF Wires
  <2>3. client' = [client EXCEPT ![c] = u] /\ pipe' = [pipe EXCEPT ![c] = line] /\ UNCHANGED <<proxy, worker>>
    BY <1>9 DEF WritePart, ClientBecomes, ClientAlone
  <2> HIDE DEF u, line
  <2>q. QED
    BY <2>1, <2>2, <2>3, ClientMoves
<1>q. QED
  <2>1. CASE Hangs(c, "ended") \/ Hangs(c, "broken")
    BY <1>4, <2>1
  <2>2. CASE (BeginLine(c) \/ FinishLine(c)) /\ ~At(c, "done")
    <3>1. client[c].typed \in 0 .. MaxLines /\ Newline \in 0 .. MaxLines
      BY <1>0, ProxyAssumption DEF User, Newline
    <3>q. QED
      BY <1>9, <2>2, <3>1 DEF BeginLine, FinishLine
  <2>3. ClientStep(c) \/ TypeLine(c) \/ ClientQuits(c) =>
          \/ Hangs(c, "ended") \/ Hangs(c, "broken") \/ ReadResponse(c) \/ ReadFrame(c) \/ ReadText(c)
          \/ TypeLine(c) \/ ((BeginLine(c) \/ FinishLine(c)) /\ ~At(c, "done"))
    BY DEF ClientStep, ClientQuits, ReadsRefusal, ReadEmptyLine, StreamEnds, BeginLine, FinishLine,
           WritePart
  <2>q. QED
    BY <1>5, <1>6, <1>7, <1>8, <2>1, <2>2, <2>3

LEMMA AccountsInit == Init => Sides /\ Accounted
<1> SUFFICES ASSUME Init PROVE Sides /\ Accounted
  OBVIOUS
<1> USE DEF Init, ProxyInit
<1>1. proxy \in [Clients -> Proxy]
  BY ProxyAssumption DEF Proxy, Frames
<1>2. client \in [Clients -> User]
  BY ProxyAssumption DEF User
<1>3. worker \in [Clients -> Far]
  BY DEF Far
<1>4. pipe \in [Clients -> Wires]
  <2>1. <<>> \in Seq(Nat) /\ <<>> \in Seq(0 .. MaxLines) /\ <<>> \in Seq(Frames) /\ <<>> \in Seq(Part)
    OBVIOUS
  <2>q. QED
    BY <2>1 DEF Wires
<1>5. ASSUME NEW c \in Clients PROVE Books(proxy[c], worker[c], pipe[c])
  BY DEF Books
<1>q. QED
  BY <1>1, <1>2, <1>3, <1>4, <1>5 DEF Sides, Accounted

LEMMA AccountsStep == Sides /\ Accounted /\ [Next]_allVars => Sides' /\ Accounted'
<1> SUFFICES ASSUME Sides, Accounted, [Next]_allVars PROVE Sides' /\ Accounted'
  OBVIOUS
<1>1. CASE UNCHANGED proxyVars
  BY <1>1 DEF proxyVars, Sides, Accounted, Books, Over
<1>2. ASSUME NEW c \in Clients, BecomesAttach(c) PROVE Sides' /\ Accounted'
  <2>0. /\ Books(proxy[c], worker[c], pipe[c]) /\ proxy[c] \in Proxy
        /\ pipe[c] \in Wires /\ pipe = [pipe EXCEPT ![c] = pipe[c]]
    BY Stands DEF Accounted
  <2> DEFINE p == [proxy[c] EXCEPT !.stage = "opening"]
  <2>1. p \in Proxy
    BY <2>0 DEF Proxy
  <2>2. Books(p, worker[c], pipe[c])
    BY <1>2, <2>0 DEF BecomesAttach, Unused, Books, Proxy
  <2>3. proxy' = [proxy EXCEPT ![c] = p] /\ UNCHANGED <<client, worker, pipe>>
    BY <1>2 DEF BecomesAttach, ProxyGoes
  <2> HIDE DEF p
  <2>q. QED
    BY <2>0, <2>1, <2>2, <2>3, HostMoves
<1>3. ASSUME NEW c \in Clients,
             HostStep(c) \/ WorkerStep(c) \/ ClientStep(c) \/ TypeLine(c) \/ ClientQuits(c)
      PROVE  Sides' /\ Accounted'
  BY <1>3, TaskKeeps, RelayKeeps, WorkerKeeps, ClientKeeps DEF HostStep
<1>4. UNCHANGED allVars => UNCHANGED proxyVars
  BY DEF allVars, proxyVars
<1>q. QED
  BY <1>1, <1>2, <1>3, <1>4, ConnectionsAssumption DEF Next, BecomesFollower

\* An attach the session's log says was opened is closed there when the host's task is done,
\* unless the worker was silent past the grace, the client's socket was reset or the event
\* could not be written (record_attach_opened, record_attach_closed); and record_attach_closed
\* never comes before the worker has let go of the stream.
THEOREM AttachAccounted == Spec => []AttachIsAccounted
<1>1. Init => Sides /\ Accounted
  BY AccountsInit
<1>2. Sides /\ Accounted /\ [Next]_allVars => Sides' /\ Accounted'
  BY AccountsStep
<1>3. Sides /\ Accounted => AttachIsAccounted
  BY DEF Accounted, Books, Over, AttachIsAccounted, At
<1>q. QED
  BY <1>1, <1>2, <1>3, PTL DEF Spec

-----------------------------------------------------------------------------
\* The followers of the records.

\* The file, and a record that is half in it.
Filed ==
  /\ log \in Seq(Records) /\ Len(log) <= MaxRecords
  /\ torn \in BOOLEAN /\ (torn => Len(log) > 0)

\* What can be read of the file is at most what was written to it.
LEMMA LengthOfFile ==
  ASSUME Filed, NEW f
  PROVE  /\ file_len(f) \in Nat /\ file_len(f) <= 2 * Len(log)
         /\ Len(log) \in Nat /\ MaxRecords \in Nat
<1>1. Len(log) \in Nat /\ MaxRecords \in Nat
  BY FollowersAssumption DEF Filed
<1>q. QED
  BY <1>1 DEF file_len, Filed

\* n records in a row, after the first k.
Run(k, n) == [j \in 1 .. n |-> j + k]

\* Records are read from the first one that begins at or after the offset to the last whole one.
LEMMA RecordsAre ==
  ASSUME Filed, NEW f, NEW o \in Nat
  PROVE  \E k, n \in Nat :
           /\ RecordsFrom(f, o) = Run(k, n)
           /\ o <= 2 * k /\ 2 * k <= o + 1
           /\ n > 0 => k + n <= Len(log) /\ 2 * (k + n) <= file_len(f)
           /\ \A i \in Nat : o + 1 < 2 * i /\ 2 * i <= file_len(f) => i \in k + 1 .. k + n
<1> DEFINE k == (o + 1) \div 2
           m == file_len(f) \div 2
           n == IF m > k THEN m - k ELSE 0
           whole == {i \in 1 .. Len(log) : o <= 2 * (i - 1) /\ 2 * i <= file_len(f)}
<1>1. /\ file_len(f) \in Nat /\ file_len(f) <= 2 * Len(log) /\ Len(log) \in Nat
  BY LengthOfFile
<1>2. k \in Nat /\ m \in Nat /\ n \in Nat /\ o <= 2 * k /\ 2 * k <= o + 1
      /\ 2 * m <= file_len(f) /\ file_len(f) <= 2 * m + 1
  BY <1>1
<1>3. whole = k + 1 .. m
  <2>1. ASSUME NEW i \in whole PROVE i \in k + 1 .. m
    BY <1>1, <1>2, <2>1
  <2>2. ASSUME NEW i \in k + 1 .. m PROVE i \in whole
    BY <1>1, <1>2, <2>2
  <2>q. QED
    BY <2>1, <2>2
<1>4. Cardinality(whole) = n
  <2>1. k + 1 \in Int /\ m \in Int
    BY <1>2
  <2>2. Cardinality(k + 1 .. m) = IF k + 1 > m THEN 0 ELSE m - (k + 1) + 1
    BY <2>1, FS_Interval
  <2>3. (IF k + 1 > m THEN 0 ELSE m - (k + 1) + 1) = n
    <3> HIDE DEF k, m
    <3>q. QED
      BY <1>2
  <2>q. QED
    BY <1>3, <2>2, <2>3
<1>5. RecordsFrom(f, o) = Run(k, n)
  BY <1>4 DEF RecordsFrom, Run
<1>6. n > 0 => k + n = m /\ m <= Len(log)
  BY <1>1, <1>2
<1>7. ASSUME NEW i \in Nat, o + 1 < 2 * i, 2 * i <= file_len(f) PROVE i \in k + 1 .. k + n
  BY <1>1, <1>2, <1>7
<1> HIDE DEF k, m, n
<1>q. QED
  BY <1>1, <1>2, <1>5, <1>6, <1>7

\* What a follower has shown or is about to show, what it has counted as dropped or is about
\* to, and where its offset is or is about to be.
Bound(f) == f.shown \cup UNION {b.halves : b \in ToSet(f.batch)}
Noticed(f) == f.told \cup UNION {b.dropped : b \in ToSet(f.batch)}
Reached(f) == {f.offset} \cup {b.cursor : b \in {d \in ToSet(f.batch) : d.type = "event"}}
OfEvents(f) == f.kind \in {"subscribe", "events"}

\* Until the request is answered, and where nothing was new, nothing is under way.
Starting(f) ==
  /\ f.stage \in {"new", "answered"} => f.shown = {} /\ f.told = {} /\ f.start = 0 /\ f.offset = 0 /\ ~f.split
  /\ f.stage \in {"new", "answered", "check"} => f.batch = <<>>
  /\ f.stage \in {"new", "answered"} \/ f.kind # "logs" => f.part = [s \in Streams |-> {}]

\* The frames of events follow each other and what was shown, and the last of them is where
\* the offset gets to (a replay sets it first); only subscriptions drop.
Ordered(f) ==
  LET b == f.batch IN
  /\ \A n \in DOMAIN b : b[n].type = "event" =>
       /\ OfEvents(f) /\ \A h \in f.shown : h + 2 <= b[n].cursor
       /\ \E m \in DOMAIN b : n <= m /\ b[m].type = "event" /\ f.offset <= b[m].cursor
       /\ \E i \in 1 .. Len(log) : b[n].cursor = 2 * i /\ b[n].halves = Halves(i)
  /\ \A n, m \in DOMAIN b :
       n < m /\ b[n].type = "event" /\ b[m].type = "event" => b[n].cursor < b[m].cursor
  /\ OfEvents(f) => /\ \A n \in DOMAIN b : b[n].type # "event" => b[n].halves = {}
                    /\ \A h \in f.shown : h <= f.offset
  /\ f.kind # "subscribe" => f.told = {} /\ \A n \in DOMAIN b : b[n].dropped = {}

Complete(f) ==
  f.here /\ OfEvents(f) =>
    \A p \in Reached(f), i \in Index :
      f.start + 1 < 2 * i /\ 2 * i <= p => i \in Noticed(f) \/ Halves(i) \subseteq Bound(f)

\* What is counted as dropped is never shown, and lies behind.
LeftOut(f) ==
  f.here /\ f.kind = "subscribe" /\ f.limit > 0 =>
    \A i \in Noticed(f) : 2 * i \notin Bound(f) /\ \E p \in Reached(f) : 2 * i <= p

\* A follower that never read half a record is between two records.
Between(f) ==
  /\ f.kind = "subscribe" => ~f.split
  /\ ~f.split => f.start % 2 = 0 /\ (f.kind = "logs" => f.offset % 2 = 0)
  /\ OfEvents(f) => f.offset % 2 = 0 \/ f.offset = f.start

Raw(f) == f.here /\ f.kind = "pty" => f.start + 1 .. f.offset \subseteq Bound(f)

Lines(f) ==
  f.here /\ f.kind = "logs" /\ ~f.split =>
    \A i \in Index : f.start < 2 * i /\ 2 * i <= f.offset /\ log[i].stream # "none"
                     => Halves(i) \subseteq Bound(f) \/ i \in f.part[log[i].stream]

Follows(f) ==
  /\ f \in Follower /\ f.offset <= 2 * Len(log)
  /\ Starting(f) /\ Ordered(f) /\ Complete(f) /\ LeftOut(f) /\ Between(f) /\ Raw(f) /\ Lines(f)

\* The frame of a record shows that record and stands where it ends.
LEMMA EventFrameIs ==
  ASSUME NEW i \in Nat, 1 <= i, i <= MaxRecords
  PROVE  /\ EventFrame(i) \in Frame /\ EventFrame(i).type = "event" /\ EventFrame(i).cursor = 2 * i
         /\ EventFrame(i).halves = Halves(i) /\ EventFrame(i).dropped = {}
  BY FollowersAssumption DEF EventFrame, Plain, Frame, Position, Halves

\* No record has half of another.
LEMMA HalvesApart ==
  ASSUME NEW i \in Nat, NEW j \in Nat, i < j
  PROVE  2 * i \notin Halves(j)
  BY DEF Halves

\* A frame without content.
LEMMA PlainIs ==
  ASSUME NEW t \in {"ack", "lag", "line", "heartbeat", "error", "closed"}, NEW p \in Position
  PROVE  /\ Plain(t, p) \in Frame /\ Plain(t, p).type # "event" /\ Plain(t, p).cursor = p
         /\ Plain(t, p).halves = {} /\ Plain(t, p).dropped = {} /\ Plain(t, p).type = t
  BY DEF Plain, Frame

\* A batch that ends in the frames of consecutive events.
Batched(b, pre, k, n) ==
  /\ b \in Seq(Frame) /\ Len(pre) \in Nat
  /\ \A m \in DOMAIN b : \/ m \in DOMAIN pre /\ b[m] = pre[m]
                         \/ m - Len(pre) \in 1 .. n /\ b[m] = EventFrame(m - Len(pre) + k)
  /\ \A m \in DOMAIN pre : m \in DOMAIN b /\ b[m] = pre[m] /\ m <= Len(pre)
  /\ \A j \in 1 .. n : Len(pre) + j \in DOMAIN b /\ b[Len(pre) + j] = EventFrame(j + k)

\* The frames of consecutive records, after whatever precedes them.
LEMMA EventBatch ==
  ASSUME NEW pre \in Seq(Frame), NEW k \in Nat, NEW n \in Nat, n > 0 => k + n <= MaxRecords,
         NEW b, b = pre \o EventFrames(Run(k, n))
  PROVE  Batched(b, pre, k, n)
<1> DEFINE e == [j \in 1 .. n |-> EventFrame(j + k)]
<1>1. EventFrames(Run(k, n)) = e
  BY DEF EventFrames, Run
<1>2. \A j \in 1 .. n : EventFrame(j + k) \in Frame
  BY EventFrameIs, FollowersAssumption
<1>3. e \in Seq(Frame) /\ Len(e) = n /\ DOMAIN e = 1 .. n /\ \A j \in 1 .. n : e[j] = EventFrame(j + k)
  BY <1>2
<1> HIDE DEF e
<1>4. b = pre \o e
  BY <1>1
<1>5. /\ b \in Seq(Frame) /\ DOMAIN b = 1 .. Len(pre) + n /\ Len(pre) \in Nat /\ DOMAIN pre = 1 .. Len(pre)
      /\ \A m \in 1 .. Len(pre) + n : b[m] = IF m <= Len(pre) THEN pre[m] ELSE e[m - Len(pre)]
  <2>1. pre \o e \in Seq(Frame) /\ Len(pre \o e) = Len(pre) + Len(e)
        /\ \A m \in 1 .. Len(pre) + Len(e) : (pre \o e)[m] = IF m <= Len(pre) THEN pre[m] ELSE e[m - Len(pre)]
    BY <1>3, ConcatProperties
  <2>2. Len(pre) \in Nat /\ DOMAIN pre = 1 .. Len(pre) /\ DOMAIN (pre \o e) = 1 .. Len(pre) + Len(e)
    BY <2>1
  <2>q. QED
    BY <1>3, <1>4, <2>1, <2>2
<1>6. ASSUME NEW m \in DOMAIN b
      PROVE  \/ m \in DOMAIN pre /\ b[m] = pre[m]
             \/ m - Len(pre) \in 1 .. n /\ b[m] = EventFrame(m - Len(pre) + k)
  <2>1. CASE m <= Len(pre)
    BY <1>5, <2>1
  <2>2. CASE ~(m <= Len(pre))
    <3>1. m \in 1 .. Len(pre) + n /\ b[m] = e[m - Len(pre)]
      BY <1>5, <2>2
    <3>2. m - Len(pre) \in 1 .. n
      BY <1>5, <2>2, <3>1
    <3>q. QED
      BY <1>3, <3>1, <3>2
  <2>q. QED
    BY <2>1, <2>2
<1>7. ASSUME NEW j \in 1 .. n PROVE Len(pre) + j \in DOMAIN b /\ b[Len(pre) + j] = EventFrame(j + k)
  <2>1. /\ Len(pre) + j \in 1 .. Len(pre) + n /\ ~(Len(pre) + j <= Len(pre))
        /\ Len(pre) + j - Len(pre) = j
    BY <1>5
  <2>2. Len(pre) + j \in DOMAIN b
    BY <1>5, <2>1
  <2>3. \A m \in 1 .. Len(pre) + n : b[m] = IF m <= Len(pre) THEN pre[m] ELSE e[m - Len(pre)]
    BY <1>5
  <2>4. b[Len(pre) + j] = e[j]
    BY ONLY <2>1, <2>3
  <2>q. QED
    BY <1>3, <2>2, <2>4
<1>8. ASSUME NEW m \in DOMAIN pre PROVE m \in DOMAIN b /\ b[m] = pre[m] /\ m <= Len(pre)
  BY <1>5
<1>q. QED
  BY <1>5, <1>6, <1>7, <1>8 DEF Batched

\* The first of n records may be skipped, but not all when any are kept.
Split(recs, k, n, keep) ==
  \E d, e \in Nat :
    /\ d + e = n /\ (keep > 0 /\ n > 0 => e > 0)
    /\ recs = [dropped |-> Run(k, d), kept |-> Run(k + d, e)]

\* Skipped drops from the front.
LEMMA SkippedIs ==
  ASSUME NEW k \in Nat, NEW n \in Nat, NEW keep \in Nat
  PROVE  Split(Skipped(Run(k, n), keep), k, n, keep)
<1> DEFINE recs == Run(k, n)
<1>1. recs \in Seq(Nat) /\ Len(recs) = n
  BY DEF Run
<1>2. CASE n > keep
  <2>1. SubSeq(recs, 1, n - keep) = Run(k, n - keep)
    BY <1>1, <1>2 DEF Run
  <2>2. SubSeq(recs, n - keep + 1, n) = Run(k + (n - keep), keep)
    BY <1>1, <1>2 DEF Run
  <2>3. n - keep \in Nat /\ (n - keep) + keep = n
    BY <1>2
  <2>4. Skipped(recs, keep) = [dropped |-> Run(k, n - keep),
                                kept |-> Run(k + (n - keep), keep)]
    BY <1>1, <1>2, <2>1, <2>2 DEF Skipped
  <2> DEFINE d == n - keep
  <2>5. d \in Nat /\ d + keep = n
    BY <2>3
  <2>6. Skipped(recs, keep) = [dropped |-> Run(k, d),
                                kept |-> Run(k + d, keep)]
    BY <2>4
  <2>7. keep > 0 /\ n > 0 => keep > 0
    OBVIOUS
  <2> HIDE DEF d, recs
  <2>q. QED
    BY <2>5, <2>6, <2>7 DEF recs, Split
<1>3. CASE ~(n > keep)
  <2>1. <<>> = Run(k, 0)
    BY DEF Run
  <2>2. recs = Run(k + 0, n)
    BY DEF Run
  <2>3. Skipped(recs, keep) = [dropped |-> Run(k, 0), kept |-> Run(k + 0, n)]
    BY <1>1, <1>3, <2>1, <2>2 DEF Skipped
  <2>4. 0 \in Nat /\ 0 + n = n
    OBVIOUS
  <2> HIDE DEF recs
  <2>q. QED
    BY <2>3, <2>4 DEF recs, Split
<1>q. QED
  BY <1>2, <1>3

\* The notice of what was dropped.
LEMMA LagIs ==
  ASSUME NEW k \in Nat, NEW d \in Nat, d > 0 => k + d <= MaxRecords, NEW p \in Position,
         NEW l, l = LagFrames(Run(k, d), p)
  PROVE  /\ l \in Seq(Frame)
         /\ \A m \in DOMAIN l : l[m].type # "event" /\ l[m].halves = {} /\ l[m].dropped = k + 1 .. k + d
         /\ d > 0 => 1 \in DOMAIN l
         /\ d = 0 => l = <<>>
<1> DEFINE recs == Run(k, d)
<1>1. CASE d = 0
  <2>1. recs = <<>>
    BY <1>1 DEF Run
  <2>2. l = <<>>
    BY <2>1 DEF LagFrames
  <2>3. l \in Seq(Frame) /\ DOMAIN l = {}
    BY <2>2
  <2>q. QED
    BY <1>1, <2>2, <2>3
<1>2. CASE d > 0
  <2>1. recs # <<>>
    BY <1>2 DEF Run
  <2>2. ToSet(recs) = k + 1 .. k + d
    <3>1. ASSUME NEW i \in k + 1 .. k + d PROVE i \in ToSet(recs)
      <4>1. i - k \in 1 .. d /\ recs[i - k] = i /\ DOMAIN recs = 1 .. d
        BY DEF Run
      <4>q. QED
        BY <4>1 DEF ToSet
    <3>2. ASSUME NEW i \in ToSet(recs) PROVE i \in k + 1 .. k + d
      BY DEF ToSet, Run
    <3>q. QED
      BY <3>1, <3>2
  <2> DEFINE g == [Plain("lag", p) EXCEPT !.dropped = k + 1 .. k + d]
  <2>3. l = <<g>>
    BY <2>1, <2>2 DEF LagFrames
  <2>4. g \in Frame /\ g.type = "lag" /\ g.halves = {} /\ g.dropped = k + 1 .. k + d
    BY <1>2, FollowersAssumption DEF Plain, Frame, Index
  <2> HIDE DEF g
  <2>5. <<g>> \in Seq(Frame) /\ DOMAIN <<g>> = 1 .. 1 /\ <<g>>[1] = g
    BY <2>4
  <2>6. \A m \in DOMAIN <<g>> : m = 1 /\ <<g>>[m] = g
    BY <2>5
  <2>7. l \in Seq(Frame)
    BY <2>3, <2>5
  <2>8. \A m \in DOMAIN l : l[m] = g
    BY <2>3, <2>6
  <2>9. 1 \in DOMAIN l
    BY <2>3, <2>5
  <2>10. d # 0
    BY <1>2
  <2>q. QED
    BY <2>4, <2>7, <2>8, <2>9, <2>10
<1>q. QED
  BY <1>1, <1>2

\* Nothing is under way in an empty batch.
LEMMA Idle ==
  ASSUME NEW f, f.batch = <<>>
  PROVE  Bound(f) = f.shown /\ Noticed(f) = f.told /\ Reached(f) = {f.offset}
<1>1. ToSet(f.batch) = {}
  BY DEF ToSet
<1>q. QED
  BY <1>1 DEF Bound, Noticed, Reached

\* Going on to another stage changes nothing that is followed.
LEMMA ToStage ==
  ASSUME NEW f, Follows(f), NEW s \in {"poll", "check", "ending", "done"},
         s = "check" => f.batch = <<>>
  PROVE  Follows([f EXCEPT !.stage = s])
<1> DEFINE g == [f EXCEPT !.stage = s]
<1>1. f \in Follower
  BY DEF Follows
<1>2. /\ g \in Follower /\ g.stage = s /\ g.kind = f.kind /\ g.path = f.path /\ g.limit = f.limit
      /\ g.start = f.start /\ g.offset = f.offset /\ g.batch = f.batch /\ g.part = f.part
      /\ g.here = f.here /\ g.shown = f.shown /\ g.told = f.told /\ g.split = f.split
  BY <1>1 DEF Follower
<1> HIDE DEF g
<1>3. Bound(g) = Bound(f) /\ Noticed(g) = Noticed(f) /\ Reached(g) = Reached(f)
  BY <1>2 DEF Bound, Noticed, Reached
<1>4. Starting(g)
  BY <1>2 DEF Follows, Starting
<1>5. Ordered(g)
  BY <1>2 DEF Follows, Ordered, OfEvents
<1>6. Complete(g) /\ LeftOut(g) /\ Between(g) /\ Raw(g) /\ Lines(g)
  BY <1>2, <1>3 DEF Follows, Complete, LeftOut, Between, Raw, Lines, OfEvents
<1>q. QED
  BY <1>2, <1>4, <1>5, <1>6 DEF Follows, g

\* ClientLeaves.
LEMMA Leaves ==
  ASSUME NEW f, Follows(f)
  PROVE  Follows([f EXCEPT !.here = FALSE])
<1> DEFINE g == [f EXCEPT !.here = FALSE]
<1>1. f \in Follower
  BY DEF Follows
<1>2. /\ g \in Follower /\ g.stage = f.stage /\ g.kind = f.kind /\ g.path = f.path /\ g.limit = f.limit
      /\ g.start = f.start /\ g.offset = f.offset /\ g.batch = f.batch /\ g.part = f.part
      /\ g.here = FALSE /\ g.shown = f.shown /\ g.told = f.told /\ g.split = f.split
  BY <1>1 DEF Follower
<1> HIDE DEF g
<1>4. Starting(g)
  BY <1>2 DEF Follows, Starting
<1>5. Ordered(g)
  BY <1>2 DEF Follows, Ordered, OfEvents
<1>6. Complete(g) /\ LeftOut(g) /\ Between(g) /\ Raw(g) /\ Lines(g)
  BY <1>2 DEF Follows, Complete, LeftOut, Between, Raw, Lines, OfEvents
<1>q. QED
  BY <1>2, <1>4, <1>5, <1>6 DEF Follows, g

\* Resolve.
LEMMA Answers ==
  ASSUME NEW f, Follows(f), f.stage = "new", NEW kind \in Kinds, NEW path \in {"sessions", "archive"}
  PROVE  Follows([f EXCEPT !.stage = "answered", !.kind = kind, !.path = path])
<1> DEFINE g == [f EXCEPT !.stage = "answered", !.kind = kind, !.path = path]
<1>1. f \in Follower
  BY DEF Follows
<1>2. /\ g \in Follower /\ g.stage = "answered" /\ g.kind = kind
      /\ g.start = 0 /\ g.offset = 0 /\ g.batch = <<>> /\ g.part = [s \in Streams |-> {}]
      /\ g.shown = {} /\ g.told = {} /\ g.split = FALSE
  BY <1>1 DEF Follower, Follows, Starting
<1>3. f.offset = 0
  BY DEF Follows, Starting
<1> HIDE DEF g
<1>4. Starting(g)
  BY <1>2 DEF Starting
<1>5. Ordered(g)
  BY <1>2 DEF Ordered
<1>6. Bound(g) = {} /\ Noticed(g) = {} /\ Reached(g) = {0}
  BY <1>2, Idle
<1>7. Complete(g) /\ LeftOut(g) /\ Raw(g) /\ Lines(g)
  BY <1>2, <1>6, FollowersAssumption DEF Complete, LeftOut, Raw, Lines, Index
<1>8. Between(g)
  BY <1>2 DEF Between, OfEvents
<1>q. QED
  BY <1>2, <1>3, <1>4, <1>5, <1>7, <1>8 DEF Follows, g

\* StartAtEnd.
LEMMA StartsAtEnd ==
  ASSUME Filed, NEW f, Follows(f), f.stage = "answered", f.kind # "subscribe",
         NEW n \in Nat, n <= 2 * Len(log)
  PROVE  Follows([f EXCEPT !.stage = "poll", !.start = n, !.offset = n, !.split = (n % 2 = 1)])
<1> DEFINE g == [f EXCEPT !.stage = "poll", !.start = n, !.offset = n, !.split = (n % 2 = 1)]
<1>1. f \in Follower /\ n \in Position
  BY FollowersAssumption DEF Follows, Filed, Position
<1>2. /\ g \in Follower /\ g.stage = "poll" /\ g.kind = f.kind
      /\ g.start = n /\ g.offset = n /\ g.batch = <<>> /\ g.part = [s \in Streams |-> {}]
      /\ g.shown = {} /\ g.told = {} /\ g.split = (n % 2 = 1)
  BY <1>1 DEF Follower, Follows, Starting
<1> HIDE DEF g
<1>4. Starting(g)
  BY <1>2 DEF Starting
<1>5. Ordered(g)
  BY <1>2 DEF Ordered
<1>6. Bound(g) = {} /\ Noticed(g) = {} /\ Reached(g) = {n}
  BY <1>2, Idle
<1>7. Complete(g) /\ LeftOut(g) /\ Raw(g) /\ Lines(g)
  BY <1>2, <1>6, FollowersAssumption DEF Complete, LeftOut, Raw, Lines, Index
<1>8. Between(g)
  <2>1. n % 2 \in {0, 1}
    OBVIOUS
  <2>2. ~g.split => n % 2 # 1
    BY <1>2
  <2>q. QED
    BY <1>2, <2>1, <2>2 DEF Between, OfEvents
<1>q. QED
  BY <1>2, <1>4, <1>5, <1>7, <1>8 DEF Follows, g

\* A batch is its first frame and the rest,
LEMMA HeadAndTail ==
  ASSUME NEW s \in Seq(Frame), s # <<>>
  PROVE  /\ Head(s) \in Frame /\ Tail(s) \in Seq(Frame) /\ Head(s) = s[1] /\ 1 \in DOMAIN s
         /\ \A i \in DOMAIN Tail(s) : i + 1 \in DOMAIN s /\ Tail(s)[i] = s[i + 1] /\ i \in Nat /\ 1 < i + 1
         /\ \A i \in DOMAIN s : i \in Nat /\ i >= 1 /\ (i # 1 => i - 1 \in DOMAIN Tail(s) /\ Tail(s)[i - 1] = s[i])
<1>1. Len(s) \in Nat /\ Len(s) > 0 /\ DOMAIN s = 1 .. Len(s)
  OBVIOUS
<1>2. /\ Tail(s) \in Seq(Frame) /\ Len(Tail(s)) = Len(s) - 1
      /\ \A i \in 1 .. Len(Tail(s)) : Tail(s)[i] = s[i + 1]
  BY <1>1
<1>3. DOMAIN Tail(s) = 1 .. Len(s) - 1
  BY <1>2
<1>4. \A i \in DOMAIN s : i # 1 => i - 1 \in DOMAIN Tail(s) /\ Tail(s)[i - 1] = s[(i - 1) + 1]
  BY <1>1, <1>2, <1>3
<1>5. \A i \in DOMAIN s : (i - 1) + 1 = i
  BY <1>1
<1>6. \A i \in DOMAIN Tail(s) : i + 1 \in DOMAIN s /\ Tail(s)[i] = s[i + 1] /\ i \in Nat /\ 1 < i + 1
  BY <1>1, <1>2, <1>3
<1>7. Head(s) \in Frame /\ Head(s) = s[1] /\ 1 \in DOMAIN s
  BY <1>1
<1>q. QED
  BY <1>1, <1>2, <1>4, <1>5, <1>6, <1>7

\* and what it shows and drops is what both do.
LEMMA HeadInSet ==
  ASSUME NEW s \in Seq(Frame), s # <<>>
  PROVE  /\ UNION {b.halves : b \in ToSet(s)} = Head(s).halves \cup UNION {b.halves : b \in ToSet(Tail(s))}
         /\ UNION {b.dropped : b \in ToSet(s)} = Head(s).dropped \cup UNION {b.dropped : b \in ToSet(Tail(s))}
<1>1. ToSet(s) = {Head(s)} \cup ToSet(Tail(s))
  <2>1. ASSUME NEW x \in ToSet(s) PROVE x \in {Head(s)} \cup ToSet(Tail(s))
    <3>1. PICK i \in DOMAIN s : x = s[i]
      BY DEF ToSet
    <3>q. QED
      BY <3>1, HeadAndTail, ZenonT(40) DEF ToSet
  <2>2. ASSUME NEW x \in {Head(s)} \cup ToSet(Tail(s)) PROVE x \in ToSet(s)
    <3>1. CASE x = Head(s)
      BY <3>1, HeadAndTail DEF ToSet
    <3>2. CASE x \in ToSet(Tail(s))
      <4>1. PICK i \in DOMAIN Tail(s) : x = Tail(s)[i]
        BY <3>2 DEF ToSet
      <4>q. QED
        BY <4>1, HeadAndTail DEF ToSet
    <3>q. QED
      BY <2>2, <3>1, <3>2
  <2>q. QED
    BY <2>1, <2>2
<1>q. QED
  BY <1>1

\* WriteFrame: what was bound for the client has reached it.
LEMMA Writes ==
  ASSUME Filed, NEW f, Follows(f), f.batch # <<>>
  PROVE  /\ Follows(Written(f))
         /\ Head(f.batch).type = "event" => \A h \in f.shown, j \in Head(f.batch).halves : h < j
<1> DEFINE frame == Head(f.batch)
           event == frame.type = "event"
           g == Written(f)
<1>0. f \in Follower /\ f.batch \in Seq(Frame) /\ f.offset <= 2 * Len(log)
  BY DEF Follows, Follower
<1>1. frame \in Frame /\ Tail(f.batch) \in Seq(Frame) /\ frame = f.batch[1] /\ 1 \in DOMAIN f.batch
  BY <1>0, HeadAndTail
<1>2. event => \E i \in 1 .. Len(log) : frame.cursor = 2 * i /\ frame.halves = Halves(i)
  BY <1>1 DEF Follows, Ordered
<1>3. /\ g \in Follower /\ g.kind = f.kind /\ g.limit = f.limit /\ g.start = f.start
      /\ g.offset = (IF event THEN frame.cursor ELSE f.offset)
      /\ g.batch = Tail(f.batch) /\ g.part = f.part /\ g.here = f.here
      /\ g.shown = f.shown \cup frame.halves /\ g.told = f.told \cup frame.dropped
      /\ g.split = f.split /\ g.stage \in {f.stage, "done"}
  <2>1. frame.cursor \in Position /\ frame.halves \subseteq 1 .. 2 * MaxRecords /\ frame.dropped \subseteq Index
    BY <1>1 DEF Frame
  <2>q. QED
    BY <1>0, <1>1, <2>1 DEF Written, Follower
<1>4. g.offset <= 2 * Len(log)
  BY <1>0, <1>2, <1>3, LengthOfFile
<1> HIDE DEF g, frame
<1>5. Bound(g) = Bound(f) /\ Noticed(g) = Noticed(f)
  BY <1>0, <1>3, HeadInSet DEF Bound, Noticed, frame
<1>6. Starting(g)
  BY <1>3 DEF Follows, Starting
<1>7. Head(f.batch).type = "event" => \A h \in f.shown, j \in Head(f.batch).halves : h < j
  <2>1. ASSUME event, NEW h \in f.shown, NEW j \in frame.halves PROVE h < j
    <3>1. h + 2 <= frame.cursor
      BY <1>1, <2>1 DEF Follows, Ordered
    <3>2. PICK i \in 1 .. Len(log) : frame.cursor = 2 * i /\ frame.halves = Halves(i)
      BY <1>2, <2>1
    <3>3. h \in Nat
      BY <1>0 DEF Follower
    <3>q. QED
      BY <2>1, <3>1, <3>2, <3>3 DEF Halves
  <2>q. QED
    BY <2>1 DEF frame
<1>8. Ordered(g)
  <2>1. ASSUME NEW n \in DOMAIN g.batch, g.batch[n].type = "event"
        PROVE  /\ OfEvents(g) /\ \A h \in g.shown : h + 2 <= g.batch[n].cursor
               /\ \E m \in DOMAIN g.batch : n <= m /\ g.batch[m].type = "event" /\ g.offset <= g.batch[m].cursor
               /\ \E i \in 1 .. Len(log) : g.batch[n].cursor = 2 * i /\ g.batch[n].halves = Halves(i)
    <3>1. n + 1 \in DOMAIN f.batch /\ g.batch[n] = f.batch[n + 1] /\ n \in Nat /\ 1 < n + 1
      BY <1>0, <1>3, <2>1, HeadAndTail
    <3>2. /\ OfEvents(f) /\ \A h \in f.shown : h + 2 <= g.batch[n].cursor
          /\ \E m \in DOMAIN f.batch : n + 1 <= m /\ f.batch[m].type = "event" /\ f.offset <= f.batch[m].cursor
          /\ \E i \in 1 .. Len(log) : g.batch[n].cursor = 2 * i /\ g.batch[n].halves = Halves(i)
      BY <2>1, <3>1 DEF Follows, Ordered
    <3>3. OfEvents(g)
      BY <1>3, <3>2 DEF OfEvents
    <3>4. PICK i \in 1 .. Len(log) : g.batch[n].cursor = 2 * i
      BY <3>2
    <3>5. ASSUME event PROVE frame.cursor < g.batch[n].cursor
      BY <1>1, <2>1, <3>1, <3>5 DEF Follows, Ordered
    <3>6. ASSUME NEW h \in g.shown PROVE h + 2 <= g.batch[n].cursor
      <4>1. CASE h \in f.shown
        BY <3>2, <4>1
      <4>2. CASE h \in frame.halves
        <5>1. event
          BY <1>1, <3>2, <4>2 DEF Follows, Ordered
        <5>2. PICK k \in 1 .. Len(log) : frame.cursor = 2 * k /\ frame.halves = Halves(k)
          BY <1>2, <5>1
        <5>3. frame.cursor < g.batch[n].cursor
          BY <3>5, <5>1
        <5>q. QED
          BY <3>4, <4>2, <5>2, <5>3, LengthOfFile DEF Halves
      <4>q. QED
        BY <1>3, <3>6, <4>1, <4>2
    <3>7. \E m \in DOMAIN g.batch : n <= m /\ g.batch[m].type = "event" /\ g.offset <= g.batch[m].cursor
      <4>1. CASE event
        <5>1. g.offset = frame.cursor
          BY <1>3, <4>1
        <5>2. PICK k \in 1 .. Len(log) : frame.cursor = 2 * k
          BY <1>2, <4>1
        <5>3. g.offset <= g.batch[n].cursor
          BY <3>4, <3>5, <4>1, <5>1, <5>2
        <5>q. QED
          BY <2>1, <3>1, <5>3
      <4>2. CASE ~event
        <5>1. PICK m \in DOMAIN f.batch : n + 1 <= m /\ f.batch[m].type = "event" /\ f.offset <= f.batch[m].cursor
          BY <3>2
        <5>2. m \in Nat /\ m # 1
          BY <1>0, <3>1, <5>1, HeadAndTail
        <5>3. m - 1 \in DOMAIN g.batch /\ g.batch[m - 1] = f.batch[m]
          BY <1>0, <1>3, <5>2, HeadAndTail
        <5>4. n <= m - 1
          BY <3>1, <5>1, <5>2
        <5>5. g.offset = f.offset
          BY <1>3, <4>2
        <5>q. QED
          BY <5>1, <5>3, <5>4, <5>5
      <4>q. QED
        BY <4>1, <4>2
    <3>q. QED
      BY <3>2, <3>3, <3>6, <3>7
  <2>2. ASSUME NEW n \in DOMAIN g.batch, NEW m \in DOMAIN g.batch,
               n < m, g.batch[n].type = "event", g.batch[m].type = "event"
        PROVE  g.batch[n].cursor < g.batch[m].cursor
    <3>1. /\ n + 1 \in DOMAIN f.batch /\ g.batch[n] = f.batch[n + 1] /\ n \in Nat
          /\ m + 1 \in DOMAIN f.batch /\ g.batch[m] = f.batch[m + 1] /\ m \in Nat
      BY <1>0, <1>3, HeadAndTail
    <3>2. n + 1 < m + 1
      BY <2>2, <3>1
    <3>q. QED
      BY <2>2, <3>1, <3>2 DEF Follows, Ordered
  <2>3. ASSUME OfEvents(g)
        PROVE  /\ \A n \in DOMAIN g.batch : g.batch[n].type # "event" => g.batch[n].halves = {}
               /\ \A h \in g.shown : h <= g.offset
    <3>1. OfEvents(f)
      BY <1>3, <2>3 DEF OfEvents
    <3>2. ASSUME NEW n \in DOMAIN g.batch, g.batch[n].type # "event" PROVE g.batch[n].halves = {}
      BY <1>0, <1>3, <3>1, <3>2, HeadAndTail DEF Follows, Ordered
    <3>3. ASSUME NEW h \in g.shown PROVE h <= g.offset
      <4>1. CASE event
        <5>1. PICK k \in 1 .. Len(log) : frame.cursor = 2 * k /\ frame.halves = Halves(k)
          BY <1>2, <4>1
        <5>2. \A x \in f.shown : x + 2 <= frame.cursor /\ x \in Nat
          <6>1. f.shown \subseteq Nat
            BY <1>0 DEF Follower
          <6>q. QED
            BY <1>1, <4>1, <6>1 DEF Follows, Ordered
        <5>q. QED
          BY <1>3, <4>1, <5>1, <5>2, LengthOfFile DEF Halves
      <4>2. CASE ~event
        <5>1. frame.halves = {}
          BY <1>1, <3>1, <4>2 DEF Follows, Ordered
        <5>q. QED
          BY <1>3, <3>1, <4>2, <5>1 DEF Follows, Ordered
      <4>q. QED
        BY <4>1, <4>2
    <3>q. QED
      BY <3>2, <3>3
  <2>4. ASSUME g.kind # "subscribe"
        PROVE  g.told = {} /\ \A n \in DOMAIN g.batch : g.batch[n].dropped = {}
    <3>1. f.told = {} /\ \A n \in DOMAIN f.batch : f.batch[n].dropped = {}
      BY <1>3, <2>4 DEF Follows, Ordered
    <3>q. QED
      BY <1>0, <1>1, <1>3, <3>1, HeadAndTail
  <2>q. QED
    BY <2>1, <2>2, <2>3, <2>4 DEF Ordered
<1>9. Reached(g) \subseteq Reached(f)
  <2>1. g.offset \in Reached(f)
    BY <1>1, <1>3 DEF Reached, ToSet
  <2>2. \A b \in ToSet(g.batch) : b \in ToSet(f.batch)
    BY <1>0, <1>3, HeadAndTail DEF ToSet
  <2>q. QED
    BY <2>1, <2>2 DEF Reached
<1>10. Complete(g)
  BY <1>3, <1>5, <1>9 DEF Follows, Complete, OfEvents
<1>11. LeftOut(g)
  <2>1. SUFFICES ASSUME g.here, g.kind = "subscribe", g.limit > 0, NEW i \in Noticed(g)
                 PROVE  2 * i \notin Bound(g) /\ \E p \in Reached(g) : 2 * i <= p
    BY DEF LeftOut
  <2>2. 2 * i \notin Bound(g) /\ \E p \in Reached(f) : 2 * i <= p
    BY <1>3, <1>5, <2>1 DEF Follows, LeftOut
  <2>3. PICK p \in Reached(f) : 2 * i <= p
    BY <2>2
  <2>4. ASSUME NEW m \in DOMAIN f.batch, m # 1, f.batch[m].type = "event"
        PROVE  f.batch[m].cursor \in Reached(g)
    <3>1. m - 1 \in DOMAIN g.batch /\ g.batch[m - 1] = f.batch[m]
      BY <1>0, <1>3, <2>4, HeadAndTail
    <3>q. QED
      BY <2>4, <3>1 DEF Reached, ToSet
  <2>5. event => frame.cursor \in Reached(g)
    BY <1>3 DEF Reached
  <2>6. \A m \in DOMAIN f.batch : f.batch[m].type = "event" => f.batch[m].cursor \in Reached(g)
    BY <1>1, <2>4, <2>5
  <2>7. CASE p = f.offset
    <3>1. CASE event
      <4>1. PICK m \in DOMAIN f.batch : f.batch[m].type = "event" /\ f.offset <= f.batch[m].cursor
        BY <1>1, <3>1 DEF Follows, Ordered
      <4>2. f.offset \in Nat /\ f.batch[m].cursor \in Nat /\ i \in Nat
        <5>1. f.batch[m] \in Frame
          BY <1>0
        <5>2. Noticed(f) \subseteq Index
          <6>1. \A b \in ToSet(f.batch) : b \in Frame
            BY <1>0 DEF ToSet
          <6>q. QED
            BY <1>0, <6>1 DEF Noticed, Follower, Frame
        <5>q. QED
          BY <1>0, <1>5, <5>1, <5>2, FollowersAssumption DEF Follower, Frame, Position, Index
      <4>3. 2 * i <= f.batch[m].cursor
        BY <2>3, <2>7, <4>1, <4>2
      <4>q. QED
        BY <2>2, <2>6, <4>1, <4>3
    <3>2. CASE ~event
      <4>1. f.offset \in Reached(g)
        BY <1>3, <3>2 DEF Reached
      <4>q. QED
        BY <2>2, <2>3, <2>7, <4>1
    <3>q. QED
      BY <3>1, <3>2
  <2>8. CASE p # f.offset
    <3>1. PICK b \in ToSet(f.batch) : b.type = "event" /\ p = b.cursor
      BY <2>3, <2>8 DEF Reached
    <3>2. PICK m \in DOMAIN f.batch : b = f.batch[m]
      BY DEF ToSet
    <3>q. QED
      BY <2>2, <2>3, <2>6, <3>1, <3>2
  <2>q. QED
    BY <2>7, <2>8
<1>12. Between(g) /\ Raw(g) /\ Lines(g)
  <2>1. f.kind \in {"logs", "pty"} => g.offset = f.offset
    BY <1>1, <1>3 DEF Follows, Ordered, OfEvents
  <2>2. event => g.offset % 2 = 0
    <3>1. ASSUME NEW i \in 1 .. Len(log) PROVE (2 * i) % 2 = 0
      OBVIOUS
    <3>q. QED
      BY <1>2, <1>3, <3>1
  <2>3. g.offset = f.offset \/ g.offset % 2 = 0
    BY <1>3, <2>2
  <2>q. QED
    BY <1>3, <1>5, <2>1, <2>3 DEF Follows, Between, Raw, Lines, OfEvents
<1>q. QED
  BY <1>3, <1>4, <1>6, <1>7, <1>8, <1>10, <1>11, <1>12 DEF Follows, g

\* An offset between two records.
LEMMA Evenly ==
  ASSUME NEW o \in Nat, o % 2 = 0
  PROVE  \E z \in Nat : o = 2 * z
  OBVIOUS

\* What a batch shows and drops, a frame of it does.
LEMMA InBatch ==
  ASSUME NEW s
  PROVE  /\ \A x \in ToSet(s) : \E m \in DOMAIN s : x = s[m]
         /\ \A m \in DOMAIN s : /\ s[m] \in ToSet(s)
                                /\ s[m].halves \subseteq UNION {b.halves : b \in ToSet(s)}
                                /\ s[m].dropped \subseteq UNION {b.dropped : b \in ToSet(s)}
         /\ \A h \in UNION {b.halves : b \in ToSet(s)} : \E m \in DOMAIN s : h \in s[m].halves
         /\ \A i \in UNION {b.dropped : b \in ToSet(s)} : \E m \in DOMAIN s : i \in s[m].dropped
<1>1. \A x \in ToSet(s) : \E m \in DOMAIN s : x = s[m]
  BY DEF ToSet
<1>2. \A m \in DOMAIN s : s[m] \in ToSet(s)
  BY DEF ToSet
<1>3. ASSUME NEW h \in UNION {b.halves : b \in ToSet(s)} PROVE \E m \in DOMAIN s : h \in s[m].halves
  <2>1. PICK b \in ToSet(s) : h \in b.halves
    OBVIOUS
  <2>q. QED
    BY <1>1, <2>1
<1>4. ASSUME NEW i \in UNION {b.dropped : b \in ToSet(s)} PROVE \E m \in DOMAIN s : i \in s[m].dropped
  <2>1. PICK b \in ToSet(s) : i \in b.dropped
    OBVIOUS
  <2>q. QED
    BY <1>1, <2>1
<1>q. QED
  BY <1>1, <1>2, <1>3, <1>4

\* What may precede the events of a batch: an acknowledgement, a notice.
Skipping(pre, k, d) ==
  /\ pre \in Seq(Frame)
  /\ \A m \in DOMAIN pre : pre[m].type # "event" /\ pre[m].halves = {}
  /\ UNION {b.dropped : b \in ToSet(pre)} = k + 1 .. k + d

\* A read of k + 1 .. k + d + e from the offset o, of which the first d are counted as dropped.
ReadOf(f, g, pre, k, d, e, o) ==
  /\ OfEvents(f) /\ f.batch = <<>>
  /\ g.stage = "poll" /\ g.kind = f.kind /\ g.here = f.here
  /\ g.shown = f.shown /\ g.told = f.told /\ g.part = f.part /\ g.split = f.split
  /\ g.batch = pre \o EventFrames(Run(k + d, e)) /\ Skipping(pre, k, d)
  /\ d + e > 0 => k + d + e <= Len(log)
  /\ f.kind # "subscribe" => d = 0
  /\ g.limit > 0 /\ d > 0 => e > 0
  /\ o <= 2 * k /\ 2 * k <= o + 1 /\ o <= 2 * Len(log)
  /\ o % 2 = 0 \/ o = g.start
  /\ ~f.split => g.start % 2 = 0
  /\ g.offset = o \/ (e > 0 /\ g.offset = 2 * (k + d + e))
  /\ \A h \in f.shown : h <= o
  /\ f.here => \A i \in Index :
       g.start + 1 < 2 * i /\ 2 * i <= o => i \in f.told \/ Halves(i) \subseteq f.shown
  /\ f.here /\ g.kind = "subscribe" /\ g.limit > 0 => \A i \in f.told : 2 * i \notin f.shown /\ 2 * i <= o

\* A read, whether of a replay or of a poll, skips nothing silently.
LEMMA Reads ==
  ASSUME Filed, NEW f, Follows(f), NEW g \in Follower, NEW pre, NEW k \in Nat, NEW d \in Nat,
         NEW e \in Nat, NEW o \in Nat, ReadOf(f, g, pre, k, d, e, o)
  PROVE  Follows(g)
<1> USE DEF ReadOf, Skipping
<1> DEFINE c == k + d
           b == g.batch
<1>0. Len(log) \in Nat /\ Len(log) <= MaxRecords /\ c \in Nat /\ MaxRecords \in Nat
  <2>1. Len(log) \in Nat /\ MaxRecords \in Nat
    BY LengthOfFile
  <2>2. Len(log) <= MaxRecords
    BY DEF Filed
  <2>q. QED
    BY <2>1, <2>2
<1>1. /\ b \in Seq(Frame)
      /\ \A m \in DOMAIN b : \/ m \in DOMAIN pre /\ b[m] = pre[m]
                             \/ m - Len(pre) \in 1 .. e /\ b[m] = EventFrame(m - Len(pre) + c)
      /\ \A m \in DOMAIN pre : m \in DOMAIN b /\ b[m] = pre[m] /\ m <= Len(pre)
      /\ \A j \in 1 .. e : Len(pre) + j \in DOMAIN b /\ b[Len(pre) + j] = EventFrame(j + c)
      /\ Len(pre) \in Nat
  <2>1. e > 0 => c + e <= MaxRecords
    BY <1>0, SMTT(30)
  <2>2. b = pre \o EventFrames(Run(c, e))
    OBVIOUS
  <2> HIDE DEF b, c
  <2>3. Batched(b, pre, c, e)
    BY <1>0, <2>1, <2>2, EventBatch
  <2>q. QED
    BY <2>3 DEF Batched
<1>2. \A j \in 1 .. e : /\ j + c \in 1 .. Len(log) /\ EventFrame(j + c).type = "event"
                        /\ EventFrame(j + c).cursor = 2 * (j + c) /\ EventFrame(j + c).halves = Halves(j + c)
                        /\ EventFrame(j + c).dropped = {}
  <2>1. ASSUME NEW j \in 1 .. e PROVE j + c \in 1 .. Len(log) /\ j + c <= MaxRecords /\ j + c \in Nat /\ 1 <= j + c
    BY <1>0
  <2> HIDE DEF c
  <2>q. QED
    BY <2>1, EventFrameIs
<1>3. \A m \in DOMAIN b :
        \/ b[m].type # "event" /\ b[m].halves = {} /\ m <= Len(pre) /\ m \in DOMAIN pre /\ b[m] = pre[m]
        \/ \E j \in 1 .. e : /\ m = Len(pre) + j /\ b[m].type = "event" /\ b[m].cursor = 2 * (j + c)
                             /\ b[m].halves = Halves(j + c) /\ b[m].dropped = {}
  <2> HIDE DEF b, c
  <2>1. SUFFICES ASSUME NEW m \in DOMAIN b
                 PROVE  \/ b[m].type # "event" /\ b[m].halves = {} /\ m <= Len(pre) /\ m \in DOMAIN pre /\ b[m] = pre[m]
                        \/ \E j \in 1 .. e : /\ m = Len(pre) + j /\ b[m].type = "event" /\ b[m].cursor = 2 * (j + c)
                                             /\ b[m].halves = Halves(j + c) /\ b[m].dropped = {}
    OBVIOUS
  <2>2. CASE m \in DOMAIN pre /\ b[m] = pre[m]
    BY <1>1, <2>2
  <2>3. CASE m - Len(pre) \in 1 .. e /\ b[m] = EventFrame(m - Len(pre) + c)
    <3>1. m \in Nat
      BY <1>1
    <3>2. m = Len(pre) + (m - Len(pre))
      BY <1>1, <3>1
    <3>q. QED
      BY <1>2, <2>3, <3>2
  <2>q. QED
    BY <1>1, <2>2, <2>3
<1>4. \A j \in 1 .. e : \E x \in ToSet(b) : x.type = "event" /\ x.cursor = 2 * (j + c) /\ x.halves = Halves(j + c)
  <2>1. ASSUME NEW j \in 1 .. e PROVE EventFrame(j + c) \in ToSet(b)
    <3> HIDE DEF b
    <3>q. QED
      BY <1>1, InBatch
  <2> HIDE DEF b
  <2>q. QED
    BY <1>2, <2>1
<1>5. Noticed(g) = f.told \cup (k + 1 .. c)
  <2>1. ASSUME NEW i \in UNION {x.dropped : x \in ToSet(b)} PROVE i \in k + 1 .. c
    <3> HIDE DEF b
    <3>1. PICK m \in DOMAIN b : i \in b[m].dropped
      BY <2>1, InBatch
    <3>2. m \in DOMAIN pre /\ i \in pre[m].dropped
      BY <1>3, <3>1
    <3>q. QED
      BY <3>2, InBatch
  <2>2. ASSUME NEW i \in k + 1 .. c PROVE i \in UNION {x.dropped : x \in ToSet(b)}
    <3> HIDE DEF b
    <3>0. i \in UNION {x.dropped : x \in ToSet(pre)}
      BY <2>2
    <3> HIDE DEF c
    <3>1. PICK m \in DOMAIN pre : i \in pre[m].dropped
      BY <3>0, InBatch
    <3>q. QED
      BY <1>1, <3>1, InBatch
  <2>q. QED
    BY <2>1, <2>2 DEF Noticed
<1>6. ASSUME NEW h \in Bound(g) PROVE h \in f.shown \/ \E j \in 1 .. e : h \in Halves(j + c)
  <2>1. CASE h \in UNION {x.halves : x \in ToSet(b)}
    <3> HIDE DEF b
    <3>1. PICK m \in DOMAIN b : h \in b[m].halves
      BY <2>1, InBatch
    <3>q. QED
      BY <1>3, <3>1
  <2>q. QED
    BY <1>6, <2>1 DEF Bound
<1>7. f.shown \subseteq Bound(g) /\ \A j \in 1 .. e : Halves(j + c) \subseteq Bound(g)
  BY <1>4 DEF Bound
<1>8. /\ g.offset \in Reached(g) /\ \A j \in 1 .. e : 2 * (j + c) \in Reached(g)
      /\ \A p \in Reached(g) : p = g.offset \/ \E j \in 1 .. e : p = 2 * (j + c)
  <2>1. ASSUME NEW x \in ToSet(b), x.type = "event" PROVE \E j \in 1 .. e : x.cursor = 2 * (j + c)
    <3> HIDE DEF b
    <3>1. PICK m \in DOMAIN b : x = b[m]
      BY <2>1, InBatch
    <3>q. QED
      BY <1>3, <2>1, <3>1
  <2>q. QED
    BY <1>4, <2>1 DEF Reached
<1>9. g.offset <= 2 * Len(log)
  BY <1>0
<1>10. Starting(g)
  BY DEF Follows, Starting, OfEvents
<1>11. f.shown \subseteq Nat
  BY DEF Follows, Follower
<1>12. Ordered(g)
  <2>1. ASSUME NEW n \in DOMAIN b, b[n].type = "event"
        PROVE  /\ OfEvents(g) /\ \A h \in g.shown : h + 2 <= b[n].cursor
               /\ \E m \in DOMAIN b : n <= m /\ b[m].type = "event" /\ g.offset <= b[m].cursor
               /\ \E i \in 1 .. Len(log) : b[n].cursor = 2 * i /\ b[n].halves = Halves(i)
    <3>1. PICK j \in 1 .. e : n = Len(pre) + j /\ b[n].cursor = 2 * (j + c) /\ b[n].halves = Halves(j + c)
      BY <1>3, <2>1
    <3>2. ASSUME NEW h \in g.shown PROVE h + 2 <= b[n].cursor
      <4>1. h \in Nat /\ h <= o
        BY <1>11
      <4>q. QED
        BY <3>1, <4>1
    <3>3. e \in 1 .. e /\ Len(pre) + e \in DOMAIN b /\ b[Len(pre) + e] = EventFrame(e + c)
      BY <1>1, <3>1
    <3>4. b[Len(pre) + e].type = "event" /\ b[Len(pre) + e].cursor = 2 * (e + c)
      BY <1>2, <3>3
    <3>5. n <= Len(pre) + e
      BY <1>1, <3>1
    <3>6. g.offset <= 2 * (e + c)
      <4> HIDE DEF b
      <4>q. QED
        BY <1>0
    <3>7. OfEvents(g)
      BY DEF OfEvents
    <3>8. j + c \in 1 .. Len(log)
      BY <1>2
    <3> HIDE DEF b, c
    <3>q. QED
      BY <3>1, <3>2, <3>3, <3>4, <3>5, <3>6, <3>7, <3>8
  <2>2. ASSUME NEW n \in DOMAIN b, NEW m \in DOMAIN b, n < m, b[n].type = "event", b[m].type = "event"
        PROVE  b[n].cursor < b[m].cursor
    <3>1. PICK i \in 1 .. e : n = Len(pre) + i /\ b[n].cursor = 2 * (i + c)
      BY <1>3, <2>2
    <3>2. PICK j \in 1 .. e : m = Len(pre) + j /\ b[m].cursor = 2 * (j + c)
      BY <1>3, <2>2
    <3> HIDE DEF b, c
    <3>q. QED
      BY <1>0, <1>1, <2>2, <3>1, <3>2
  <2>3. \A n \in DOMAIN b : b[n].type # "event" => b[n].halves = {}
    BY <1>3
  <2>4. \A h \in g.shown : h <= g.offset
    BY <1>11
  <2>5. ASSUME g.kind # "subscribe" PROVE g.told = {} /\ \A n \in DOMAIN b : b[n].dropped = {}
    <3>1. f.told = {} /\ k + 1 .. c = {}
      BY <2>5 DEF Follows, Ordered
    <3>2. \A n \in DOMAIN pre : pre[n].dropped = {}
      <4> HIDE DEF c
      <4>q. QED
        BY <3>1, InBatch DEF c
    <3>q. QED
      BY <1>3, <3>1, <3>2
  <2> HIDE DEF b
  <2>q. QED
    BY <2>1, <2>2, <2>3, <2>4, <2>5 DEF Ordered, b
<1>13. Complete(g)
  <2>1. SUFFICES ASSUME g.here, NEW p \in Reached(g), NEW i \in Index, g.start + 1 < 2 * i, 2 * i <= p
                 PROVE  i \in Noticed(g) \/ Halves(i) \subseteq Bound(g)
    BY DEF Complete
  <2>2. CASE 2 * i <= o
    <3>1. i \in f.told \/ Halves(i) \subseteq f.shown
      BY <2>1, <2>2
    <3>q. QED
      BY <1>5, <1>7, <3>1
  <2>3. CASE ~(2 * i <= o)
    <3>0. i \in Nat /\ g.start \in Nat /\ p \in Nat
      <4>1. g.offset \in Nat
        BY <1>0 DEF Follower, Position
      <4>q. QED
        BY <1>0, <1>8, <4>1, FollowersAssumption, SMTT(30) DEF Index, Follower, Position
    <3>1. i > k
      <4>1. CASE o = g.start
        <5>1. o + 1 < 2 * i
          BY <2>1, <4>1
        <5>q. QED
          BY <3>0, <5>1
      <4>2. CASE o % 2 = 0
        <5>1. PICK z \in Nat : o = 2 * z
          BY <4>2, Evenly
        <5>q. QED
          BY <2>3, <3>0, <5>1
      <4>q. QED
        BY <4>1, <4>2
    <3>2. i <= c + e
      <4>1. CASE p = g.offset
        BY <1>0, <2>1, <2>3, <3>0, <4>1
      <4>2. CASE \E j \in 1 .. e : p = 2 * (j + c)
        <5>1. PICK j \in 1 .. e : p = 2 * (j + c)
          BY <4>2
        <5> HIDE DEF c
        <5>q. QED
          BY <1>0, <2>1, <3>0, <5>1
      <4>q. QED
        BY <1>8, <4>1, <4>2
    <3>3. CASE i <= c
      BY <1>0, <1>5, <3>0, <3>1, <3>3
    <3>4. CASE i > c
      <4>1. i - c \in 1 .. e /\ (i - c) + c = i
        BY <1>0, <3>0, <3>2, <3>4
      <4> HIDE DEF c
      <4>q. QED
        BY <1>7, <4>1
    <3>q. QED
      BY <1>0, <3>0, <3>3, <3>4
  <2>q. QED
    BY <2>2, <2>3
<1>14. LeftOut(g)
  <2>1. SUFFICES ASSUME g.here, g.kind = "subscribe", g.limit > 0, NEW i \in Noticed(g)
                 PROVE  2 * i \notin Bound(g) /\ \E p \in Reached(g) : 2 * i <= p
    BY DEF LeftOut
  <2>2. CASE i \in f.told
    <3>1. 2 * i \notin f.shown /\ 2 * i <= o /\ i \in Nat
      BY <2>1, <2>2, FollowersAssumption DEF Follows, Follower, Index
    <3>2. ASSUME NEW j \in 1 .. e PROVE 2 * i \notin Halves(j + c)
      <4>1. i < j + c /\ j + c \in Nat /\ i \in Nat
        BY <3>1
      <4> HIDE DEF c
      <4>q. QED
        BY <4>1, HalvesApart
    <3>3. 2 * i <= g.offset
      <4>1. CASE g.offset = o
        BY <3>1, <4>1
      <4>2. CASE g.offset = 2 * (k + d + e)
        BY <3>1, <4>2
      <4>q. QED
        BY <4>1, <4>2
    <3>q. QED
      BY <1>6, <1>8, <3>1, <3>2, <3>3
  <2>3. CASE i \in k + 1 .. c
    <3>1. 2 * i \notin f.shown
      BY <1>11, <2>3, SMTT(30)
    <3>2. ASSUME NEW j \in 1 .. e PROVE 2 * i \notin Halves(j + c)
      <4>1. i < j + c /\ j + c \in Nat /\ i \in Nat
        BY <2>3
      <4> HIDE DEF c
      <4>q. QED
        BY <4>1, HalvesApart
    <3>3. e \in 1 .. e /\ 2 * i <= 2 * (e + c)
      BY <2>1, <2>3
    <3>q. QED
      BY <1>6, <1>8, <3>1, <3>2, <3>3
  <2>q. QED
    BY <1>5, <2>1, <2>2, <2>3
<1>15. Between(g)
  <2>1. g.offset % 2 = 0 \/ g.offset = g.start
    <3>1. CASE g.offset = o
      BY <3>1
    <3>2. CASE g.offset = 2 * (k + d + e)
      BY <3>2
    <3>q. QED
      BY <3>1, <3>2
  <2>2. f.kind = "subscribe" => ~f.split
    BY DEF Follows, Between
  <2>q. QED
    BY <2>1, <2>2 DEF Between, OfEvents
<1>16. Raw(g) /\ Lines(g)
  BY DEF Raw, Lines, OfEvents
<1>q. QED
  BY <1>9, <1>10, <1>12, <1>13, <1>14, <1>15, <1>16 DEF Follows

\* A batch without events.
LEMMA Speaks ==
  ASSUME Filed, NEW f, Follows(f), f.batch = <<>>,
         NEW g, g \in Follower, g.stage \in {"poll", "ending"}, g.kind = f.kind, g.here = f.here,
         g.limit = f.limit, g.start = f.start, g.shown = f.shown, g.told = f.told,
         g.kind # "logs" => g.part = f.part, g.offset <= 2 * Len(log),
         OfEvents(f) => g.offset = f.offset /\ g.split = f.split,
         \A m \in DOMAIN g.batch : /\ g.batch[m].type # "event" /\ g.batch[m].dropped = {}
                                   /\ OfEvents(f) => g.batch[m].halves = {},
         Raw(g), Lines(g), g.kind \in {"logs", "pty"} => Between(g)
  PROVE  Follows(g)
<1>1. Noticed(g) = f.told
  <2>1. \A i \in UNION {b.dropped : b \in ToSet(g.batch)} : FALSE
    BY InBatch
  <2>q. QED
    BY <2>1 DEF Noticed
<1>2. OfEvents(f) => Bound(g) = f.shown
  <2>1. ASSUME OfEvents(f) PROVE \A i \in UNION {b.halves : b \in ToSet(g.batch)} : FALSE
    BY <2>1, InBatch
  <2>q. QED
    BY <2>1 DEF Bound
<1>3. Reached(g) = {g.offset}
  <2>1. \A b \in ToSet(g.batch) : b.type # "event"
    BY InBatch
  <2>q. QED
    BY <2>1 DEF Reached
<1>4. Bound(f) = f.shown /\ Noticed(f) = f.told /\ Reached(f) = {f.offset}
  BY Idle
<1>5. Starting(g)
  BY DEF Follows, Starting
<1>6. Ordered(g)
  <2>1. OfEvents(g) = OfEvents(f)
    BY DEF OfEvents
  <2>q. QED
    BY <2>1 DEF Follows, Ordered
<1>7. Complete(g) /\ LeftOut(g) /\ Between(g)
  BY <1>1, <1>2, <1>3, <1>4 DEF Follows, Complete, LeftOut, Between, OfEvents, Follower, Kinds
<1>q. QED
  BY <1>5, <1>6, <1>7 DEF Follows

\* Heartbeat.
LEMMA Beats ==
  ASSUME Filed, NEW f, Follows(f), f.stage = "check", f.kind = "subscribe"
  PROVE  Follows([f EXCEPT !.stage = "poll", !.batch = <<Plain("heartbeat", f.offset)>>])
<1> DEFINE h == Plain("heartbeat", f.offset)
           g == [f EXCEPT !.stage = "poll", !.batch = <<h>>]
<1>1. f \in Follower /\ f.batch = <<>> /\ f.offset \in Position /\ f.offset <= 2 * Len(log)
  BY DEF Follows, Starting, Follower
<1>2. h \in Frame /\ h.type # "event" /\ h.halves = {} /\ h.dropped = {}
  BY <1>1, PlainIs
<1> HIDE DEF h
<1>3. <<h>> \in Seq(Frame) /\ \A m \in DOMAIN <<h>> : <<h>>[m] = h
  BY <1>2
<1>4. /\ g \in Follower /\ g.stage = "poll" /\ g.kind = f.kind /\ g.here = f.here
      /\ g.limit = f.limit /\ g.start = f.start /\ g.shown = f.shown /\ g.told = f.told
      /\ g.part = f.part /\ g.offset = f.offset /\ g.split = f.split /\ g.batch = <<h>>
  BY <1>1, <1>3 DEF Follower
<1> HIDE DEF g
<1>5. Raw(g) /\ Lines(g) /\ g.kind \notin {"logs", "pty"}
  BY <1>4 DEF Raw, Lines
<1>6. \A m \in DOMAIN g.batch : g.batch[m].type # "event" /\ g.batch[m].dropped = {} /\ g.batch[m].halves = {}
  BY <1>2, <1>3, <1>4
<1>7. Follows(g)
  BY <1>1, <1>4, <1>5, <1>6, Speaks
<1>q. QED
  BY <1>7 DEF g, h

\* Replay from past the end of the file.
LEMMA Refuses ==
  ASSUME Filed, NEW f, Follows(f), f.stage = "answered", f.kind = "subscribe"
  PROVE  Follows([f EXCEPT !.stage = "ending", !.batch = <<Plain("error", 0), Plain("closed", 0)>>])
<1> DEFINE h == Plain("error", 0)
           z == Plain("closed", 0)
           g == [f EXCEPT !.stage = "ending", !.batch = <<h, z>>]
<1>1. f \in Follower /\ f.batch = <<>> /\ f.offset <= 2 * Len(log) /\ 0 \in Position
  BY FollowersAssumption DEF Follows, Starting, Position
<1>2. /\ h \in Frame /\ h.type # "event" /\ h.halves = {} /\ h.dropped = {}
      /\ z \in Frame /\ z.type # "event" /\ z.halves = {} /\ z.dropped = {}
  BY <1>1, PlainIs
<1> HIDE DEF h, z
<1>3. <<h, z>> \in Seq(Frame) /\ \A m \in DOMAIN <<h, z>> : <<h, z>>[m] = h \/ <<h, z>>[m] = z
  BY <1>2
<1>4. /\ g \in Follower /\ g.stage = "ending" /\ g.kind = f.kind /\ g.here = f.here
      /\ g.limit = f.limit /\ g.start = f.start /\ g.shown = f.shown /\ g.told = f.told
      /\ g.part = f.part /\ g.offset = f.offset /\ g.split = f.split /\ g.batch = <<h, z>>
  BY <1>1, <1>3 DEF Follower
<1> HIDE DEF g
<1>5. Raw(g) /\ Lines(g) /\ g.kind \notin {"logs", "pty"}
  BY <1>4 DEF Raw, Lines
<1>6. \A m \in DOMAIN g.batch : g.batch[m].type # "event" /\ g.batch[m].dropped = {} /\ g.batch[m].halves = {}
  BY <1>2, <1>3, <1>4
<1>7. Follows(g)
  BY <1>1, <1>4, <1>5, <1>6, Speaks
<1>q. QED
  BY <1>7 DEF g, h, z

\* WriteFails: the batch is given up.
LEMMA GivesUp ==
  ASSUME Filed, NEW f, Follows(f), f.batch # <<>>, ~f.here,
         NEW s \in {f.stage, "done"}, NEW n,
         n = IF Head(f.batch).type = "event" THEN Head(f.batch).cursor ELSE f.offset
  PROVE  Follows([f EXCEPT !.batch = <<>>, !.offset = n, !.stage = s])
<1> DEFINE g == [f EXCEPT !.batch = <<>>, !.offset = n, !.stage = s]
           event == Head(f.batch).type = "event"
<1>1. f \in Follower /\ f.batch \in Seq(Frame) /\ f.offset \in Position /\ f.offset <= 2 * Len(log)
  BY DEF Follows, Follower
<1>2. Head(f.batch) = f.batch[1] /\ 1 \in DOMAIN f.batch /\ Head(f.batch) \in Frame
  BY <1>1, HeadAndTail
<1>3. event => /\ OfEvents(f) /\ \A h \in f.shown : h + 2 <= n
               /\ \E i \in 1 .. Len(log) : n = 2 * i
  BY <1>2 DEF Follows, Ordered
<1>4. n \in Position /\ n <= 2 * Len(log)
  <2>1. CASE event
    BY <1>2, <1>3, <2>1, LengthOfFile DEF Frame
  <2>2. CASE ~event
    BY <1>1, <2>2
  <2>q. QED
    BY <2>1, <2>2
<1>5. /\ g \in Follower /\ g.stage = s /\ g.kind = f.kind /\ ~g.here
      /\ g.limit = f.limit /\ g.start = f.start /\ g.shown = f.shown /\ g.told = f.told
      /\ g.part = f.part /\ g.offset = n /\ g.split = f.split /\ g.batch = <<>>
  <2>1. s \in {"new", "answered", "poll", "check", "ending", "done"} /\ <<>> \in Seq(Frame)
    BY <1>1 DEF Follower
  <2>q. QED
    BY <1>1, <1>4, <2>1 DEF Follower
<1>6. f.stage \notin {"new", "answered", "check"}
  BY DEF Follows, Starting
<1>7. Starting(g)
  BY <1>5, <1>6 DEF Follows, Starting
<1>8. Ordered(g)
  <2>1. OfEvents(f) => \A h \in f.shown : h <= n
    <3>1. CASE event
      <4>1. f.shown \subseteq Nat
        BY <1>1 DEF Follower
      <4>2. n \in Nat
        BY <1>3, <3>1
      <4>q. QED
        BY <1>3, <3>1, <4>1, <4>2
    <3>2. CASE ~event
      BY <3>2 DEF Follows, Ordered
    <3>q. QED
      BY <3>1, <3>2
  <2>q. QED
    BY <1>5, <2>1 DEF Follows, Ordered, OfEvents
<1>9. Between(g)
  <2>1. event => n % 2 = 0
    <3>1. ASSUME NEW i \in 1 .. Len(log) PROVE (2 * i) % 2 = 0
      OBVIOUS
    <3>q. QED
      BY <1>3, <3>1
  <2>2. ~event => n = f.offset
    OBVIOUS
  <2>3. event => f.kind # "logs"
    BY <1>3 DEF OfEvents
  <2> HIDE DEF event, g
  <2>q. QED
    BY <1>5, <2>1, <2>2, <2>3 DEF Follows, Between, OfEvents
<1>10. Complete(g) /\ LeftOut(g) /\ Raw(g) /\ Lines(g)
  BY <1>5 DEF Complete, LeftOut, Raw, Lines
<1>q. QED
  BY <1>4, <1>5, <1>7, <1>8, <1>9, <1>10 DEF Follows

\* A lag notice may precede events, alone
LEMMA LagPrefixes ==
  ASSUME NEW k \in Nat, NEW d \in Nat, d > 0 => k + d <= MaxRecords, NEW p \in Position
  PROVE  Skipping(LagFrames(Run(k, d), p), k, d)
<1> DEFINE l == LagFrames(Run(k, d), p)
<1>1. /\ l \in Seq(Frame)
      /\ \A m \in DOMAIN l : l[m].type # "event" /\ l[m].halves = {} /\ l[m].dropped = k + 1 .. k + d
      /\ d > 0 => 1 \in DOMAIN l
      /\ d = 0 => l = <<>>
  BY LagIs
<1> HIDE DEF l
<1>2. CASE d > 0
  <2>1. UNION {b.dropped : b \in ToSet(l)} \subseteq k + 1 .. k + d
    BY <1>1, InBatch
  <2>2. k + 1 .. k + d \subseteq UNION {b.dropped : b \in ToSet(l)}
    <3>1. 1 \in DOMAIN l /\ l[1].dropped = k + 1 .. k + d
      BY <1>1, <1>2
    <3>2. l[1].dropped \subseteq UNION {b.dropped : b \in ToSet(l)}
      BY <3>1, InBatch
    <3>q. QED
      BY <3>1, <3>2
  <2>q. QED
    BY <1>1, <2>1, <2>2 DEF Skipping, l
<1>3. CASE d = 0
  <2>1. k + 1 .. k + d = {} /\ DOMAIN l = {}
    BY <1>1, <1>3
  <2>2. UNION {b.dropped : b \in ToSet(l)} = {}
    BY <2>1, InBatch
  <2>q. QED
    BY <1>1, <2>1, <2>2 DEF Skipping, l
<1>q. QED
  BY <1>2, <1>3

\* or after the acknowledgement.
LEMMA AckPrefixes ==
  ASSUME NEW k \in Nat, NEW d \in Nat, NEW l, Skipping(l, k, d), NEW p \in Position
  PROVE  Skipping(<<Plain("ack", p)>> \o l, k, d)
<1> DEFINE a == Plain("ack", p)
           pre == <<a>> \o l
<1>1. a \in Frame /\ a.type # "event" /\ a.halves = {} /\ a.dropped = {}
  BY PlainIs
<1> HIDE DEF a
<1>2. l \in Seq(Frame) /\ <<a>> \in Seq(Frame) /\ Len(<<a>>) = 1 /\ <<a>>[1] = a
  BY <1>1 DEF Skipping
<1>3. /\ pre \in Seq(Frame) /\ Len(pre) = 1 + Len(l)
      /\ \A m \in 1 .. 1 + Len(l) : pre[m] = IF m <= 1 THEN <<a>>[m] ELSE l[m - 1]
  <2>1. /\ <<a>> \o l \in Seq(Frame) /\ Len(<<a>> \o l) = Len(<<a>>) + Len(l)
        /\ \A m \in 1 .. Len(<<a>>) + Len(l) : (<<a>> \o l)[m] = IF m <= Len(<<a>>) THEN <<a>>[m] ELSE l[m - Len(<<a>>)]
    BY <1>2, ConcatProperties
  <2>q. QED
    BY <1>2, <2>1
<1>4. DOMAIN pre = 1 .. 1 + Len(l) /\ DOMAIN l = 1 .. Len(l) /\ Len(l) \in Nat
  BY <1>2, <1>3
<1> HIDE DEF pre
<1>5. ASSUME NEW m \in DOMAIN pre PROVE pre[m] = a \/ (m - 1 \in DOMAIN l /\ pre[m] = l[m - 1])
  <2>1. CASE m = 1
    BY <1>2, <1>3, <1>4, <2>1
  <2>2. CASE m # 1
    <3>1. m \in 1 .. 1 + Len(l) /\ ~(m <= 1) /\ m - 1 \in 1 .. Len(l)
      BY <1>4, <2>2
    <3>q. QED
      BY <1>3, <1>4, <3>1
  <2>q. QED
    BY <2>1, <2>2
<1>6. ASSUME NEW m \in DOMAIN l PROVE m + 1 \in DOMAIN pre /\ pre[m + 1] = l[m]
  <2>1. m + 1 \in 1 .. 1 + Len(l) /\ ~(m + 1 <= 1) /\ (m + 1) - 1 = m
    BY <1>4
  <2>q. QED
    BY <1>3, <1>4, <2>1
<1>7. \A m \in DOMAIN pre : pre[m].type # "event" /\ pre[m].halves = {}
  BY <1>1, <1>5 DEF Skipping
<1>8. UNION {b.dropped : b \in ToSet(pre)} = UNION {b.dropped : b \in ToSet(l)}
  <2>1. ASSUME NEW i \in UNION {b.dropped : b \in ToSet(pre)} PROVE i \in UNION {b.dropped : b \in ToSet(l)}
    <3>1. PICK m \in DOMAIN pre : i \in pre[m].dropped
      BY InBatch
    <3>2. m - 1 \in DOMAIN l /\ i \in l[m - 1].dropped
      BY <1>1, <1>5, <3>1
    <3>q. QED
      BY <3>2, InBatch
  <2>2. ASSUME NEW i \in UNION {b.dropped : b \in ToSet(l)} PROVE i \in UNION {b.dropped : b \in ToSet(pre)}
    <3>1. PICK m \in DOMAIN l : i \in l[m].dropped
      BY InBatch
    <3>q. QED
      BY <1>6, <3>1, InBatch
  <2>q. QED
    BY <2>1, <2>2
<1>q. QED
  BY <1>3, <1>7, <1>8 DEF Skipping, pre, a

\* Replay, from a cursor within the file.
LEMMA Replays ==
  ASSUME Filed, NEW f, Follows(f), f.stage = "answered", f.kind = "subscribe",
         NEW i \in Nat, NEW cursor, cursor = 2 * i, cursor <= file_len(f), NEW limit \in ReplayLimits,
         NEW recs, recs = Skipped(RecordsFrom(f, cursor), limit),
         NEW last, last = IF recs.kept = <<>> THEN cursor ELSE 2 * recs.kept[Len(recs.kept)]
  PROVE  Follows([f EXCEPT !.stage = "poll", !.limit = limit, !.start = cursor, !.offset = last,
                           !.batch = <<Plain("ack", cursor)>> \o LagFrames(recs.dropped, last)
                                     \o EventFrames(recs.kept)])
<1>0. /\ f \in Follower /\ f.batch = <<>> /\ f.shown = {} /\ f.told = {} /\ cursor \in Nat
      /\ f.part = [s \in Streams |-> {}] /\ ~f.split
  BY DEF Follows, Starting
<1>1. /\ file_len(f) \in Nat /\ file_len(f) <= 2 * Len(log) /\ Len(log) \in Nat /\ MaxRecords \in Nat
      /\ Len(log) <= MaxRecords
  BY LengthOfFile DEF Filed
<1>2. PICK k, n \in Nat :
        /\ RecordsFrom(f, cursor) = Run(k, n) /\ cursor <= 2 * k /\ 2 * k <= cursor + 1
        /\ n > 0 => k + n <= Len(log)
  BY <1>0, RecordsAre
<1>3. limit \in Nat
  BY FollowersAssumption
<1>4. PICK d, e \in Nat :
        /\ d + e = n /\ (limit > 0 /\ n > 0 => e > 0)
        /\ recs = [dropped |-> Run(k, d), kept |-> Run(k + d, e)]
  <2>1. recs = Skipped(Run(k, n), limit)
    BY <1>2
  <2>2. Split(Skipped(Run(k, n), limit), k, n, limit)
    BY <1>3, SkippedIs
  <2>q. QED
    BY <2>1, <2>2 DEF Split
<1>5. recs.dropped = Run(k, d) /\ recs.kept = Run(k + d, e)
  BY <1>4
<1>6. e > 0 => recs.kept # <<>> /\ recs.kept[Len(recs.kept)] = k + d + e
  <2>1. ASSUME e > 0 PROVE Len(Run(k + d, e)) = e /\ Run(k + d, e)[e] = k + d + e /\ Run(k + d, e) # <<>>
    BY <2>1 DEF Run
  <2>q. QED
    BY <1>5, <2>1
<1>7. e = 0 => recs.kept = <<>>
  BY <1>5 DEF Run
<1>8. last = cursor \/ (e > 0 /\ last = 2 * (k + d + e))
  <2>1. CASE e > 0
    BY <1>6, <2>1
  <2>2. CASE e = 0
    BY <1>7, <2>2
  <2>q. QED
    BY <2>1, <2>2
<1>9. last \in Position /\ cursor \in Position
  <2>1. cursor \in Nat /\ cursor <= 2 * MaxRecords
    BY <1>0, <1>1
  <2>2. e > 0 => 2 * (k + d + e) \in Nat /\ 2 * (k + d + e) <= 2 * MaxRecords
    <3>1. e > 0 => k + d + e <= Len(log)
      BY <1>2, <1>4
    <3>q. QED
      BY <1>1, <1>2, <1>4, <3>1
  <2> HIDE DEF Position
  <2>3. \A v \in Nat : v <= 2 * MaxRecords => v \in Position
    BY <1>1 DEF Position
  <2>q. QED
    BY <1>8, <2>1, <2>2, <2>3
<1> DEFINE l == LagFrames(recs.dropped, last)
           pre == <<Plain("ack", cursor)>> \o l
           b == pre \o EventFrames(recs.kept)
           g == [f EXCEPT !.stage = "poll", !.limit = limit, !.start = cursor, !.offset = last, !.batch = b]
<1>10. Skipping(l, k, d)
  <2>1. d > 0 => k + d <= MaxRecords
    BY <1>1, <1>2, <1>4
  <2>q. QED
    BY <1>5, <1>9, <2>1, LagPrefixes
<1> HIDE DEF l
<1>11. Skipping(pre, k, d)
  BY <1>9, <1>10, AckPrefixes
<1> HIDE DEF pre
<1>12. b = pre \o EventFrames(Run(k + d, e)) /\ b \in Seq(Frame)
  <2>1. b = pre \o EventFrames(Run(k + d, e))
    BY <1>5
  <2>2. e > 0 => (k + d) + e <= MaxRecords
    BY <1>1, <1>2, <1>4
  <2>3. pre \in Seq(Frame) /\ k + d \in Nat
    BY <1>11 DEF Skipping
  <2>4. Batched(b, pre, k + d, e)
    <3> HIDE DEF b
    <3>q. QED
      BY <2>1, <2>2, <2>3, EventBatch
  <2>q. QED
    BY <2>1, <2>4 DEF Batched
<1> HIDE DEF b
<1>13. /\ g \in Follower /\ g.stage = "poll" /\ g.kind = f.kind /\ g.here = f.here
       /\ g.limit = limit /\ g.start = cursor /\ g.shown = f.shown /\ g.told = f.told
       /\ g.part = f.part /\ g.offset = last /\ g.split = f.split /\ g.batch = b
  BY <1>0, <1>9, <1>12 DEF Follower
<1> HIDE DEF g
<1>14. cursor % 2 = 0
  OBVIOUS
<1>15. /\ d + e > 0 => k + d + e <= Len(log)
       /\ limit > 0 /\ d > 0 => e > 0
  BY <1>2, <1>4
<1>16. OfEvents(f)
  BY DEF OfEvents
<1>17. cursor <= 2 * Len(log)
  BY <1>0, <1>1
<1>18. ASSUME NEW x \in Index, cursor + 1 < 2 * x, 2 * x <= cursor PROVE FALSE
  BY <1>0, <1>18, FollowersAssumption DEF Index
<1>19. g.limit > 0 /\ d > 0 => e > 0
  BY <1>13, <1>15
<1>20. f.kind # "subscribe" => d = 0
  OBVIOUS
<1>21. ReadOf(f, g, pre, k, d, e, cursor)
  BY <1>0, <1>2, <1>11, <1>12, <1>13, <1>14, <1>15, <1>16, <1>17, <1>18, <1>19, <1>20, <1>8 DEF ReadOf
<1>22. Follows(g)
  BY <1>0, <1>13, <1>21, Reads
<1>q. QED
  BY <1>22 DEF g, b, pre, l

\* PollEvents, when something is new.
LEMMA PollsEvents ==
  ASSUME Filed, NEW f, Follows(f), f.stage = "poll", OfEvents(f), f.batch = <<>>,
         NEW all, all = RecordsFrom(f, f.offset),
         NEW recs, recs = IF f.kind = "subscribe" THEN Skipped(all, QueueLimit)
                          ELSE [dropped |-> <<>>, kept |-> all]
  PROVE  Follows([f EXCEPT !.batch = LagFrames(recs.dropped, f.offset) \o EventFrames(recs.kept)])
<1>0. /\ f \in Follower /\ f.offset \in Nat /\ f.offset \in Position /\ f.offset <= 2 * Len(log)
      /\ f.start \in Nat /\ f.limit \in Nat
  <2>1. f \in Follower /\ f.offset <= 2 * Len(log)
    BY DEF Follows
  <2>2. f.offset \in Position /\ f.start \in Position /\ f.limit \in {0} \cup ReplayLimits
    BY <2>1 DEF Follower
  <2>3. f.offset \in Nat /\ f.start \in Nat
    BY <2>2, FollowersAssumption DEF Position
  <2>4. f.limit \in Nat
    BY <2>2, FollowersAssumption
  <2>q. QED
    BY <2>1, <2>2, <2>3, <2>4
<1>1. /\ Len(log) \in Nat /\ MaxRecords \in Nat /\ Len(log) <= MaxRecords
  BY LengthOfFile DEF Filed
<1>2. PICK k, n \in Nat :
        /\ RecordsFrom(f, f.offset) = Run(k, n) /\ f.offset <= 2 * k /\ 2 * k <= f.offset + 1
        /\ n > 0 => k + n <= Len(log)
  BY <1>0, RecordsAre
<1>3. PICK d, e \in Nat :
        /\ d + e = n /\ (n > 0 => e > 0) /\ (f.kind # "subscribe" => d = 0)
        /\ recs = [dropped |-> Run(k, d), kept |-> Run(k + d, e)]
  <2>1. CASE f.kind = "subscribe"
    <3>1. recs = Skipped(Run(k, n), QueueLimit)
      BY <1>2, <2>1
    <3>2. QueueLimit \in Nat /\ QueueLimit > 0
      BY FollowersAssumption
    <3>3. Split(Skipped(Run(k, n), QueueLimit), k, n, QueueLimit)
      BY <3>2, SkippedIs
    <3>q. QED
      BY <2>1, <3>1, <3>2, <3>3 DEF Split
  <2>2. CASE f.kind # "subscribe"
    <3>1. <<>> = Run(k, 0) /\ Run(k, n) = Run(k + 0, n) /\ 0 + n = n
      BY DEF Run
    <3>2. recs = [dropped |-> Run(k, 0), kept |-> Run(k + 0, n)]
      BY <1>2, <2>2, <3>1
    <3>q. QED
      BY <2>2, <3>1, <3>2
  <2>q. QED
    BY <2>1, <2>2
<1>4. recs.dropped = Run(k, d) /\ recs.kept = Run(k + d, e)
  BY <1>3
<1> DEFINE l == LagFrames(recs.dropped, f.offset)
           b == l \o EventFrames(recs.kept)
           g == [f EXCEPT !.batch = b]
<1>5. Skipping(l, k, d)
  <2>1. d > 0 => k + d <= MaxRecords
    BY <1>1, <1>2, <1>3
  <2>q. QED
    BY <1>0, <1>4, <2>1, LagPrefixes
<1> HIDE DEF l
<1>6. b = l \o EventFrames(Run(k + d, e)) /\ b \in Seq(Frame)
  <2>1. b = l \o EventFrames(Run(k + d, e))
    BY <1>4
  <2>2. e > 0 => (k + d) + e <= MaxRecords
    BY <1>1, <1>2, <1>3
  <2>3. l \in Seq(Frame) /\ k + d \in Nat
    BY <1>5 DEF Skipping
  <2>4. Batched(b, l, k + d, e)
    <3> HIDE DEF b
    <3>q. QED
      BY <2>1, <2>2, <2>3, EventBatch
  <2>q. QED
    BY <2>1, <2>4 DEF Batched
<1> HIDE DEF b
<1>7. /\ g \in Follower /\ g.stage = "poll" /\ g.kind = f.kind /\ g.here = f.here
      /\ g.limit = f.limit /\ g.start = f.start /\ g.shown = f.shown /\ g.told = f.told
      /\ g.part = f.part /\ g.offset = f.offset /\ g.split = f.split /\ g.batch = b
  BY <1>0, <1>6 DEF Follower
<1> HIDE DEF g
<1>8. d + e > 0 => k + d + e <= Len(log)
  BY <1>2, <1>3
<1>9. g.limit > 0 /\ d > 0 => e > 0
  BY <1>3
<1>10. /\ f.offset % 2 = 0 \/ f.offset = f.start
       /\ ~f.split => f.start % 2 = 0
  BY DEF Follows, Between
<1>11. \A h \in f.shown : h <= f.offset
  BY DEF Follows, Ordered
<1>12. Bound(f) = f.shown /\ Noticed(f) = f.told /\ Reached(f) = {f.offset}
  BY Idle
<1>13. f.here => \A i \in Index :
         f.start + 1 < 2 * i /\ 2 * i <= f.offset => i \in f.told \/ Halves(i) \subseteq f.shown
  BY <1>12 DEF Follows, Complete
<1>14. f.here /\ f.kind = "subscribe" /\ f.limit > 0 =>
         \A i \in f.told : 2 * i \notin f.shown /\ 2 * i <= f.offset
  BY <1>12 DEF Follows, LeftOut
<1>15. ReadOf(f, g, l, k, d, e, f.offset)
  BY <1>0, <1>2, <1>3, <1>5, <1>6, <1>7, <1>8, <1>9, <1>10, <1>11, <1>13, <1>14 DEF ReadOf
<1>16. Follows(g)
  BY <1>0, <1>7, <1>15, Reads
<1>q. QED
  BY <1>16 DEF g, b, l

\* PollPty, when something is new.
LEMMA PollsOutput ==
  ASSUME Filed, NEW f, Follows(f), f.stage = "poll", f.kind = "pty", f.batch = <<>>,
         NEW end, end = file_len(f), f.offset < end
  PROVE  Follows([f EXCEPT !.offset = end,
                           !.batch = <<[Plain("line", end) EXCEPT !.halves = f.offset + 1 .. end]>>])
<1> DEFINE h == [Plain("line", end) EXCEPT !.halves = f.offset + 1 .. end]
           g == [f EXCEPT !.offset = end, !.batch = <<h>>]
<1>0. f \in Follower /\ f.offset \in Nat /\ f.start \in Nat
  BY FollowersAssumption DEF Follows, Follower, Position
<1>1. end \in Nat /\ end <= 2 * Len(log) /\ end \in Position
  BY LengthOfFile DEF Filed, Position
<1>2. h \in Frame /\ h.type # "event" /\ h.halves = f.offset + 1 .. end /\ h.dropped = {}
  <2>1. f.offset + 1 .. end \subseteq 1 .. 2 * MaxRecords
    BY <1>0, <1>1, FollowersAssumption DEF Position
  <2>2. /\ Plain("line", end) \in Frame /\ Plain("line", end).type = "line"
        /\ Plain("line", end).dropped = {}
    BY <1>1, PlainIs
  <2>q. QED
    BY <2>1, <2>2 DEF Frame
<1> HIDE DEF h
<1>3. <<h>> \in Seq(Frame) /\ 1 \in DOMAIN <<h>> /\ \A m \in DOMAIN <<h>> : <<h>>[m] = h
  BY <1>2
<1>4. /\ g \in Follower /\ g.stage = "poll" /\ g.kind = f.kind /\ g.here = f.here
      /\ g.limit = f.limit /\ g.start = f.start /\ g.shown = f.shown /\ g.told = f.told
      /\ g.part = f.part /\ g.offset = end /\ g.split = f.split /\ g.batch = <<h>>
  BY <1>0, <1>1, <1>3 DEF Follower
<1> HIDE DEF g
<1>5. Raw(g)
  <2>1. SUFFICES ASSUME g.here, NEW i \in f.start + 1 .. end PROVE i \in Bound(g)
    BY <1>4 DEF Raw
  <2>2. CASE i <= f.offset
    <3>1. f.start + 1 .. f.offset \subseteq Bound(f) /\ Bound(f) = f.shown
      BY <1>4, <2>1, Idle DEF Follows, Raw
    <3>2. i \in f.start + 1 .. f.offset
      BY <1>0, <1>1, <2>2
    <3>q. QED
      BY <1>4, <3>1, <3>2 DEF Bound
  <2>3. CASE ~(i <= f.offset)
    <3>1. i \in h.halves
      BY <1>0, <1>1, <1>2, <2>3
    <3>2. <<h>>[1].halves \subseteq UNION {b.halves : b \in ToSet(<<h>>)}
      BY <1>3, InBatch
    <3>q. QED
      BY <1>3, <1>4, <3>1, <3>2 DEF Bound
  <2>q. QED
    BY <2>2, <2>3
<1>6. Lines(g) /\ Between(g)
  BY <1>4 DEF Lines, Between, OfEvents, Follows
<1>7. \A m \in DOMAIN g.batch : g.batch[m].type # "event" /\ g.batch[m].dropped = {}
  BY <1>2, <1>3, <1>4
<1>8. ~OfEvents(f)
  BY DEF OfEvents
<1>9. Follows(g)
  BY <1>1, <1>4, <1>5, <1>6, <1>7, <1>8, Speaks
<1>q. QED
  BY <1>9 DEF g, h

\* A set of naturals that is not empty has a smallest member.
LEMMA Smallest ==
  ASSUME NEW S, S \subseteq Nat, S # {}
  PROVE  \E m \in S : \A k \in S : m <= k
<1> DEFINE R == {p \in Nat \X Nat : p[1] < p[2]}
<1>0. R = OpToRel(<, Nat)
  BY DEF OpToRel
<1>1. IsWellFoundedOn(R, Nat)
  BY <1>0, NatLessThanWellFounded
<1>2. \E x \in S : \A y \in S : <<y, x>> \notin R
  BY <1>1, WFMin
<1>3. \A x, y \in Nat : <<y, x>> \notin R => x <= y
  OBVIOUS
<1>q. QED
  BY <1>2, <1>3

\* What one more record makes of the frames and the unfinished lines.
PushOne(r, i) ==
  LET step == Assembled(r.part, i)
  IN  [part |-> step.part,
       frames |-> IF step.line = {} THEN r.frames
                  ELSE Append(r.frames, LineFrame(step.line, 2 * i))]

\* G follows the records up to the m-th.
Pushes(G, recs, part, m) ==
  G = [n \in 0 .. m |-> IF n = 0 THEN [part |-> part, frames |-> <<>>] ELSE PushOne(G[n - 1], recs[n])]

\* There is a function that follows the records, whatever their number:
LEMMA CanPush ==
  ASSUME NEW recs, NEW part, NEW m \in Nat
  PROVE  \E G : Pushes(G, recs, part, m)
<1> DEFINE P(n) == \E G : Pushes(G, recs, part, n)
           S == {n \in Nat : ~P(n)}
<1>1. P(0)
  <2> DEFINE H == [n \in 0 .. 0 |-> [part |-> part, frames |-> <<>>]]
  <2>1. \A n \in 0 .. 0 : n = 0
    OBVIOUS
  <2>2. Pushes(H, recs, part, 0)
    BY <2>1 DEF Pushes
  <2>q. QED
    BY <2>2
<1>2. ASSUME NEW n \in Nat, P(n) PROVE P(n + 1)
  <2>1. PICK G : Pushes(G, recs, part, n)
    BY <1>2
  <2> DEFINE H == [j \in 0 .. n + 1 |-> IF j = n + 1 THEN PushOne(G[n], recs[n + 1]) ELSE G[j]]
             base == [part |-> part, frames |-> <<>>]
             K == [j \in 0 .. n + 1 |-> IF j = 0 THEN base ELSE PushOne(H[j - 1], recs[j])]
  <2>2. \A j \in 0 .. n : G[j] = IF j = 0 THEN base ELSE PushOne(G[j - 1], recs[j])
    BY <2>1 DEF Pushes
  <2>3. ASSUME NEW j \in 0 .. n + 1 PROVE H[j] = K[j]
    <3>1. CASE j = n + 1
      <4>1. j # 0 /\ j - 1 = n /\ n \in 0 .. n + 1 /\ n # n + 1
        BY <3>1
      <4>2. H[n] = G[n] /\ H[j] = PushOne(G[n], recs[j])
        BY <3>1, <4>1
      <4>q. QED
        BY <4>1, <4>2
    <3>2. CASE j # n + 1 /\ j # 0
      <4>1. j \in 0 .. n /\ j - 1 \in 0 .. n + 1 /\ j - 1 # n + 1
        BY <3>2
      <4>2. H[j] = G[j] /\ H[j - 1] = G[j - 1]
        BY <3>2, <4>1
      <4>q. QED
        BY <2>2, <3>2, <4>1, <4>2
    <3>3. CASE j = 0
      <4>1. 0 \in 0 .. n /\ 0 # n + 1
        OBVIOUS
      <4>2. H[j] = G[0] /\ K[j] = base
        BY <3>3, <4>1
      <4>q. QED
        BY <2>2, <4>1, <4>2
    <3>q. QED
      BY <3>1, <3>2, <3>3
  <2>4. H = K
    BY <2>3
  <2>5. Pushes(H, recs, part, n + 1)
    <3> HIDE DEF H
    <3>q. QED
      BY <2>4 DEF Pushes
  <2>q. QED
    BY <2>5
<1>3. S = {}
  <2> HIDE DEF P
  <2>1. SUFFICES ASSUME S # {} PROVE FALSE
    OBVIOUS
  <2>2. PICK n \in S : \A k \in S : n <= k
    BY <2>1, Smallest
  <2>3. n # 0
    BY <1>1, <2>2
  <2>4. n - 1 \in Nat /\ P(n - 1)
    BY <2>2, <2>3
  <2>5. P((n - 1) + 1)
    BY <1>2, <2>4
  <2>q. QED
    BY <2>2, <2>5
<1>q. QED
  BY <1>3

\* so that Pushed is its last value.
LEMMA PushedIs ==
  ASSUME NEW recs, Len(recs) \in Nat, NEW part
  PROVE  \E G : Pushes(G, recs, part, Len(recs)) /\ Pushed(recs, part) = G[Len(recs)]
<1> DEFINE after[n \in 0 .. Len(recs)] ==
        IF n = 0 THEN [part |-> part, frames |-> <<>>]
        ELSE LET step == Assembled(after[n - 1].part, recs[n])
             IN  [part |-> step.part,
                  frames |-> IF step.line = {} THEN after[n - 1].frames
                             ELSE Append(after[n - 1].frames, LineFrame(step.line, 2 * recs[n]))]
           chosen == CHOOSE G : Pushes(G, recs, part, Len(recs))
<1>1. Pushed(recs, part) = after[Len(recs)]
  BY DEF Pushed
<1>2. after = chosen
  BY DEF Pushes, PushOne
<1>3. Pushes(chosen, recs, part, Len(recs))
  <2>1. \E G : Pushes(G, recs, part, Len(recs))
    BY CanPush
  <2>q. QED
    BY <2>1
<1> HIDE DEF after, chosen
<1>q. QED
  BY <1>1, <1>2, <1>3

\* What the unfinished lines and the frames hold of record i.
Held(r, s, i) == i \in r.part[s] \/ \E m \in DOMAIN r.frames : Halves(i) \subseteq r.frames[m].halves

Assembling(r) ==
  /\ r.part \in [Streams -> SUBSET Index] /\ r.frames \in Seq(Frame)
  /\ \A m \in DOMAIN r.frames : r.frames[m].type # "event" /\ r.frames[m].dropped = {}

\* A line's frame shows the records of the line.
LEMMA LineFrameIs ==
  ASSUME NEW line \in SUBSET Index, NEW p \in Position
  PROVE  /\ LineFrame(line, p) \in Frame /\ LineFrame(line, p).type # "event"
         /\ LineFrame(line, p).dropped = {}
         /\ LineFrame(line, p).halves = UNION {Halves(i) : i \in line}
<1>1. ASSUME NEW i \in line PROVE Halves(i) \subseteq 1 .. 2 * MaxRecords
  BY FollowersAssumption DEF Halves, Index
<1>2. UNION {Halves(i) : i \in line} \in SUBSET (1 .. 2 * MaxRecords)
  BY <1>1
<1>3. Plain("line", p) \in Frame /\ Plain("line", p).type = "line" /\ Plain("line", p).dropped = {}
  BY PlainIs
<1>q. QED
  BY <1>2, <1>3 DEF LineFrame, Frame

\* A frame more at the end of a batch.
Longer(b, c, x) ==
  /\ c \in Seq(Frame)
  /\ \A m \in DOMAIN b : m \in DOMAIN c /\ c[m] = b[m]
  /\ \A m \in DOMAIN c : (m \in DOMAIN b /\ c[m] = b[m]) \/ c[m] = x
  /\ \E m \in DOMAIN c : c[m] = x

LEMMA AppendsFrame ==
  ASSUME NEW b \in Seq(Frame), NEW x \in Frame, NEW c, c = Append(b, x)
  PROVE  Longer(b, c, x)
<1>1. /\ c \in Seq(Frame) /\ DOMAIN b = 1 .. Len(b) /\ DOMAIN c = 1 .. Len(b) + 1 /\ Len(b) \in Nat
      /\ c[Len(b) + 1] = x /\ \A m \in 1 .. Len(b) : c[m] = b[m]
  BY AppendProperties
<1>2. Len(b) + 1 \in DOMAIN c
  BY <1>1
<1>3. \A m \in DOMAIN c : m \in DOMAIN b \/ m = Len(b) + 1
  BY <1>1
<1>4. \A m \in DOMAIN b : m \in DOMAIN c
  BY <1>1
<1>q. QED
  BY <1>1, <1>2, <1>3, <1>4 DEF Longer

\* One more record: nothing that was held is lost, and the record is held.
LEMMA PushesOne ==
  ASSUME Filed, NEW r, Assembling(r), NEW i \in Index, i <= Len(log)
  PROVE  /\ Assembling(PushOne(r, i))
         /\ \A s \in Streams, j \in Index : Held(r, s, j) => Held(PushOne(r, i), s, j)
         /\ log[i].stream # "none" => Held(PushOne(r, i), log[i].stream, i)
<1> DEFINE z == log[i].stream
           g == PushOne(r, i)
<1>1. log[i] \in Record /\ i \in Nat /\ 2 * i \in Position /\ z \in {"none"} \cup Streams
  <2>1. i \in 1 .. Len(log) /\ i \in Nat /\ 2 * i \in Position
    BY LengthOfFile DEF Index, Position
  <2>2. log[i] \in Record
    BY <2>1, FollowersAssumption DEF Filed
  <2>q. QED
    BY <2>1, <2>2 DEF Record, Streams
<1>2. r.part \in [Streams -> SUBSET Index] /\ r.frames \in Seq(Frame)
  BY DEF Assembling
<1>3. CASE z = "none"
  <2>1. g.part = r.part /\ g.frames = r.frames
    BY <1>3 DEF PushOne, Assembled
  <2> HIDE DEF g
  <2>q. QED
    BY <1>3, <2>1 DEF Assembling, Held, g
<1>4. CASE z # "none" /\ ~log[i].ends
  <2>1. g.part = [r.part EXCEPT ![z] = @ \cup {i}] /\ g.frames = r.frames
    BY <1>4 DEF PushOne, Assembled
  <2> HIDE DEF g
  <2>2. g.part \in [Streams -> SUBSET Index] /\ i \in g.part[z]
        /\ \A s \in Streams : r.part[s] \subseteq g.part[s]
    BY <1>1, <1>2, <1>4, <2>1
  <2>q. QED
    BY <1>1, <1>4, <2>1, <2>2 DEF Assembling, Held, g
<1>5. CASE z # "none" /\ log[i].ends
  <2> DEFINE line == r.part[z] \cup {i}
             x == LineFrame(line, 2 * i)
  <2>1. g.part = [r.part EXCEPT ![z] = {}] /\ g.frames = Append(r.frames, x)
    BY <1>5 DEF PushOne, Assembled
  <2>2. line \in SUBSET Index
    BY <1>1, <1>2, <1>5
  <2>3. x \in Frame /\ x.type # "event" /\ x.dropped = {} /\ \A j \in line : Halves(j) \subseteq x.halves
    <3> HIDE DEF line
    <3>1. /\ x \in Frame /\ x.type # "event" /\ x.dropped = {}
          /\ x.halves = UNION {Halves(j) : j \in line}
      BY <1>1, <2>2, LineFrameIs
    <3>q. QED
      BY <3>1
  <2> HIDE DEF g, x
  <2>4. Longer(r.frames, g.frames, x)
    BY <1>2, <2>1, <2>3, AppendsFrame
  <2>5. /\ g.part \in [Streams -> SUBSET Index]
        /\ \A s \in Streams : s # z => g.part[s] = r.part[s]
    BY <1>1, <1>2, <2>1
  <2>6. Assembling(g)
    BY <2>3, <2>4, <2>5 DEF Assembling, Longer
  <2>7. \A s \in Streams, j \in line : Held(g, s, j)
    BY <2>3, <2>4 DEF Held, Longer
  <2>8. ASSUME NEW s \in Streams, NEW j \in Index, Held(r, s, j) PROVE Held(g, s, j)
    <3>1. CASE j \in r.part[s] /\ s = z
      BY <2>7, <3>1
    <3>2. CASE j \in r.part[s] /\ s # z
      BY <2>5, <3>2 DEF Held
    <3>3. CASE \E m \in DOMAIN r.frames : Halves(j) \subseteq r.frames[m].halves
      BY <2>4, <3>3 DEF Held, Longer
    <3>q. QED
      BY <2>8, <3>1, <3>2, <3>3 DEF Held
  <2>9. Held(g, z, i)
    BY <1>1, <1>5, <2>7
  <2>q. QED
    BY <2>6, <2>8, <2>9 DEF g
<1>q. QED
  BY <1>3, <1>4, <1>5

\* Pushed loses nothing.
LEMMA PushesAll ==
  ASSUME Filed, NEW part \in [Streams -> SUBSET Index], NEW k \in Nat, NEW n \in Nat,
         n > 0 => k + n <= Len(log), NEW r, r = Pushed(Run(k, n), part)
  PROVE  /\ Assembling(r)
         /\ \A s \in Streams : \A j \in part[s] : Held(r, s, j)
         /\ \A j \in k + 1 .. k + n : log[j].stream # "none" => Held(r, log[j].stream, j)
<1> DEFINE recs == Run(k, n)
<1>1. Len(recs) = n /\ \A j \in 1 .. n : recs[j] = j + k
  BY DEF Run
<1>2. Len(log) \in Nat /\ Len(log) <= MaxRecords /\ MaxRecords \in Nat
  BY LengthOfFile DEF Filed
<1> HIDE DEF recs
<1>3. PICK G : Pushes(G, recs, part, n) /\ r = G[n]
  <2>1. Len(recs) \in Nat
    BY <1>1
  <2>q. QED
    BY <1>1, <2>1, PushedIs DEF recs
<1>4. /\ G[0] = [part |-> part, frames |-> <<>>]
      /\ \A m \in 1 .. n : G[m] = PushOne(G[m - 1], m + k)
  <2>1. ASSUME NEW m \in 0 .. n
        PROVE  G[m] = IF m = 0 THEN [part |-> part, frames |-> <<>>] ELSE PushOne(G[m - 1], recs[m])
    BY <1>3 DEF Pushes
  <2>2. 0 \in 0 .. n
    OBVIOUS
  <2>3. \A m \in 1 .. n : m \in 0 .. n /\ m # 0
    OBVIOUS
  <2>q. QED
    BY <1>1, <2>1, <2>2, <2>3
<1> DEFINE P(m) ==
      /\ Assembling(G[m])
      /\ \A s \in Streams : \A j \in part[s] : Held(G[m], s, j)
      /\ \A j \in k + 1 .. k + m : log[j].stream # "none" => Held(G[m], log[j].stream, j)
<1>5. P(0)
  <2>1. Assembling(G[0]) /\ \A s \in Streams : \A j \in part[s] : Held(G[0], s, j)
    BY <1>4 DEF Assembling, Held
  <2>2. k + 1 .. k + 0 = {}
    OBVIOUS
  <2>q. QED
    BY <2>1, <2>2
<1>6. ASSUME NEW m \in 1 .. n, P(m - 1) PROVE P(m)
  <2> DEFINE x == G[m - 1]
             i == m + k
  <2>1. i \in Index /\ i <= Len(log) /\ i \in Nat
    BY <1>2 DEF Index
  <2>2. G[m] = PushOne(x, i)
    BY <1>4
  <2>3. \A j \in k + 1 .. k + m : j \in Index /\ (j = i \/ j \in k + 1 .. k + (m - 1))
    BY <1>2 DEF Index
  <2>4. \A j \in k + 1 .. k + m : log[j].stream \in {"none"} \cup Streams
    <3>1. \A j \in k + 1 .. k + m : j \in 1 .. Len(log)
      BY <1>2
    <3>q. QED
      BY <3>1, FollowersAssumption DEF Filed, Record, Streams
  <2> HIDE DEF i
  <2>5. /\ Assembling(x)
        /\ \A s \in Streams : \A j \in part[s] : Held(x, s, j)
        /\ \A j \in k + 1 .. k + (m - 1) : log[j].stream # "none" => Held(x, log[j].stream, j)
    BY <1>6
  <2> HIDE DEF P, x
  <2>6. /\ Assembling(G[m])
        /\ \A s \in Streams, j \in Index : Held(x, s, j) => Held(G[m], s, j)
        /\ log[i].stream # "none" => Held(G[m], log[i].stream, i)
    BY <2>1, <2>2, <2>5, PushesOne
  <2>7. \A s \in Streams : \A j \in part[s] : Held(G[m], s, j)
    BY <2>5, <2>6
  <2>8. ASSUME NEW j \in k + 1 .. k + m, log[j].stream # "none" PROVE Held(G[m], log[j].stream, j)
    BY <2>3, <2>4, <2>5, <2>6, <2>8
  <2>q. QED
    BY <2>6, <2>7, <2>8 DEF P
<1>7. P(n)
  <2> DEFINE S == {m \in 0 .. n : ~P(m)}
  <2> HIDE DEF P
  <2>1. SUFFICES ASSUME S # {} PROVE FALSE
    OBVIOUS
  <2>2. S \subseteq Nat
    OBVIOUS
  <2>3. PICK m \in S : \A j \in S : m <= j
    BY <2>1, <2>2, Smallest
  <2>4. m # 0
    BY <1>5, <2>3
  <2>5. m \in 1 .. n /\ m - 1 \in 0 .. n /\ ~(m <= m - 1)
    BY <2>3, <2>4
  <2>6. P(m - 1)
    BY <2>3, <2>5
  <2>q. QED
    BY <1>6, <2>3, <2>5, <2>6
<1>q. QED
  BY <1>3, <1>7

\* PollLogs, when something is new.
LEMMA PollsLogs ==
  ASSUME Filed, NEW f, Follows(f), f.stage = "poll", f.kind = "logs", f.batch = <<>>,
         NEW end, end = file_len(f), f.offset < end,
         NEW r, r = Pushed(RecordsFrom(f, f.offset), f.part)
  PROVE  Follows([f EXCEPT !.offset = end, !.batch = r.frames, !.part = r.part,
                           !.split = @ \/ end % 2 = 1])
<1> DEFINE g == [f EXCEPT !.offset = end, !.batch = r.frames, !.part = r.part,
                          !.split = @ \/ end % 2 = 1]
<1>0. f \in Follower /\ f.offset \in Nat /\ f.start \in Nat /\ f.part \in [Streams -> SUBSET Index]
  BY FollowersAssumption DEF Follows, Follower, Position
<1>1. /\ end \in Nat /\ end <= 2 * Len(log) /\ end \in Position
      /\ Len(log) \in Nat /\ Len(log) <= MaxRecords /\ MaxRecords \in Nat
  BY LengthOfFile DEF Filed, Position
<1>2. PICK k, n \in Nat :
        /\ RecordsFrom(f, f.offset) = Run(k, n)
        /\ n > 0 => k + n <= Len(log)
        /\ \A i \in Nat : f.offset + 1 < 2 * i /\ 2 * i <= end => i \in k + 1 .. k + n
  BY <1>0, RecordsAre
<1>3. /\ Assembling(r)
      /\ \A s \in Streams : \A j \in f.part[s] : Held(r, s, j)
      /\ \A j \in k + 1 .. k + n : log[j].stream # "none" => Held(r, log[j].stream, j)
  <2>1. r = Pushed(Run(k, n), f.part)
    BY <1>2
  <2>q. QED
    BY <1>0, <1>2, <2>1, PushesAll
<1>4. /\ g \in Follower /\ g.stage = "poll" /\ g.kind = "logs" /\ g.here = f.here
      /\ g.limit = f.limit /\ g.start = f.start /\ g.shown = f.shown /\ g.told = f.told
      /\ g.part = r.part /\ g.offset = end /\ g.batch = r.frames
      /\ (g.split <=> f.split \/ end % 2 = 1)
  BY <1>0, <1>1, <1>3 DEF Follower, Assembling
<1> HIDE DEF g
<1>5. f.shown \subseteq Bound(g) /\ \A m \in DOMAIN r.frames : r.frames[m].halves \subseteq Bound(g)
  <2>1. \A m \in DOMAIN r.frames : r.frames[m].halves \subseteq UNION {b.halves : b \in ToSet(r.frames)}
    BY InBatch
  <2>q. QED
    BY <1>4, <2>1 DEF Bound
<1>6. ~g.split => ~f.split /\ f.start % 2 = 0 /\ f.offset % 2 = 0 /\ end % 2 = 0
  <2>1. end % 2 \in {0, 1}
    BY <1>1
  <2>q. QED
    BY <1>4, <2>1 DEF Follows, Between
<1>7. Between(g)
  BY <1>4, <1>6 DEF Between, OfEvents
<1>8. Lines(g)
  <2>1. SUFFICES ASSUME g.here, ~g.split, NEW i \in Index, f.start < 2 * i, 2 * i <= end,
                        log[i].stream # "none"
                 PROVE  Halves(i) \subseteq Bound(g) \/ i \in g.part[log[i].stream]
    BY <1>4 DEF Lines
  <2>2. i \in Nat /\ i \in 1 .. Len(log) /\ log[i].stream \in Streams
    <3>1. i \in Nat /\ i \in 1 .. Len(log)
      BY <1>1, <2>1 DEF Index
    <3>q. QED
      BY <2>1, <3>1, FollowersAssumption DEF Filed, Record, Streams
  <2>3. CASE 2 * i <= f.offset
    <3>1. Halves(i) \subseteq f.shown \/ i \in f.part[log[i].stream]
      <4>1. Bound(f) = f.shown
        BY Idle
      <4>q. QED
        BY <1>4, <1>6, <2>1, <2>3, <4>1 DEF Follows, Lines
    <3>2. CASE i \in f.part[log[i].stream]
      <4>1. Held(r, log[i].stream, i)
        BY <1>3, <2>2, <3>2
      <4>q. QED
        BY <1>4, <1>5, <4>1 DEF Held
    <3>q. QED
      BY <1>5, <3>1, <3>2
  <2>4. CASE ~(2 * i <= f.offset)
    <3>1. f.offset + 1 < 2 * i
      <4>1. PICK z \in Nat : f.offset = 2 * z
        BY <1>0, <1>6, <2>1, Evenly
      <4>q. QED
        BY <2>2, <2>4, <4>1
    <3>2. Held(r, log[i].stream, i)
      BY <1>2, <1>3, <2>1, <2>2, <3>1
    <3>q. QED
      BY <1>4, <1>5, <3>2 DEF Held
  <2>q. QED
    BY <2>3, <2>4
<1>9. Raw(g) /\ ~OfEvents(f)
  BY <1>4 DEF Raw, OfEvents
<1>10. \A m \in DOMAIN g.batch : g.batch[m].type # "event" /\ g.batch[m].dropped = {}
  BY <1>3, <1>4 DEF Assembling
<1>11. Follows(g)
  BY <1>1, <1>4, <1>7, <1>8, <1>9, <1>10, Speaks
<1>q. QED
  BY <1>11 DEF g

\* The unfinished lines are flushed, each in a frame of its own.
LEMMA FlushesAll ==
  ASSUME NEW part \in [Streams -> SUBSET Index], NEW b, b = Flushed(part)
  PROVE  /\ b \in Seq(Frame)
         /\ \A m \in DOMAIN b : /\ b[m].type # "event" /\ b[m].dropped = {}
                                /\ \E s \in Streams : b[m] = LineFrame(part[s], 0)
         /\ \A s \in Streams : part[s] # {} => \E m \in DOMAIN b : b[m] = LineFrame(part[s], 0)
<1> DEFINE S == {s \in Streams : part[s] # {}}
           n == Cardinality(S)
           x == part["stdout"]
           y == part["stderr"]
           lines == [m \in 1 .. n |-> LineFrame(IF m = 1 /\ x # {} THEN x ELSE y, 0)]
<1>1. b = lines
  BY DEF Flushed
<1>2. \A s \in Streams : LET w == LineFrame(part[s], 0) IN w \in Frame /\ w.type # "event" /\ w.dropped = {}
  <2>1. 0 \in Position
    BY FollowersAssumption DEF Position
  <2>q. QED
    BY <2>1, LineFrameIs
<1>3. "stdout" \in Streams /\ "stderr" \in Streams /\ \A s \in Streams : s = "stdout" \/ s = "stderr"
  BY DEF Streams
<1>4. \/ n = 0 /\ x = {} /\ y = {}
      \/ n = 1 /\ x # {} /\ y = {}
      \/ n = 1 /\ x = {} /\ y # {}
      \/ n = 2 /\ x # {} /\ y # {}
  <2>1. CASE part["stdout"] = {} /\ part["stderr"] = {}
    <3>1. S = {}
      BY <1>3, <2>1
    <3>q. QED
      BY <2>1, <3>1, FS_EmptySet
  <2>2. CASE part["stdout"] # {} /\ part["stderr"] = {}
    <3>1. S = {"stdout"}
      BY <1>3, <2>2
    <3>2. Cardinality({"stdout"}) = 1
      BY FS_Singleton
    <3>q. QED
      BY <2>2, <3>1, <3>2
  <2>3. CASE part["stdout"] = {} /\ part["stderr"] # {}
    <3>1. S = {"stderr"}
      BY <1>3, <2>3
    <3>2. Cardinality({"stderr"}) = 1
      BY FS_Singleton
    <3>q. QED
      BY <2>3, <3>1, <3>2
  <2>4. CASE part["stdout"] # {} /\ part["stderr"] # {}
    <3>1. S = {"stdout"} \cup {"stderr"}
      BY <1>3, <2>4
    <3>2. IsFiniteSet({"stdout"}) /\ Cardinality({"stdout"}) = 1
      BY FS_Singleton
    <3>3. "stderr" \notin {"stdout"}
      OBVIOUS
    <3>4. Cardinality({"stdout"} \cup {"stderr"}) = 2
      BY <3>2, <3>3, FS_AddElement
    <3>q. QED
      BY <2>4, <3>1, <3>4
  <2>q. QED
    BY <2>1, <2>2, <2>3, <2>4
<1>5. x = part["stdout"] /\ y = part["stderr"]
  OBVIOUS
<1> HIDE DEF S, n, x, y
<1>6. n \in Nat /\ DOMAIN lines = 1 .. n /\ lines = [m \in 1 .. n |-> lines[m]]
  BY <1>4
<1>7. \A m \in 1 .. n : \/ x # {} /\ m = 1 /\ lines[m] = LineFrame(x, 0)
                        \/ ~(x # {} /\ m = 1) /\ lines[m] = LineFrame(y, 0)
  OBVIOUS
<1> HIDE DEF lines
<1>8. \A m \in DOMAIN lines : \E s \in Streams : lines[m] = LineFrame(part[s], 0)
  BY <1>3, <1>5, <1>6, <1>7
<1>9. lines \in Seq(Frame)
  <2>1. \A m \in 1 .. n : lines[m] \in Frame
    BY <1>2, <1>6, <1>8
  <2>q. QED
    BY <1>6, <2>1
<1>10. x # {} => \E m \in DOMAIN lines : lines[m] = LineFrame(x, 0)
  <2>1. x # {} => 1 \in 1 .. n
    BY <1>4
  <2>q. QED
    BY <1>6, <1>7, <2>1
<1>11. y # {} => \E m \in DOMAIN lines : lines[m] = LineFrame(y, 0)
  <2>1. CASE x = {} /\ n = 1
    <3>1. 1 \in 1 .. n
      BY <2>1
    <3>q. QED
      BY <1>6, <1>7, <2>1, <3>1
  <2>2. CASE n = 2
    <3>1. 2 \in 1 .. n /\ 2 # 1
      BY <2>2
    <3>q. QED
      BY <1>6, <1>7, <3>1
  <2>q. QED
    BY <1>4, <2>1, <2>2
<1>12. \A s \in Streams : part[s] # {} => \E m \in DOMAIN lines : lines[m] = LineFrame(part[s], 0)
  BY <1>3, <1>5, <1>10, <1>11
<1>q. QED
  BY <1>1, <1>2, <1>8, <1>9, <1>12

\* Check, when the session is over.
LEMMA Closes ==
  ASSUME Filed, NEW f, Follows(f), f.stage = "check"
  PROVE  Follows([f EXCEPT !.stage = "ending", !.part = [s \in Streams |-> {}],
                           !.batch = Flushed(f.part) \o <<Plain("closed", f.offset)>>])
<1> DEFINE lines == Flushed(f.part)
           z == Plain("closed", f.offset)
           b == lines \o <<z>>
           g == [f EXCEPT !.stage = "ending", !.part = [s \in Streams |-> {}], !.batch = b]
<1>0. /\ f \in Follower /\ f.batch = <<>> /\ f.offset \in Position /\ f.offset <= 2 * Len(log)
      /\ f.part \in [Streams -> SUBSET Index]
  BY DEF Follows, Starting, Follower
<1>1. /\ lines \in Seq(Frame)
      /\ \A m \in DOMAIN lines : /\ lines[m].type # "event" /\ lines[m].dropped = {}
                                 /\ \E s \in Streams : lines[m] = LineFrame(f.part[s], 0)
      /\ \A s \in Streams : f.part[s] # {} => \E m \in DOMAIN lines : lines[m] = LineFrame(f.part[s], 0)
  <2>1. lines = Flushed(f.part)
    OBVIOUS
  <2> HIDE DEF lines
  <2>q. QED
    BY <1>0, <2>1, FlushesAll
<1> HIDE DEF lines
<1>2. z \in Frame /\ z.type # "event" /\ z.dropped = {} /\ z.halves = {}
  BY <1>0, PlainIs
<1> HIDE DEF z
<1>3. b = Append(lines, z)
  <2>1. \A x \in Seq(Frame) : \A y \in Frame : x \o <<y>> = Append(x, y)
    OBVIOUS
  <2>q. QED
    BY <1>1, <1>2, <2>1
<1> HIDE DEF b
<1>4. /\ b \in Seq(Frame)
      /\ \A m \in DOMAIN lines : m \in DOMAIN b /\ b[m] = lines[m]
      /\ \A m \in DOMAIN b : (m \in DOMAIN lines /\ b[m] = lines[m]) \/ b[m] = z
  BY <1>1, <1>2, <1>3, AppendsFrame DEF Longer
<1>5. /\ g \in Follower /\ g.stage = "ending" /\ g.kind = f.kind /\ g.here = f.here
      /\ g.limit = f.limit /\ g.start = f.start /\ g.shown = f.shown /\ g.told = f.told
      /\ g.part = [s \in Streams |-> {}] /\ g.offset = f.offset /\ g.batch = b /\ g.split = f.split
  <2>1. [s \in Streams |-> {}] \in [Streams -> SUBSET Index]
    OBVIOUS
  <2>q. QED
    BY <1>0, <1>4, <2>1 DEF Follower
<1> HIDE DEF g
<1>6. \A m \in DOMAIN g.batch : g.batch[m].type # "event" /\ g.batch[m].dropped = {}
  BY <1>1, <1>2, <1>4, <1>5
<1>7. f.kind # "logs" => g.part = f.part
  BY <1>5 DEF Follows, Starting
<1>8. ASSUME OfEvents(f), NEW m \in DOMAIN g.batch PROVE g.batch[m].halves = {}
  <2>1. f.part = [s \in Streams |-> {}]
    BY <1>5, <1>7, <1>8 DEF OfEvents
  <2>2. \A s \in Streams : LineFrame(f.part[s], 0).halves = {}
    <3>1. 0 \in Position
      BY FollowersAssumption DEF Position
    <3>2. ASSUME NEW s \in Streams PROVE LineFrame(f.part[s], 0).halves = UNION {Halves(i) : i \in f.part[s]}
      BY <1>0, <3>1, LineFrameIs
    <3>q. QED
      BY <2>1, <3>2
  <2>3. \A j \in DOMAIN lines : lines[j].halves = {}
    BY <1>1, <2>2
  <2>4. m \in DOMAIN b
    BY <1>5, <1>8
  <2>5. b[m].halves = {}
    BY <1>2, <1>4, <2>3, <2>4
  <2>q. QED
    BY <1>5, <2>5
<1>9. Bound(f) = f.shown
  BY <1>0, Idle
<1>10. f.shown \subseteq Bound(g) /\ \A m \in DOMAIN b : b[m].halves \subseteq Bound(g)
  <2>1. \A m \in DOMAIN b : b[m].halves \subseteq UNION {x.halves : x \in ToSet(b)}
    BY InBatch
  <2>q. QED
    BY <1>5, <2>1 DEF Bound
<1>11. Raw(g)
  BY <1>5, <1>9, <1>10 DEF Follows, Raw
<1>12. Lines(g)
  <2>1. SUFFICES ASSUME f.here, f.kind = "logs", ~f.split, NEW i \in Index,
                        f.start < 2 * i, 2 * i <= f.offset, log[i].stream # "none"
                 PROVE  Halves(i) \subseteq Bound(g)
    BY <1>5 DEF Lines
  <2>2. Halves(i) \subseteq f.shown \/ i \in f.part[log[i].stream]
    BY <1>9, <2>1 DEF Follows, Lines
  <2>3. CASE i \in f.part[log[i].stream]
    <3> DEFINE s == log[i].stream
    <3>1. s \in Streams
      <4>1. i \in 1 .. Len(log)
        BY <1>0, <2>1, LengthOfFile, FollowersAssumption DEF Index, Position
      <4>q. QED
        BY <2>1, <4>1, FollowersAssumption DEF Filed, Record, Streams
    <3> HIDE DEF s
    <3>2. PICK m \in DOMAIN lines : lines[m] = LineFrame(f.part[s], 0)
      BY <1>1, <2>3, <3>1 DEF s
    <3>3. LineFrame(f.part[s], 0).halves = UNION {Halves(j) : j \in f.part[s]}
      <4>1. 0 \in Position
        BY FollowersAssumption DEF Position
      <4>q. QED
        BY <1>0, <3>1, <4>1, LineFrameIs
    <3>4. i \in f.part[s]
      BY <2>3 DEF s
    <3>5. Halves(i) \subseteq b[m].halves /\ m \in DOMAIN b
      BY <1>4, <3>2, <3>3, <3>4
    <3>q. QED
      BY <1>10, <3>5
  <2>q. QED
    BY <1>10, <2>2, <2>3
<1>13. g.kind \in {"logs", "pty"} => Between(g)
  BY <1>5 DEF Follows, Between, OfEvents
<1>14. Follows(g)
  BY <1>0, <1>5, <1>6, <1>7, <1>8, <1>11, <1>12, <1>13, Speaks
<1>q. QED
  BY <1>14 DEF g, b, z, lines

Followed ==
  /\ FollowersTypeOK /\ (torn => Len(log) > 0)
  /\ \A c \in Followers : Follows(flw[c])

\* No follower has started.
LEMMA FollowedInit == FollowersInit => Followed
<1> SUFFICES ASSUME FollowersInit PROVE Followed
  OBVIOUS
<1> DEFINE f == NewFollower
<1>1. f \in Follower
  <2>1. 0 \in Position /\ <<>> \in Seq(Frame) /\ [s \in Streams |-> {}] \in [Streams -> SUBSET Index]
    BY FollowersAssumption DEF Position
  <2>q. QED
    BY <2>1 DEF NewFollower, Follower, Kinds
<1>2. /\ f.stage = "new" /\ f.kind = "events" /\ f.start = 0 /\ f.offset = 0 /\ f.batch = <<>>
      /\ f.part = [s \in Streams |-> {}] /\ f.shown = {} /\ f.told = {} /\ ~f.split /\ f.limit = 0
  BY DEF NewFollower
<1> HIDE DEF f
<1>3. Starting(f) /\ Ordered(f)
  BY <1>2 DEF Starting, Ordered
<1>4. Bound(f) = {} /\ Noticed(f) = {} /\ Reached(f) = {0}
  BY <1>2, Idle
<1>5. Complete(f) /\ LeftOut(f) /\ Between(f) /\ Raw(f) /\ Lines(f)
  BY <1>2, <1>4, FollowersAssumption DEF Complete, LeftOut, Between, Raw, Lines, Index, OfEvents
<1>6. Len(log) = 0 /\ log \in Seq(Records)
  BY DEF FollowersInit
<1>7. Follows(f)
  BY <1>1, <1>2, <1>3, <1>5, <1>6 DEF Follows
<1>8. \A c \in Followers : flw[c] = f
  BY DEF FollowersInit, f
<1>9. FollowersTypeOK
  <2>1. Len(log) <= MaxRecords /\ torn = FALSE /\ session = [over |-> FALSE, place |-> "sessions"]
    BY <1>6, FollowersAssumption DEF FollowersInit
  <2>2. flw \in [Followers -> Follower]
    BY <1>1 DEF FollowersInit, f
  <2>q. QED
    BY <1>6, <2>1, <2>2 DEF FollowersTypeOK
<1>q. QED
  BY <1>7, <1>8, <1>9 DEF Followed, FollowersInit

\* What the lemmas on reading assume of the file.
LEMMA FiledIs ==
  ASSUME Followed
  PROVE  Filed
BY DEF Followed, FollowersTypeOK, Filed

\* One follower's step, and no record's.
LEMMA Steps ==
  ASSUME Followed, NEW c \in Followers, NEW f, Becomes(c, f), UNCHANGED logVars, Follows(f)
  PROVE  Followed'
<1>1. f \in Follower
  BY DEF Follows
<1>2. flw' = [flw EXCEPT ![c] = f]
  BY DEF Becomes
<1>3. UNCHANGED <<log, torn, session>>
  BY DEF logVars
<1>4. ASSUME NEW g, Follows(g) PROVE Follows(g)'
  BY <1>3, <1>4 DEF Follows, Starting, Ordered, Complete, LeftOut, Between, Raw, Lines
<1>5. FollowersTypeOK' /\ (torn => Len(log) > 0)'
  BY <1>1, <1>2, <1>3 DEF Followed, FollowersTypeOK
<1>6. ASSUME NEW d \in Followers PROVE Follows(flw[d])'
  <2>1. flw'[d] = f \/ flw'[d] = flw[d]
    BY <1>2 DEF Followed, FollowersTypeOK
  <2>2. Follows(f)' /\ \A g : g = flw[d] => Follows(g)'
    BY <1>4 DEF Followed
  <2>q. QED
    BY <2>1, <2>2
<1>q. QED
  BY <1>5, <1>6 DEF Followed

\* Records are only appended, so that what was read stays as it was.
LEMMA SessionKeeps ==
  ASSUME Followed, SessionNext
  PROVE  Followed'
<1>0. /\ log \in Seq(Records) /\ Len(log) \in Nat /\ Len(log) <= MaxRecords
      /\ flw' = flw /\ flw \in [Followers -> Follower]
  BY DEF Followed, FollowersTypeOK, SessionNext, BeginAppend, FinishAppend, EndSession, RemoveSession
<1>1. log' = log \/ \E r \in Records : log' = Append(log, r) /\ Len(log) < MaxRecords
  BY DEF SessionNext, BeginAppend, FinishAppend, EndSession, RemoveSession
<1>2. /\ log' \in Seq(Records) /\ Len(log') \in Nat /\ Len(log) <= Len(log') /\ Len(log') <= MaxRecords
      /\ \A i \in 1 .. Len(log) : log'[i] = log[i]
  <2>1. CASE log' = log
    BY <1>0, <2>1
  <2>2. CASE \E r \in Records : log' = Append(log, r) /\ Len(log) < MaxRecords
    <3>1. PICK r \in Records : log' = Append(log, r) /\ Len(log) < MaxRecords
      BY <2>2
    <3>2. /\ Append(log, r) \in Seq(Records) /\ Len(Append(log, r)) = Len(log) + 1
          /\ \A i \in 1 .. Len(log) : Append(log, r)[i] = log[i]
      BY <1>0, AppendProperties
    <3>q. QED
      BY <1>0, <3>1, <3>2, FollowersAssumption
  <2>q. QED
    BY <1>1, <2>1, <2>2
<1>3. ASSUME NEW f, Follows(f) PROVE Follows(f)'
  <2>0. f \in Follower /\ f.offset \in Nat /\ f.offset <= 2 * Len(log)
    BY <1>3, FollowersAssumption DEF Follows, Follower, Position
  <2>1. Starting(f)' /\ Complete(f)' /\ LeftOut(f)' /\ Between(f)' /\ Raw(f)'
    BY <1>3 DEF Follows, Starting, Complete, LeftOut, Between, Raw
  <2>2. Ordered(f)'
    <3>1. 1 .. Len(log) \subseteq 1 .. Len(log')
      BY <1>0, <1>2
    <3>q. QED
      BY <1>3, <3>1 DEF Follows, Ordered
  <2>3. Lines(f)'
    <3>1. \A i \in Index : 2 * i <= f.offset => log'[i] = log[i]
      <4>1. ASSUME NEW i \in Index, 2 * i <= f.offset PROVE i \in 1 .. Len(log)
        BY <1>0, <2>0, <4>1, FollowersAssumption DEF Index
      <4>q. QED
        BY <1>2, <4>1
    <3>q. QED
      BY <1>3, <3>1 DEF Follows, Lines
  <2>4. f.offset <= 2 * Len(log')
    BY <1>0, <1>2, <2>0
  <2>q. QED
    BY <2>0, <2>1, <2>2, <2>3, <2>4 DEF Follows
<1>4. torn' \in BOOLEAN /\ (torn' => Len(log') > 0)
  <2>1. CASE BeginAppend
    <3>1. PICK r \in Records : log' = Append(log, r)
      BY <2>1 DEF BeginAppend
    <3>2. Len(Append(log, r)) = Len(log) + 1
      BY <1>0, AppendProperties
    <3>q. QED
      BY <1>0, <2>1, <3>1, <3>2 DEF BeginAppend
  <2>2. CASE ~BeginAppend
    <3>1. log' = log /\ torn' \in {torn, FALSE}
      BY <2>2 DEF SessionNext, FinishAppend, EndSession, RemoveSession
    <3>2. torn \in BOOLEAN /\ (torn => Len(log) > 0)
      BY DEF Followed, FollowersTypeOK
    <3>3. CASE torn' = FALSE
      BY <3>3
    <3>4. CASE torn' = torn
      BY <3>1, <3>2, <3>4
    <3>q. QED
      BY <3>1, <3>3, <3>4
  <2>q. QED
    BY <2>1, <2>2
<1>5. session' \in [over : BOOLEAN, place : {"sessions", "archive", "purged"}]
  BY DEF Followed, FollowersTypeOK, SessionNext, BeginAppend, FinishAppend, EndSession, RemoveSession
<1>6. ASSUME NEW c \in Followers PROVE Follows(flw[c])'
  <2>1. \A g : g = flw[c] => Follows(g)'
    BY <1>3 DEF Followed
  <2>q. QED
    BY <1>0, <2>1
<1>q. QED
  BY <1>0, <1>2, <1>4, <1>5, <1>6 DEF Followed, FollowersTypeOK

\* Resolve, to a directory that is there or to the end of the task.
LEMMA ResolveKeeps ==
  ASSUME Followed, NEW c \in Followers, NEW kind \in Kinds, Resolve(c, kind)
  PROVE  Followed'
<1>0. Follows(flw[c]) /\ flw[c].stage = "new" /\ UNCHANGED logVars
  BY DEF Followed, Resolve, Goes
<1>1. CASE session.place = "purged"
  <2>1. Follows([flw[c] EXCEPT !.stage = "done"])
    BY <1>0, ToStage
  <2>q. QED
    BY <1>0, <1>1, <2>1, Steps DEF Resolve
<1>2. CASE session.place # "purged"
  <2>1. session.place \in {"sessions", "archive"}
    BY <1>2 DEF Followed, FollowersTypeOK
  <2>2. Follows([flw[c] EXCEPT !.stage = "answered", !.kind = kind, !.path = session.place])
    BY <1>0, <2>1, Answers
  <2>q. QED
    BY <1>0, <1>2, <2>2, Steps DEF Resolve
<1>q. QED
  BY <1>1, <1>2

\* The first read: at the end of the file, or a replay.
LEMMA StartKeeps ==
  ASSUME Followed, NEW c \in Followers,
         StartAtEnd(c) \/ \E n \in 0 .. MaxRecords, limit \in ReplayLimits : Replay(c, 2 * n, limit)
  PROVE  Followed'
<1> DEFINE f == flw[c]
<1>0. Filed /\ Follows(f) /\ file_len(f) \in Nat /\ file_len(f) <= 2 * Len(log)
  BY FiledIs, LengthOfFile DEF Followed
<1>1. CASE StartAtEnd(c)
  <2>1. f.stage = "answered" /\ f.kind # "subscribe" /\ UNCHANGED logVars
    BY <1>1 DEF StartAtEnd, Goes
  <2>2. Follows([f EXCEPT !.stage = "poll", !.start = file_len(f), !.offset = file_len(f),
                          !.split = (file_len(f) % 2 = 1)])
    BY <1>0, <2>1, StartsAtEnd
  <2>q. QED
    BY <1>1, <2>1, <2>2, Steps DEF StartAtEnd
<1>2. ASSUME NEW n \in 0 .. MaxRecords, NEW limit \in ReplayLimits, Replay(c, 2 * n, limit)
      PROVE  Followed'
  <2> DEFINE cursor == 2 * n
             recs == Skipped(RecordsFrom(f, cursor), limit)
             last == IF recs.kept = <<>> THEN cursor ELSE 2 * recs.kept[Len(recs.kept)]
  <2>1. f.stage = "answered" /\ f.kind = "subscribe" /\ UNCHANGED logVars
    BY <1>2 DEF Replay, Goes
  <2>2. CASE cursor > file_len(f)
    <3>1. Becomes(c, [f EXCEPT !.stage = "ending", !.batch = <<Plain("error", 0), Plain("closed", 0)>>])
      BY <1>2, <2>2 DEF Replay
    <3>2. Follows([f EXCEPT !.stage = "ending", !.batch = <<Plain("error", 0), Plain("closed", 0)>>])
      BY <1>0, <2>1, Refuses
    <3>q. QED
      BY <2>1, <3>1, <3>2, Steps
  <2>3. CASE ~(cursor > file_len(f))
    <3> DEFINE g == [f EXCEPT !.stage = "poll", !.limit = limit, !.start = cursor, !.offset = last,
                              !.batch = <<Plain("ack", cursor)>> \o LagFrames(recs.dropped, last)
                                        \o EventFrames(recs.kept)]
    <3>1. Becomes(c, g)
      BY <1>2, <2>3 DEF Replay
    <3>2. Follows(g)
      <4>1. n \in Nat /\ cursor = 2 * n /\ cursor <= file_len(f)
        <5>1. n \in Nat
          BY FollowersAssumption
        <5>q. QED
          BY <1>0, <2>3, <5>1
      <4>2. recs = Skipped(RecordsFrom(f, cursor), limit)
        OBVIOUS
      <4>3. last = IF recs.kept = <<>> THEN cursor ELSE 2 * recs.kept[Len(recs.kept)]
        OBVIOUS
      <4>4. limit \in ReplayLimits
        BY <1>2
      <4> HIDE DEF cursor, recs, last, f
      <4>q. QED
        BY <1>0, <2>1, <4>1, <4>2, <4>3, <4>4, Replays, ZenonT(60)
    <3> HIDE DEF g
    <3>q. QED
      BY <2>1, <3>1, <3>2, Steps
  <2>q. QED
    BY <2>2, <2>3
<1>q. QED
  BY <1>1, <1>2

\* A poll of either kind.
LEMMA PollKeeps ==
  ASSUME Followed, NEW c \in Followers, PollEvents(c) \/ PollLogs(c) \/ PollPty(c)
  PROVE  Followed'
<1> DEFINE f == flw[c]
<1>0. Filed /\ Follows(f) /\ file_len(f) \in Nat /\ f.offset \in Nat
  <2>1. Filed /\ Follows(f)
    BY FiledIs DEF Followed
  <2>2. f.offset \in Position
    BY <2>1 DEF Follows, Follower
  <2>q. QED
    BY <2>1, <2>2, LengthOfFile, FollowersAssumption DEF Position
<1>1. f.stage = "poll" /\ f.batch = <<>> /\ UNCHANGED logVars
  BY DEF PollEvents, PollLogs, PollPty, Goes
<1>2. Follows([f EXCEPT !.stage = "check"])
  BY <1>0, <1>1, ToStage
<1>3. ASSUME Becomes(c, [f EXCEPT !.stage = "check"]) PROVE Followed'
  BY <1>1, <1>2, <1>3, Steps
<1>4. CASE PollEvents(c)
  <2> DEFINE all == RecordsFrom(f, f.offset)
             recs == IF f.kind = "subscribe" THEN Skipped(all, QueueLimit)
                     ELSE [dropped |-> <<>>, kept |-> all]
             g == [f EXCEPT !.batch = LagFrames(recs.dropped, f.offset) \o EventFrames(recs.kept)]
  <2>1. Becomes(c, [f EXCEPT !.stage = "check"]) \/ Becomes(c, g)
    BY <1>4 DEF PollEvents
  <2>2. OfEvents(f)
    BY <1>4 DEF PollEvents, OfEvents
  <2>3. Follows(g)
    <3>1. all = RecordsFrom(f, f.offset)
      OBVIOUS
    <3>2. recs = IF f.kind = "subscribe" THEN Skipped(all, QueueLimit) ELSE [dropped |-> <<>>, kept |-> all]
      OBVIOUS
    <3> HIDE DEF all, recs
    <3>q. QED
      BY <1>0, <1>1, <2>2, <3>1, <3>2, PollsEvents
  <2> HIDE DEF g
  <2>q. QED
    BY <1>1, <1>3, <2>1, <2>3, Steps
<1>5. CASE PollLogs(c)
  <2> DEFINE end == file_len(f)
             r == Pushed(RecordsFrom(f, f.offset), f.part)
             g == [f EXCEPT !.offset = end, !.batch = r.frames, !.part = r.part,
                            !.split = @ \/ end % 2 = 1]
  <2>1. \/ Becomes(c, [f EXCEPT !.stage = "check"])
        \/ f.offset < end /\ Becomes(c, g)
    BY <1>0, <1>5 DEF PollLogs
  <2>2. f.kind = "logs"
    BY <1>5 DEF PollLogs
  <2>3. f.offset < end => Follows(g)
    <3>1. end = file_len(f) /\ r = Pushed(RecordsFrom(f, f.offset), f.part)
      OBVIOUS
    <3> HIDE DEF end, r
    <3>q. QED
      BY <1>0, <1>1, <2>2, <3>1, PollsLogs
  <2> HIDE DEF g
  <2>q. QED
    BY <1>1, <1>3, <2>1, <2>3, Steps
<1>6. CASE PollPty(c)
  <2> DEFINE end == file_len(f)
             g == [f EXCEPT !.offset = end,
                            !.batch = <<[Plain("line", end) EXCEPT !.halves = f.offset + 1 .. end]>>]
  <2>1. \/ Becomes(c, [f EXCEPT !.stage = "check"])
        \/ f.offset < end /\ Becomes(c, g)
    BY <1>0, <1>6 DEF PollPty
  <2>2. f.kind = "pty"
    BY <1>6 DEF PollPty
  <2>3. f.offset < end => Follows(g)
    <3>1. end = file_len(f)
      OBVIOUS
    <3> HIDE DEF end
    <3>q. QED
      BY <1>0, <1>1, <2>2, <3>1, PollsOutput
  <2> HIDE DEF g
  <2>q. QED
    BY <1>1, <1>3, <2>1, <2>3, Steps
<1>q. QED
  BY <1>4, <1>5, <1>6

\* What else a task does.
LEMMA TaskGoesOn ==
  ASSUME Followed, NEW c \in Followers,
         Check(c) \/ Heartbeat(c) \/ WriteFrame(c) \/ WriteFails(c) \/ ClientLeaves(c)
  PROVE  Followed'
<1> DEFINE f == flw[c]
<1>0. Filed /\ Follows(f)
  BY FiledIs DEF Followed
<1>1. UNCHANGED logVars
  BY DEF Check, Heartbeat, WriteFrame, WriteFails, ClientLeaves, Goes
<1>2. CASE Check(c)
  <2>1. f.stage = "check"
    BY <1>2 DEF Check, Goes
  <2>2. Follows([f EXCEPT !.stage = "ending", !.part = [s \in Streams |-> {}],
                          !.batch = Flushed(f.part) \o <<Plain("closed", f.offset)>>])
    BY <1>0, <2>1, Closes
  <2>3. Follows([f EXCEPT !.stage = "poll"])
    BY <1>0, ToStage
  <2>q. QED
    BY <1>1, <1>2, <2>2, <2>3, Steps DEF Check
<1>3. CASE Heartbeat(c)
  <2>1. f.stage = "check" /\ f.kind = "subscribe"
    BY <1>3 DEF Heartbeat, Goes
  <2>2. Follows([f EXCEPT !.stage = "poll", !.batch = <<Plain("heartbeat", f.offset)>>])
    BY <1>0, <2>1, Beats
  <2>q. QED
    BY <1>1, <1>3, <2>2, Steps DEF Heartbeat
<1>4. CASE WriteFrame(c)
  <2>1. Follows(Written(f))
    BY <1>0, <1>4, Writes DEF WriteFrame
  <2>q. QED
    BY <1>1, <1>4, <2>1, Steps DEF WriteFrame
<1>5. CASE WriteFails(c)
  <2> DEFINE n == IF Head(f.batch).type = "event" THEN Head(f.batch).cursor ELSE f.offset
             s == IF f.kind = "subscribe" \/ f.stage = "ending" THEN "done" ELSE f.stage
             g == [f EXCEPT !.batch = <<>>, !.offset = n, !.stage = s]
  <2>1. Becomes(c, g) /\ f.batch # <<>> /\ ~f.here
    BY <1>5 DEF WriteFails
  <2>2. s \in {f.stage, "done"}
    OBVIOUS
  <2>3. n = IF Head(f.batch).type = "event" THEN Head(f.batch).cursor ELSE f.offset
    OBVIOUS
  <2>4. Follows(g)
    <3> HIDE DEF n, s
    <3>q. QED
      BY <1>0, <2>1, <2>2, <2>3, GivesUp
  <2> HIDE DEF g
  <2>q. QED
    BY <1>1, <2>1, <2>4, Steps
<1>6. CASE ClientLeaves(c)
  <2>1. Follows([f EXCEPT !.here = FALSE])
    BY <1>0, Leaves
  <2>q. QED
    BY <1>1, <1>6, <2>1, Steps DEF ClientLeaves
<1>q. QED
  BY <1>2, <1>3, <1>4, <1>5, <1>6

\* Each step of the host keeps what every follower has promised.
LEMMA FollowedNext == Followed /\ [Next]_allVars => Followed'
<1> SUFFICES ASSUME Followed, [Next]_allVars PROVE Followed'
  OBVIOUS
<1>1. CASE UNCHANGED vars
  <2>1. UNCHANGED <<log, torn, session, flw>>
    BY <1>1 DEF vars
  <2>2. ASSUME NEW f, Follows(f) PROVE Follows(f)'
    BY <2>1, <2>2 DEF Follows, Starting, Ordered, Complete, LeftOut, Between, Raw, Lines
  <2>3. ASSUME NEW c \in Followers PROVE Follows(flw[c])'
    <3>1. \A f : f = flw[c] => Follows(f)'
      BY <2>2 DEF Followed
    <3>q. QED
      BY <2>1, <3>1
  <2>4. (FollowersTypeOK /\ (torn => Len(log) > 0))'
    BY <2>1 DEF Followed, FollowersTypeOK
  <2>q. QED
    BY <2>3, <2>4 DEF Followed
<1>2. CASE SessionNext
  BY <1>2, SessionKeeps
<1>3. ASSUME NEW c \in Followers, BecomesFollower(c) PROVE Followed'
  BY <1>3, ResolveKeeps DEF BecomesFollower
<1>4. ASSUME NEW c \in Followers, FollowerStep(c) \/ ClientLeaves(c) PROVE Followed'
  BY <1>4, StartKeeps, PollKeeps, TaskGoesOn DEF FollowerStep
<1>q. QED
  BY <1>1, <1>2, <1>3, <1>4 DEF Next, BecomesAttach, allVars, vars

LEMMA FollowersAlways == Spec => []Followed
<1>1. Init => Followed
  BY FollowedInit DEF Init
<1>q. QED
  BY <1>1, FollowedNext, PTL DEF Spec

\* For any records, bounds and limits: whatever the offset of events.subscribe has passed was
\* sent, is about to be, or is counted in a lag notice (write_event_batch), and what a notice
\* counted is not sent after all, unless the replay limit is 0.
THEOREM SubscriptionsComplete == Spec => []SubscriptionHasNoGap
<1>1. Followed => SubscriptionHasNoGap
  <2> SUFFICES ASSUME Followed, NEW c \in Followers, flw[c].kind = "subscribe", flw[c].here
               PROVE  LET f == flw[c]
                          due == UNION {b.dropped : b \in ToSet(f.batch)}
                          halves == f.shown \cup UNION {b.halves : b \in ToSet(f.batch)}
                      IN  /\ \A i \in Index : f.start < 2 * i /\ 2 * i <= f.offset
                                              => i \in f.told \cup due \/ Halves(i) \subseteq halves
                          /\ f.limit > 0 => \A i \in f.told : ~Recorded(f, i)
    BY DEF SubscriptionHasNoGap
  <2> DEFINE f == flw[c]
  <2>1. Follows(f)
    BY DEF Followed
  <2>2. f.start \in Nat /\ f.start % 2 = 0 /\ f.offset \in Reached(f) /\ OfEvents(f)
    BY <2>1, FollowersAssumption DEF Follows, Follower, Position, Between, Reached, OfEvents
  <2>3. ASSUME NEW i \in Index, f.start < 2 * i, 2 * i <= f.offset
        PROVE  i \in Noticed(f) \/ Halves(i) \subseteq Bound(f)
    <3>1. f.start + 1 < 2 * i
      <4>1. PICK z \in Nat : f.start = 2 * z
        BY <2>2, Evenly
      <4>2. i \in Nat
        BY FollowersAssumption DEF Index
      <4>q. QED
        BY <2>3, <4>1, <4>2
    <3>q. QED
      BY <2>1, <2>2, <2>3, <3>1 DEF Follows, Complete
  <2>4. ASSUME f.limit > 0, NEW i \in f.told PROVE ~Recorded(f, i)
    <3>1. i \in Noticed(f) /\ f.shown \subseteq Bound(f)
      BY DEF Noticed, Bound
    <3>2. 2 * i \notin f.shown
      BY <2>1, <2>4, <3>1 DEF Follows, LeftOut
    <3>q. QED
      BY <3>2 DEF Recorded, Halves
  <2>q. QED
    BY <2>3, <2>4 DEF Noticed, Bound
<1>q. QED
  BY <1>1, FollowersAlways, PTL

\* A follower of session.events or session.logs that has written what it read has shown, or
\* holds as an unfinished line (LogLineAssembler), every record since its start, except where
\* it once read one half of a record.
THEOREM FollowersComplete == Spec => []FollowerMissesNothing
<1>1. Followed => FollowerMissesNothing
  <2> SUFFICES ASSUME Followed, NEW c \in Followers, flw[c].kind \in {"events", "logs", "pty"},
                      flw[c].here, flw[c].batch = <<>>, ~flw[c].split
               PROVE  LET f == flw[c] IN
                      /\ f.kind = "pty" => f.start + 1 .. f.offset \subseteq f.shown
                      /\ f.kind = "events" =>
                           \A i \in Index : f.start < 2 * i /\ 2 * i <= f.offset => Recorded(f, i)
                      /\ f.kind = "logs" => \A i \in Index :
                           (f.start < 2 * i /\ 2 * i <= f.offset /\ log[i].stream # "none")
                           => Recorded(f, i) \/ i \in f.part[log[i].stream]
    BY DEF FollowerMissesNothing
  <2> DEFINE f == flw[c]
  <2>1. Follows(f)
    BY DEF Followed
  <2>2. f.start \in Nat /\ f.start % 2 = 0
    BY <2>1, FollowersAssumption DEF Follows, Follower, Position, Between
  <2>3. Bound(f) = f.shown /\ Noticed(f) = f.told /\ Reached(f) = {f.offset}
    BY Idle
  <2>4. f.kind = "pty" => f.start + 1 .. f.offset \subseteq f.shown
    BY <2>1, <2>3 DEF Follows, Raw
  <2>5. ASSUME f.kind = "events", NEW i \in Index, f.start < 2 * i, 2 * i <= f.offset
        PROVE  Recorded(f, i)
    <3>1. f.start + 1 < 2 * i
      <4>1. PICK z \in Nat : f.start = 2 * z
        BY <2>2, Evenly
      <4>2. i \in Nat
        BY FollowersAssumption DEF Index
      <4>q. QED
        BY <2>5, <4>1, <4>2
    <3>2. f.told = {}
      BY <2>1, <2>5 DEF Follows, Ordered
    <3>q. QED
      BY <2>1, <2>3, <2>5, <3>1, <3>2 DEF Follows, Complete, OfEvents, Recorded
  <2>6. ASSUME f.kind = "logs", NEW i \in Index, f.start < 2 * i, 2 * i <= f.offset,
               log[i].stream # "none"
        PROVE  Recorded(f, i) \/ i \in f.part[log[i].stream]
    BY <2>1, <2>3, <2>6 DEF Follows, Lines, Recorded
  <2>q. QED
    BY <2>4, <2>5, <2>6
<1>q. QED
  BY <1>1, FollowersAlways, PTL

\* An event is written to a client after all that precede it in the file, and once.
THEOREM EventsOnce == Spec => EachEventOnceInOrder
<1> DEFINE A == \A c \in Followers :
                  LET frame == Head(flw[c].batch)
                  IN  WriteFrame(c) /\ frame.type = "event"
                      => \A h \in flw[c].shown, g \in frame.halves : h < g
<1>1. Followed => A
  <2> SUFFICES ASSUME Followed, NEW c \in Followers, flw[c].batch # <<>>, Head(flw[c].batch).type = "event"
               PROVE  \A h \in flw[c].shown, g \in Head(flw[c].batch).halves : h < g
    BY DEF WriteFrame
  <2>1. Filed /\ Follows(flw[c])
    BY FiledIs DEF Followed
  <2>q. QED
    BY <2>1, Writes
<1> HIDE DEF A
<1>2. Followed /\ [Next]_allVars => [A]_vars
  BY <1>1
<1>3. Spec => [][A]_vars
  BY <1>2, FollowersAlways, PTL DEF Spec
<1>q. QED
  BY <1>3 DEF A, EachEventOnceInOrder

-----------------------------------------------------------------------------
\* What an attach carries.  A piece that is under way has a place in the stream: its frame's,
\* Closed after all others, the text before its newline; the answer comes before all.
Rank(f) == IF f = Closed THEN MaxFrames + 1 ELSE f
Key(x) == IF x.frame = Response THEN 0
          ELSE 2 * Rank(x.frame) + (IF x.piece = "newline" THEN 1 ELSE 0)

\* What was shown, what the client's read holds, what is in its socket, what the host is about
\* to write, and what it has not read yet.
Texts(s) == {2 * Rank(s[i]) : i \in DOMAIN s}
Seen(u) == {2 * Rank(u.got[i]) + 1 : i \in DOMAIN u.got}
Wired(s) == {Key(s[i]) : i \in DOMAIN s}
InHand(p) == IF p.stage = "text" THEN {2 * Rank(p.hand)}
             ELSE IF p.stage = "newline" THEN {2 * Rank(p.hand) + 1} ELSE {}

Ascends(s) == \A i, j \in DOMAIN s : i < j => Rank(s[i]) < Rank(s[j])
PiecesAscend(s) == \A i, j \in DOMAIN s : i < j => Key(s[i]) < Key(s[j])
Before(A, B) == \A a \in A, b \in B : a < b
Chain(g, h, w, t, r) ==
  /\ Before(g, h) /\ Before(g, w) /\ Before(g, t) /\ Before(g, r)
  /\ Before(h, w) /\ Before(h, t) /\ Before(h, r)
  /\ Before(w, t) /\ Before(w, r) /\ Before(t, r)

\* Each of them is in the order of the stream, they follow each other, and a worker that may
\* still send has sent the last of them.
Framed(p, u, w, q) ==
  /\ Ascends(u.got) /\ PiecesAscend(q.toClient) /\ Ascends(q.fromWorker)
  /\ Chain(Seen(u), Texts(u.hand), Wired(q.toClient), InHand(p), Texts(q.fromWorker))
  /\ w.stage = "attached" =>
       \A k \in Seen(u) \cup Texts(u.hand) \cup Wired(q.toClient) \cup InHand(p)
                \cup Texts(q.fromWorker) : k <= 2 * w.sent + 1

\* The answer is the first that the client reads.
Unanswered == {"none", "opening", "record", "answer"}
Greeted(p, u, w, q) ==
  /\ p.stage \in Unanswered => q.toClient = <<>> /\ u.stage \notin {"looping", "typing", "midline"}
  /\ p.stage \in Unanswered => p.half = 0
  /\ p.stage \in Unanswered \/ u.stage = "waiting" => u.got = <<>> /\ u.hand = <<>>
  /\ u.stage = "waiting" \/ \A i \in DOMAIN q.toClient : q.toClient[i].frame # Response
  /\ u.stage \in {"typing", "midline"} => u.typed > 0
  /\ w.stage = "asked" =>
       /\ p.stage \in {"none", "opening", "done"} /\ u.stage \notin {"looping", "typing", "midline"}
       /\ w.took = <<>> /\ q.toWorker = <<>> /\ q.toHost = <<>> /\ u.typed = 0
       /\ q.fromWorker = <<>> /\ q.toClient = <<>>

\* The lines that the worker took and those in its socket are 1, 2, ..., and the host holds the
\* text of the next one or nothing; what is in the host's socket goes on from there, text and
\* newline in turn, to the last line that was typed.
CountsFrom(s, n) == \A i \in DOMAIN s : s[i] = n + i
PartIs(x, n, j) ==
  \E k \in Nat : (j = 2 * k + 1 /\ x = n + k + 1) \/ (j = 2 * k + 2 /\ x = Newline)
PartsFrom(s, n, h) == \A i \in DOMAIN s : PartIs(s[i], n, h + i)
HalfHeld(p) == IF p.half = 0 THEN 0 ELSE 1
Lined(p, u, w, q) ==
  /\ CountsFrom(w.took, 0)
  /\ w.stage = "attached" =>
       LET n == Len(w.took) + Len(q.toWorker)
           parts == 2 * n + HalfHeld(p) + Len(q.toHost)
       IN  /\ CountsFrom(q.toWorker, Len(w.took))
           /\ p.half \in {0, n + 1}
           /\ PartsFrom(q.toHost, n, HalfHeld(p))
           /\ u.stage \in {"waiting", "looping"} => 2 * u.typed = parts
           /\ u.stage = "typing" => 2 * u.typed = parts + 2
           /\ u.stage = "midline" => 2 * u.typed = parts + 1

Carries(p, u, w, q) == Greeted(p, u, w, q) /\ Lined(p, u, w, q) /\ Framed(p, u, w, q)
Carried == \A c \in Clients : Carries(proxy[c], client[c], worker[c], pipe[c])

LEMMA RankIs ==
  ASSUME NEW f \in Frames
  PROVE  Rank(f) \in Nat /\ Rank(f) >= 1 /\ Rank(f) <= MaxFrames + 1
BY ProxyAssumption DEF Rank, Frames, Closed

LEMMA KeyIs ==
  ASSUME NEW x \in Pieces
  PROVE  /\ Key(x) \in Nat
         /\ x.frame # Response =>
              /\ x.frame \in Frames
              /\ x.piece = "text" => Key(x) = 2 * Rank(x.frame)
              /\ x.piece = "newline" => Key(x) = 2 * Rank(x.frame) + 1
<1>1. x.frame \in 0 .. MaxFrames + 1 /\ x.piece \in {"text", "newline"}
  BY DEF Pieces
<1>2. x.frame # Response => x.frame \in Frames
  BY <1>1, ProxyAssumption DEF Response, Frames
<1>q. QED
  BY <1>1, <1>2, RankIs DEF Key

\* What is read off the front of a stream, and what is added at its end.
LEMMA FramesAfter ==
  ASSUME NEW s \in Seq(Frames), s # <<>>, Ascends(s)
  PROVE  /\ Head(s) \in Frames /\ Tail(s) \in Seq(Frames) /\ Ascends(Tail(s))
         /\ 2 * Rank(Head(s)) \in Texts(s) /\ Texts(Tail(s)) \subseteq Texts(s)
         /\ Before({2 * Rank(Head(s))}, Texts(Tail(s)))
<1>1. /\ Head(s) \in Frames /\ Tail(s) \in Seq(Frames) /\ Head(s) = s[1] /\ 1 \in DOMAIN s
      /\ \A i \in DOMAIN Tail(s) : i \in Nat /\ 1 < i + 1 /\ i + 1 \in DOMAIN s /\ Tail(s)[i] = s[i + 1]
  OBVIOUS
<1>2. Ascends(Tail(s))
  <2> SUFFICES ASSUME NEW i \in DOMAIN Tail(s), NEW j \in DOMAIN Tail(s), i < j
               PROVE  Rank(Tail(s)[i]) < Rank(Tail(s)[j])
    BY DEF Ascends
  <2>1. i + 1 < j + 1
    BY <1>1
  <2>q. QED
    BY <1>1, <2>1 DEF Ascends
<1>3. 2 * Rank(Head(s)) \in Texts(s)
  BY <1>1 DEF Texts
<1>4. Texts(Tail(s)) \subseteq Texts(s)
  BY <1>1 DEF Texts
<1>5. ASSUME NEW k \in Texts(Tail(s)) PROVE 2 * Rank(Head(s)) < k
  <2>1. PICK i \in DOMAIN Tail(s) : k = 2 * Rank(s[i + 1])
    BY <1>1 DEF Texts
  <2>2. Rank(s[1]) < Rank(s[i + 1]) /\ s[1] \in Frames /\ s[i + 1] \in Frames
    BY <1>1 DEF Ascends
  <2>q. QED
    BY <1>1, <2>1, <2>2, RankIs
<1>q. QED
  BY <1>1, <1>2, <1>3, <1>4, <1>5 DEF Before

LEMMA FramesWith ==
  ASSUME NEW s \in Seq(Frames), NEW f \in Frames, Ascends(s),
         \A i \in DOMAIN s : Rank(s[i]) < Rank(f)
  PROVE  /\ Append(s, f) \in Seq(Frames) /\ Ascends(Append(s, f))
         /\ Texts(Append(s, f)) = Texts(s) \cup {2 * Rank(f)}
<1>1. Append(s, f) \in Seq(Frames)
  OBVIOUS
<1>2. PICK n \in Nat : n = Len(s)
  OBVIOUS
<1>3. /\ DOMAIN s = 1 .. n /\ DOMAIN Append(s, f) = 1 .. n + 1
      /\ \A i \in 1 .. n : Append(s, f)[i] = s[i]
      /\ Append(s, f)[n + 1] = f
  BY <1>2
<1>4. Ascends(Append(s, f))
  <2> SUFFICES ASSUME NEW i \in 1 .. n + 1, NEW j \in 1 .. n + 1, i < j
               PROVE  Rank(Append(s, f)[i]) < Rank(Append(s, f)[j])
    BY <1>3 DEF Ascends
  <2>1. CASE j = n + 1
    BY <1>3, <2>1
  <2>2. CASE j # n + 1
    <3>1. i \in 1 .. n /\ j \in 1 .. n
      BY <2>2
    <3>q. QED
      BY <1>3, <3>1 DEF Ascends
  <2>q. QED
    BY <2>1, <2>2
<1>5. Texts(Append(s, f)) = Texts(s) \cup {2 * Rank(f)}
  <2>1. Texts(Append(s, f)) = {2 * Rank(Append(s, f)[i]) : i \in 1 .. n + 1}
    BY <1>3 DEF Texts
  <2>2. Texts(s) = {2 * Rank(s[i]) : i \in 1 .. n}
    BY <1>3 DEF Texts
  <2>3. 1 .. n + 1 = (1 .. n) \cup {n + 1}
    BY <1>2
  <2>q. QED
    BY <1>3, <2>1, <2>2, <2>3
<1>q. QED
  BY <1>1, <1>4, <1>5

LEMMA SeenWith ==
  ASSUME NEW u, NEW v, u.got \in Seq(Frames), NEW f \in Frames, v.got = Append(u.got, f)
  PROVE  Seen(v) = Seen(u) \cup {2 * Rank(f) + 1}
<1> DEFINE s == u.got
<1>2. PICK n \in Nat : n = Len(s)
  OBVIOUS
<1>3. /\ DOMAIN s = 1 .. n /\ DOMAIN v.got = 1 .. n + 1
      /\ \A i \in 1 .. n : v.got[i] = s[i]
      /\ v.got[n + 1] = f
  BY <1>2
<1>4. Seen(v) = {2 * Rank(v.got[i]) + 1 : i \in 1 .. n + 1}
  BY <1>3 DEF Seen
<1>5. Seen(u) = {2 * Rank(u.got[i]) + 1 : i \in 1 .. n}
  BY <1>3 DEF Seen
<1>6. 1 .. n + 1 = (1 .. n) \cup {n + 1}
  BY <1>2
<1>q. QED
  BY <1>3, <1>4, <1>5, <1>6

LEMMA PiecesAfter ==
  ASSUME NEW s \in Seq(Pieces), s # <<>>, PiecesAscend(s),
         NEW n \in {1, 2}, n \in DOMAIN s,
         NEW r, r = SubSeq(s, n + 1, Len(s))
  PROVE  /\ r \in Seq(Pieces) /\ PiecesAscend(r)
         /\ \A i \in DOMAIN r : i + n \in DOMAIN s /\ r[i] = s[i + n]
         /\ Wired(r) \subseteq Wired(s) /\ Before({Key(s[n])}, Wired(r))
<1>1. PICK m \in Nat : m = Len(s)
  OBVIOUS
<1>2. DOMAIN s = 1 .. m /\ n <= m
  BY <1>1
<1>3. r \in Seq(Pieces) /\ DOMAIN r = 1 .. m - n /\ \A i \in 1 .. m - n : r[i] = s[i + n]
  BY <1>1, <1>2
<1>4. \A i \in DOMAIN r : i \in Nat /\ n < i + n /\ i + n \in DOMAIN s /\ r[i] = s[i + n]
  BY <1>2, <1>3
<1>5. PiecesAscend(r)
  <2> SUFFICES ASSUME NEW i \in DOMAIN r, NEW j \in DOMAIN r, i < j
               PROVE  Key(r[i]) < Key(r[j])
    BY DEF PiecesAscend
  <2>1. i + n < j + n
    BY <1>4
  <2>q. QED
    BY <1>4, <2>1 DEF PiecesAscend
<1>6. Wired(r) \subseteq Wired(s)
  BY <1>4 DEF Wired
<1>7. ASSUME NEW k \in Wired(r) PROVE Key(s[n]) < k
  BY <1>4 DEF Wired, PiecesAscend
<1>q. QED
  BY <1>3, <1>4, <1>5, <1>6, <1>7 DEF Before

LEMMA PiecesTail ==
  ASSUME NEW s \in Seq(Pieces), s # <<>>
  PROVE  Tail(s) = SubSeq(s, 1 + 1, Len(s)) /\ 1 \in DOMAIN s /\ Head(s) = s[1]
OBVIOUS

LEMMA PiecesWith ==
  ASSUME NEW s \in Seq(Pieces), NEW x \in Pieces, PiecesAscend(s), Before(Wired(s), {Key(x)})
  PROVE  /\ Append(s, x) \in Seq(Pieces) /\ PiecesAscend(Append(s, x))
         /\ Wired(Append(s, x)) = Wired(s) \cup {Key(x)}
         /\ \A i \in DOMAIN Append(s, x) : Append(s, x)[i] = x \/ (i \in DOMAIN s /\ Append(s, x)[i] = s[i])
<1>1. Append(s, x) \in Seq(Pieces)
  OBVIOUS
<1>2. PICK n \in Nat : n = Len(s)
  OBVIOUS
<1>3. /\ DOMAIN s = 1 .. n /\ DOMAIN Append(s, x) = 1 .. n + 1
      /\ \A i \in 1 .. n : Append(s, x)[i] = s[i]
      /\ Append(s, x)[n + 1] = x
  BY <1>2
<1>4. PiecesAscend(Append(s, x))
  <2> SUFFICES ASSUME NEW i \in 1 .. n + 1, NEW j \in 1 .. n + 1, i < j
               PROVE  Key(Append(s, x)[i]) < Key(Append(s, x)[j])
    BY <1>3 DEF PiecesAscend
  <2>0. i \in 1 .. n
    OBVIOUS
  <2>1. CASE j = n + 1
    <3>1. Key(s[i]) \in Wired(s)
      BY <1>3, <2>0 DEF Wired
    <3>q. QED
      BY <1>3, <2>0, <2>1, <3>1 DEF Before
  <2>2. CASE j # n + 1
    <3>1. j \in 1 .. n
      BY <2>2
    <3>q. QED
      BY <1>3, <2>0, <3>1 DEF PiecesAscend
  <2>q. QED
    BY <2>1, <2>2
<1>5. Wired(Append(s, x)) = Wired(s) \cup {Key(x)}
  <2>1. Wired(Append(s, x)) = {Key(Append(s, x)[i]) : i \in 1 .. n + 1}
    BY <1>3 DEF Wired
  <2>2. Wired(s) = {Key(s[i]) : i \in 1 .. n}
    BY <1>3 DEF Wired
  <2>3. 1 .. n + 1 = (1 .. n) \cup {n + 1}
    BY <1>2
  <2>q. QED
    BY <1>3, <2>1, <2>2, <2>3
<1>6. \A i \in DOMAIN Append(s, x) : Append(s, x)[i] = x \/ (i \in DOMAIN s /\ Append(s, x)[i] = s[i])
  <2>1. \A i \in 1 .. n + 1 : i = n + 1 \/ i \in 1 .. n
    OBVIOUS
  <2>q. QED
    BY <1>3, <2>1
<1>q. QED
  BY <1>1, <1>4, <1>5, <1>6

LEMMA HandIs ==
  ASSUME NEW u \in Client
  PROVE  /\ u.got \in Seq(Frames) /\ u.hand \in Seq(Frames)
         /\ u.hand # <<>> => \E n \in Frames : u.hand = <<n>> /\ Texts(u.hand) = {2 * Rank(n)}
<1>1. u.got \in Seq(Frames) /\ u.hand \in {<<>>} \cup {<<n>> : n \in Frames}
  BY DEF Client
<1>2. CASE u.hand = <<>>
  BY <1>1, <1>2
<1>3. CASE u.hand # <<>>
  <2>1. PICK n \in Frames : u.hand = <<n>>
    BY <1>1, <1>3
  <2>2. <<n>> \in Seq(Frames) /\ DOMAIN <<n>> = {1} /\ <<n>>[1] = n
    OBVIOUS
  <2>3. Texts(u.hand) = {2 * Rank(n)}
    BY <2>1, <2>2 DEF Texts
  <2>q. QED
    BY <1>1, <2>1, <2>2, <2>3
<1>q. QED
  BY <1>2, <1>3

LEMMA NoTexts == Texts(<<>>) = {} /\ Wired(<<>>) = {} /\ Ascends(<<>>) /\ PiecesAscend(<<>>)
BY DEF Texts, Wired, Ascends, PiecesAscend

\* One connection moves.
LEMMA Carry ==
  ASSUME ProxyTypeOK, Carried, NEW c \in Clients,
         NEW p \in Proxy, proxy' = [proxy EXCEPT ![c] = p],
         NEW u \in Client, client' = [client EXCEPT ![c] = u],
         NEW w \in Worker, worker' = [worker EXCEPT ![c] = w],
         NEW q \in Pipe, pipe' = [pipe EXCEPT ![c] = q],
         Carries(p, u, w, q)
  PROVE  ProxyTypeOK' /\ Carried'
<1>1. ProxyTypeOK'
  BY DEF ProxyTypeOK
<1>2. ASSUME NEW d \in Clients PROVE Carries(proxy'[d], client'[d], worker'[d], pipe'[d])
  <2>1. CASE d # c
    <3>1. proxy'[d] = proxy[d] /\ client'[d] = client[d] /\ worker'[d] = worker[d] /\ pipe'[d] = pipe[d]
      BY <2>1 DEF ProxyTypeOK
    <3>q. QED
      BY <3>1 DEF Carried
  <2>2. CASE d = c
    <3>1. proxy'[d] = p /\ client'[d] = u /\ worker'[d] = w /\ pipe'[d] = q
      BY <2>2 DEF ProxyTypeOK
    <3>q. QED
      BY <3>1
  <2>q. QED
    BY <2>1, <2>2
<1>q. QED
  BY <1>1, <1>2 DEF Carried, Carries, Greeted, Lined, Framed, Chain, Before, Seen, Texts, Wired,
                    InHand, Ascends, PiecesAscend, Rank, Key

LEMMA AtRest ==
  ASSUME ProxyTypeOK, Carried, NEW c \in Clients
  PROVE  /\ proxy[c] \in Proxy /\ proxy = [proxy EXCEPT ![c] = proxy[c]]
         /\ client[c] \in Client /\ client = [client EXCEPT ![c] = client[c]]
         /\ worker[c] \in Worker /\ worker = [worker EXCEPT ![c] = worker[c]]
         /\ pipe[c] \in Pipe /\ pipe = [pipe EXCEPT ![c] = pipe[c]]
         /\ Carries(proxy[c], client[c], worker[c], pipe[c])
  BY DEF ProxyTypeOK, Carried

\* The task goes to another stage with no frame in its hand; it may have dropped some that it read.
LEMMA TaskTurns ==
  ASSUME NEW p, NEW u, NEW w, NEW q, Carries(p, u, w, q),
         NEW p2, p2.stage \notin {"text", "newline"}, p2.half = p.half,
         p2.stage \in Unanswered => p.stage \in Unanswered,
         w.stage = "asked" => p2.stage \in {"none", "opening", "done"},
         NEW q2, q2.toHost = q.toHost, q2.toWorker = q.toWorker, q2.toClient = q.toClient,
         Ascends(q2.fromWorker), Texts(q2.fromWorker) \subseteq Texts(q.fromWorker),
         w.stage = "asked" => q2.fromWorker = <<>>
  PROVE  Carries(p2, u, w, q2)
<1>1. Greeted(p2, u, w, q2) /\ Lined(p2, u, w, q2)
  BY DEF Carries, Greeted, Lined, HalfHeld, Unanswered
<1>2. InHand(p2) = {}
  BY DEF InHand
<1>3. Wired(q2.toClient) = Wired(q.toClient)
  OBVIOUS
<1>4. Chain(Seen(u), Texts(u.hand), Wired(q2.toClient), InHand(p2), Texts(q2.fromWorker))
  BY <1>2, <1>3 DEF Carries, Framed, Chain, Before
<1>5. PiecesAscend(q2.toClient)
  BY DEF Carries, Framed
<1>6. Ascends(u.got)
  BY DEF Carries, Framed
<1>7. w.stage = "attached" =>
       \A k \in Seen(u) \cup Texts(u.hand) \cup Wired(q2.toClient) \cup InHand(p2)
                \cup Texts(q2.fromWorker) : k <= 2 * w.sent + 1
  BY <1>2, <1>3 DEF Carries, Framed
<1>q. QED
  BY <1>1, <1>4, <1>5, <1>6, <1>7 DEF Carries, Framed

LEMMA TakesFrame ==
  ASSUME NEW p \in Proxy, NEW u, NEW w, NEW q \in Pipe, Carries(p, u, w, q),
         p.stage = "relay", q.fromWorker # <<>>,
         NEW p2, p2.stage = "text", p2.hand = Head(q.fromWorker), p2.half = p.half,
         NEW q2, q2.toHost = q.toHost, q2.toWorker = q.toWorker, q2.toClient = q.toClient,
         q2.fromWorker = Tail(q.fromWorker)
  PROVE  Carries(p2, u, w, q2)
<1>0. q.fromWorker \in Seq(Frames) /\ Ascends(q.fromWorker)
  BY DEF Pipe, Carries, Framed
<1> DEFINE k == 2 * Rank(Head(q.fromWorker))
<1>1. /\ Ascends(q2.fromWorker) /\ k \in Texts(q.fromWorker)
      /\ Texts(q2.fromWorker) \subseteq Texts(q.fromWorker) /\ Before({k}, Texts(q2.fromWorker))
  BY <1>0, FramesAfter
<1>2. Greeted(p2, u, w, q2) /\ Lined(p2, u, w, q2)
  BY DEF Carries, Greeted, Lined, HalfHeld, Unanswered
<1>3. InHand(p2) = {k}
  BY DEF InHand
<1> HIDE DEF k
<1>4. Chain(Seen(u), Texts(u.hand), Wired(q2.toClient), InHand(p2), Texts(q2.fromWorker))
  BY <1>1, <1>3 DEF Carries, Framed, Chain, Before
<1>5. Ascends(u.got) /\ PiecesAscend(q2.toClient)
  BY DEF Carries, Framed
<1>6. w.stage = "attached" =>
       \A j \in Seen(u) \cup Texts(u.hand) \cup Wired(q2.toClient) \cup InHand(p2)
                \cup Texts(q2.fromWorker) : j <= 2 * w.sent + 1
  BY <1>1, <1>3 DEF Carries, Framed
<1>q. QED
  BY <1>1, <1>2, <1>4, <1>5, <1>6 DEF Carries, Framed

LEMMA WritesPiece ==
  ASSUME NEW p \in Proxy, NEW u \in Client, NEW w \in Worker, NEW q \in Pipe, Carries(p, u, w, q),
         p.stage \in {"text", "newline"},
         NEW p2, p2.hand = p.hand, p2.half = p.half, p.stage = "text" => p2.stage = "newline",
         p.stage = "newline" => p2.stage \in {"relay", "done"},
         NEW q2, q2.toHost = q.toHost, q2.toWorker = q.toWorker, q2.fromWorker = q.fromWorker,
         q2.toClient = Append(q.toClient, [frame |-> p.hand, piece |-> p.stage])
  PROVE  Carries(p2, u, w, q2) /\ q2.toClient \in Seq(Pieces)
<1> DEFINE x == [frame |-> p.hand, piece |-> p.stage]
           k == Key(x)
<1>0. q.toClient \in Seq(Pieces) /\ p.hand \in Frames
  BY DEF Pipe, Proxy
<1>1. x \in Pieces /\ x.frame # Response
  BY <1>0, ProxyAssumption DEF Frames, Pieces, Response
<1>2. InHand(p) = {k} /\ k \in Nat
  BY <1>1, KeyIs DEF InHand
<1>3. PiecesAscend(q.toClient) /\ Before(Wired(q.toClient), {k})
  BY <1>2 DEF Carries, Framed, Chain
<1>4. /\ q2.toClient \in Seq(Pieces) /\ PiecesAscend(q2.toClient)
      /\ Wired(q2.toClient) = Wired(q.toClient) \cup {k}
      /\ \A i \in DOMAIN q2.toClient :
           q2.toClient[i] = x \/ (i \in DOMAIN q.toClient /\ q2.toClient[i] = q.toClient[i])
  <2>1. q2.toClient = Append(q.toClient, x) /\ k = Key(x)
    OBVIOUS
  <2> HIDE DEF x, k
  <2>q. QED
    BY <1>0, <1>1, <1>3, <2>1, PiecesWith
<1>5. Greeted(p2, u, w, q2)
  <2>1. p2.stage \notin Unanswered /\ p.stage \notin {"none", "opening", "done"}
    BY DEF Unanswered
  <2>2. w.stage # "asked"
    BY <2>1 DEF Carries, Greeted
  <2>3. u.stage = "waiting" \/ \A i \in DOMAIN q2.toClient : q2.toClient[i].frame # Response
    BY <1>1, <1>4 DEF Carries, Greeted
  <2>q. QED
    BY <2>1, <2>2, <2>3 DEF Carries, Greeted
<1>6. Lined(p2, u, w, q2)
  BY DEF Carries, Lined, HalfHeld
<1>7. Ascends(u.got) /\ Ascends(q2.fromWorker) /\ Texts(q2.fromWorker) = Texts(q.fromWorker)
  BY DEF Carries, Framed
<1>8. Chain(Seen(u), Texts(u.hand), Wired(q2.toClient), {}, Texts(q2.fromWorker))
  BY <1>2, <1>4, <1>7 DEF Carries, Framed, Chain, Before
<1>9. CASE p.stage = "newline"
  <2>1. InHand(p2) = {}
    BY <1>9 DEF InHand
  <2>2. w.stage = "attached" =>
         \A j \in Seen(u) \cup Texts(u.hand) \cup Wired(q2.toClient) \cup InHand(p2)
                  \cup Texts(q2.fromWorker) : j <= 2 * w.sent + 1
    BY <1>2, <1>4, <1>7, <2>1 DEF Carries, Framed
  <2>q. QED
    BY <1>4, <1>5, <1>6, <1>7, <1>8, <2>1, <2>2 DEF Carries, Framed
<1>10. CASE p.stage = "text"
  <2>1. k = 2 * Rank(p.hand) /\ InHand(p2) = {k + 1} /\ Rank(p.hand) \in Nat
    BY <1>0, <1>1, <1>10, KeyIs, RankIs DEF InHand
  <2>2. \A j \in Seen(u) \cup Texts(u.hand) \cup Wired(q.toClient) : j < k
    BY <1>2 DEF Carries, Framed, Chain, Before
  <2>3. Seen(u) \subseteq Nat /\ Texts(u.hand) \subseteq Nat /\ Wired(q.toClient) \subseteq Nat
    <3>1. u.got \in Seq(Frames) /\ u.hand \in Seq(Frames)
      BY HandIs
    <3>2. /\ \A i \in DOMAIN u.got : u.got[i] \in Frames
          /\ \A i \in DOMAIN u.hand : u.hand[i] \in Frames
          /\ \A i \in DOMAIN q.toClient : q.toClient[i] \in Pieces
      BY <1>0, <3>1
    <3>q. QED
      BY <3>2, RankIs, KeyIs DEF Seen, Texts, Wired
  <2>4. \A j \in Seen(u) \cup Texts(u.hand) \cup Wired(q2.toClient) : j < k + 1
    BY <1>2, <1>4, <2>2, <2>3
  <2>5. \A j \in Texts(q2.fromWorker) : k + 1 < j
    <3> SUFFICES ASSUME NEW j \in Texts(q.fromWorker) PROVE k + 1 < j
      BY <1>7
    <3>1. PICK i \in DOMAIN q.fromWorker : j = 2 * Rank(q.fromWorker[i])
      BY DEF Texts
    <3>2. q.fromWorker[i] \in Frames
      BY DEF Pipe
    <3>3. k < j
      BY <1>2 DEF Carries, Framed, Chain, Before
    <3>q. QED
      BY <2>1, <3>1, <3>2, <3>3, RankIs
  <2>6. Chain(Seen(u), Texts(u.hand), Wired(q2.toClient), InHand(p2), Texts(q2.fromWorker))
    BY <1>8, <2>1, <2>4, <2>5 DEF Chain, Before
  <2>7. w.stage = "attached" =>
         \A j \in Seen(u) \cup Texts(u.hand) \cup Wired(q2.toClient) \cup InHand(p2)
                  \cup Texts(q2.fromWorker) : j <= 2 * w.sent + 1
    <3>1. w.stage = "attached" => k <= 2 * w.sent + 1
      BY <1>2 DEF Carries, Framed
    <3>2. w.sent \in Nat
      BY DEF Worker
    <3>3. w.stage = "attached" => k + 1 <= 2 * w.sent + 1
      BY <2>1, <3>1, <3>2
    <3>q. QED
      BY <1>2, <1>4, <1>7, <2>1, <3>1, <3>3 DEF Carries, Framed
  <2>q. QED
    BY <1>4, <1>5, <1>6, <1>7, <2>6, <2>7 DEF Carries, Framed
<1>q. QED
  BY <1>4, <1>9, <1>10

\* The answer is written when nothing else is under way to the client.
LEMMA Greets ==
  ASSUME NEW p \in Proxy, NEW u \in Client, NEW w \in Worker, NEW q \in Pipe, Carries(p, u, w, q),
         p.stage = "answer", u.stage \notin {"ended", "broken"},
         NEW p2, p2.stage = "relay", p2.half = p.half,
         NEW q2, q2.toHost = q.toHost, q2.toWorker = q.toWorker, q2.fromWorker = q.fromWorker,
         q2.toClient = <<[frame |-> Response, piece |-> "newline"]>>
  PROVE  Carries(p2, u, w, q2)
<1> DEFINE x == [frame |-> Response, piece |-> "newline"]
<1>1. w.stage # "asked" /\ u.stage = "waiting" /\ u.got = <<>> /\ u.hand = <<>>
  BY DEF Carries, Greeted, Unanswered, Client
<1>2. Greeted(p2, u, w, q2) /\ Lined(p2, u, w, q2)
  BY <1>1 DEF Carries, Greeted, Lined, HalfHeld, Unanswered
<1>3. DOMAIN q2.toClient = {1} /\ q2.toClient[1] = x /\ Key(x) = 0
  BY DEF Key
<1> HIDE DEF x
<1>4. PiecesAscend(q2.toClient) /\ Wired(q2.toClient) = {0}
  BY <1>3 DEF PiecesAscend, Wired
<1>5. Seen(u) = {} /\ Texts(u.hand) = {} /\ InHand(p2) = {}
  BY <1>1, NoTexts DEF Seen, InHand
<1>6. \A k \in Texts(q2.fromWorker) : 0 < k
  <2> SUFFICES ASSUME NEW i \in DOMAIN q.fromWorker PROVE 0 < 2 * Rank(q.fromWorker[i])
    BY DEF Texts
  <2>1. q.fromWorker[i] \in Frames
    BY DEF Pipe
  <2>q. QED
    BY <2>1, RankIs
<1>7. Chain(Seen(u), Texts(u.hand), Wired(q2.toClient), InHand(p2), Texts(q2.fromWorker))
  BY <1>4, <1>5, <1>6 DEF Chain, Before
<1>8. w.stage = "attached" =>
       \A j \in Seen(u) \cup Texts(u.hand) \cup Wired(q2.toClient) \cup InHand(p2)
                \cup Texts(q2.fromWorker) : j <= 2 * w.sent + 1
  <2>1. w.sent \in Nat
    BY DEF Worker
  <2>2. w.stage = "attached" => \A j \in Texts(q2.fromWorker) : j <= 2 * w.sent + 1
    BY DEF Carries, Framed
  <2>q. QED
    BY <1>4, <1>5, <2>1, <2>2
<1>9. Ascends(u.got) /\ Ascends(q2.fromWorker)
  BY DEF Carries, Framed
<1>q. QED
  BY <1>2, <1>4, <1>7, <1>8, <1>9 DEF Carries, Framed

\* What is not about frames, when nothing that is moves.
LEMMA OnlyLines ==
  ASSUME NEW p, NEW u, NEW w, NEW q, Framed(p, u, w, q),
         NEW u2, u2.got = u.got, NEW w2, w2.stage = w.stage, w2.sent = w.sent,
         NEW q2, q2.fromWorker = q.fromWorker,
         \/ u2.hand = u.hand /\ q2.toClient = q.toClient
         \/ u2.hand = <<>> /\ q2.toClient = q.toClient
         \/ u2.hand = <<>> /\ q2.toClient = <<>>
  PROVE  Framed(p, u2, w2, q2)
<1>1. PiecesAscend(q2.toClient)
  BY NoTexts DEF Framed
<1>2. Wired(q2.toClient) \subseteq Wired(q.toClient) /\ Texts(u2.hand) \subseteq Texts(u.hand)
  BY NoTexts
<1>3. Seen(u2) = Seen(u)
  BY DEF Seen
<1>4. Chain(Seen(u2), Texts(u2.hand), Wired(q2.toClient), InHand(p), Texts(q2.fromWorker))
  BY <1>2, <1>3 DEF Framed, Chain, Before
<1>5. w2.stage = "attached" =>
       \A j \in Seen(u2) \cup Texts(u2.hand) \cup Wired(q2.toClient) \cup InHand(p)
                \cup Texts(q2.fromWorker) : j <= 2 * w2.sent + 1
  BY <1>2, <1>3 DEF Framed
<1>6. Ascends(u2.got) /\ Ascends(q2.fromWorker)
  BY DEF Framed
<1>q. QED
  BY <1>1, <1>4, <1>5, <1>6 DEF Framed

\* A line goes from one sequence to the next one.
LEMMA LineMoves ==
  ASSUME NEW S, NEW s \in Seq(S), NEW t \in Seq(S), s # <<>>,
         NEW n \in Nat, CountsFrom(t, n), CountsFrom(s, n + Len(t))
  PROVE  /\ Tail(s) \in Seq(S) /\ Append(t, Head(s)) \in Seq(S)
         /\ Len(Append(t, Head(s))) = Len(t) + 1 /\ Len(Tail(s)) = Len(s) - 1 /\ Len(s) - 1 \in Nat
         /\ CountsFrom(Append(t, Head(s)), n) /\ CountsFrom(Tail(s), n + (Len(t) + 1))
<1>1. PICK a \in Nat : a = Len(t)
  OBVIOUS
<1>2. PICK b \in Nat : b = Len(s)
  OBVIOUS
<1>3. /\ Head(s) = s[1] /\ 1 \in DOMAIN s /\ Head(s) \in S
      /\ Tail(s) \in Seq(S) /\ Append(t, Head(s)) \in Seq(S) /\ b - 1 \in Nat
  BY <1>2
<1>4. s[1] = n + a + 1
  BY <1>1, <1>3 DEF CountsFrom
<1>5. /\ DOMAIN t = 1 .. a /\ DOMAIN Append(t, Head(s)) = 1 .. a + 1
      /\ \A i \in 1 .. a : Append(t, Head(s))[i] = t[i]
      /\ Append(t, Head(s))[a + 1] = Head(s)
  BY <1>1, <1>3
<1>6. ASSUME NEW i \in 1 .. a + 1 PROVE Append(t, Head(s))[i] = n + i
  <2>1. CASE i = a + 1
    BY <1>3, <1>4, <1>5, <2>1
  <2>2. CASE i # a + 1
    <3>1. i \in 1 .. a
      BY <2>2
    <3>q. QED
      BY <1>5, <3>1 DEF CountsFrom
  <2>q. QED
    BY <2>1, <2>2
<1>7. DOMAIN s = 1 .. b /\ DOMAIN Tail(s) = 1 .. b - 1 /\ \A i \in 1 .. b - 1 : Tail(s)[i] = s[i + 1]
  BY <1>2, <1>3
<1>8. ASSUME NEW i \in 1 .. b - 1 PROVE Tail(s)[i] = n + (a + 1) + i
  <2>1. i + 1 \in 1 .. b
    OBVIOUS
  <2>2. s[i + 1] = n + a + (i + 1)
    BY <1>1, <1>7, <2>1 DEF CountsFrom
  <2>q. QED
    BY <1>7, <2>2
<1>9. Len(Append(t, Head(s))) = a + 1 /\ Len(Tail(s)) = b - 1
  BY <1>1, <1>2, <1>3
<1>10. CountsFrom(Append(t, Head(s)), n)
  BY <1>5, <1>6 DEF CountsFrom
<1>11. CountsFrom(Tail(s), n + (Len(t) + 1))
  BY <1>1, <1>7, <1>8 DEF CountsFrom
<1>q. QED
  BY <1>1, <1>2, <1>3, <1>9, <1>10, <1>11

LEMMA LengthsAre ==
  ASSUME NEW w \in Worker, NEW q \in Pipe
  PROVE  /\ q.toHost \in Seq(0 .. MaxLines) /\ q.toWorker \in Seq(1 .. MaxLines)
         /\ w.took \in Seq(1 .. MaxLines)
         /\ Len(w.took) \in Nat /\ Len(q.toWorker) \in Nat /\ Len(q.toHost) \in Nat
<1>1. /\ q.toHost \in Seq(0 .. MaxLines) /\ q.toWorker \in Seq(1 .. MaxLines)
      /\ w.took \in Seq(1 .. MaxLines)
  BY DEF Pipe, Worker
<1>2. ASSUME NEW S, NEW s \in Seq(S) PROVE Len(s) \in Nat
  OBVIOUS
<1>q. QED
  BY <1>1, <1>2, Zenon

LEMMA CountsOn ==
  ASSUME NEW S, NEW s \in Seq(S), NEW n \in Nat, CountsFrom(s, n), NEW x \in S, x = n + Len(s) + 1
  PROVE  /\ Append(s, x) \in Seq(S) /\ Len(Append(s, x)) = Len(s) + 1
         /\ CountsFrom(Append(s, x), n)
<1>1. PICK a \in Nat : a = Len(s)
  OBVIOUS
<1>2. /\ Append(s, x) \in Seq(S) /\ Len(Append(s, x)) = a + 1
      /\ DOMAIN s = 1 .. a /\ DOMAIN Append(s, x) = 1 .. a + 1
      /\ \A i \in 1 .. a : Append(s, x)[i] = s[i]
      /\ Append(s, x)[a + 1] = x
  BY <1>1
<1>3. ASSUME NEW i \in 1 .. a + 1 PROVE Append(s, x)[i] = n + i
  <2>1. CASE i = a + 1
    BY <1>1, <1>2, <2>1
  <2>2. CASE i # a + 1
    <3>1. i \in 1 .. a
      BY <2>2
    <3>q. QED
      BY <1>2, <3>1 DEF CountsFrom
  <2>q. QED
    BY <2>1, <2>2
<1>q. QED
  BY <1>1, <1>2, <1>3 DEF CountsFrom

LEMMA HalfIs ==
  ASSUME NEW p \in Proxy
  PROVE  /\ p.half \in 0 .. MaxLines /\ HalfHeld(p) \in {0, 1}
         /\ (p.half = 0 => HalfHeld(p) = 0) /\ (p.half # 0 => HalfHeld(p) = 1)
BY DEF Proxy, HalfHeld

\* The first two parts of a line are its text and its newline, and from the third on it is the
\* next line.
LEMMA PartAt ==
  ASSUME NEW x, NEW n \in Nat
  PROVE  /\ PartIs(x, n, 1) => x = n + 1
         /\ PartIs(x, n, 2) => x = Newline
         /\ \A j \in Nat \ {0} : PartIs(x, n, j + 2) => PartIs(x, n + 1, j)
<1>1. ASSUME PartIs(x, n, 1) PROVE x = n + 1
  <2>1. PICK k \in Nat : (1 = 2 * k + 1 /\ x = n + k + 1) \/ (1 = 2 * k + 2 /\ x = Newline)
    BY <1>1 DEF PartIs
  <2>q. QED
    BY <2>1
<1>2. ASSUME PartIs(x, n, 2) PROVE x = Newline
  <2>1. PICK k \in Nat : (2 = 2 * k + 1 /\ x = n + k + 1) \/ (2 = 2 * k + 2 /\ x = Newline)
    BY <1>2 DEF PartIs
  <2>2. 2 # 2 * k + 1
    OBVIOUS
  <2>q. QED
    BY <2>1, <2>2
<1>3. ASSUME NEW j \in Nat \ {0}, PartIs(x, n, j + 2) PROVE PartIs(x, n + 1, j)
  <2>1. PICK k \in Nat : (j + 2 = 2 * k + 1 /\ x = n + k + 1) \/ (j + 2 = 2 * k + 2 /\ x = Newline)
    BY <1>3 DEF PartIs
  <2>2. k - 1 \in Nat
    BY <2>1
  <2>3. (j = 2 * (k - 1) + 1 /\ x = n + 1 + (k - 1) + 1) \/ (j = 2 * (k - 1) + 2 /\ x = Newline)
    BY <2>1
  <2>q. QED
    BY <2>2, <2>3 DEF PartIs
<1>q. QED
  BY <1>1, <1>2, <1>3

\* The first part of what is in the host's socket, and what comes after it.
LEMMA FirstPart ==
  ASSUME NEW s \in Seq(0 .. MaxLines), s # <<>>, NEW n \in Nat, NEW h \in {0, 1}, PartsFrom(s, n, h)
  PROVE  /\ h = 0 => Head(s) = n + 1 /\ PartsFrom(Tail(s), n, 1)
         /\ h = 1 => Head(s) = Newline /\ PartsFrom(Tail(s), n + 1, 0)
         /\ Tail(s) \in Seq(0 .. MaxLines) /\ Len(Tail(s)) = Len(s) - 1 /\ Len(s) \in Nat
<1>1. PICK b \in Nat : b = Len(s)
  OBVIOUS
<1>2. /\ Head(s) = s[1] /\ 1 \in DOMAIN s /\ Tail(s) \in Seq(0 .. MaxLines) /\ Len(Tail(s)) = b - 1
      /\ \A i \in DOMAIN Tail(s) : i \in Nat \ {0} /\ i + 1 \in DOMAIN s /\ Tail(s)[i] = s[i + 1]
  BY <1>1
<1>3. PartIs(Head(s), n, h + 1)
  BY <1>2 DEF PartsFrom
<1>4. ASSUME NEW i \in DOMAIN Tail(s) PROVE PartIs(Tail(s)[i], n, h + (i + 1))
  BY <1>2 DEF PartsFrom
<1>5. CASE h = 0
  <2>1. PartIs(Head(s), n, 1)
    <3>1. h + 1 = 1
      BY <1>5
    <3>q. QED
      BY <1>3, <3>1
  <2>2. ASSUME NEW i \in DOMAIN Tail(s) PROVE PartIs(Tail(s)[i], n, 1 + i)
    <3>1. h + (i + 1) = 1 + i
      BY <1>2, <1>5
    <3>q. QED
      BY <1>4, <3>1
  <2>q. QED
    BY <1>1, <1>2, <1>5, <2>1, <2>2, PartAt DEF PartsFrom
<1>6. CASE h = 1
  <2>1. PartIs(Head(s), n, 2)
    <3>1. h + 1 = 2
      BY <1>6
    <3>q. QED
      BY <1>3, <3>1
  <2>2. ASSUME NEW i \in DOMAIN Tail(s) PROVE PartIs(Tail(s)[i], n + 1, 0 + i)
    <3>1. h + (i + 1) = i + 2 /\ 0 + i = i /\ i \in Nat \ {0}
      BY <1>2, <1>6
    <3>2. PartIs(Tail(s)[i], n, i + 2)
      BY <1>4, <3>1
    <3>3. PartIs(Tail(s)[i], n + 1, i)
      BY <3>1, <3>2, PartAt
    <3>q. QED
      BY <3>1, <3>3
  <2>q. QED
    BY <1>1, <1>2, <1>6, <2>1, <2>2, PartAt DEF PartsFrom
<1>q. QED
  BY <1>5, <1>6

\* The part that the client's line t goes on with.
LEMMA LastPart ==
  ASSUME NEW s \in Seq(0 .. MaxLines), NEW n \in Nat, NEW h \in {0, 1}, PartsFrom(s, n, h),
         NEW x \in 0 .. MaxLines, NEW t \in Nat,
         \/ x = t /\ 2 * t = 2 * n + h + Len(s) + 2
         \/ x = Newline /\ 2 * t = 2 * n + h + Len(s) + 1
  PROVE  /\ Append(s, x) \in Seq(0 .. MaxLines) /\ Len(Append(s, x)) = Len(s) + 1
         /\ PartsFrom(Append(s, x), n, h)
<1>1. PICK b \in Nat : b = Len(s)
  OBVIOUS
<1>2. /\ Append(s, x) \in Seq(0 .. MaxLines) /\ Len(Append(s, x)) = b + 1
      /\ \A i \in DOMAIN Append(s, x) :
           \/ i \in DOMAIN s /\ Append(s, x)[i] = s[i]
           \/ i = b + 1 /\ Append(s, x)[i] = x
  BY <1>1
<1>3. PartIs(x, n, h + (b + 1))
  <2>1. \/ x = t /\ 2 * t = 2 * n + h + b + 2
        \/ x = Newline /\ 2 * t = 2 * n + h + b + 1
    BY <1>1
  <2>2. t - n - 1 \in Nat
    BY <2>1
  <2>3. \/ h + (b + 1) = 2 * (t - n - 1) + 1 /\ x = n + (t - n - 1) + 1
        \/ h + (b + 1) = 2 * (t - n - 1) + 2 /\ x = Newline
    BY <2>1
  <2>q. QED
    BY <2>2, <2>3 DEF PartIs
<1>4. ASSUME NEW i \in DOMAIN Append(s, x) PROVE PartIs(Append(s, x)[i], n, h + i)
  <2>1. CASE i \in DOMAIN s /\ Append(s, x)[i] = s[i]
    BY <2>1 DEF PartsFrom
  <2>2. CASE i = b + 1 /\ Append(s, x)[i] = x
    BY <1>3, <2>2
  <2>q. QED
    BY <1>2, <2>1, <2>2
<1>q. QED
  BY <1>1, <1>2, <1>4 DEF PartsFrom

LEMMA SameHand ==
  ASSUME NEW p, NEW p2, InHand(p2) = InHand(p), NEW u, NEW w, NEW q, Framed(p, u, w, q)
  PROVE  Framed(p2, u, w, q)
BY DEF Framed

\* The proxy's reader has the text of a line and not its newline.
LEMMA HoldsHalf ==
  ASSUME NEW p \in Proxy, NEW u, NEW w \in Worker, NEW q \in Pipe, Carries(p, u, w, q),
         p.stage = "relay", q.toHost # <<>>, Head(q.toHost) # Newline,
         NEW p2 \in Proxy, p2.stage = p.stage, p2.hand = p.hand, p2.half = Head(q.toHost),
         NEW q2, q2.toHost = Tail(q.toHost), q2.toWorker = q.toWorker,
         q2.fromWorker = q.fromWorker, q2.toClient = q.toClient
  PROVE  Carries(p2, u, w, q2)
<1> DEFINE n == Len(w.took) + Len(q.toWorker)
           b == Len(q.toHost)
<1>0. w \in Worker /\ q \in Pipe
  OBVIOUS
<1>1. q.toHost \in Seq(0 .. MaxLines) /\ n \in Nat /\ b \in Nat
  <2>1. q.toHost \in Seq(0 .. MaxLines) /\ Len(w.took) \in Nat /\ Len(q.toWorker) \in Nat /\ b \in Nat
    BY ONLY <1>0, LengthsAre
  <2>2. \A i, j \in Nat : i + j \in Nat
    OBVIOUS
  <2>q. QED
    BY ONLY <2>1, <2>2, Zenon
<1>2. Lined(p2, u, w, q2)
  <2>1. CASE w.stage # "attached"
    BY <2>1 DEF Carries, Lined
  <2>2. CASE w.stage = "attached"
    <3>1. /\ CountsFrom(w.took, 0) /\ CountsFrom(q.toWorker, Len(w.took))
          /\ PartsFrom(q.toHost, n, HalfHeld(p))
          /\ u.stage \in {"waiting", "looping"} => 2 * u.typed = 2 * n + HalfHeld(p) + b
          /\ u.stage = "typing" => 2 * u.typed = 2 * n + HalfHeld(p) + b + 2
          /\ u.stage = "midline" => 2 * u.typed = 2 * n + HalfHeld(p) + b + 1
      BY <2>2 DEF Carries, Lined
    <3> HIDE DEF n
    <3>2. /\ HalfHeld(p) = 0 => Head(q.toHost) = n + 1 /\ PartsFrom(Tail(q.toHost), n, 1)
          /\ HalfHeld(p) = 1 => Head(q.toHost) = Newline
          /\ Len(Tail(q.toHost)) = b - 1
      BY <1>1, <3>1, HalfIs, FirstPart
    <3>3. HalfHeld(p) = 0 /\ p2.half = n + 1 /\ HalfHeld(p2) = 1
      BY <1>1, <3>2, HalfIs DEF HalfHeld
    <3>4. Len(q2.toHost) = b - 1 /\ PartsFrom(q2.toHost, n, HalfHeld(p2))
      BY <3>2, <3>3
    <3> HIDE DEF b
    <3>5. 2 * n + HalfHeld(p2) + (b - 1) = 2 * n + HalfHeld(p) + b
      BY <1>1, <3>3
    <3>q. QED
      BY <2>2, <3>1, <3>3, <3>4, <3>5 DEF Lined, n, b
  <2>q. QED
    BY <2>1, <2>2
<1>3. Greeted(p2, u, w, q2)
  BY DEF Carries, Greeted, Unanswered
<1>4. Framed(p2, u, w, q2)
  <2>1. Framed(p, u, w, q2)
    BY OnlyLines DEF Carries
  <2>2. InHand(p2) = InHand(p)
    BY DEF InHand
  <2>q. QED
    BY <2>1, <2>2, SameHand
<1>q. QED
  BY <1>2, <1>3, <1>4 DEF Carries

\* A line is through to the worker: its newline was read, or the client is gone within it.
LEMMA PassesLine ==
  ASSUME NEW p \in Proxy, NEW u, NEW w \in Worker, NEW q \in Pipe, Carries(p, u, w, q),
         p.stage = "relay", w.stage = "attached", p.half # 0,
         NEW p2 \in Proxy, p2.stage = p.stage, p2.hand = p.hand, p2.half = 0,
         NEW q2, q2.toWorker = Append(q.toWorker, p.half),
         q2.fromWorker = q.fromWorker, q2.toClient = q.toClient,
         \/ q.toHost # <<>> /\ q2.toHost = Tail(q.toHost)
         \/ u.stage \in {"ended", "broken"} /\ q2.toHost = <<>>
  PROVE  Carries(p2, u, w, q2) /\ q2.toWorker \in Seq(1 .. MaxLines)
<1> DEFINE n == Len(w.took)
           a == Len(q.toWorker)
           b == Len(q.toHost)
<1>1. /\ q.toHost \in Seq(0 .. MaxLines) /\ q.toWorker \in Seq(1 .. MaxLines)
      /\ n \in Nat /\ a \in Nat /\ b \in Nat /\ p.half \in 1 .. MaxLines /\ HalfHeld(p) = 1
  BY LengthsAre, HalfIs
<1>2. /\ CountsFrom(w.took, 0) /\ CountsFrom(q.toWorker, n) /\ p.half = n + a + 1
      /\ PartsFrom(q.toHost, n + a, HalfHeld(p))
      /\ u.stage \in {"waiting", "looping"} => 2 * u.typed = 2 * (n + a) + HalfHeld(p) + b
      /\ u.stage = "typing" => 2 * u.typed = 2 * (n + a) + HalfHeld(p) + b + 2
      /\ u.stage = "midline" => 2 * u.typed = 2 * (n + a) + HalfHeld(p) + b + 1
  BY DEF Carries, Lined
<1>3. /\ q2.toWorker \in Seq(1 .. MaxLines) /\ Len(q2.toWorker) = a + 1
      /\ CountsFrom(q2.toWorker, n)
  <2>1. ASSUME NEW S, NEW s \in Seq(S), NEW x \in S, CountsFrom(s, n), x = n + Len(s) + 1
        PROVE  /\ Append(s, x) \in Seq(S) /\ Len(Append(s, x)) = Len(s) + 1
               /\ CountsFrom(Append(s, x), n)
    <3> HIDE DEF n
    <3>q. QED
      BY <1>1, <2>1, CountsOn
  <2>2. /\ CountsFrom(q.toWorker, n) /\ p.half = n + Len(q.toWorker) + 1
        /\ q.toWorker \in Seq(1 .. MaxLines) /\ p.half \in 1 .. MaxLines
    BY <1>1, <1>2
  <2>3. /\ Append(q.toWorker, p.half) \in Seq(1 .. MaxLines)
        /\ Len(Append(q.toWorker, p.half)) = Len(q.toWorker) + 1
        /\ CountsFrom(Append(q.toWorker, p.half), n)
    BY ONLY <2>1, <2>2, Zenon
  <2>q. QED
    BY <2>3
<1> HIDE DEF n, a
<1>4. PartsFrom(q2.toHost, n + (a + 1), 0)
  <2>1. CASE q.toHost # <<>> /\ q2.toHost = Tail(q.toHost)
    <3>1. PICK z \in Nat : z = n + a
      BY <1>1
    <3>2. PartsFrom(Tail(q.toHost), z + 1, 0)
      BY <1>1, <1>2, <2>1, <3>1, FirstPart
    <3>3. z + 1 = n + (a + 1)
      BY <1>1, <3>1
    <3>q. QED
      BY <2>1, <3>2, <3>3
  <2>2. CASE q2.toHost = <<>>
    BY <2>2 DEF PartsFrom
  <2>q. QED
    BY <2>1, <2>2
<1>5. u.stage \in {"ended", "broken"} \/ Len(q2.toHost) = b - 1
  <2>1. ASSUME NEW S, NEW s \in Seq(S), s # <<>> PROVE Len(Tail(s)) = Len(s) - 1
    BY <2>1
  <2>q. QED
    BY <1>1, <2>1
<1> HIDE DEF b
<1>6. 2 * (n + (a + 1)) + 0 + (b - 1) = 2 * (n + a) + HalfHeld(p) + b
  BY <1>1
<1>7. Lined(p2, u, w, q2)
  <2>1. HalfHeld(p2) = 0
    BY DEF HalfHeld
  <2>2. CASE u.stage \in {"ended", "broken"}
    BY <1>2, <1>3, <1>4, <2>1, <2>2 DEF Lined, n
  <2>3. CASE Len(q2.toHost) = b - 1
    BY <1>2, <1>3, <1>4, <1>6, <2>1, <2>3 DEF Lined, n
  <2>q. QED
    BY <1>5, <2>2, <2>3
<1>8. Greeted(p2, u, w, q2)
  BY DEF Carries, Greeted, Unanswered
<1>9. Framed(p2, u, w, q2)
  <2>1. Framed(p, u, w, q2)
    BY OnlyLines DEF Carries
  <2>2. InHand(p2) = InHand(p)
    BY DEF InHand
  <2>q. QED
    BY <2>1, <2>2, SameHand
<1>q. QED
  BY <1>3, <1>7, <1>8, <1>9 DEF Carries

\* What the proxy's reader has of a line leads to no frame: the client is gone, or the worker.
LEMMA DropsHalf ==
  ASSUME NEW p \in Proxy, NEW u, NEW w \in Worker, NEW q, Carries(p, u, w, q), p.stage = "relay",
         NEW p2, p2.stage \in {"relay", "drain"}, p2.half = 0,
         NEW q2, q2.toWorker = q.toWorker, q2.fromWorker = q.fromWorker, q2.toClient = q.toClient,
         \/ w.stage # "attached"
         \/ u.stage \in {"ended", "broken"} /\ q2.toHost = <<>>
  PROVE  Carries(p2, u, w, q2)
<1>1. Lined(p2, u, w, q2)
  <2>1. CASE w.stage # "attached"
    BY <2>1 DEF Carries, Lined
  <2>2. CASE u.stage \in {"ended", "broken"} /\ q2.toHost = <<>>
    <3>1. HalfHeld(p2) = 0 /\ \A n, h : PartsFrom(<<>>, n, h)
      BY DEF HalfHeld, PartsFrom
    <3>2. /\ CountsFrom(w.took, 0)
          /\ w.stage = "attached" => CountsFrom(q2.toWorker, Len(w.took))
      BY DEF Carries, Lined
    <3>q. QED
      BY <2>2, <3>1, <3>2 DEF Lined
  <2>q. QED
    BY <2>1, <2>2
<1>2. Greeted(p2, u, w, q2)
  BY DEF Carries, Greeted, Unanswered
<1>3. Framed(p2, u, w, q2)
  <2>1. Framed(p, u, w, q2)
    BY OnlyLines DEF Carries
  <2>2. InHand(p2) = InHand(p)
    BY DEF InHand
  <2>q. QED
    BY <2>1, <2>2, SameHand
<1>q. QED
  BY <1>1, <1>2, <1>3 DEF Carries

LEMMA TakesLine ==
  ASSUME NEW p, NEW u, NEW w \in Worker, NEW q \in Pipe, Carries(p, u, w, q), q.toWorker # <<>>,
         w.stage = "attached",
         NEW w2, w2.stage = w.stage, w2.sent = w.sent, w2.took = Append(w.took, Head(q.toWorker)),
         NEW q2, q2.toHost = q.toHost, q2.toWorker = Tail(q.toWorker),
         q2.fromWorker = q.fromWorker, q2.toClient = q.toClient
  PROVE  /\ Carries(p, u, w2, q2)
         /\ w2.took \in Seq(1 .. MaxLines) /\ q2.toWorker \in Seq(1 .. MaxLines)
<1> DEFINE n == Len(w.took)
           a == Len(q.toWorker)
           b == Len(q.toHost)
<1>1. /\ q.toWorker \in Seq(1 .. MaxLines) /\ w.took \in Seq(1 .. MaxLines)
      /\ n \in Nat /\ a \in Nat /\ b \in Nat
  BY LengthsAre
<1>2. CountsFrom(w.took, 0) /\ CountsFrom(q.toWorker, n)
  BY DEF Carries, Lined
<1>3. /\ q2.toWorker \in Seq(1 .. MaxLines) /\ w2.took \in Seq(1 .. MaxLines)
      /\ Len(w2.took) = n + 1 /\ Len(q2.toWorker) = a - 1 /\ a - 1 \in Nat
      /\ CountsFrom(w2.took, 0) /\ CountsFrom(q2.toWorker, n + 1)
  <2>1. PICK z \in Nat : z = 0
    OBVIOUS
  <2>2. z + n = n /\ z + (n + 1) = n + 1
    BY <1>1, <2>1
  <2>3. CountsFrom(q.toWorker, z + Len(w.took)) /\ CountsFrom(w.took, z)
    BY <1>2, <2>1, <2>2
  <2>4. /\ Tail(q.toWorker) \in Seq(1 .. MaxLines)
        /\ Append(w.took, Head(q.toWorker)) \in Seq(1 .. MaxLines)
        /\ Len(Append(w.took, Head(q.toWorker))) = Len(w.took) + 1
        /\ Len(Tail(q.toWorker)) = Len(q.toWorker) - 1 /\ Len(q.toWorker) - 1 \in Nat
        /\ CountsFrom(Append(w.took, Head(q.toWorker)), z)
        /\ CountsFrom(Tail(q.toWorker), z + (Len(w.took) + 1))
    <3> HIDE DEF n, a, b
    <3>q. QED
      BY ONLY q.toWorker # <<>>, <1>1, <2>3, LineMoves
  <2>q. QED
    BY <2>1, <2>2, <2>4
<1> HIDE DEF n, a, b
<1>5. (n + 1) + (a - 1) = n + a
  BY <1>1
<1>6. Lined(p, u, w2, q2)
  <2>1. Lined(p, u, w, q)
    BY DEF Carries
  <2>2. Len(w2.took) + Len(q2.toWorker) = Len(w.took) + Len(q.toWorker)
    BY <1>3, <1>5 DEF n, a
  <2>q. QED
    BY <1>3, <2>1, <2>2 DEF Lined, n
<1>7. Greeted(p, u, w2, q2)
  BY DEF Carries, Greeted
<1>8. Framed(p, u, w2, q2)
  BY OnlyLines DEF Carries
<1>q. QED
  BY <1>3, <1>6, <1>7, <1>8 DEF Carries

LEMMA KeysAre ==
  ASSUME NEW p \in Proxy, NEW u \in Client, NEW q \in Pipe
  PROVE  /\ Seen(u) \subseteq Nat /\ Texts(u.hand) \subseteq Nat /\ Wired(q.toClient) \subseteq Nat
         /\ InHand(p) \subseteq Nat /\ Texts(q.fromWorker) \subseteq Nat
<1>1. /\ u.got \in Seq(Frames) /\ u.hand \in Seq(Frames) /\ q.fromWorker \in Seq(Frames)
      /\ q.toClient \in Seq(Pieces) /\ p.hand \in Frames
  BY HandIs DEF Pipe, Proxy
<1>2. /\ \A i \in DOMAIN u.got : u.got[i] \in Frames
      /\ \A i \in DOMAIN u.hand : u.hand[i] \in Frames
      /\ \A i \in DOMAIN q.fromWorker : q.fromWorker[i] \in Frames
      /\ \A i \in DOMAIN q.toClient : q.toClient[i] \in Pieces
  BY <1>1
<1>3. Seen(u) \subseteq Nat /\ Texts(u.hand) \subseteq Nat /\ Texts(q.fromWorker) \subseteq Nat
  BY <1>2, RankIs DEF Seen, Texts
<1>4. Wired(q.toClient) \subseteq Nat
  BY <1>2, KeyIs DEF Wired
<1>5. InHand(p) \subseteq Nat
  BY <1>1, RankIs DEF InHand
<1>q. QED
  BY <1>3, <1>4, <1>5

\* A line of the stream is in: its newline, and its text, which may have been in before.
LEMMA ReadsLine ==
  ASSUME NEW p \in Proxy, NEW u \in Client, NEW w \in Worker, NEW q \in Pipe, Carries(p, u, w, q),
         u.stage = "looping", q.toClient # <<>>,
         NEW u2, u2.stage \in {"looping", "ended"}, u2.typed = u.typed, u2.hand = <<>>,
         u2.got = Append(u.got, q.toClient[1].frame),
         NEW q2, q2.toHost = q.toHost, q2.toWorker = q.toWorker, q2.fromWorker = q.fromWorker,
         \/ /\ q.toClient[1].piece = "text" /\ 2 \in DOMAIN q.toClient
            /\ q2.toClient = SubSeq(q.toClient, 3, Len(q.toClient))
         \/ /\ q.toClient[1].piece = "newline"
            /\ q2.toClient = SubSeq(q.toClient, 2, Len(q.toClient))
  PROVE  Carries(p, u2, w, q2)
<1>0. PICK n \in {1, 2} :
        /\ n = 2 => q.toClient[1].piece = "text" /\ 2 \in DOMAIN q.toClient
        /\ n = 1 => q.toClient[1].piece = "newline"
        /\ q2.toClient = SubSeq(q.toClient, n + 1, Len(q.toClient))
  <2>1. 1 + 1 = 2 /\ 2 + 1 = 3
    OBVIOUS
  <2>q. QED
    BY <2>1
<1> DEFINE s == q.toClient
           x == q.toClient[1]
           r == Rank(x.frame)
           m == Key(q.toClient[n])
<1>1. /\ s \in Seq(Pieces) /\ u.got \in Seq(Frames) /\ q.fromWorker \in Seq(Frames)
      /\ 1 \in DOMAIN s /\ x \in Pieces /\ n \in DOMAIN s /\ s[n] \in Pieces
  <2>1. s \in Seq(Pieces) /\ u.got \in Seq(Frames) /\ q.fromWorker \in Seq(Frames)
    BY HandIs DEF Pipe
  <2>2. 1 \in DOMAIN s
    BY <2>1
  <2>3. n \in DOMAIN s
    BY <1>0, <2>2
  <2>q. QED
    BY <2>1, <2>2, <2>3
<1>2. x.frame # Response /\ x.frame \in Frames
  BY <1>1, KeyIs DEF Carries, Greeted
<1>3. /\ r \in Nat /\ (x.piece = "text" => Key(x) = 2 * r)
      /\ (x.piece = "newline" => Key(x) = 2 * r + 1) /\ m \in Nat
  BY <1>1, <1>2, KeyIs, RankIs
<1>4. m >= 2 * r + 1 /\ Key(x) <= 2 * r + 1 /\ Key(x) \in Wired(s) /\ m \in Wired(s)
  <2>1. Key(x) \in Wired(s) /\ m \in Wired(s)
    BY <1>1 DEF Wired
  <2>2. CASE n = 1
    BY <1>0, <1>3, <2>1, <2>2
  <2>3. CASE n = 2
    <3>1. PiecesAscend(s)
      BY DEF Carries, Framed
    <3>2. Key(s[1]) < Key(s[2])
      BY <1>1, <2>3, <3>1 DEF PiecesAscend
    <3>q. QED
      BY <1>0, <1>3, <2>1, <2>3, <3>2
  <2>q. QED
    BY <2>2, <2>3
<1>5. /\ q2.toClient \in Seq(Pieces) /\ PiecesAscend(q2.toClient)
      /\ \A i \in DOMAIN q2.toClient : i + n \in DOMAIN s /\ q2.toClient[i] = s[i + n]
      /\ Wired(q2.toClient) \subseteq Wired(s) /\ Before({m}, Wired(q2.toClient))
  <2>1. PiecesAscend(s)
    BY DEF Carries, Framed
  <2>2. q2.toClient = SubSeq(s, n + 1, Len(s))
    BY <1>0
  <2> HIDE DEF s
  <2>3. s # <<>> /\ n \in DOMAIN s /\ m = Key(s[n])
    BY <1>1 DEF s
  <2> HIDE DEF m
  <2>q. QED
    BY <1>1, <2>1, <2>2, <2>3, PiecesAfter
<1>6. /\ Seen(u) \subseteq Nat /\ Wired(s) \subseteq Nat /\ InHand(p) \subseteq Nat
      /\ Texts(q.fromWorker) \subseteq Nat
  BY KeysAre
<1>7. Chain(Seen(u), Texts(u.hand), Wired(s), InHand(p), Texts(q.fromWorker))
  BY DEF Carries, Framed
<1>8. \A i \in DOMAIN u.got : Rank(u.got[i]) < r
  <2> SUFFICES ASSUME NEW i \in DOMAIN u.got PROVE Rank(u.got[i]) < r
    OBVIOUS
  <2>1. u.got[i] \in Frames /\ 2 * Rank(u.got[i]) + 1 \in Seen(u)
    BY <1>1 DEF Seen
  <2>2. Rank(u.got[i]) \in Nat
    BY <2>1, RankIs
  <2>3. 2 * Rank(u.got[i]) + 1 < Key(x)
    BY <1>4, <1>7, <2>1 DEF Chain, Before
  <2>4. Key(x) \in Nat
    BY <1>1, KeyIs
  <2> HIDE DEF x, r
  <2>q. QED
    BY <1>3, <1>4, <2>2, <2>3, <2>4
<1>9. u2.got \in Seq(Frames) /\ Ascends(u2.got)
  <2>1. u2.got = Append(u.got, x.frame) /\ Ascends(u.got)
    BY DEF Carries, Framed
  <2> HIDE DEF x
  <2>q. QED
    BY <1>1, <1>2, <1>8, <2>1, FramesWith
<1>10. Seen(u2) = Seen(u) \cup {2 * r + 1}
  <2>1. u2.got = Append(u.got, x.frame)
    OBVIOUS
  <2> HIDE DEF x
  <2>q. QED
    BY <1>1, <1>2, <2>1, SeenWith
<1> HIDE DEF x, r, m, s
<1>11. /\ Before({2 * r + 1}, Wired(q2.toClient)) /\ Before({2 * r + 1}, InHand(p))
       /\ Before({2 * r + 1}, Texts(q.fromWorker))
  <2>1. \A j \in Wired(q2.toClient) \cup InHand(p) \cup Texts(q.fromWorker) : m < j /\ j \in Nat
    BY <1>4, <1>5, <1>6, <1>7 DEF Chain, Before
  <2>2. \A j \in Wired(q2.toClient) \cup InHand(p) \cup Texts(q.fromWorker) : 2 * r + 1 < j
    BY <1>3, <1>4, <2>1
  <2>q. QED
    BY <2>2 DEF Before
<1>12. Chain(Seen(u2), Texts(u2.hand), Wired(q2.toClient), InHand(p), Texts(q2.fromWorker))
  <2>1. Texts(u2.hand) = {}
    BY NoTexts
  <2>2. /\ Before(Seen(u), Wired(q2.toClient)) /\ Before(Seen(u), InHand(p))
        /\ Before(Seen(u), Texts(q.fromWorker))
        /\ Before(Wired(q2.toClient), InHand(p)) /\ Before(Wired(q2.toClient), Texts(q.fromWorker))
        /\ Before(InHand(p), Texts(q.fromWorker))
    BY <1>5, <1>7 DEF Chain, Before
  <2>3. /\ Before(Seen(u2), Wired(q2.toClient)) /\ Before(Seen(u2), InHand(p))
        /\ Before(Seen(u2), Texts(q.fromWorker))
    BY <1>10, <1>11, <2>2 DEF Before
  <2>4. \A A : Before({}, A) /\ Before(A, {})
    BY DEF Before
  <2>q. QED
    BY <2>1, <2>2, <2>3, <2>4 DEF Chain
<1>13. w.stage = "attached" =>
        \A j \in Seen(u2) \cup Texts(u2.hand) \cup Wired(q2.toClient) \cup InHand(p)
                 \cup Texts(q2.fromWorker) : j <= 2 * w.sent + 1
  <2> SUFFICES ASSUME w.stage = "attached"
               PROVE  \A j \in Seen(u2) \cup Texts(u2.hand) \cup Wired(q2.toClient) \cup InHand(p)
                               \cup Texts(q2.fromWorker) : j <= 2 * w.sent + 1
    OBVIOUS
  <2>1. \A j \in Seen(u) \cup Wired(s) \cup InHand(p) \cup Texts(q.fromWorker) : j <= 2 * w.sent + 1
    BY DEF Carries, Framed, s
  <2>2. 2 * r + 1 <= 2 * w.sent + 1
    <3>1. m <= 2 * w.sent + 1 /\ w.sent \in Nat
      BY <1>4, <2>1 DEF Worker
    <3>q. QED
      BY <1>3, <1>4, <3>1
  <2>3. Texts(u2.hand) = {}
    BY NoTexts
  <2>q. QED
    BY <1>5, <1>10, <2>1, <2>2, <2>3
<1>14. Greeted(p, u2, w, q2)
  <2>1. p.stage \notin Unanswered /\ w.stage # "asked"
    BY DEF Carries, Greeted
  <2>2. \A i \in DOMAIN q2.toClient : q2.toClient[i].frame # Response
    BY <1>5 DEF Carries, Greeted, s
  <2>q. QED
    BY <2>1, <2>2 DEF Greeted
<1>15. Lined(p, u2, w, q2)
  BY DEF Carries, Lined
<1>16. Ascends(q2.fromWorker)
  BY DEF Carries, Framed
<1>q. QED
  BY <1>5, <1>9, <1>12, <1>13, <1>14, <1>15, <1>16 DEF Carries, Framed

\* The text of a line is in.
LEMMA ReadsText ==
  ASSUME NEW p \in Proxy, NEW u \in Client, NEW w \in Worker, NEW q \in Pipe, Carries(p, u, w, q),
         u.stage = "looping", q.toClient # <<>>, q.toClient[1].piece = "text",
         NEW u2, u2.stage = "looping", u2.typed = u.typed, u2.got = u.got,
         u2.hand = <<q.toClient[1].frame>>,
         NEW q2, q2.toHost = q.toHost, q2.toWorker = q.toWorker, q2.fromWorker = q.fromWorker,
         q2.toClient = Tail(q.toClient)
  PROVE  Carries(p, u2, w, q2) /\ q.toClient[1].frame \in Frames /\ q2.toClient \in Seq(Pieces)
<1> DEFINE x == q.toClient[1]
           k == Key(x)
<1>1. q.toClient \in Seq(Pieces) /\ 1 \in DOMAIN q.toClient /\ x \in Pieces
  <2>1. q.toClient \in Seq(Pieces)
    BY DEF Pipe
  <2>q. QED
    BY <2>1
<1>2. x.frame # Response /\ x.frame \in Frames
  BY <1>1, KeyIs DEF Carries, Greeted
<1>3. k = 2 * Rank(x.frame) /\ k \in Wired(q.toClient)
  BY <1>1, <1>2, KeyIs DEF Wired
<1>4. /\ q2.toClient \in Seq(Pieces) /\ PiecesAscend(q2.toClient)
      /\ \A i \in DOMAIN q2.toClient : i + 1 \in DOMAIN q.toClient /\ q2.toClient[i] = q.toClient[i + 1]
      /\ Wired(q2.toClient) \subseteq Wired(q.toClient) /\ Before({k}, Wired(q2.toClient))
  <2>1. PiecesAscend(q.toClient) /\ q2.toClient = SubSeq(q.toClient, 1 + 1, Len(q.toClient))
    BY <1>1, PiecesTail DEF Carries, Framed
  <2>2. 1 \in {1, 2}
    OBVIOUS
  <2>q. QED
    BY <1>1, <2>1, <2>2, PiecesAfter
<1>5. Texts(u2.hand) = {k}
  <2>1. DOMAIN u2.hand = {1} /\ u2.hand[1] = x.frame
    OBVIOUS
  <2> HIDE DEF x
  <2>q. QED
    BY <1>3, <2>1 DEF Texts
<1> HIDE DEF k, x
<1>6. Seen(u2) = Seen(u)
  BY DEF Seen
<1>7. Chain(Seen(u2), Texts(u2.hand), Wired(q2.toClient), InHand(p), Texts(q2.fromWorker))
  BY <1>3, <1>4, <1>5, <1>6 DEF Carries, Framed, Chain, Before
<1>8. w.stage = "attached" =>
       \A j \in Seen(u2) \cup Texts(u2.hand) \cup Wired(q2.toClient) \cup InHand(p)
                \cup Texts(q2.fromWorker) : j <= 2 * w.sent + 1
  BY <1>3, <1>4, <1>5, <1>6 DEF Carries, Framed
<1>9. Greeted(p, u2, w, q2)
  <2>1. p.stage \notin Unanswered /\ w.stage # "asked"
    BY DEF Carries, Greeted
  <2>2. \A i \in DOMAIN q2.toClient : q2.toClient[i].frame # Response
    BY <1>4 DEF Carries, Greeted
  <2>q. QED
    BY <2>1, <2>2 DEF Greeted
<1>10. Lined(p, u2, w, q2)
  BY DEF Carries, Lined
<1>11. Ascends(u2.got) /\ Ascends(q2.fromWorker)
  BY DEF Carries, Framed
<1>q. QED
  BY <1>2, <1>4, <1>7, <1>8, <1>9, <1>10, <1>11 DEF Carries, Framed, x

\* A line is typed, and written.
LEMMA TypesLine ==
  ASSUME NEW p, NEW u \in Client, NEW w \in Worker, NEW q \in Pipe, Carries(p, u, w, q),
         u.stage = "looping",
         NEW u2, u2.stage = "typing", u2.typed = u.typed + 1, u2.got = u.got, u2.hand = <<>>
  PROVE  Carries(p, u2, w, q)
<1>1. u.typed \in Nat
  BY ProxyAssumption DEF Client
<1>2. Greeted(p, u2, w, q)
  BY <1>1 DEF Carries, Greeted
<1>3. Framed(p, u2, w, q)
  BY OnlyLines DEF Carries
<1>4. Lined(p, u2, w, q)
  <2> DEFINE parts == 2 * (Len(w.took) + Len(q.toWorker)) + HalfHeld(p) + Len(q.toHost)
  <2>1. w.stage = "attached" => 2 * u.typed = parts
    BY DEF Carries, Lined
  <2>2. 2 * u2.typed = 2 * u.typed + 2
    BY <1>1
  <2>3. w.stage = "attached" => 2 * u2.typed = parts + 2
    BY <2>1, <2>2
  <2>q. QED
    BY <2>3 DEF Carries, Lined
<1>q. QED
  BY <1>2, <1>3, <1>4 DEF Carries

LEMMA WritesLine ==
  ASSUME NEW p \in Proxy, NEW u \in Client, NEW w \in Worker, NEW q \in Pipe, Carries(p, u, w, q),
         NEW x,
         NEW u2, u2.typed = u.typed, u2.got = u.got, u2.hand = u.hand,
         \/ u.stage = "typing" /\ u2.stage = "midline" /\ x = u.typed
         \/ u.stage = "midline" /\ u2.stage = "looping" /\ x = Newline,
         NEW q2, q2.toHost = Append(q.toHost, x), q2.toWorker = q.toWorker,
         q2.fromWorker = q.fromWorker, q2.toClient = q.toClient
  PROVE  Carries(p, u2, w, q2) /\ q2.toHost \in Seq(0 .. MaxLines)
<1> DEFINE n == Len(w.took) + Len(q.toWorker)
           b == Len(q.toHost)
<1>0. w \in Worker /\ q \in Pipe
  OBVIOUS
<1>1. q.toHost \in Seq(0 .. MaxLines) /\ n \in Nat /\ b \in Nat
  <2>1. q.toHost \in Seq(0 .. MaxLines) /\ Len(w.took) \in Nat /\ Len(q.toWorker) \in Nat /\ b \in Nat
    BY ONLY <1>0, LengthsAre
  <2>2. \A i, j \in Nat : i + j \in Nat
    OBVIOUS
  <2>q. QED
    BY ONLY <2>1, <2>2, Zenon
<1>2. u.typed \in Nat /\ x \in 0 .. MaxLines
  BY ProxyAssumption DEF Client, Newline
<1>3. q2.toHost \in Seq(0 .. MaxLines)
  BY <1>1, <1>2
<1>4. Greeted(p, u2, w, q2)
  BY DEF Carries, Greeted
<1>5. Framed(p, u2, w, q2)
  BY OnlyLines DEF Carries
<1>6. Lined(p, u2, w, q2)
  <2>1. CASE w.stage # "attached"
    BY <2>1 DEF Carries, Lined
  <2>2. CASE w.stage = "attached"
    <3>1. /\ CountsFrom(w.took, 0) /\ CountsFrom(q.toWorker, Len(w.took)) /\ p.half \in {0, n + 1}
          /\ PartsFrom(q.toHost, n, HalfHeld(p))
          /\ u.stage = "typing" => 2 * u.typed = 2 * n + HalfHeld(p) + b + 2
          /\ u.stage = "midline" => 2 * u.typed = 2 * n + HalfHeld(p) + b + 1
      BY <2>2 DEF Carries, Lined
    <3> HIDE DEF n
    <3>2. \/ x = u.typed /\ 2 * u.typed = 2 * n + HalfHeld(p) + Len(q.toHost) + 2
          \/ x = Newline /\ 2 * u.typed = 2 * n + HalfHeld(p) + Len(q.toHost) + 1
      BY <3>1
    <3>3. Len(Append(q.toHost, x)) = Len(q.toHost) + 1 /\ PartsFrom(Append(q.toHost, x), n, HalfHeld(p))
      <4>1. q.toHost \in Seq(0 .. MaxLines) /\ HalfHeld(p) \in {0, 1} /\ PartsFrom(q.toHost, n, HalfHeld(p))
        BY <1>1, <3>1, HalfIs
      <4>q. QED
        BY ONLY <1>1, <1>2, <3>2, <4>1, LastPart
    <3>4. Len(q2.toHost) = b + 1 /\ PartsFrom(q2.toHost, n, HalfHeld(p))
      BY <3>3
    <3> HIDE DEF b
    <3>5. /\ u2.stage = "midline" => 2 * u2.typed = 2 * n + HalfHeld(p) + (b + 1) + 1
          /\ u2.stage = "looping" => 2 * u2.typed = 2 * n + HalfHeld(p) + (b + 1)
      <4>1. PICK h : h = HalfHeld(p)
        OBVIOUS
      <4>2. h \in {0, 1}
        BY <4>1 DEF HalfHeld
      <4>3. u.typed \in Nat /\ b \in Nat /\ n \in Nat /\ u2.typed = u.typed
        BY <1>1, <1>2
      <4>4. CASE u.stage = "typing" /\ u2.stage = "midline"
        <5>1. 2 * u.typed = 2 * n + h + b + 2
          BY <3>1, <4>1, <4>4
        <5>2. 2 * u2.typed = 2 * n + h + (b + 1) + 1
          BY <4>2, <4>3, <5>1
        <5>q. QED
          BY <4>1, <4>4, <5>2
      <4>5. CASE u.stage = "midline" /\ u2.stage = "looping"
        <5>1. 2 * u.typed = 2 * n + h + b + 1
          BY <3>1, <4>1, <4>5
        <5>2. 2 * u2.typed = 2 * n + h + (b + 1)
          BY <4>2, <4>3, <5>1
        <5>q. QED
          BY <4>1, <4>5, <5>2
      <4>q. QED
        BY <4>4, <4>5
    <3>q. QED
      BY <2>2, <3>1, <3>4, <3>5 DEF Lined, n
  <2>q. QED
    BY <2>1, <2>2
<1>q. QED
  BY <1>3, <1>4, <1>5, <1>6 DEF Carries

\* The client's end is empty: it hangs up, or its next reader starts afresh.
LEMMA Forgets ==
  ASSUME NEW p, NEW u, NEW w, NEW q, Carries(p, u, w, q),
         NEW u2, u2.typed = u.typed, u2.got = u.got, u2.hand = <<>>,
         \/ u2.stage \in {"ended", "broken"}
         \/ u.stage = "waiting" /\ u2.stage = "looping" /\ q.toClient # <<>>,
         NEW q2, q2.toHost = q.toHost, q2.toWorker = q.toWorker, q2.fromWorker = q.fromWorker,
         q2.toClient = <<>>
  PROVE  Carries(p, u2, w, q2)
<1>1. Framed(p, u2, w, q2)
  BY OnlyLines DEF Carries
<1>2. Greeted(p, u2, w, q2)
  <2>1. \A i \in DOMAIN q2.toClient : FALSE
    OBVIOUS
  <2>2. u2.stage = "looping" => p.stage \notin Unanswered /\ w.stage # "asked"
    BY DEF Carries, Greeted
  <2>q. QED
    BY <2>1, <2>2 DEF Carries, Greeted
<1>3. Lined(p, u2, w, q2)
  <2>1. u2.stage = "looping" => u.stage = "waiting"
    OBVIOUS
  <2>2. u2.stage \notin {"typing", "midline"}
    OBVIOUS
  <2>q. QED
    BY <2>1, <2>2 DEF Carries, Lined
<1>q. QED
  BY <1>1, <1>2, <1>3 DEF Carries

\* The worker's end: it takes part in the attach, sends a frame, or is through.
LEMMA Joins ==
  ASSUME NEW p, NEW u \in Client, NEW w \in Worker, NEW q, Carries(p, u, w, q),
         p.stage = "opening", w.stage = "asked",
         NEW p2, p2.stage = "record", p2.half = p.half,
         NEW w2, w2.stage = "attached", w2.sent = w.sent, w2.took = w.took
  PROVE  Carries(p2, u, w2, q)
<1>1. /\ u.got = <<>> /\ u.hand = <<>> /\ u.stage \notin {"looping", "typing", "midline"}
      /\ u.typed = 0 /\ p.half = 0
      /\ w.took = <<>> /\ q.toWorker = <<>> /\ q.toHost = <<>>
      /\ q.fromWorker = <<>> /\ q.toClient = <<>>
  BY DEF Carries, Greeted, Unanswered
<1>2. Greeted(p2, u, w2, q)
  BY <1>1 DEF Greeted
<1>3. Lined(p2, u, w2, q)
  <2>1. /\ Len(w2.took) = 0 /\ Len(q.toWorker) = 0 /\ Len(q.toHost) = 0 /\ HalfHeld(p2) = 0
        /\ 2 * (0 + 0) + 0 + 0 = 2 * 0
    BY <1>1 DEF HalfHeld
  <2>2. \A n, h : CountsFrom(<<>>, n) /\ PartsFrom(<<>>, n, h)
    BY DEF CountsFrom, PartsFrom
  <2>q. QED
    BY <1>1, <2>1, <2>2 DEF Lined
<1>4. Framed(p2, u, w2, q)
  <2>1. Seen(u) = {} /\ InHand(p2) = {}
    BY <1>1 DEF Seen, InHand
  <2>q. QED
    BY <1>1, <2>1, NoTexts DEF Framed, Chain, Before
<1>q. QED
  BY <1>2, <1>3, <1>4 DEF Carries

LEMMA SendsFrame ==
  ASSUME NEW p \in Proxy, NEW u \in Client, NEW w \in Worker, NEW q \in Pipe, Carries(p, u, w, q),
         w.stage = "attached",
         NEW f \in Frames, 2 * Rank(f) > 2 * w.sent + 1,
         NEW w2, w2.took = w.took,
         \/ w2.stage = "attached" /\ w2.sent = w.sent + 1 /\ Rank(f) = w.sent + 1
         \/ w2.stage = "closed",
         NEW q2, q2.toHost = q.toHost, q2.toWorker = q.toWorker, q2.toClient = q.toClient,
         q2.fromWorker = Append(q.fromWorker, f)
  PROVE  Carries(p, u, w2, q2) /\ q2.fromWorker \in Seq(Frames)
<1> DEFINE k == 2 * Rank(f)
           keys == Seen(u) \cup Texts(u.hand) \cup Wired(q.toClient) \cup InHand(p)
                   \cup Texts(q.fromWorker)
<1>1. q.fromWorker \in Seq(Frames) /\ w.sent \in Nat
  BY DEF Pipe, Worker
<1>2. keys \subseteq Nat /\ k \in Nat
  BY KeysAre, RankIs
<1>3. \A j \in keys : j <= 2 * w.sent + 1
  BY DEF Carries, Framed
<1>4. \A j \in keys : j < k
  BY <1>1, <1>2, <1>3
<1>5. \A i \in DOMAIN q.fromWorker : Rank(q.fromWorker[i]) < Rank(f)
  <2> SUFFICES ASSUME NEW i \in DOMAIN q.fromWorker PROVE Rank(q.fromWorker[i]) < Rank(f)
    OBVIOUS
  <2>1. 2 * Rank(q.fromWorker[i]) \in keys /\ q.fromWorker[i] \in Frames
    BY <1>1 DEF Texts
  <2>2. 2 * Rank(q.fromWorker[i]) < k
    BY <1>4, <2>1
  <2> HIDE DEF keys
  <2>q. QED
    BY <2>1, <2>2, RankIs
<1>6. /\ q2.fromWorker \in Seq(Frames) /\ Ascends(q2.fromWorker)
      /\ Texts(q2.fromWorker) = Texts(q.fromWorker) \cup {k}
  <2>1. Ascends(q.fromWorker)
    BY DEF Carries, Framed
  <2>q. QED
    BY <1>1, <1>5, <2>1, FramesWith
<1>7. Chain(Seen(u), Texts(u.hand), Wired(q2.toClient), InHand(p), Texts(q2.fromWorker))
  <2>1. Chain(Seen(u), Texts(u.hand), Wired(q.toClient), InHand(p), Texts(q.fromWorker))
    BY DEF Carries, Framed
  <2> HIDE DEF k
  <2>q. QED
    BY <1>4, <1>6, <2>1 DEF Chain, Before
<1>8. w2.stage = "attached" =>
       \A j \in Seen(u) \cup Texts(u.hand) \cup Wired(q2.toClient) \cup InHand(p)
                \cup Texts(q2.fromWorker) : j <= 2 * w2.sent + 1
  <2> SUFFICES ASSUME w2.stage = "attached"
               PROVE  \A j \in keys \cup {k} : j <= 2 * w2.sent + 1
    BY <1>6
  <2>1. w2.sent = w.sent + 1 /\ k = 2 * (w.sent + 1)
    OBVIOUS
  <2> HIDE DEF keys, k
  <2>q. QED
    BY <1>1, <1>2, <1>3, <2>1
<1>9. Greeted(p, u, w2, q2)
  BY DEF Carries, Greeted
<1>10. Lined(p, u, w2, q2)
  BY DEF Carries, Lined
<1>11. Ascends(u.got) /\ PiecesAscend(q2.toClient)
  BY DEF Carries, Framed
<1>q. QED
  BY <1>6, <1>7, <1>8, <1>9, <1>10, <1>11 DEF Carries, Framed

LEMMA IsOver ==
  ASSUME NEW p, NEW u, NEW w, NEW q, Carries(p, u, w, q), NEW w2, w2.took = w.took, w2.stage = "dead"
  PROVE  Carries(p, u, w2, q)
BY DEF Carries, Greeted, Lined, Framed

\* Each step of the host's task keeps it, ...
LEMMA TaskCarries ==
  ASSUME ProxyTypeOK, Carried, NEW c \in Clients, HostStep(c)
  PROVE  ProxyTypeOK' /\ Carried'
<1> DEFINE p == proxy[c]
           u == client[c]
           w == worker[c]
           q == pipe[c]
           closed == [p EXCEPT !.stage = "done", !.closed = TRUE, !.shut = TRUE]
           drains == [p EXCEPT !.stage = "drain", !.shut = TRUE]
           fails == [p EXCEPT !.stage = "done", !.shut = TRUE, !.failed = TRUE]
           late == [p EXCEPT !.stage = "done", !.timedOut = TRUE, !.shut = TRUE]
           opened == [p EXCEPT !.stage = "answer", !.opened = TRUE]
           to(s) == [p EXCEPT !.stage = s]
<1>0. /\ p \in Proxy /\ proxy = [proxy EXCEPT ![c] = p]
      /\ u \in Client /\ client = [client EXCEPT ![c] = u]
      /\ w \in Worker /\ worker = [worker EXCEPT ![c] = w]
      /\ q \in Pipe /\ pipe = [pipe EXCEPT ![c] = q]
      /\ Carries(p, u, w, q)
  BY AtRest
<1>1. /\ closed \in Proxy /\ drains \in Proxy /\ fails \in Proxy /\ late \in Proxy /\ opened \in Proxy
      /\ \A s \in {"relay", "newline", "drain", "done"} : to(s) \in Proxy /\ to(s).stage = s /\ to(s).hand = p.hand
      /\ \A a \in {closed, drains, fails, late, opened} : a.half = p.half
      /\ \A s \in {"relay", "newline", "drain", "done"} : to(s).half = p.half
      /\ closed.stage = "done" /\ drains.stage = "drain" /\ fails.stage = "done"
      /\ late.stage = "done" /\ opened.stage = "answer" /\ closed.hand = p.hand
  BY <1>0 DEF Proxy
<1>2. ASSUME NEW a \in Proxy, NEW d \in Pipe, proxy' = [proxy EXCEPT ![c] = a],
             pipe' = [pipe EXCEPT ![c] = d], HostAlone, Carries(a, u, w, d)
      PROVE  ProxyTypeOK' /\ Carried'
  <2>1. client' = [client EXCEPT ![c] = u] /\ worker' = [worker EXCEPT ![c] = w]
    BY <1>0, <1>2 DEF HostAlone
  <2> HIDE DEF p, u, w, q
  <2>q. QED
    BY <1>0, <1>2, <2>1, Carry
<1> HIDE DEF closed, drains, fails, late, opened, to
<1>3. ASSUME NEW a \in {closed, drains, fails, late, opened, to("drain"), to("done")},
             proxy' = [proxy EXCEPT ![c] = a], UNCHANGED pipe, HostAlone,
             a.stage \in Unanswered => p.stage \in Unanswered,
             p.stage \in {"none", "opening", "done"} => a.stage = "done"
      PROVE  ProxyTypeOK' /\ Carried'
  <2>1. a \in Proxy /\ a.stage \notin {"text", "newline"} /\ pipe' = [pipe EXCEPT ![c] = q]
        /\ a.half = p.half
    BY <1>0, <1>1, <1>3
  <2>2. w.stage = "asked" => a.stage = "done" /\ q.fromWorker = <<>>
    BY <1>0, <1>3 DEF Carries, Greeted
  <2>3. Ascends(q.fromWorker)
    BY <1>0 DEF Carries, Framed
  <2> HIDE DEF p, u, w, q
  <2>4. Carries(a, u, w, q)
    BY <1>0, <1>3, <2>1, <2>2, <2>3, TaskTurns
  <2>q. QED
    BY <1>0, <1>2, <1>3, <2>1, <2>4
<1>4. CASE RefuseAttach(c)
  <2>1. proxy' = [proxy EXCEPT ![c] = to("done")] /\ UNCHANGED pipe /\ HostAlone
    BY <1>4 DEF RefuseAttach, ProxyGoes, to
  <2>2. to("done").stage = "done"
    BY <1>1
  <2>q. QED
    BY <1>3, <2>1, <2>2 DEF Unanswered
<1>5. CASE RecordOpened(c)
  <2>1. proxy' = [proxy EXCEPT ![c] = opened] /\ UNCHANGED pipe /\ HostAlone /\ p.stage = "record"
    BY <1>5 DEF RecordOpened, At, opened
  <2>q. QED
    BY <1>3, <2>1 DEF Unanswered
<1>6. CASE RecordFails(c)
  <2>1. proxy' = [proxy EXCEPT ![c] = fails] /\ UNCHANGED pipe /\ HostAlone
    BY <1>6 DEF RecordFails, fails
  <2>q. QED
    BY <1>1, <1>3, <2>1 DEF Unanswered
<1>7. CASE Answer(c) /\ Gone(c)
  <2>1. proxy' = [proxy EXCEPT ![c] = drains] /\ UNCHANGED pipe /\ HostAlone /\ p.stage = "answer"
    BY <1>7 DEF Answer, At, drains
  <2>q. QED
    BY <1>1, <1>3, <2>1 DEF Unanswered
<1>8. CASE RelayEndOfInput(c)
  <2>1. /\ proxy' = [proxy EXCEPT ![c] = fails] \/ proxy' = [proxy EXCEPT ![c] = drains]
        /\ UNCHANGED pipe /\ HostAlone /\ p.stage = "relay"
    BY <1>8 DEF RelayEndOfInput, At, fails, drains
  <2>q. QED
    BY <1>1, <1>3, <2>1 DEF Unanswered
<1>9. CASE RelayEndOfOutput(c) \/ DrainEnds(c)
  <2>1. proxy' = [proxy EXCEPT ![c] = closed] /\ UNCHANGED pipe /\ HostAlone
    BY <1>9 DEF RelayEndOfOutput, DrainEnds, Close, closed
  <2>q. QED
    BY <1>1, <1>3, <2>1 DEF Unanswered
<1>10. CASE WriteToGone(c)
  <2>1. /\ proxy' = [proxy EXCEPT ![c] = closed] \/ proxy' = [proxy EXCEPT ![c] = drains]
        /\ UNCHANGED pipe /\ HostAlone /\ p.stage \in {"text", "newline"}
    BY <1>10 DEF WriteToGone, Close, closed, drains
  <2>q. QED
    BY <1>1, <1>3, <2>1 DEF Unanswered
<1>11. CASE DrainTimesOut(c)
  <2>1. proxy' = [proxy EXCEPT ![c] = late] /\ UNCHANGED pipe /\ HostAlone
    BY <1>11 DEF DrainTimesOut, late
  <2>q. QED
    BY <1>1, <1>3, <2>1 DEF Unanswered
<1>12. CASE Answer(c) /\ ~Gone(c)
  <2> DEFINE d == [q EXCEPT !.toClient = <<[frame |-> Response, piece |-> "newline"]>>]
  <2>1. /\ proxy' = [proxy EXCEPT ![c] = to("relay")] /\ pipe' = [pipe EXCEPT ![c] = d]
        /\ HostAlone /\ p.stage = "answer" /\ u.stage \notin {"ended", "broken"}
    BY <1>12 DEF Answer, At, Gone, ProxyGoes, to
  <2>2. d \in Pipe
    <3>1. [frame |-> Response, piece |-> "newline"] \in Pieces
      BY ProxyAssumption DEF Response, Pieces
    <3>2. <<[frame |-> Response, piece |-> "newline"]>> \in Seq(Pieces)
      BY <3>1
    <3>q. QED
      BY <1>0, <3>2 DEF Pipe
  <2>3. /\ d.toHost = q.toHost /\ d.toWorker = q.toWorker /\ d.fromWorker = q.fromWorker
        /\ d.toClient = <<[frame |-> Response, piece |-> "newline"]>>
    BY <1>0 DEF Pipe
  <2>4. to("relay") \in Proxy /\ to("relay").stage = "relay" /\ to("relay").half = p.half
    BY <1>1
  <2> HIDE DEF d, p, u, w, q
  <2>5. Carries(to("relay"), u, w, d)
    BY <1>0, <2>1, <2>3, <2>4, Greets
  <2>q. QED
    BY <1>2, <2>1, <2>2, <2>4, <2>5
<1>13. CASE ReadHalf(c)
  <2> DEFINE a == [p EXCEPT !.half = Head(q.toHost)]
             d == [q EXCEPT !.toHost = Tail(@)]
  <2>1. /\ p.stage = "relay" /\ q.toHost # <<>> /\ Head(q.toHost) # Newline /\ HostAlone
        /\ proxy' = [proxy EXCEPT ![c] = a] /\ pipe' = [pipe EXCEPT ![c] = d]
    BY <1>13 DEF ReadHalf, At
  <2>2. Head(q.toHost) \in 0 .. MaxLines /\ Tail(q.toHost) \in Seq(0 .. MaxLines)
    <3>1. q.toHost \in Seq(0 .. MaxLines)
      BY <1>0 DEF Pipe
    <3>q. QED
      BY <2>1, <3>1, HeadTail
  <2>3. /\ a \in Proxy /\ a.stage = p.stage /\ a.hand = p.hand /\ a.half = Head(q.toHost)
        /\ d \in Pipe
    BY <1>0, <2>2 DEF Proxy, Pipe
  <2>4. /\ d.toHost = Tail(q.toHost) /\ d.toWorker = q.toWorker
        /\ d.fromWorker = q.fromWorker /\ d.toClient = q.toClient
    BY <1>0 DEF Pipe
  <2> HIDE DEF a, d, p, u, w, q
  <2>5. Carries(a, u, w, d)
    BY <1>0, <2>1, <2>3, <2>4, HoldsHalf
  <2>q. QED
    BY <1>2, <2>1, <2>3, <2>5
<1>18. ASSUME NEW frames, NEW rest \in Seq(0 .. MaxLines), PassLine(c, frames, rest), p.stage = "relay",
              \/ frames = {p.half} /\ q.toHost # <<>> /\ Head(q.toHost) = Newline /\ rest = Tail(q.toHost)
              \/ frames = {0, p.half} /\ u.stage \in {"ended", "broken"} /\ rest = <<>>
       PROVE  ProxyTypeOK' /\ Carried'
  <2> DEFINE idle == [p EXCEPT !.half = 0]
             stops == [p EXCEPT !.stage = "drain", !.half = 0]
             took == [q EXCEPT !.toHost = rest]
             gave == [q EXCEPT !.toHost = rest, !.toWorker = Append(@, p.half)]
  <2>1. /\ idle \in Proxy /\ idle.stage = p.stage /\ idle.hand = p.hand /\ idle.half = 0
        /\ stops \in Proxy /\ stops.stage = "drain" /\ stops.half = 0
    <3>1. idle \in Proxy /\ stops \in Proxy
      BY <1>0, HalfGone
    <3>2. idle.stage = p.stage /\ idle.hand = p.hand /\ idle.half = 0
      BY <1>0 DEF Proxy
    <3>3. stops.stage = "drain" /\ stops.half = 0
      BY <1>0 DEF Proxy
    <3>q. QED
      BY <3>1, <3>2, <3>3
  <2>2. /\ took \in Pipe /\ took.toHost = rest /\ took.toWorker = q.toWorker
        /\ took.fromWorker = q.fromWorker /\ took.toClient = q.toClient
        /\ gave.toHost = rest /\ gave.toWorker = Append(q.toWorker, p.half)
        /\ gave.fromWorker = q.fromWorker /\ gave.toClient = q.toClient
    BY <1>0, <1>18 DEF Pipe
  <2>3. gave.toWorker \in Seq(1 .. MaxLines) => gave \in Pipe
    BY <1>0, <1>18, <2>2 DEF Pipe
  <2>4. /\ w.stage = "attached" /\ proxy' = [proxy EXCEPT ![c] = idle]
        /\ \E line \in frames : /\ line = 0 => pipe' = [pipe EXCEPT ![c] = took]
                                /\ line # 0 => pipe' = [pipe EXCEPT ![c].toHost = rest,
                                                          ![c].toWorker = Append(@, line)]
        \/ /\ w.stage # "attached" /\ proxy' = [proxy EXCEPT ![c] = stops]
           /\ pipe' = [pipe EXCEPT ![c] = took]
    <3>1. CASE w.stage = "attached"
      <4>1. PICK line \in frames :
              pipe' = [pipe EXCEPT ![c].toHost = rest,
                         ![c].toWorker = IF line = 0 THEN @ ELSE Append(@, line)]
        BY <1>18, <3>1 DEF PassLine, WorkerReads
      <4>2. line = 0 => pipe' = [pipe EXCEPT ![c] = took]
        BY <1>0, <4>1 DEF Pipe
      <4>3. line # 0 => pipe' = [pipe EXCEPT ![c].toHost = rest, ![c].toWorker = Append(@, line)]
        BY <4>1
      <4>4. proxy' = [proxy EXCEPT ![c] = idle]
        BY <1>0, <1>18, <3>1 DEF PassLine, WorkerReads
      <4>q. QED
        BY <3>1, <4>2, <4>3, <4>4
    <3>2. CASE w.stage # "attached"
      BY <1>0, <1>18, <3>2 DEF PassLine, WorkerReads
    <3>q. QED
      BY <3>1, <3>2
  <2>5. \/ w.stage = "attached" /\ proxy' = [proxy EXCEPT ![c] = idle] /\ p.half # 0
           /\ pipe' = [pipe EXCEPT ![c] = gave]
        \/ w.stage = "attached" /\ proxy' = [proxy EXCEPT ![c] = idle] /\ 0 \in frames
           /\ pipe' = [pipe EXCEPT ![c] = took]
        \/ w.stage # "attached" /\ proxy' = [proxy EXCEPT ![c] = stops]
           /\ pipe' = [pipe EXCEPT ![c] = took]
    <3>1. CASE w.stage # "attached"
      BY <2>4, <3>1
    <3>2. CASE w.stage = "attached"
      <4>1. PICK line \in frames : /\ line = 0 => pipe' = [pipe EXCEPT ![c] = took]
                                   /\ line # 0 => pipe' = [pipe EXCEPT ![c].toHost = rest,
                                                              ![c].toWorker = Append(@, line)]
        <5> HIDE DEF took, idle, stops, p, q, w
        <5>q. QED
          BY <2>4, <3>2
      <4>2. line = 0 \/ line = p.half
        BY <1>18
      <4>3. CASE line = 0
        BY <2>4, <3>2, <4>1, <4>3
      <4>4. CASE line = p.half /\ line # 0
        <5>1. pipe' = [pipe EXCEPT ![c] = gave]
          BY <1>0, <4>1, <4>4
        <5>q. QED
          BY <2>4, <3>2, <4>4, <5>1
      <4>q. QED
        BY <4>2, <4>3, <4>4
    <3>q. QED
      BY <3>1, <3>2
  <2>6. frames = {p.half} /\ Head(q.toHost) = Newline /\ q.toHost # <<>> /\ w.stage = "attached" => p.half # 0
    <3> DEFINE n == Len(w.took) + Len(q.toWorker)
    <3> SUFFICES ASSUME Head(q.toHost) = Newline, q.toHost # <<>>, w.stage = "attached", p.half = 0
                 PROVE  FALSE
      OBVIOUS
    <3>1. q.toHost \in Seq(0 .. MaxLines) /\ n \in Nat
      <4>1. w \in Worker /\ q \in Pipe
        BY <1>0
      <4>2. q.toHost \in Seq(0 .. MaxLines) /\ Len(w.took) \in Nat /\ Len(q.toWorker) \in Nat
        <5> HIDE DEF w, q
        <5>q. QED
          BY ONLY <4>1, LengthsAre
      <4>3. \A i, j \in Nat : i + j \in Nat
        OBVIOUS
      <4>q. QED
        BY ONLY <4>2, <4>3, Zenon
    <3>2. PartsFrom(q.toHost, n, 0)
      BY <1>0 DEF Carries, Lined, HalfHeld
    <3> HIDE DEF n, p, u, w, q
    <3>3. Head(q.toHost) = n + 1
      BY <3>1, <3>2, FirstPart
    <3>q. QED
      BY <3>1, <3>3 DEF Newline
  <2>7. HostAlone
    BY <1>18 DEF PassLine
  <2> HIDE DEF idle, stops, took, gave, p, u, w, q
  <2>8. CASE /\ w.stage = "attached" /\ proxy' = [proxy EXCEPT ![c] = idle] /\ p.half # 0
             /\ pipe' = [pipe EXCEPT ![c] = gave]
    <3>1. \/ q.toHost # <<>> /\ gave.toHost = Tail(q.toHost)
          \/ u.stage \in {"ended", "broken"} /\ gave.toHost = <<>>
      BY <1>18, <2>2
    <3>2. Carries(idle, u, w, gave) /\ gave.toWorker \in Seq(1 .. MaxLines)
      <4>1. /\ p \in Proxy /\ w \in Worker /\ q \in Pipe /\ Carries(p, u, w, q)
            /\ p.stage = "relay" /\ w.stage = "attached" /\ p.half # 0
        BY <1>0, <1>18, <2>8
      <4>2. /\ idle \in Proxy /\ idle.stage = p.stage /\ idle.hand = p.hand /\ idle.half = 0
            /\ gave.toWorker = Append(q.toWorker, p.half)
            /\ gave.fromWorker = q.fromWorker /\ gave.toClient = q.toClient
        BY <2>1, <2>2
      <4>q. QED
        BY ONLY <3>1, <4>1, <4>2, PassesLine
    <3>q. QED
      BY <1>2, <2>1, <2>3, <2>7, <2>8, <3>2
  <2>9. CASE /\ w.stage = "attached" /\ proxy' = [proxy EXCEPT ![c] = idle] /\ 0 \in frames
             /\ pipe' = [pipe EXCEPT ![c] = took]
    <3>1. u.stage \in {"ended", "broken"} /\ took.toHost = <<>>
      BY <1>18, <2>2, <2>6, <2>9
    <3>2. Carries(idle, u, w, took)
      <4>1. /\ p \in Proxy /\ w \in Worker /\ Carries(p, u, w, q) /\ p.stage = "relay"
            /\ idle.stage \in {"relay", "drain"} /\ idle.half = 0
        BY <1>0, <1>18, <2>1
      <4>2. /\ took.toWorker = q.toWorker /\ took.fromWorker = q.fromWorker
            /\ took.toClient = q.toClient
        BY <2>2
      <4>q. QED
        BY ONLY <3>1, <4>1, <4>2, DropsHalf
    <3>q. QED
      BY <1>2, <2>1, <2>2, <2>7, <2>9, <3>2
  <2>10. CASE /\ w.stage # "attached" /\ proxy' = [proxy EXCEPT ![c] = stops]
              /\ pipe' = [pipe EXCEPT ![c] = took]
    <3>1. Carries(stops, u, w, took)
      BY <1>0, <1>18, <2>1, <2>2, <2>10, DropsHalf
    <3>q. QED
      BY <1>2, <2>1, <2>2, <2>7, <2>10, <3>1
  <2>q. QED
    BY <2>5, <2>8, <2>9, <2>10
<1>19. CASE RelayInput(c) \/ RelayCutLine(c)
  <2>1. CASE RelayInput(c)
    <3>1. /\ p.stage = "relay" /\ q.toHost # <<>> /\ Head(q.toHost) = Newline
          /\ PassLine(c, {p.half}, Tail(q.toHost))
      BY <2>1 DEF RelayInput, At
    <3>2. Tail(q.toHost) \in Seq(0 .. MaxLines)
      <4>1. q.toHost \in Seq(0 .. MaxLines)
        BY <1>0 DEF Pipe
      <4>q. QED
        BY <3>1, <4>1, HeadTail
    <3> HIDE DEF p, u, w, q
    <3>q. QED
      BY <1>18, <3>1, <3>2
  <2>2. CASE RelayCutLine(c)
    <3>1. /\ p.stage = "relay" /\ u.stage \in {"ended", "broken"}
          /\ PassLine(c, {0, p.half}, <<>>) /\ <<>> \in Seq(0 .. MaxLines)
      BY <2>2 DEF RelayCutLine, At, Gone
    <3> HIDE DEF p, u, w, q
    <3>q. QED
      BY <1>18, <3>1
  <2>q. QED
    BY <1>19, <2>1, <2>2
<1>14. CASE RelayOutput(c)
  <2> DEFINE a == [p EXCEPT !.stage = "text", !.hand = Head(q.fromWorker)]
             d == [q EXCEPT !.fromWorker = Tail(@)]
  <2>1. /\ p.stage = "relay" /\ q.fromWorker # <<>> /\ HostAlone
        /\ proxy' = [proxy EXCEPT ![c] = a] /\ pipe' = [pipe EXCEPT ![c] = d]
    BY <1>14 DEF RelayOutput, At
  <2>2. Head(q.fromWorker) \in Frames /\ Tail(q.fromWorker) \in Seq(Frames)
    <3>1. q.fromWorker \in Seq(Frames)
      BY <1>0 DEF Pipe
    <3>q. QED
      BY <2>1, <3>1
  <2>3. /\ a \in Proxy /\ d \in Pipe /\ a.stage = "text" /\ a.hand = Head(q.fromWorker)
        /\ a.half = p.half
    BY <1>0, <2>2 DEF Proxy, Pipe
  <2>4. /\ d.toHost = q.toHost /\ d.toWorker = q.toWorker /\ d.toClient = q.toClient
        /\ d.fromWorker = Tail(q.fromWorker)
    BY <1>0 DEF Pipe
  <2> HIDE DEF a, d, p, u, w, q
  <2>5. Carries(a, u, w, d)
    BY <1>0, <2>1, <2>3, <2>4, TakesFrame
  <2>q. QED
    BY <1>2, <2>1, <2>3, <2>5
<1>15. ASSUME NEW piece \in {"text", "newline"}, NEW next \in {"newline", "relay"},
              piece = "text" <=> next = "newline", WritePiece(c, piece, next)
       PROVE  ProxyTypeOK' /\ Carried'
  <2> DEFINE d == [q EXCEPT !.toClient = Append(@, [frame |-> p.hand, piece |-> p.stage])]
  <2>1. p.stage = piece /\ pipe' = [pipe EXCEPT ![c] = d] /\ HostAlone
    BY <1>15 DEF WritePiece, At
  <2>2. PICK a \in {closed, to(next)} :
          proxy' = [proxy EXCEPT ![c] = a] /\ (a = closed => piece = "newline")
    <3>1. CASE next = "relay"
      <4>1. proxy' = [proxy EXCEPT ![c] = closed] \/ proxy' = [proxy EXCEPT ![c] = to(next)]
        BY <1>15, <3>1 DEF WritePiece, Close, ProxyGoes, closed, to
      <4>2. piece = "newline"
        BY <1>15, <3>1
      <4>q. QED
        BY <4>1, <4>2
    <3>2. CASE next = "newline"
      <4>1. proxy' = [proxy EXCEPT ![c] = to(next)]
        BY <1>15, <3>2 DEF WritePiece, ProxyGoes, to
      <4>2. to(next) # closed
        BY <1>1, <3>2
      <4>q. QED
        BY <4>1, <4>2
    <3>q. QED
      BY <3>1, <3>2
  <2>3. /\ d.toHost = q.toHost /\ d.toWorker = q.toWorker /\ d.fromWorker = q.fromWorker
        /\ d.toClient = Append(q.toClient, [frame |-> p.hand, piece |-> p.stage])
    BY <1>0 DEF Pipe
  <2>4. /\ a \in Proxy /\ a.hand = p.hand /\ a.half = p.half /\ (p.stage = "text" => a.stage = "newline")
        /\ p.stage = "newline" => a.stage \in {"relay", "done"}
    BY <1>1, <1>15, <2>1, <2>2
  <2>5. Carries(a, u, w, d) /\ d.toClient \in Seq(Pieces)
    <3> HIDE DEF d, p, u, w, q
    <3>1. /\ p \in Proxy /\ u \in Client /\ w \in Worker /\ q \in Pipe /\ Carries(p, u, w, q)
          /\ p.stage \in {"text", "newline"}
      BY <1>0, <2>1
    <3>q. QED
      BY ONLY <2>3, <2>4, <3>1, WritesPiece
  <2>6. d \in Pipe
    BY <1>0, <2>3, <2>5 DEF Pipe
  <2> HIDE DEF d, p, u, w, q
  <2>q. QED
    BY <1>2, <2>1, <2>2, <2>4, <2>5, <2>6
<1>16. CASE WriteText(c) \/ WriteNewline(c)
  BY <1>15, <1>16 DEF WriteText, WriteNewline
<1>17. CASE Drain(c)
  <2> DEFINE d == [q EXCEPT !.fromWorker = Tail(@)]
  <2>1. p.stage = "drain" /\ q.fromWorker # <<>> /\ HostAlone /\ pipe' = [pipe EXCEPT ![c] = d]
    BY <1>17 DEF Drain, At
  <2>2. PICK a \in {closed, p} : proxy' = [proxy EXCEPT ![c] = a]
    BY <1>0, <1>17 DEF Drain, Close, closed
  <2>3. q.fromWorker \in Seq(Frames) /\ Ascends(q.fromWorker)
    BY <1>0 DEF Pipe, Carries, Framed
  <2>4. /\ Tail(q.fromWorker) \in Seq(Frames) /\ Ascends(Tail(q.fromWorker))
        /\ Texts(Tail(q.fromWorker)) \subseteq Texts(q.fromWorker)
    BY <2>1, <2>3, FramesAfter
  <2>5. /\ d.toHost = q.toHost /\ d.toWorker = q.toWorker /\ d.toClient = q.toClient
        /\ d.fromWorker = Tail(q.fromWorker) /\ d \in Pipe
    BY <1>0, <2>4 DEF Pipe
  <2>6. w.stage # "asked"
    BY <1>0, <2>1 DEF Carries, Greeted
  <2>7. a \in Proxy /\ a.stage \in {"done", "drain"} /\ a.half = p.half
    BY <1>0, <1>1, <2>1, <2>2
  <2> HIDE DEF d, p, u, w, q
  <2>8. Carries(a, u, w, d)
    <3>1. a.stage \notin {"text", "newline"} /\ a.stage \notin Unanswered
      BY <2>7 DEF Unanswered
    <3>2. Ascends(d.fromWorker) /\ Texts(d.fromWorker) \subseteq Texts(q.fromWorker)
      BY <2>4, <2>5
    <3>q. QED
      <4>1. Carries(p, u, w, q) /\ a.half = p.half
        BY <1>0, <2>7
      <4>q. QED
        BY ONLY <4>1, <2>5, <2>6, <2>7, <3>1, <3>2, TaskTurns
  <2>q. QED
    BY <1>2, <2>1, <2>2, <2>5, <2>7, <2>8
<1>q. QED
  BY <1>4, <1>5, <1>6, <1>7, <1>8, <1>9, <1>10, <1>11, <1>12, <1>13, <1>14, <1>16, <1>17,
     <1>18, <1>19 DEF HostStep

\* ... and each step of the worker, ...
LEMMA WorkerCarries ==
  ASSUME ProxyTypeOK, Carried, NEW c \in Clients, WorkerStep(c)
  PROVE  ProxyTypeOK' /\ Carried'
<1> DEFINE p == proxy[c]
           u == client[c]
           w == worker[c]
           q == pipe[c]
<1>0. /\ p \in Proxy /\ proxy = [proxy EXCEPT ![c] = p]
      /\ u \in Client /\ client = [client EXCEPT ![c] = u]
      /\ w \in Worker /\ worker = [worker EXCEPT ![c] = w]
      /\ q \in Pipe /\ pipe = [pipe EXCEPT ![c] = q]
      /\ Carries(p, u, w, q)
  BY AtRest
<1>1. CASE WorkerAccepts(c)
  <2> DEFINE a == [p EXCEPT !.stage = "record"]
             b == [w EXCEPT !.stage = "attached"]
  <2>1. /\ proxy' = [proxy EXCEPT ![c] = a] /\ worker' = [worker EXCEPT ![c] = b]
        /\ UNCHANGED <<client, pipe>> /\ p.stage = "opening" /\ w.stage = "asked"
    BY <1>1 DEF WorkerAccepts, ProxyGoes, At
  <2>2. /\ a \in Proxy /\ a.stage = "record" /\ a.half = p.half
        /\ b \in Worker /\ b.stage = "attached" /\ b.sent = w.sent /\ b.took = w.took
    BY <1>0 DEF Proxy, Worker
  <2> HIDE DEF a, b, p, u, w, q
  <2>3. Carries(a, u, b, q)
    BY <1>0, <2>1, <2>2, Joins
  <2>q. QED
    BY <1>0, <2>1, <2>2, <2>3, Carry
<1>2. ASSUME NEW f \in Frames, 2 * Rank(f) > 2 * w.sent + 1, w.stage = "attached",
             NEW b \in Worker, b.took = w.took,
             \/ b.stage = "attached" /\ b.sent = w.sent + 1 /\ Rank(f) = w.sent + 1
             \/ b.stage = "closed",
             worker' = [worker EXCEPT ![c] = b],
             pipe' = [pipe EXCEPT ![c].fromWorker = Append(@, f)], UNCHANGED <<proxy, client>>
      PROVE  ProxyTypeOK' /\ Carried'
  <2> DEFINE d == [q EXCEPT !.fromWorker = Append(@, f)]
  <2>1. pipe' = [pipe EXCEPT ![c] = d]
    BY <1>2
  <2>2. /\ d.toHost = q.toHost /\ d.toWorker = q.toWorker /\ d.toClient = q.toClient
        /\ d.fromWorker = Append(q.fromWorker, f)
    BY <1>0 DEF Pipe
  <2>3. Carries(p, u, b, d) /\ d.fromWorker \in Seq(Frames)
    <3> HIDE DEF d, p, u, w, q
    <3>1. /\ p \in Proxy /\ u \in Client /\ w \in Worker /\ q \in Pipe /\ Carries(p, u, w, q)
          /\ w.stage = "attached" /\ 2 * Rank(f) > 2 * w.sent + 1 /\ b.took = w.took
      BY <1>0, <1>2
    <3>2. \/ b.stage = "attached" /\ b.sent = w.sent + 1 /\ Rank(f) = w.sent + 1
          \/ b.stage = "closed"
      BY <1>2
    <3>q. QED
      BY ONLY <2>2, <3>1, <3>2, f \in Frames, SendsFrame
  <2>4. d \in Pipe
    BY <1>0, <2>2, <2>3 DEF Pipe
  <2> HIDE DEF d, p, u, w, q
  <2>q. QED
    BY <1>0, <1>2, <2>1, <2>3, <2>4, Carry
<1>3. CASE WorkerSends(c)
  <2> DEFINE b == [w EXCEPT !.sent = @ + 1]
  <2>1. w.sent \in 0 .. MaxFrames /\ w.sent < MaxFrames /\ w.stage = "attached"
    BY <1>0, <1>3 DEF WorkerSends, WorkerReads, Worker
  <2>2. w.sent + 1 \in Frames /\ Rank(w.sent + 1) = w.sent + 1 /\ 2 * (w.sent + 1) > 2 * w.sent + 1
    BY <2>1, ProxyAssumption DEF Frames, Rank, Closed
  <2>3. b \in Worker /\ b.took = w.took /\ b.stage = "attached" /\ b.sent = w.sent + 1
    <3>1. w.sent + 1 \in 0 .. MaxFrames
      BY <2>1, ProxyAssumption
    <3>q. QED
      BY <1>0, <2>1, <3>1 DEF Worker
  <2>4. /\ worker' = [worker EXCEPT ![c] = b] /\ UNCHANGED <<proxy, client>>
        /\ pipe' = [pipe EXCEPT ![c].fromWorker = Append(@, w.sent + 1)]
    BY <1>3 DEF WorkerSends
  <2>5. ASSUME NEW f \in Frames, f = w.sent + 1 PROVE ProxyTypeOK' /\ Carried'
    <3>1. /\ 2 * Rank(f) > 2 * w.sent + 1 /\ Rank(f) = w.sent + 1
          /\ pipe' = [pipe EXCEPT ![c].fromWorker = Append(@, f)]
      BY <2>2, <2>4, <2>5
    <3> HIDE DEF b, p, u, w, q
    <3>q. QED
      BY <1>2, <2>1, <2>3, <2>4, <3>1
  <2>q. QED
    BY <2>2, <2>5
<1>4. CASE WorkerCloses(c)
  <2> DEFINE b == [w EXCEPT !.stage = "closed"]
  <2>1. w.sent \in 0 .. MaxFrames /\ w.stage = "attached"
    BY <1>0, <1>4 DEF WorkerCloses, WorkerReads, Worker
  <2>2. Closed \in Frames /\ 2 * Rank(Closed) > 2 * w.sent + 1
    BY <2>1, ProxyAssumption DEF Frames, Rank, Closed
  <2>3. b \in Worker /\ b.took = w.took /\ b.stage = "closed"
    BY <1>0 DEF Worker
  <2>4. /\ worker' = [worker EXCEPT ![c] = b] /\ UNCHANGED <<proxy, client>>
        /\ pipe' = [pipe EXCEPT ![c].fromWorker = Append(@, Closed)]
    BY <1>4 DEF WorkerCloses
  <2> HIDE DEF b, p, u, w, q
  <2>q. QED
    BY <1>2, <2>1, <2>2, <2>3, <2>4
<1>5. CASE WorkerTakes(c)
  <2> DEFINE b == [w EXCEPT !.took = Append(@, Head(q.toWorker))]
             d == [q EXCEPT !.toWorker = Tail(@)]
  <2>1. /\ worker' = [worker EXCEPT ![c] = b] /\ pipe' = [pipe EXCEPT ![c] = d]
        /\ UNCHANGED <<proxy, client>> /\ w.stage = "attached" /\ q.toWorker # <<>>
    BY <1>5 DEF WorkerTakes, WorkerReads
  <2>2. b.stage = w.stage /\ b.sent = w.sent /\ b.took = Append(w.took, Head(q.toWorker))
    BY <1>0 DEF Worker
  <2>3. /\ d.toHost = q.toHost /\ d.toWorker = Tail(q.toWorker)
        /\ d.fromWorker = q.fromWorker /\ d.toClient = q.toClient
    BY <1>0 DEF Pipe
  <2>4. /\ Carries(p, u, b, d)
        /\ b.took \in Seq(1 .. MaxLines) /\ d.toWorker \in Seq(1 .. MaxLines)
    <3> HIDE DEF b, d, p, u, w, q
    <3>1. w \in Worker /\ q \in Pipe /\ Carries(p, u, w, q) /\ q.toWorker # <<>> /\ w.stage = "attached"
      BY <1>0, <2>1
    <3>q. QED
      BY ONLY <2>2, <2>3, <3>1, TakesLine
  <2>5. b \in Worker /\ d \in Pipe
    BY <1>0, <2>2, <2>3, <2>4 DEF Worker, Pipe
  <2> HIDE DEF b, d, p, u, w, q
  <2>q. QED
    BY <1>0, <2>1, <2>4, <2>5, Carry
<1>6. CASE WorkerDies(c)
  <2> DEFINE b == [w EXCEPT !.stage = "dead"]
  <2>1. worker' = [worker EXCEPT ![c] = b] /\ UNCHANGED <<proxy, client, pipe>>
    BY <1>6 DEF WorkerDies
  <2>2. b \in Worker /\ b.took = w.took /\ b.stage = "dead"
    BY <1>0 DEF Worker
  <2> HIDE DEF b, p, u, w, q
  <2>3. Carries(p, u, b, q)
    BY <1>0, <2>2, IsOver
  <2>q. QED
    BY <1>0, <2>1, <2>2, <2>3, Carry
<1>q. QED
  BY <1>1, <1>3, <1>4, <1>5, <1>6 DEF WorkerStep

\* ... and each step of the client.
LEMMA ClientCarries ==
  ASSUME ProxyTypeOK, Carried, NEW c \in Clients, ClientStep(c) \/ TypeLine(c) \/ ClientQuits(c)
  PROVE  ProxyTypeOK' /\ Carried'
<1> DEFINE p == proxy[c]
           u == client[c]
           w == worker[c]
           q == pipe[c]
           first == Head(q.toClient)
<1>0. /\ p \in Proxy /\ proxy = [proxy EXCEPT ![c] = p]
      /\ u \in Client /\ client = [client EXCEPT ![c] = u]
      /\ w \in Worker /\ worker = [worker EXCEPT ![c] = w]
      /\ q \in Pipe /\ pipe = [pipe EXCEPT ![c] = q]
      /\ Carries(p, u, w, q)
  BY AtRest
<1>1. ASSUME NEW a \in Client, NEW d \in Pipe, client' = [client EXCEPT ![c] = a],
             pipe' = [pipe EXCEPT ![c] = d], ClientAlone, Carries(p, a, w, d)
      PROVE  ProxyTypeOK' /\ Carried'
  <2>1. proxy' = [proxy EXCEPT ![c] = p] /\ worker' = [worker EXCEPT ![c] = w]
    BY <1>0, <1>1 DEF ClientAlone
  <2> HIDE DEF p, u, w, q
  <2>q. QED
    BY <1>0, <1>1, <2>1, Carry
<1>2. /\ q.toHost \in Seq(0 .. MaxLines) /\ q.toClient \in Seq(Pieces) /\ <<>> \in Seq(Pieces)
      /\ u.got \in Seq(Frames) /\ u.typed \in 0 .. MaxLines
  BY <1>0 DEF Pipe, Client
<1>3. q.toClient # <<>> => 1 \in DOMAIN q.toClient /\ first = q.toClient[1] /\ first \in Pieces
  BY <1>2
<1>4. ASSUME NEW s \in {"ended", "broken"}, Hangs(c, s)
      PROVE  ProxyTypeOK' /\ Carried'
  <2> DEFINE a == [u EXCEPT !.stage = s, !.hand = <<>>]
             d == [q EXCEPT !.reset = q.toClient # <<>>, !.toClient = <<>>]
  <2>1. client' = [client EXCEPT ![c] = a] /\ pipe' = [pipe EXCEPT ![c] = d] /\ ClientAlone
    BY <1>4 DEF Hangs, ClientBecomes
  <2>2. a \in Client /\ a.typed = u.typed /\ a.got = u.got /\ a.hand = <<>> /\ a.stage = s
    BY <1>0 DEF Client
  <2>3. /\ d.toHost = q.toHost /\ d.toWorker = q.toWorker /\ d.fromWorker = q.fromWorker
        /\ d.toClient = <<>>
    BY <1>0 DEF Pipe
  <2>4. d \in Pipe
    <3>1. (q.toClient # <<>>) \in BOOLEAN
      OBVIOUS
    <3>q. QED
      BY <1>0, <1>2, <3>1 DEF Pipe
  <2> HIDE DEF a, d, p, u, w, q
  <2>5. Carries(p, a, w, d)
    BY <1>0, <2>2, <2>3, Forgets
  <2>q. QED
    BY <1>1, <2>1, <2>2, <2>4, <2>5
<1>5. CASE ReadResponse(c)
  <2> DEFINE a == [u EXCEPT !.stage = "looping"]
             d == [q EXCEPT !.toClient = <<>>]
  <2>1. /\ client' = [client EXCEPT ![c] = a] /\ pipe' = [pipe EXCEPT ![c] = d] /\ ClientAlone
        /\ u.stage = "waiting" /\ q.toClient # <<>>
    BY <1>5 DEF ReadResponse, ClientBecomes
  <2>2. a \in Client /\ a.typed = u.typed /\ a.got = u.got /\ a.hand = u.hand /\ a.stage = "looping"
    BY <1>0 DEF Client
  <2>3. u.hand = <<>>
    BY <1>0, <2>1 DEF Carries, Greeted
  <2>4. /\ d.toHost = q.toHost /\ d.toWorker = q.toWorker /\ d.fromWorker = q.fromWorker
        /\ d.toClient = <<>> /\ d \in Pipe
    BY <1>0, <1>2 DEF Pipe
  <2> HIDE DEF a, d, p, u, w, q
  <2>5. Carries(p, a, w, d)
    BY <1>0, <2>1, <2>2, <2>3, <2>4, Forgets
  <2>q. QED
    BY <1>1, <2>1, <2>2, <2>4, <2>5
<1>6. CASE ReadFrame(c)
  <2> DEFINE s == IF first.frame = Closed THEN "ended" ELSE u.stage
             a == [u EXCEPT !.got = Append(@, first.frame), !.hand = <<>>, !.stage = s]
             d == [q EXCEPT !.toClient = SubSeq(@, IF Whole(c) THEN 3 ELSE 2, Len(@))]
  <2>1. /\ u.stage = "looping" /\ q.toClient # <<>>
        /\ Whole(c) \/ (first.piece = "newline" /\ u.hand # <<>>)
        /\ client' = [client EXCEPT ![c] = a] /\ pipe' = [pipe EXCEPT ![c] = d] /\ ClientAlone
    BY <1>6 DEF ReadFrame, ClientBecomes
  <2>2. d.toHost = q.toHost /\ d.toWorker = q.toWorker /\ d.fromWorker = q.fromWorker
    BY <1>0 DEF Pipe
  <2>3. \/ /\ q.toClient[1].piece = "text" /\ 2 \in DOMAIN q.toClient
           /\ d.toClient = SubSeq(q.toClient, 3, Len(q.toClient))
        \/ /\ q.toClient[1].piece = "newline"
           /\ d.toClient = SubSeq(q.toClient, 2, Len(q.toClient))
    <3>1. CASE Whole(c)
      <4>1. Len(q.toClient) > 1 /\ first.piece = "text"
        BY <3>1 DEF Whole
      <4>2. 2 \in DOMAIN q.toClient
        BY <1>2, <4>1
      <4>3. d.toClient = SubSeq(q.toClient, 3, Len(q.toClient))
        BY <1>0, <3>1 DEF Pipe
      <4>q. QED
        BY <1>3, <2>1, <4>1, <4>2, <4>3
    <3>2. CASE ~Whole(c)
      <4>1. d.toClient = SubSeq(q.toClient, 2, Len(q.toClient))
        BY <1>0, <3>2 DEF Pipe
      <4>q. QED
        BY <1>3, <2>1, <3>2, <4>1
    <3>q. QED
      BY <3>1, <3>2
  <2>4. /\ a.got = Append(u.got, q.toClient[1].frame) /\ a.hand = <<>> /\ a.typed = u.typed
        /\ a.stage = s /\ s \in {"looping", "ended"}
    BY <1>0, <1>3, <2>1 DEF Client
  <2>5. a.got \in Seq(Frames) /\ d.toClient \in Seq(Pieces)
    <3>1. first.frame \in Frames
      BY <1>0, <1>3, <2>1, KeyIs DEF Carries, Greeted
    <3>2. ASSUME NEW t \in Seq(Pieces)
          PROVE  SubSeq(t, 3, Len(t)) \in Seq(Pieces) /\ SubSeq(t, 2, Len(t)) \in Seq(Pieces)
      OBVIOUS
    <3>3. a.got = Append(u.got, first.frame)
      BY <1>0 DEF Client
    <3>q. QED
      BY <1>2, <2>3, <3>1, <3>2, <3>3
  <2>6. Carries(p, a, w, d)
    <3> HIDE DEF a, d, s, p, u, w, q
    <3>1. /\ p \in Proxy /\ u \in Client /\ w \in Worker /\ q \in Pipe /\ Carries(p, u, w, q)
          /\ u.stage = "looping" /\ q.toClient # <<>> /\ a.stage \in {"looping", "ended"}
      BY <1>0, <2>1, <2>4
    <3>q. QED
      BY <2>2, <2>3, <2>4, <3>1, ReadsLine
  <2>7. a \in Client
    BY <1>0, <2>4, <2>5 DEF Client
  <2>8. d \in Pipe
    BY <1>0, <2>2, <2>5 DEF Pipe
  <2> HIDE DEF a, d, s, p, u, w, q
  <2>q. QED
    BY <1>1, <2>1, <2>6, <2>7, <2>8
<1>7. CASE ReadText(c)
  <2> DEFINE a == [u EXCEPT !.hand = <<first.frame>>]
             d == [q EXCEPT !.toClient = Tail(@)]
  <2>1. /\ u.stage = "looping" /\ q.toClient # <<>> /\ first.piece = "text"
        /\ client' = [client EXCEPT ![c] = a] /\ pipe' = [pipe EXCEPT ![c] = d] /\ ClientAlone
    BY <1>7 DEF ReadText, ClientBecomes
  <2>2. a.got = u.got /\ a.hand = <<q.toClient[1].frame>> /\ a.stage = u.stage /\ a.typed = u.typed
    BY <1>0, <1>3, <2>1 DEF Client
  <2>3. /\ d.toHost = q.toHost /\ d.toWorker = q.toWorker /\ d.fromWorker = q.fromWorker
        /\ d.toClient = Tail(q.toClient)
    BY <1>0 DEF Pipe
  <2>4. q.toClient[1].piece = "text"
    BY <1>3, <2>1
  <2>5. Carries(p, a, w, d) /\ q.toClient[1].frame \in Frames /\ d.toClient \in Seq(Pieces)
    <3> HIDE DEF a, d, p, u, w, q
    <3>1. /\ p \in Proxy /\ u \in Client /\ w \in Worker /\ q \in Pipe /\ Carries(p, u, w, q)
          /\ u.stage = "looping" /\ q.toClient # <<>> /\ a.stage = "looping"
      BY <1>0, <2>1, <2>2
    <3>q. QED
      BY ONLY <2>2, <2>3, <2>4, <3>1, ReadsText
  <2>6. a \in Client
    BY <1>0, <1>3, <2>1, <2>5 DEF Client
  <2>7. d \in Pipe
    BY <1>0, <2>3, <2>5 DEF Pipe
  <2> HIDE DEF a, d, p, u, w, q
  <2>q. QED
    BY <1>1, <2>1, <2>5, <2>6, <2>7
<1>8. CASE TypeLine(c)
  <2> DEFINE a == [u EXCEPT !.stage = "typing", !.typed = @ + 1, !.hand = <<>>]
  <2>1. /\ u.stage = "looping" /\ u.typed < MaxLines
        /\ client' = [client EXCEPT ![c] = a] /\ UNCHANGED pipe /\ ClientAlone
    BY <1>8 DEF TypeLine, ClientBecomes
  <2>2. a.got = u.got /\ a.hand = <<>> /\ a.stage = "typing" /\ a.typed = u.typed + 1
    BY <1>0 DEF Client
  <2>3. a \in Client
    <3>1. u.typed + 1 \in 0 .. MaxLines
      BY <1>2, <2>1, ProxyAssumption
    <3>q. QED
      BY <1>0, <3>1 DEF Client
  <2> HIDE DEF a, p, u, w, q
  <2>4. Carries(p, a, w, q)
    BY <1>0, <2>1, <2>2, TypesLine
  <2>q. QED
    BY <1>0, <1>1, <2>1, <2>3, <2>4
<1>9. ASSUME NEW stage, NEW part, NEW next, WritePart(c, stage, part, next), ~At(c, "done"),
             \/ stage = "typing" /\ next = "midline" /\ part = u.typed
             \/ stage = "midline" /\ next = "looping" /\ part = Newline
      PROVE  ProxyTypeOK' /\ Carried'
  <2> DEFINE a == [u EXCEPT !.stage = next]
             d == [q EXCEPT !.toHost = Append(@, part)]
  <2>1. /\ u.stage = stage
        /\ client' = [client EXCEPT ![c] = a] /\ pipe' = [pipe EXCEPT ![c] = d] /\ ClientAlone
    BY <1>9 DEF WritePart, ClientBecomes
  <2>2. a \in Client /\ a.got = u.got /\ a.hand = u.hand /\ a.stage = next /\ a.typed = u.typed
    BY <1>0, <1>9 DEF Client
  <2>3. /\ d.toHost = Append(q.toHost, part) /\ d.toWorker = q.toWorker
        /\ d.fromWorker = q.fromWorker /\ d.toClient = q.toClient
    BY <1>0 DEF Pipe
  <2>4. Carries(p, a, w, d) /\ d.toHost \in Seq(0 .. MaxLines)
    <3> HIDE DEF a, d, p, u, w, q
    <3>1. /\ p \in Proxy /\ u \in Client /\ w \in Worker /\ q \in Pipe /\ Carries(p, u, w, q)
          /\ \/ u.stage = "typing" /\ a.stage = "midline" /\ part = u.typed
             \/ u.stage = "midline" /\ a.stage = "looping" /\ part = Newline
      BY <1>0, <1>9, <2>1, <2>2
    <3>q. QED
      BY ONLY <2>2, <2>3, <3>1, WritesLine
  <2>5. d \in Pipe
    BY <1>0, <2>3, <2>4 DEF Pipe
  <2> HIDE DEF a, d, p, u, w, q
  <2>q. QED
    BY <1>1, <2>1, <2>2, <2>4, <2>5
<1>10. CASE (BeginLine(c) \/ FinishLine(c)) /\ ~At(c, "done")
  BY <1>9, <1>10 DEF BeginLine, FinishLine
<1>11. CASE \/ ReadsRefusal(c) \/ ReadEmptyLine(c) \/ StreamEnds(c) \/ ClientQuits(c)
            \/ ((BeginLine(c) \/ FinishLine(c)) /\ At(c, "done"))
  <2>1. Hangs(c, "ended") \/ Hangs(c, "broken")
    BY <1>11 DEF ReadsRefusal, ReadEmptyLine, StreamEnds, ClientQuits, BeginLine, FinishLine, WritePart
  <2>q. QED
    BY <1>4, <2>1
<1>q. QED
  BY <1>5, <1>6, <1>7, <1>8, <1>10, <1>11 DEF ClientStep

LEMMA CarriedInit == ProxyInit => ProxyTypeOK /\ Carried
<1> SUFFICES ASSUME ProxyInit PROVE ProxyTypeOK /\ Carried
  OBVIOUS
<1>1. 0 \in Frames /\ 0 \in 0 .. MaxLines /\ 0 \in 0 .. MaxFrames /\ \A S : <<>> \in Seq(S)
  BY ProxyAssumption DEF Frames
<1>2. ProxyTypeOK
  <2>1. proxy \in [Clients -> Proxy]
    BY <1>1 DEF ProxyInit, Proxy
  <2>2. client \in [Clients -> Client]
    BY <1>1 DEF ProxyInit, Client
  <2>3. worker \in [Clients -> Worker]
    BY <1>1 DEF ProxyInit, Worker
  <2>4. pipe \in [Clients -> Pipe]
    BY <1>1 DEF ProxyInit, Pipe
  <2>q. QED
    BY <2>1, <2>2, <2>3, <2>4 DEF ProxyTypeOK
<1>3. ASSUME NEW c \in Clients PROVE Carries(proxy[c], client[c], worker[c], pipe[c])
  <2>1. /\ proxy[c].stage = "none" /\ client[c].stage = "waiting" /\ worker[c].stage = "asked"
        /\ client[c].typed = 0 /\ client[c].got = <<>> /\ client[c].hand = <<>>
        /\ proxy[c].half = 0 /\ worker[c].took = <<>> /\ pipe[c].toHost = <<>> /\ pipe[c].toWorker = <<>>
        /\ pipe[c].fromWorker = <<>> /\ pipe[c].toClient = <<>>
    BY DEF ProxyInit
  <2>2. Greeted(proxy[c], client[c], worker[c], pipe[c])
    BY <2>1 DEF Greeted
  <2>3. Lined(proxy[c], client[c], worker[c], pipe[c])
    BY <2>1 DEF Lined, CountsFrom
  <2>4. Seen(client[c]) = {} /\ InHand(proxy[c]) = {}
    BY <2>1 DEF Seen, InHand
  <2>5. Framed(proxy[c], client[c], worker[c], pipe[c])
    BY <2>1, <2>4, NoTexts DEF Framed, Chain, Before
  <2>q. QED
    BY <2>2, <2>3, <2>5 DEF Carries
<1>q. QED
  BY <1>2, <1>3 DEF Carried

LEMMA CarriedNext == ProxyTypeOK /\ Carried /\ [Next]_allVars => ProxyTypeOK' /\ Carried'
<1> SUFFICES ASSUME ProxyTypeOK, Carried, [Next]_allVars PROVE ProxyTypeOK' /\ Carried'
  OBVIOUS
<1>1. CASE UNCHANGED proxyVars
  <2>1. UNCHANGED <<proxy, client, worker, pipe>>
    BY <1>1 DEF proxyVars
  <2>2. ProxyTypeOK'
    BY <2>1 DEF ProxyTypeOK
  <2>3. ASSUME NEW c \in Clients PROVE Carries(proxy[c], client[c], worker[c], pipe[c])'
    <3>1. Carries(proxy'[c], client'[c], worker'[c], pipe'[c])
      BY <2>1 DEF Carried
    <3>q. QED
      BY <3>1 DEF Carries, Greeted, Lined, Framed, Chain, Before, Seen, Texts, Wired, InHand, Ascends,
                  PiecesAscend, Rank, Key, CountsFrom, PartsFrom, PartIs, HalfHeld
  <2>q. QED
    BY <2>2, <2>3 DEF Carried
<1>2. ASSUME NEW c \in Clients, BecomesAttach(c) PROVE ProxyTypeOK' /\ Carried'
  <2> DEFINE p == proxy[c]
             a == [p EXCEPT !.stage = "opening"]
             u == client[c]
             w == worker[c]
             q == pipe[c]
  <2>0. /\ p \in Proxy /\ q \in Pipe /\ Carries(p, u, w, q)
        /\ u \in Client /\ client = [client EXCEPT ![c] = u]
        /\ w \in Worker /\ worker = [worker EXCEPT ![c] = w]
        /\ pipe = [pipe EXCEPT ![c] = q]
    BY AtRest
  <2>1. p.stage = "none" /\ proxy' = [proxy EXCEPT ![c] = a] /\ UNCHANGED <<client, worker, pipe>>
    BY <1>2 DEF BecomesAttach, Unused, ProxyGoes
  <2>2. a \in Proxy /\ a.stage = "opening" /\ a.half = p.half
    BY <2>0 DEF Proxy
  <2>3. Ascends(q.fromWorker) /\ (w.stage = "asked" => q.fromWorker = <<>>)
    BY <2>0 DEF Carries, Framed, Greeted
  <2> HIDE DEF p, a, u, w, q
  <2>4. Carries(a, u, w, q)
    BY <2>0, <2>1, <2>2, <2>3, TaskTurns DEF Unanswered
  <2>q. QED
    BY <2>0, <2>1, <2>2, <2>4, Carry
<1>3. ASSUME NEW c \in Clients,
             HostStep(c) \/ WorkerStep(c) \/ ClientStep(c) \/ TypeLine(c) \/ ClientQuits(c)
      PROVE  ProxyTypeOK' /\ Carried'
  BY <1>3, TaskCarries, WorkerCarries, ClientCarries
<1>q. QED
  BY <1>1, <1>2, <1>3, ConnectionsAssumption DEF Next, BecomesFollower, allVars, proxyVars

LEMMA CarriedAlways == Spec => [](ProxyTypeOK /\ Carried)
<1>1. Init => ProxyTypeOK /\ Carried
  BY CarriedInit DEF Init
<1>q. QED
  BY <1>1, CarriedNext, PTL DEF Spec

\* For any bounds and any number of attaches: what the worker takes of a client's lines are the
\* first ones, in order and once each, and no part of a line is lost on the way while client and
\* worker stay, wherever the proxy's reads are dropped (proxy_attach_stream, the reads of its
\* select!).
THEOREM LinesInOrder == Spec => []LinesArriveInOrder
<1>1. ProxyTypeOK /\ Carried => LinesArriveInOrder
  <2> SUFFICES ASSUME ProxyTypeOK, Carried, NEW c \in Clients
               PROVE  /\ \A n \in DOMAIN worker[c].took : worker[c].took[n] = n
                      /\ WorkerReads(c) /\ client[c].stage = "looping" =>
                           2 * client[c].typed =
                             2 * (Len(worker[c].took) + Len(pipe[c].toWorker))
                             + (IF proxy[c].half = 0 THEN 0 ELSE 1) + Len(pipe[c].toHost)
    BY DEF LinesArriveInOrder
  <2>1. Lined(proxy[c], client[c], worker[c], pipe[c]) /\ worker[c] \in Worker
    BY AtRest DEF Carries
  <2>2. \A n \in DOMAIN worker[c].took : n \in Nat
    <3>1. worker[c].took \in Seq(1 .. MaxLines)
      BY <2>1 DEF Worker
    <3>q. QED
      BY <3>1
  <2>3. \A n \in DOMAIN worker[c].took : worker[c].took[n] = n
    BY <2>1, <2>2 DEF Lined, CountsFrom
  <2>q. QED
    BY <2>1, <2>3 DEF Lined, HalfHeld, WorkerReads
<1>q. QED
  BY <1>1, CarriedAlways, PTL

\* For any bounds and any number of attaches: a client is shown no frame twice and none before
\* an earlier one, and nothing after Closed, wherever its reads are cut off and whatever it
\* loses by that (next_frame, proxy_attach_stream).
THEOREM FramesInOrder == Spec => []FramesArriveInOrder
<1>1. ProxyTypeOK /\ Carried => FramesArriveInOrder
  <2> SUFFICES ASSUME ProxyTypeOK, Carried, NEW c \in Clients,
                      NEW i \in DOMAIN client[c].got, NEW j \in DOMAIN client[c].got, i < j
               PROVE  /\ client[c].got[i] # Closed
                      /\ client[c].got[j] = Closed \/ client[c].got[i] < client[c].got[j]
    BY DEF FramesArriveInOrder
  <2>1. client[c].got \in Seq(Frames) /\ Ascends(client[c].got)
    BY AtRest, HandIs DEF Carries, Framed
  <2>2. client[c].got[i] \in Frames /\ client[c].got[j] \in Frames
    BY <2>1
  <2>3. Rank(client[c].got[i]) < Rank(client[c].got[j])
    BY <2>1 DEF Ascends
  <2>q. QED
    BY <2>2, <2>3, ProxyAssumption DEF Rank, Frames, Closed
<1>q. QED
  BY <1>1, CarriedAlways, PTL

-----------------------------------------------------------------------------
\* Every variable of the connections keeps its type: what is written are frames of the protocol
\* and no offset or count leaves its bounds (handle_streaming_request and what it calls).
THEOREM TypeCorrect == Spec => []TypeOK
<1>1. Followed /\ ProxyTypeOK => TypeOK
  BY DEF Followed, TypeOK
<1>q. QED
  BY <1>1, FollowersAlways, CarriedAlways, PTL
=============================================================================
