--------------------------- MODULE ScrollViewsProofs ---------------------------
(***************************************************************************)
(* What is shown is what it is called, and a copied line is one that was   *)
(* searched: the views of LineLogPane operator by operator, then the       *)
(* emulator, then the refresh and the keys of ScrollViews.                 *)
(***************************************************************************)
EXTENDS ScrollViews, SequenceTheorems, WellFoundedInduction, TLAPS

-----------------------------------------------------------------------------
\* Numbers and positions.

LEMMA Smallest ==
  ASSUME NEW S, S \subseteq Nat, S # {}
  PROVE  Min(S) \in S /\ \A k \in S : Min(S) <= k
<1> DEFINE R == {p \in Nat \X Nat : p[1] < p[2]}
<1>1. IsWellFoundedOn(R, Nat)
  BY NatLessThanWellFounded DEF OpToRel
<1>2. \E x \in S : \A y \in S : <<y, x>> \notin R
  BY <1>1, WFMin
<1>3. ASSUME NEW x \in Nat, NEW y \in Nat, <<y, x>> \notin R PROVE x <= y
  <2>1. <<y, x>> \in Nat \X Nat /\ <<y, x>>[1] = y /\ <<y, x>>[2] = x
    OBVIOUS
  <2>2. ~ (y < x)
    BY <1>3, <2>1
  <2>q. QED
    BY <2>2
<1> HIDE DEF R
<1>4. \E x \in S : \A y \in S : x <= y
  BY <1>2, <1>3
<1>q. QED
  BY <1>4 DEF Min

LEMMA Least ==
  ASSUME NEW m \in Nat, NEW n \in Nat
  PROVE  Min({m, n}) = IF m <= n THEN m ELSE n
<1>1. Min({m, n}) \in {m, n} /\ Min({m, n}) <= m /\ Min({m, n}) <= n
  BY Smallest
<1>q. QED
  BY <1>1

LEMMA FirstInIs ==
  ASSUME NEW S, S \subseteq Nat
  PROVE  IF S = {} THEN FirstIn(S) = 0 ELSE FirstIn(S) \in S
  BY Smallest DEF FirstIn

LEMMA MinusIs ==
  ASSUME NEW m \in Nat, NEW n \in Nat
  PROVE  Minus(m, n) \in Nat /\ Minus(m, n) <= m /\ (m <= n => Minus(m, n) = 0)
         /\ (n <= m => Minus(m, n) = m - n)
  BY DEF Minus

LEMMA LastLinesAre ==
  ASSUME NEW X, NEW s \in Seq(X), NEW n \in Nat
  PROVE  /\ LastLines(s, n) \in Seq(X)
         /\ Len(LastLines(s, n)) = IF Len(s) <= n THEN Len(s) ELSE n
         /\ \A i \in DOMAIN LastLines(s, n) :
              LastLines(s, n)[i] = s[Minus(Len(s), n) + i] /\ Minus(Len(s), n) + i \in DOMAIN s
<1> DEFINE from == Minus(Len(s), n)
<1>0. Len(s) \in Nat /\ from \in Nat /\ from <= Len(s) /\ DOMAIN s = 1 .. Len(s)
  BY MinusIs, LenProperties
<1>1. from = IF Len(s) <= n THEN 0 ELSE Len(s) - n
  <2>1. ASSUME NEW m \in Nat PROVE Minus(m, n) = IF m <= n THEN 0 ELSE m - n
    BY DEF Minus
  <2> HIDE DEF from
  <2>2. Len(s) \in Nat
    BY <1>0
  <2>3. Minus(Len(s), n) = IF Len(s) <= n THEN 0 ELSE Len(s) - n
    BY <2>1, <2>2, Zenon
  <2>q. QED
    BY <2>3 DEF from
<1> HIDE DEF from
<1>k. \A k \in Nat : from <= k => (k - from \in Nat)
  BY <1>0
<1>2. \A i \in from + 1 .. Len(s) : s[i] \in X
  BY <1>0, ElementOfSeq
<1>3. /\ SubSeq(s, from + 1, Len(s)) \in Seq(X)
      /\ Len(SubSeq(s, from + 1, Len(s))) = Len(s) - from
      /\ \A i \in 1 .. Len(s) - from : SubSeq(s, from + 1, Len(s))[i] = s[from + i]
  <2>1. /\ SubSeq(s, from + 1, Len(s)) \in Seq(X)
        /\ Len(SubSeq(s, from + 1, Len(s))) =
             IF from + 1 <= Len(s) THEN Len(s) - (from + 1) + 1 ELSE 0
        /\ \A i \in 1 .. Len(s) - (from + 1) + 1 : SubSeq(s, from + 1, Len(s))[i] = s[from + 1 + i - 1]
    BY <1>0, <1>2, SubSeqProperties
  <2>2. ASSUME NEW m \in Nat, from <= m
        PROVE  /\ (IF from + 1 <= m THEN m - (from + 1) + 1 ELSE 0) = m - from
               /\ m - (from + 1) + 1 = m - from
               /\ \A i \in 1 .. m - from : from + 1 + i - 1 = from + i
    BY <1>0, <2>2
  <2>3. /\ (IF from + 1 <= Len(s) THEN Len(s) - (from + 1) + 1 ELSE 0) = Len(s) - from
        /\ Len(s) - (from + 1) + 1 = Len(s) - from
        /\ \A i \in 1 .. Len(s) - from : from + 1 + i - 1 = from + i
    BY <1>0, <2>2
  <2>4. Len(SubSeq(s, from + 1, Len(s))) = Len(s) - from
    BY <2>1, <2>3, Zenon
  <2>5. \A i \in 1 .. Len(s) - from : SubSeq(s, from + 1, Len(s))[i] = s[from + i]
    BY <2>1, <2>3, Zenon
  <2>q. QED
    BY <2>1, <2>4, <2>5
<1>4. LastLines(s, n) = SubSeq(s, from + 1, Len(s))
  BY DEF LastLines, from
<1> HIDE DEF LastLines
<1>5. DOMAIN LastLines(s, n) = 1 .. Len(s) - from
  BY <1>3, <1>4, LenProperties
<1>6. Len(LastLines(s, n)) = IF Len(s) <= n THEN Len(s) ELSE n
  <2>1. Len(LastLines(s, n)) = Len(s) - from
    BY <1>3, <1>4
  <2>2. ASSUME NEW m \in Nat, from = IF m <= n THEN 0 ELSE m - n PROVE m - from = IF m <= n THEN m ELSE n
    BY <2>2
  <2>q. QED
    BY <1>0, <1>1, <2>1, <2>2
<1>7. \A i \in DOMAIN LastLines(s, n) : LastLines(s, n)[i] = s[from + i] /\ from + i \in DOMAIN s
  <2>1. ASSUME NEW m \in Nat, NEW i \in 1 .. m - from PROVE from + i \in 1 .. m
    BY <1>0, <2>1
  <2>2. \A i \in 1 .. Len(s) - from : LastLines(s, n)[i] = s[from + i]
    BY <1>3, <1>4
  <2>q. QED
    BY <1>0, <1>5, <2>1, <2>2
<1>q. QED
  BY <1>3, <1>4, <1>6, <1>7 DEF from

-----------------------------------------------------------------------------
\* Views: one that follows is at its end, and the match of a search matches.

Matched(p) == p.match # 0 => p.match \in DOMAIN p.lines /\ p.lines[p.match].has >= p.query
Stands(p) == p \in LogPane(Line) /\ (p.follow => p.offset = 0) /\ Matched(p)

LEMMA PaneFields ==
  ASSUME NEW p \in LogPane(Line)
  PROVE  /\ p.lines \in Seq(Line) /\ p.offset \in Nat /\ p.follow \in BOOLEAN
         /\ p.match \in Nat /\ p.query \in Nat
         /\ p = [lines |-> p.lines, offset |-> p.offset, follow |-> p.follow, match |-> p.match,
                 query |-> p.query]
         /\ Len(p.lines) \in Nat /\ DOMAIN p.lines = 1 .. Len(p.lines)
<1>1. p.lines \in Seq(Line)
  BY DEF LogPane
<1>2. Len(p.lines) \in Nat /\ DOMAIN p.lines = 1 .. Len(p.lines)
  BY <1>1, LenProperties
<1>q. QED
  BY <1>1, <1>2 DEF LogPane

LEMMA EmptyStands == Stands(EmptyPane) /\ EmptyPane.lines = <<>>
<1>1. <<>> \in Seq(Line)
  BY EmptySeq
<1>q. QED
  BY <1>1 DEF Stands, EmptyPane, LogPane, Matched

LEMMA AtStands ==
  ASSUME NEW p, Stands(p), NEW n \in Nat
  PROVE  Stands(At(p, n)) /\ At(p, n).lines = p.lines
  BY DEF Stands, At, LogPane, Matched

LEMMA ScrolledStands ==
  ASSUME NEW p, Stands(p), NEW height \in Nat, NEW n \in Nat,
         NEW q \in {JumpBottom(p), JumpTop(p, height), ScrollUp(p, height, n), ScrollDown(p, n)}
  PROVE  Stands(q) /\ q.lines = p.lines
<1>0. p.offset \in Nat /\ Len(p.lines) \in Nat
  BY PaneFields DEF Stands
<1>1. MaxOffset(p, height) \in Nat /\ Minus(p.offset, n) \in Nat
  BY <1>0, MinusIs DEF MaxOffset
<1>2. Min({p.offset + n, MaxOffset(p, height)}) \in Nat
  <2>1. p.offset + n \in Nat
    BY <1>0
  <2>q. QED
    BY <1>1, <2>1, Least
<1>3. q \in {At(p, 0), At(p, MaxOffset(p, height)), At(p, Min({p.offset + n, MaxOffset(p, height)})),
              At(p, Minus(p.offset, n))}
  BY DEF JumpBottom, JumpTop, ScrollUp, ScrollDown
<1>4. \A k \in Nat : Stands(At(p, k)) /\ At(p, k).lines = p.lines
  BY AtStands
<1>q. QED
  BY <1>1, <1>2, <1>3, <1>4

LEMMA FoundStands ==
  ASSUME NEW p, Stands(p), NEW query \in Nat, NEW I,
         I = {i \in DOMAIN p.lines : p.lines[i].has >= query}
  PROVE  Stands(Found(p, FirstIn(I), query)) /\ Found(p, FirstIn(I), query).lines = p.lines
<1>0. p \in LogPane(Line) /\ DOMAIN p.lines \subseteq Nat /\ 0 \notin DOMAIN p.lines
  <2>1. DOMAIN p.lines = 1 .. Len(p.lines) /\ Len(p.lines) \in Nat
    BY PaneFields DEF Stands
  <2>q. QED
    BY <2>1 DEF Stands
<1>1. I \subseteq Nat
  BY <1>0
<1>2. FirstIn(I) = 0 \/ FirstIn(I) \in I
  BY <1>1, FirstInIs
<1>3. FirstIn(I) \in Nat
  <2>1. ASSUME FirstIn(I) \in I PROVE FirstIn(I) \in Nat
    BY <1>1, <2>1, Zenon
  <2>q. QED
    BY <1>2, <2>1
<1> DEFINE k == FirstIn(I)
           q == Found(p, k, query)
<1>4. k \in Nat /\ (k # 0 => k \in DOMAIN p.lines /\ p.lines[k].has >= query)
  BY <1>2, <1>3
<1> HIDE DEF k
<1>5. q.lines = p.lines /\ q.match = k /\ q.query = (IF k = 0 THEN 0 ELSE query) /\ q.follow = p.follow
      /\ q.offset = p.offset /\ q \in LogPane(Line)
  BY <1>0, <1>4 DEF Found, LogPane
<1> HIDE DEF q
<1>6. Matched(q)
  BY <1>4, <1>5 DEF Matched
<1>7. Stands(q) /\ q.lines = p.lines
  BY <1>5, <1>6 DEF Stands
<1>q. QED
  BY <1>7 DEF q, k

\* The next and the previous match go around the lines there are.
LEMMA TurnIs ==
  ASSUME NEW p, p.lines \in Seq(Line), p.match \in DOMAIN p.lines, NEW step \in {0, 1}
  PROVE  /\ DOMAIN Turn(p, step) = 1 .. Len(p.lines)
         /\ \A k \in DOMAIN Turn(p, step) : Turn(p, step)[k] \in DOMAIN p.lines
<1> DEFINE n == Len(p.lines)
<1>0. n \in Nat /\ DOMAIN p.lines = 1 .. n
  BY LenProperties
<1>1. n > 0 /\ p.match \in Nat /\ p.match >= 1
  BY <1>0
<1> HIDE DEF n
<1>2. ASSUME NEW m \in Nat PROVE (m % n) + 1 \in 1 .. n
  BY <1>0, <1>1
<1>3. ASSUME NEW k \in 1 .. n PROVE Turn(p, step)[k] \in DOMAIN p.lines
  <2>1. p.match - 1 + (IF step > 0 THEN k ELSE n - k) \in Nat
    BY <1>0, <1>1
  <2>2. Turn(p, step)[k] = ((p.match - 1 + (IF step > 0 THEN k ELSE n - k)) % n) + 1
    BY DEF Turn, n
  <2>q. QED
    BY <1>0, <1>2, <2>1, <2>2
<1>4. DOMAIN Turn(p, step) = 1 .. n
  BY DEF Turn, n
<1>q. QED
  BY <1>3, <1>4 DEF n

LEMMA TurnedIs ==
  ASSUME NEW p, p.lines \in Seq(Line), p.match # 0 => p.match \in DOMAIN p.lines, NEW step \in {0, 1}
  PROVE  \/ Turned(p, Turn(p, step)) = p
         \/ \E k \in DOMAIN p.lines :
              Turned(p, Turn(p, step)) = [p EXCEPT !.match = k] /\ p.lines[k].has >= p.query
<1>1. CASE p.match = 0
  BY <1>1 DEF Turned
<1>2. CASE p.match # 0
  <2> DEFINE turn == Turn(p, step)
             I == {i \in DOMAIN turn : p.lines[turn[i]].has >= p.query}
             k == FirstIn(I)
  <2>1. DOMAIN turn = 1 .. Len(p.lines) /\ Len(p.lines) \in Nat
    BY <1>2, TurnIs, LenProperties
  <2>2. \A i \in DOMAIN turn : turn[i] \in DOMAIN p.lines
    BY <1>2, TurnIs
  <2> HIDE DEF turn
  <2>3. I \subseteq Nat
    BY <2>1
  <2>4. k = 0 \/ k \in I
    BY <2>3, FirstInIs
  <2>5. Turned(p, turn) = IF k = 0 THEN p ELSE [p EXCEPT !.match = turn[k]]
    BY <1>2 DEF Turned
  <2>6. k \in I => turn[k] \in DOMAIN p.lines /\ p.lines[turn[k]].has >= p.query
    BY <2>2
  <2> HIDE DEF I, k
  <2>q. QED
    BY <2>4, <2>5, <2>6 DEF turn
<1>q. QED
  BY <1>1, <1>2

LEMMA SearchedStands ==
  ASSUME NEW p, Stands(p), NEW query \in Nat,
         NEW q \in {SearchLines(p, query), NextMatch(p), PreviousMatch(p)}
  PROVE  Stands(q) /\ q.lines = p.lines
<1>1. p \in LogPane(Line) /\ p.lines \in Seq(Line) /\ DOMAIN p.lines \subseteq Nat
  <2>1. DOMAIN p.lines = 1 .. Len(p.lines) /\ p.lines \in Seq(Line)
    BY PaneFields DEF Stands
  <2>q. QED
    BY <2>1 DEF Stands
<1>2. Stands(SearchLines(p, query)) /\ SearchLines(p, query).lines = p.lines
  BY FoundStands DEF SearchLines
<1>3. ASSUME NEW step \in {0, 1}
      PROVE  Stands(Turned(p, Turn(p, step))) /\ Turned(p, Turn(p, step)).lines = p.lines
  <2>1. CASE Turned(p, Turn(p, step)) = p
    BY <2>1
  <2>2. CASE \E k \in DOMAIN p.lines :
               Turned(p, Turn(p, step)) = [p EXCEPT !.match = k] /\ p.lines[k].has >= p.query
    <3>1. PICK k \in DOMAIN p.lines :
            Turned(p, Turn(p, step)) = [p EXCEPT !.match = k] /\ p.lines[k].has >= p.query
      BY <2>2
    <3> DEFINE r == [p EXCEPT !.match = k]
    <3>2. r \in LogPane(Line) /\ r.lines = p.lines /\ r.match = k /\ r.query = p.query
          /\ r.follow = p.follow /\ r.offset = p.offset
      BY <1>1 DEF LogPane
    <3> HIDE DEF r
    <3>3. Stands(r)
      BY <3>1, <3>2 DEF Stands, Matched
    <3>q. QED
      BY <3>1, <3>2, <3>3 DEF r
  <2>q. QED
    BY <1>1, <2>1, <2>2, TurnedIs DEF Stands, Matched
<1>q. QED
  BY <1>2, <1>3 DEF NextMatch, PreviousMatch

\* New lines end the search; where the view is depends on whether it followed.
LEMMA ReplacedStands ==
  ASSUME NEW p, Stands(p), NEW lines \in Seq(Line)
  PROVE  Stands(ReplaceLines(p, lines)) /\ ReplaceLines(p, lines).lines = LastLines(lines, Capacity)
<1> DEFINE q == [p EXCEPT !.lines = LastLines(lines, Capacity), !.match = 0, !.query = 0]
<1>0. LastLines(lines, Capacity) \in Seq(Line)
  BY LastLinesAre, CapacityAssumption
<1>1. /\ q \in LogPane(Line) /\ q.lines = LastLines(lines, Capacity) /\ q.match = 0
      /\ q.follow = p.follow /\ q.offset = p.offset
  BY <1>0 DEF LogPane, Stands
<1>2. ReplaceLines(p, lines) =
        IF p.follow THEN JumpBottom(q) ELSE At(q, Min({p.offset, MaxOffset(q, 1)}))
  BY DEF ReplaceLines
<1> HIDE DEF q
<1>3. Stands(q)
  BY <1>1 DEF Stands, Matched
<1>4. Min({p.offset, MaxOffset(q, 1)}) \in Nat
  <2>1. p.offset \in Nat /\ Len(q.lines) \in Nat
    BY <1>3, PaneFields DEF Stands
  <2>2. MaxOffset(q, 1) \in Nat
    BY <2>1, MinusIs DEF MaxOffset
  <2>q. QED
    BY <2>1, <2>2, Least
<1>5. Stands(JumpBottom(q)) /\ JumpBottom(q).lines = q.lines
  BY <1>3, AtStands DEF JumpBottom
<1>6. Stands(At(q, Min({p.offset, MaxOffset(q, 1)}))) /\ At(q, Min({p.offset, MaxOffset(q, 1)})).lines = q.lines
  BY <1>3, <1>4, AtStands
<1>q. QED
  BY <1>1, <1>2, <1>5, <1>6

\* A view that follows shows its last line.
LEMMA FollowedShowsEnd ==
  ASSUME NEW p, Stands(p), p.follow, p.lines # <<>>
  PROVE  LastLines(VisibleLines(p, Rows), 1) = LastLines(p.lines, 1)
<1> DEFINE n == Len(p.lines)
           start == Minus(n, Rows)
           v == SubSeq(p.lines, start + 1, n)
<1>0. p.lines \in Seq(Line) /\ n \in Nat /\ DOMAIN p.lines = 1 .. n /\ n > 0 /\ Rows \in Nat \ {0}
  BY PaneFields, EmptySeq, LenProperties, ViewsAssumption DEF Stands
<1>1. Min({p.offset, MaxOffset(p, Rows)}) = 0
  <2>1. p.offset = 0 /\ MaxOffset(p, Rows) \in Nat
    BY <1>0, MinusIs DEF Stands, MaxOffset
  <2>q. QED
    BY <2>1, Least
<1>2. start \in Nat /\ start < n /\ start + Rows >= n
  BY <1>0 DEF Minus
<1>3. Min({start + Rows, n}) = n
  BY <1>0, <1>2, Least
<1>4. VisibleLines(p, Rows) = v
  <2>1. Rows + 0 = Rows
    BY <1>0
  <2>q. QED
    BY <1>1, <1>3, <2>1 DEF VisibleLines
<1> HIDE DEF start
<1>5. \A i \in start + 1 .. n : p.lines[i] \in Line
  BY <1>0, <1>2, ElementOfSeq
<1>6. v \in Seq(Line) /\ Len(v) = n - start /\ v[n - start] = p.lines[n]
  <2>1. /\ v \in Seq(Line)
        /\ Len(v) = IF start + 1 <= n THEN n - (start + 1) + 1 ELSE 0
        /\ \A i \in 1 .. n - (start + 1) + 1 : v[i] = p.lines[start + 1 + i - 1]
    BY <1>0, <1>2, <1>5, SubSeqProperties
  <2>2. ASSUME NEW m \in Nat, start < m
        PROVE  m - start \in 1 .. m - (start + 1) + 1 /\ start + 1 + (m - start) - 1 = m
               /\ m - (start + 1) + 1 = m - start /\ start + 1 <= m
    BY <1>2, <2>2
  <2>q. QED
    BY <1>0, <1>2, <2>1, <2>2
<1> HIDE DEF v, n
<1>7. ASSUME NEW s \in Seq(Line), Len(s) \in Nat \ {0} PROVE LastLines(s, 1) = <<s[Len(s)]>>
  <2>1. /\ LastLines(s, 1) \in Seq(Line) /\ Len(LastLines(s, 1)) = 1
        /\ \A i \in DOMAIN LastLines(s, 1) : LastLines(s, 1)[i] = s[Minus(Len(s), 1) + i]
    <3>1. \A m \in Nat \ {0} : (IF m <= 1 THEN m ELSE 1) = 1
      OBVIOUS
    <3>2. Len(LastLines(s, 1)) = IF Len(s) <= 1 THEN Len(s) ELSE 1
      <4>1. \A k \in Nat : Len(LastLines(s, k)) = IF Len(s) <= k THEN Len(s) ELSE k
        BY <1>7, LastLinesAre, Zenon
      <4>q. QED
        BY <4>1
    <3>3. LastLines(s, 1) \in Seq(Line)
      BY <1>7, LastLinesAre
    <3>4. \A i \in DOMAIN LastLines(s, 1) : LastLines(s, 1)[i] = s[Minus(Len(s), 1) + i]
      BY <1>7, LastLinesAre
    <3>q. QED
      BY <1>7, <3>1, <3>2, <3>3, <3>4
  <2>2. Minus(Len(s), 1) + 1 = Len(s)
    BY <1>7 DEF Minus
  <2>3. DOMAIN LastLines(s, 1) = 1 .. 1
    BY <2>1, LenProperties
  <2>4. LastLines(s, 1)[1] = s[Len(s)]
    BY <2>1, <2>2, <2>3
  <2> HIDE DEF LastLines
  <2>5. LastLines(s, 1) = <<LastLines(s, 1)[1]>>
    BY <2>1
  <2>q. QED
    BY <2>4, <2>5
<1>8. LastLines(v, 1) = <<p.lines[n]>>
  <2>1. Len(v) \in Nat \ {0} /\ v[Len(v)] = p.lines[n]
    BY <1>0, <1>2, <1>6
  <2>q. QED
    BY <1>6, <1>7, <2>1
<1>9. LastLines(p.lines, 1) = <<p.lines[n]>>
  BY <1>0, <1>7 DEF n
<1>q. QED
  BY <1>4, <1>8, <1>9

-----------------------------------------------------------------------------
\* The emulator: its screen has Rows lines wherever it is scrolled to.

Scrolled(e) ==
  /\ e \in [lines : Seq(Line), back : 0 .. Scrollback]
  /\ Len(e.lines) \in Rows + e.back .. Rows + Scrollback

LEMMA ScrolledIs ==
  ASSUME NEW e, Scrolled(e)
  PROVE  /\ e.lines \in Seq(Line) /\ e.back \in Nat /\ Len(e.lines) \in Nat
         /\ Above(e) \in Nat /\ e.back <= Above(e) /\ Above(e) <= Scrollback
         /\ Rows \in Nat \ {0} /\ Scrollback \in Nat /\ Len(e.lines) = Above(e) + Rows
<1>1. Rows \in Nat \ {0} /\ Scrollback \in Nat
  BY ViewsAssumption
<1>2. e.lines \in Seq(Line) /\ e.back \in 0 .. Scrollback /\ Len(e.lines) \in Rows + e.back .. Rows + Scrollback
  BY DEF Scrolled
<1>3. Len(e.lines) \in Nat
  BY <1>2, LenProperties
<1>4. ASSUME NEW m \in Nat, NEW b \in 0 .. Scrollback, m \in Rows + b .. Rows + Scrollback
      PROVE  b \in Nat /\ m - Rows \in Nat /\ b <= m - Rows /\ m - Rows <= Scrollback
             /\ m = (m - Rows) + Rows
  BY <1>1, <1>4
<1>q. QED
  BY <1>1, <1>2, <1>3, <1>4 DEF Above

LEMMA ScreenIs ==
  ASSUME NEW e, Scrolled(e)
  PROVE  Screen(e) \in Seq(Line) /\ Len(Screen(e)) = Rows
<1> DEFINE from == Above(e) - e.back + 1
           to == Len(e.lines) - e.back
<1>1. /\ e.lines \in Seq(Line) /\ e.back \in Nat /\ Len(e.lines) \in Nat
      /\ Above(e) \in Nat /\ e.back <= Above(e) /\ Rows \in Nat \ {0} /\ Len(e.lines) = Above(e) + Rows
  BY ScrolledIs
<1>2. ASSUME NEW above \in Nat, NEW b \in Nat, b <= above, NEW n \in Nat, n = above + Rows
      PROVE  /\ above - b + 1 \in Nat /\ n - b \in Nat /\ above - b + 1 >= 1 /\ n - b <= n
             /\ above - b + 1 <= n - b /\ (n - b) - (above - b + 1) + 1 = Rows
  BY <1>1, <1>2
<1>3. /\ from \in Nat /\ to \in Nat /\ from >= 1 /\ to <= Len(e.lines) /\ from <= to
      /\ to - from + 1 = Rows
  BY <1>1, <1>2
<1>4. Screen(e) = SubSeq(e.lines, from, to)
  BY DEF Screen
<1> HIDE DEF from, to
<1>5. \A i \in from .. to : e.lines[i] \in Line
  <2>1. \A i \in from .. to : i \in 1 .. Len(e.lines)
    BY <1>1, <1>3
  <2>q. QED
    BY <1>1, <2>1, ElementOfSeq
<1>6. SubSeq(e.lines, from, to) \in Seq(Line) /\ Len(SubSeq(e.lines, from, to)) = to - from + 1
  BY <1>1, <1>3, <1>5, SubSeqProperties
<1>q. QED
  BY <1>3, <1>4, <1>6

LEMMA SetScrollbackIs ==
  ASSUME NEW e, Scrolled(e), NEW n \in Nat
  PROVE  Scrolled(SetScrollback(e, n)) /\ SetScrollback(e, n).lines = e.lines
<1> DEFINE b == Min({n, Above(e)})
           f == [e EXCEPT !.back = b]
<1>1. /\ e.lines \in Seq(Line) /\ Len(e.lines) \in Nat /\ Above(e) \in Nat /\ Above(e) <= Scrollback
      /\ Rows \in Nat \ {0} /\ Scrollback \in Nat /\ Len(e.lines) = Above(e) + Rows
  BY ScrolledIs
<1>2. b \in Nat /\ b <= Above(e)
  BY <1>1, Least
<1>3. b \in 0 .. Scrollback /\ Len(e.lines) \in Rows + b .. Rows + Scrollback
  <2> HIDE DEF b
  <2>1. ASSUME NEW above \in Nat, above <= Scrollback, b <= above, NEW m \in Nat, m = above + Rows
        PROVE  b \in 0 .. Scrollback /\ m \in Rows + b .. Rows + Scrollback
    BY <1>1, <1>2, <2>1
  <2>q. QED
    BY <1>1, <1>2, <2>1
<1> HIDE DEF b
<1>4. f \in [lines : Seq(Line), back : 0 .. Scrollback] /\ f.lines = e.lines /\ f.back = b
  BY <1>3 DEF Scrolled
<1> HIDE DEF f
<1>5. Scrolled(f)
  BY <1>3, <1>4 DEF Scrolled
<1>q. QED
  BY <1>4, <1>5 DEF SetScrollback, f, b

LEMMA PrintsIs ==
  ASSUME NEW e, Scrolled(e), NEW line \in Line
  PROVE  Scrolled(Prints(e, line))
<1> DEFINE lines == LastLines(Append(e.lines, line), Rows + Scrollback)
           back == IF e.back = 0 THEN 0 ELSE Min({e.back + 1, Len(lines) - Rows})
<1>1. /\ e.lines \in Seq(Line) /\ e.back \in Nat /\ Len(e.lines) \in Nat /\ Above(e) \in Nat
      /\ Rows \in Nat \ {0} /\ Scrollback \in Nat /\ Len(e.lines) = Above(e) + Rows
  BY ScrolledIs
<1>2. Append(e.lines, line) \in Seq(Line) /\ Len(Append(e.lines, line)) = Len(e.lines) + 1
  BY <1>1, AppendProperties
<1>3. Rows + Scrollback \in Nat
  BY <1>1
<1>4. lines \in Seq(Line)
      /\ Len(lines) = IF Len(e.lines) + 1 <= Rows + Scrollback THEN Len(e.lines) + 1 ELSE Rows + Scrollback
  <2>1. \A k \in Nat : /\ LastLines(Append(e.lines, line), k) \in Seq(Line)
                       /\ Len(LastLines(Append(e.lines, line), k)) =
                            IF Len(Append(e.lines, line)) <= k THEN Len(Append(e.lines, line)) ELSE k
    BY <1>2, LastLinesAre
  <2>q. QED
    BY <1>2, <1>3, <2>1
<1>5. Len(lines) \in Nat /\ Len(lines) >= Rows /\ Len(lines) <= Rows + Scrollback
  <2>1. ASSUME NEW m \in Nat, NEW above \in Nat, NEW k, m = above + Rows,
               k = IF m + 1 <= Rows + Scrollback THEN m + 1 ELSE Rows + Scrollback
        PROVE  k \in Nat /\ k >= Rows /\ k <= Rows + Scrollback
    BY <1>1, <2>1
  <2>q. QED
    BY <1>1, <1>4, <2>1
<1>6. Prints(e, line) = [lines |-> lines, back |-> back]
  BY DEF Prints
<1> HIDE DEF lines
<1>7. Len(lines) - Rows \in Nat /\ e.back + 1 \in Nat
  BY <1>1, <1>5
<1>8. back \in Nat /\ back <= Len(lines) - Rows
  BY <1>7, Least
<1> HIDE DEF back
<1>9. back \in 0 .. Scrollback /\ Len(lines) \in Rows + back .. Rows + Scrollback
  <2>1. ASSUME NEW m \in Nat, m >= Rows, m <= Rows + Scrollback, back <= m - Rows
        PROVE  back \in 0 .. Scrollback /\ m \in Rows + back .. Rows + Scrollback
    BY <1>1, <1>8, <2>1
  <2>q. QED
    BY <1>5, <1>8, <2>1
<1>q. QED
  BY <1>4, <1>6, <1>9 DEF Scrolled

LEMMA SearchScrollbackIs ==
  ASSUME NEW e, Scrolled(e), NEW query, NEW direction \in {"first", "next", "previous"}
  PROVE  SearchScrollback(e, query, direction) = None \/ Scrolled(SearchScrollback(e, query, direction))
<1> DEFINE offsets == SearchOffsets(e, direction)
           I == {k \in DOMAIN offsets : Shows(SetScrollback(e, offsets[k]), query)}
           i == FirstIn(I)
<1>1. DOMAIN offsets = 1 .. Above(e) + 1 /\ \A k \in DOMAIN offsets : offsets[k] \in Nat
  <2>1. Above(e) \in Nat /\ e.back \in Nat /\ e.back <= Above(e)
    BY ScrolledIs
  <2>2. ASSUME NEW max \in Nat, NEW cur \in Nat, NEW k \in 1 .. max + 1
        PROVE  k - 1 \in Nat /\ (cur + k) % (max + 1) \in Nat /\ (cur + max + 1 - k) % (max + 1) \in Nat
    <3>1. cur + k \in Nat /\ cur + max + 1 - k \in Nat /\ max + 1 \in Nat /\ max + 1 > 0
      BY <2>2
    <3>2. \A m \in Nat : m % (max + 1) \in Nat
      BY <3>1
    <3>q. QED
      BY <3>1, <3>2
  <2>3. CASE direction = "first"
    BY <2>1, <2>2, <2>3 DEF SearchOffsets
  <2>4. CASE direction = "next"
    BY <2>1, <2>2, <2>4 DEF SearchOffsets
  <2>5. CASE direction = "previous"
    BY <2>1, <2>2, <2>5 DEF SearchOffsets
  <2>q. QED
    BY <2>3, <2>4, <2>5
<1>2. SearchScrollback(e, query, direction) = IF i = 0 THEN None ELSE SetScrollback(e, offsets[i])
  BY DEF SearchScrollback
<1>3. Above(e) + 1 \in Nat
  BY ScrolledIs
<1> HIDE DEF offsets
<1>4. I \subseteq Nat
  BY <1>1, <1>3
<1>5. i = 0 \/ i \in DOMAIN offsets
  BY <1>4, FirstInIs
<1>q. QED
  BY <1>1, <1>2, <1>5, SetScrollbackIs

-----------------------------------------------------------------------------
\* The snapshot of the terminal: its match is a row.

Snapshot(t) ==
  /\ t \in [lines : Seq(Line), follow : BOOLEAN, match : Nat, query : Nat]
  /\ Len(t.lines) = Rows /\ t.match <= Rows
Pictures(t, e) == Snapshot(t) /\ Scrolled(e) /\ t.follow = (e.back = 0) /\ t.lines = Screen(e)

LEMMA UpdatedPictures ==
  ASSUME NEW t, Snapshot(t), NEW e, Scrolled(e)
  PROVE  Pictures(UpdateView(t, e), e) /\ UpdateView(t, e).match = t.match
<1>1. Screen(e) \in Seq(Line) /\ Len(Screen(e)) = Rows
  BY ScreenIs
<1> DEFINE u == UpdateView(t, e)
<1>2. /\ u \in [lines : Seq(Line), follow : BOOLEAN, match : Nat, query : Nat]
      /\ u.lines = Screen(e) /\ u.follow = (e.back = 0) /\ u.match = t.match
  BY <1>1 DEF UpdateView, Snapshot
<1> HIDE DEF u
<1>q. QED
  BY <1>1, <1>2 DEF Snapshot, Pictures, u

LEMMA SearchedSnapshot ==
  ASSUME NEW t, Snapshot(t), NEW query \in Nat,
         NEW u \in {SearchLines(t, query), NextMatch(t), PreviousMatch(t)}
  PROVE  Snapshot(u) /\ u.lines = t.lines /\ u.follow = t.follow
<1>1. t.lines \in Seq(Line) /\ Rows \in Nat \ {0} /\ DOMAIN t.lines = 1 .. Rows /\ t.match \in Nat /\ t.match <= Rows
      /\ t.query \in Nat
  BY LenProperties, ViewsAssumption DEF Snapshot
<1>2. ASSUME NEW k \in Nat, k <= Rows, NEW q \in Nat
      PROVE  LET v == [t EXCEPT !.match = k, !.query = q] IN
             Snapshot(v) /\ v.lines = t.lines /\ v.follow = t.follow
  <2> DEFINE v == [t EXCEPT !.match = k, !.query = q]
  <2>1. /\ v \in [lines : Seq(Line), follow : BOOLEAN, match : Nat, query : Nat]
        /\ v.lines = t.lines /\ v.follow = t.follow /\ v.match = k
    BY DEF Snapshot
  <2> HIDE DEF v
  <2>2. Snapshot(v)
    BY <1>2, <2>1 DEF Snapshot
  <2>q. QED
    BY <2>1, <2>2 DEF v
<1>3. CASE u = SearchLines(t, query)
  <2> DEFINE I == {i \in DOMAIN t.lines : t.lines[i].has >= query}
             k == FirstIn(I)
  <2>1. I \subseteq 1 .. Rows
    BY <1>1
  <2>2. I \subseteq Nat
    BY <1>1, <2>1
  <2> HIDE DEF I
  <2>3. k = 0 \/ k \in I
    BY <2>2, FirstInIs
  <2> HIDE DEF k
  <2>4. k \in Nat /\ k <= Rows
    <3>1. k = 0 \/ k \in 1 .. Rows
      BY <2>1, <2>3
    <3>q. QED
      BY <1>1, <3>1
  <2>5. u = [t EXCEPT !.match = k, !.query = IF k = 0 THEN 0 ELSE query]
    BY <1>3 DEF SearchLines, Found, I, k
  <2>6. (IF k = 0 THEN 0 ELSE query) \in Nat
    OBVIOUS
  <2>q. QED
    BY <1>2, <2>4, <2>5, <2>6
<1>4. ASSUME NEW step \in {0, 1}, u = Turned(t, Turn(t, step))
      PROVE  Snapshot(u) /\ u.lines = t.lines /\ u.follow = t.follow
  <2>1. t.match # 0 => t.match \in DOMAIN t.lines
    BY <1>1
  <2>2. \/ u = t
        \/ \E k \in DOMAIN t.lines : u = [t EXCEPT !.match = k] /\ t.lines[k].has >= t.query
    BY <1>1, <1>4, <2>1, TurnedIs
  <2>3. ASSUME NEW k \in DOMAIN t.lines, u = [t EXCEPT !.match = k]
        PROVE  Snapshot(u) /\ u.lines = t.lines /\ u.follow = t.follow
    <3>1. k \in Nat /\ k <= Rows
      BY <1>1
    <3>2. u = [t EXCEPT !.match = k, !.query = t.query]
      BY <2>3 DEF Snapshot
    <3>q. QED
      BY <1>1, <1>2, <3>1, <3>2
  <2>q. QED
    BY <2>2, <2>3
<1>q. QED
  BY <1>3, <1>4 DEF NextMatch, PreviousMatch

-----------------------------------------------------------------------------
\* The inductive invariant.  A log is recent once the refresh has fetched it.

Own(lines, d) == \A i \in DOMAIN lines : lines[i].of = d
Recent(d) == d \in listed /\ (fresh \/ (todo # {} /\ d \notin todo))

LogType ==
  /\ files \in [Daemons -> {None} \cup Seq(Line)]
  /\ listed \subseteq Daemons /\ daemon \in listed \cup {None} /\ todo \subseteq listed
  /\ logs \in [Daemons -> {None} \cup LogPane(Line)] /\ fresh \in BOOLEAN
Files == \A d \in Daemons : files[d] # None => Own(files[d], d)
Logs == \A d \in Daemons : logs[d] # None => Stands(logs[d]) /\ Own(logs[d].lines, d)
Fetching ==
  /\ fresh => todo = {}
  /\ \A d \in Daemons : Recent(d) => logs[d] # None /\ (d = daemon => line_log.lines = logs[d].lines)
LogInv == LogType /\ Files /\ Logs /\ Stands(line_log) /\ Fetching

KeyType ==
  /\ count \in [{"output", "changes", "keys"} -> Nat]
  /\ focus \in {"agent", "log"} /\ mode \in [scroll : BOOLEAN, search : BOOLEAN, query : 0 .. Word]
  /\ copied = None \/ copied \in [from : {"agent", "log"}, line : Line, query : Nat]

IInv == LogInv /\ Pictures(terminal, emulator) /\ KeyType /\ CopiedLineMatches

LEMMA Typed == IInv => TypeOK
<1> SUFFICES ASSUME IInv PROVE TypeOK
  OBVIOUS
<1>1. line_log \in LogPane(Line) /\ line_log.match <= Len(line_log.lines)
  <2>1. /\ line_log \in LogPane(Line) /\ line_log.match \in Nat
        /\ Len(line_log.lines) \in Nat /\ DOMAIN line_log.lines = 1 .. Len(line_log.lines)
    BY PaneFields DEF IInv, LogInv, Stands
  <2>2. line_log.match # 0 => line_log.match \in DOMAIN line_log.lines
    BY DEF IInv, LogInv, Stands, Matched
  <2>q. QED
    BY <2>1, <2>2
<1>2. /\ terminal \in [lines : Seq(Line), follow : BOOLEAN, match : Nat, query : Nat]
      /\ Len(terminal.lines) = Rows /\ terminal.match <= Len(terminal.lines)
  BY DEF IInv, Pictures, Snapshot
<1>3. \A p \in {line_log, terminal} : p.match <= Len(p.lines)
  BY <1>1, <1>2
<1>q. QED
  BY <1>1, <1>2, <1>3 DEF IInv, LogInv, LogType, KeyType, Pictures, Scrolled, TypeOK

LEMMA Facts == Order \in Seq(Daemons) /\ Order # <<>> /\ None \notin Daemons /\ Order[1] \in Daemons
<1>1. Order \in Seq(Daemons) /\ Order # <<>> /\ None \notin Daemons
  BY ViewsAssumption DEF Daemons
<1>2. Order[1] \in Daemons
  BY <1>1, EmptySeq, ElementOfSeq, LenProperties
<1>q. QED
  BY <1>1, <1>2

LEMMA FirstOf ==
  ASSUME NEW S, S \subseteq Daemons
  PROVE  (S = {} => First(S) = None) /\ (S # {} => First(S) \in S)
<1>1. CASE S = {}
  BY <1>1 DEF First
<1>2. CASE S # {}
  <2> DEFINE I == {i \in DOMAIN Order : Order[i] \in S}
  <2>1. PICK d \in S : TRUE
    BY <1>2
  <2>2. PICK i \in DOMAIN Order : Order[i] = d
    BY <2>1 DEF Daemons, ToSet
  <2>3. I # {} /\ I \subseteq Nat
    <3>1. DOMAIN Order \subseteq Nat
      BY Facts, LenProperties
    <3>q. QED
      BY <2>2, <3>1
  <2>4. FirstIn(I) \in I
    BY <2>3, FirstInIs
  <2>5. First(S) = Order[FirstIn(I)]
    BY <1>2 DEF First
  <2>q. QED
    BY <1>2, <2>4, <2>5
<1>q. QED
  BY <1>1, <1>2

LEMMA InitHolds == Init => IInv
<1> SUFFICES ASSUME Init PROVE IInv
  OBVIOUS
<1>1. LogInv
  <2>1. Order[1] \in Daemons /\ None \notin Daemons /\ <<>> \in Seq(Line)
    BY Facts, EmptySeq
  <2>2. Stands(EmptyPane) /\ EmptyPane \in LogPane(Line) /\ EmptyPane.lines = <<>>
    BY EmptyStands DEF Stands
  <2>3. EmptyPane # None
    BY <2>2, NoPane
  <2>4. LogType
    BY <2>1, <2>2 DEF Init, LogType
  <2>5. Files
    BY <2>1 DEF Init, Files, Own
  <2>6. Logs
    BY <2>2 DEF Init, Logs, Own
  <2>7. Fetching
    BY <2>1, <2>2, <2>3 DEF Init, Fetching, Recent
  <2>q. QED
    BY <2>2, <2>4, <2>5, <2>6, <2>7 DEF LogInv, Init
<1>2. Scrolled(EmptyEmulator)
  <2>1. Rows \in Nat \ {0} /\ Scrollback \in Nat /\ Word \in Nat
    BY ViewsAssumption
  <2>2. Blank \in Line
    BY <2>1 DEF Blank, Line
  <2>3. [i \in 1 .. Rows |-> Blank] \in Seq(Line) /\ Len([i \in 1 .. Rows |-> Blank]) = Rows
    BY <2>1, <2>2, IsASeq, LenProperties
  <2>q. QED
    BY <2>1, <2>3 DEF Scrolled, EmptyEmulator
<1>3. Pictures(terminal, emulator)
  <2>1. Screen(EmptyEmulator) \in Seq(Line) /\ Len(Screen(EmptyEmulator)) = Rows
    BY <1>2, ScreenIs
  <2>2. 0 <= Rows
    BY ViewsAssumption
  <2>3. EmptyEmulator.back = 0
    BY DEF EmptyEmulator
  <2>q. QED
    BY <1>2, <2>1, <2>2, <2>3 DEF Init, Pictures, Snapshot
<1>4. KeyType /\ CopiedLineMatches
  BY ViewsAssumption DEF Init, KeyType, CopiedLineMatches
<1>q. QED
  BY <1>1, <1>3, <1>4 DEF IInv

-----------------------------------------------------------------------------
\* The daemons and the refresh.

LEMMA Selected ==
  ASSUME LogInv, NEW d \in Daemons \cup {None}, Selects(d)
  PROVE  /\ daemon' = d /\ Stands(line_log')
         /\ (d # None /\ logs[d] # None) => line_log' = logs[d]
<1>1. (d # None /\ logs[d] # None) => line_log' = logs[d] /\ d \in Daemons
  BY DEF Selects
<1>2. ~ (d # None /\ logs[d] # None) => line_log' = line_log
  BY DEF Selects
<1>q. QED
  BY <1>1, <1>2 DEF LogInv, Logs, Selects

\* Another log of a daemon that exists, as its file grows, appears or is purged.
LEMMA FilesChange ==
  ASSUME LogInv, NEW d \in Daemons, NEW f, f = None \/ (f \in Seq(Line) /\ Own(f, d)),
         files' = [files EXCEPT ![d] = f], UNCHANGED logVars
  PROVE  LogInv'
<1>0. /\ listed' = listed /\ logs' = logs /\ daemon' = daemon /\ line_log' = line_log /\ todo' = todo
      /\ fresh' = fresh
  BY DEF logVars
<1>1. LogType'
  BY <1>0 DEF LogInv, LogType
<1>2. Files'
  <2> SUFFICES ASSUME NEW c \in Daemons, files'[c] # None PROVE Own(files'[c], c)
    BY DEF Files
  <2>1. CASE c = d
    BY <2>1 DEF LogInv, LogType
  <2>2. CASE c # d
    <3>1. files'[c] = files[c]
      BY <2>2 DEF LogInv, LogType
    <3>q. QED
      BY <3>1 DEF LogInv, Files
  <2>q. QED
    BY <2>1, <2>2
<1>3. Logs' /\ Fetching' /\ Stands(line_log)'
  BY <1>0 DEF LogInv, Logs, Fetching, Recent
<1>q. QED
  BY <1>1, <1>2, <1>3 DEF LogInv

LEMMA PrintedIs ==
  ASSUME LogInv, NEW d \in Alive, NEW has \in 0 .. Word, NEW f,
         f = Append(files[d], [of |-> d, at |-> Len(files[d]) + 1, has |-> has])
  PROVE  f \in Seq(Line) /\ Own(f, d)
<1> DEFINE line == [of |-> d, at |-> Len(files[d]) + 1, has |-> has]
<1>1. d \in Daemons /\ files[d] \in Seq(Line) /\ Own(files[d], d)
  BY DEF Alive, LogInv, LogType, Files
<1>2. Len(files[d]) \in Nat
  BY <1>1, LenProperties
<1>3. line \in Line
  BY <1>1, <1>2 DEF Line
<1>4. /\ f \in Seq(Line) /\ Len(f) = Len(files[d]) + 1
      /\ \A i \in 1 .. Len(files[d]) : f[i] = files[d][i]
      /\ f[Len(files[d]) + 1] = line
  BY <1>1, <1>3, AppendProperties
<1>5. DOMAIN f = 1 .. Len(files[d]) + 1 /\ DOMAIN files[d] = 1 .. Len(files[d])
  BY <1>1, <1>4, LenProperties
<1>6. line.of = d
  OBVIOUS
<1> HIDE DEF line
<1>7. ASSUME NEW i \in DOMAIN f PROVE f[i].of = d
  <2>1. i \in 1 .. Len(files[d]) \/ i = Len(files[d]) + 1
    BY <1>2, <1>5
  <2>q. QED
    BY <1>1, <1>4, <1>5, <1>6, <2>1 DEF Own
<1>q. QED
  BY <1>4, <1>7 DEF Own

LEMMA RefreshHolds ==
  ASSUME LogInv, RefreshSessions
  PROVE  LogInv'
<1> DEFINE d == IF daemon \in Alive THEN daemon ELSE First(Alive)
<1>0. /\ listed' = Alive /\ todo' = Alive /\ fresh' = (Alive = {}) /\ Selects(d)
      /\ files' = files /\ logs' = logs
  BY DEF RefreshSessions
<1>1. Alive \subseteq Daemons
  BY DEF Alive
<1>2. d \in Alive \cup {None} /\ (Alive = {} => d = None)
  BY <1>1, FirstOf
<1> HIDE DEF d
<1>3. daemon' = d /\ Stands(line_log')
  BY <1>0, <1>1, <1>2, Selected
<1>4. LogType'
  BY <1>0, <1>1, <1>2, <1>3 DEF LogInv, LogType
<1>5. Files' /\ Logs'
  BY <1>0 DEF LogInv, Files, Logs
<1>6. Fetching'
  BY <1>0 DEF Fetching, Recent
<1>q. QED
  BY <1>3, <1>4, <1>5, <1>6 DEF LogInv

LEMMA FetchHolds ==
  ASSUME LogInv, FetchLog
  PROVE  LogInv'
<1> DEFINE d == First(todo)
<1>0. todo # {} /\ todo \subseteq listed /\ listed \subseteq Daemons
      /\ files' = files /\ listed' = listed /\ daemon' = daemon /\ d \in todo
  BY FirstOf DEF FetchLog, LogInv, LogType
<1>1. d \in Daemons /\ ~ fresh
  BY <1>0 DEF LogInv, Fetching
<1>2. CASE d \in Alive
  <2> DEFINE lines == ReadSessionLog(d)
             old == IF logs[d] = None THEN EmptyPane ELSE logs[d]
             new == ReplaceLines(old, lines)
  <2>1. /\ logs' = [logs EXCEPT ![d] = new]
        /\ line_log' = (IF d = daemon THEN ReplaceLines(line_log, lines) ELSE line_log)
        /\ todo' = todo \ {d} /\ fresh' = (todo = {d})
    BY <1>2 DEF FetchLog, ReplaceDaemonOutput
  <2>2. files[d] \in Seq(Line) /\ Own(files[d], d)
    BY <1>1, <1>2 DEF Alive, LogInv, LogType, Files
  <2>3. /\ lines \in Seq(Line)
        /\ \A i \in DOMAIN lines : \E j \in DOMAIN files[d] : lines[i] = files[d][j]
    BY <2>2, LastLinesAre, ViewsAssumption DEF ReadSessionLog, ReadTailLines
  <2> HIDE DEF lines
  <2>4. Stands(old)
    BY <1>1, EmptyStands DEF LogInv, Logs
  <2> HIDE DEF old
  <2>5. Stands(new) /\ new.lines = LastLines(lines, Capacity)
    BY <2>3, <2>4, ReplacedStands
  <2>6. Own(new.lines, d)
    <3>1. \A i \in DOMAIN LastLines(lines, Capacity) :
            \E j \in DOMAIN lines : LastLines(lines, Capacity)[i] = lines[j]
      BY <2>3, LastLinesAre, CapacityAssumption
    <3>q. QED
      BY <2>2, <2>3, <2>5, <3>1 DEF Own
  <2> HIDE DEF new
  <2>7. Stands(line_log') /\ (d = daemon => line_log'.lines = new.lines)
    BY <2>1, <2>3, <2>5, ReplacedStands DEF LogInv
  <2>8. new \in LogPane(Line) /\ new # None
    BY <2>5, NoPane DEF Stands
  <2>9. \A c \in Daemons : logs'[c] = IF c = d THEN new ELSE logs[c]
    BY <2>1 DEF LogInv, LogType
  <2>10. LogType'
    BY <1>0, <2>1, <2>8 DEF LogInv, LogType
  <2>11. Files' /\ Logs'
    BY <1>0, <2>5, <2>6, <2>9 DEF LogInv, Files, Logs
  <2>12. Fetching'
    <3>1. fresh' => todo' = {}
      BY <2>1
    <3>2. ASSUME NEW c \in Daemons, Recent(c)'
          PROVE  logs'[c] # None /\ (c = daemon' => line_log'.lines = logs'[c].lines)
      <4>1. c \in listed /\ c \notin todo \ {d}
        BY <1>0, <2>1, <3>2 DEF Recent
      <4>2. CASE c = d
        BY <1>0, <2>7, <2>8, <2>9, <4>2
      <4>3. CASE c # d
        <5>1. Recent(c)
          BY <1>0, <4>1, <4>3 DEF Recent
        <5>2. logs[c] # None /\ (c = daemon => line_log.lines = logs[c].lines)
          BY <5>1 DEF LogInv, Fetching
        <5>3. logs'[c] = logs[c] /\ (c = daemon => line_log' = line_log)
          BY <2>1, <2>9, <4>3
        <5>q. QED
          BY <1>0, <5>2, <5>3
      <4>q. QED
        BY <4>2, <4>3
    <3>q. QED
      BY <3>1, <3>2 DEF Fetching
  <2>q. QED
    BY <2>7, <2>10, <2>11, <2>12 DEF LogInv
<1>3. CASE d \notin Alive
  <2>1. todo' = {} /\ logs' = logs /\ line_log' = line_log /\ fresh' = fresh
    BY <1>3 DEF FetchLog
  <2>2. LogType' /\ Files' /\ Logs' /\ Stands(line_log)'
    BY <1>0, <2>1 DEF LogInv, LogType, Files, Logs
  <2>3. Fetching'
    BY <1>1, <2>1 DEF Fetching, Recent
  <2>q. QED
    BY <2>2, <2>3 DEF LogInv
<1>q. QED
  BY <1>2, <1>3

\* The log of a listed daemon is chosen.
LEMMA ChosenHolds ==
  ASSUME LogInv, NEW d \in listed, Selects(d), UNCHANGED <<files, listed, logs, todo, fresh>>
  PROVE  LogInv'
<1>0. d \in Daemons /\ None \notin Daemons
  BY Facts DEF LogInv, LogType
<1>1. daemon' = d /\ Stands(line_log') /\ (logs[d] # None => line_log' = logs[d])
  BY <1>0, Selected
<1>2. LogType' /\ Files' /\ Logs'
  BY <1>1 DEF LogInv, LogType, Files, Logs
<1>3. Fetching'
  BY <1>1 DEF LogInv, Fetching, Recent
<1>q. QED
  BY <1>1, <1>2, <1>3 DEF LogInv

\* A key in the log moves the shown copy and the fetched one, and changes no line.
LEMMA LogKeyHolds ==
  ASSUME LogInv, NEW shown, Stands(shown), shown.lines = line_log.lines,
         NEW fetched, Stands(fetched), fetched.lines = Fetched.lines, LogKey(shown, fetched),
         UNCHANGED <<files, listed, daemon, todo, fresh>>
  PROVE  LogInv'
<1>0. line_log' = shown
  BY DEF LogKey
<1>1. CASE HasFetched
  <2>1. logs' = [logs EXCEPT ![daemon] = fetched] /\ fetched.lines = logs[daemon].lines
        /\ daemon \in Daemons /\ logs[daemon] # None
    BY <1>1 DEF LogKey, Fetched, HasFetched, LogInv, LogType
  <2>2. fetched \in LogPane(Line) /\ fetched # None
    BY NoPane DEF Stands
  <2>3. \A c \in Daemons : logs'[c] = IF c = daemon THEN fetched ELSE logs[c]
    BY <2>1 DEF LogInv, LogType
  <2>4. LogType' /\ Files'
    BY <2>1, <2>2 DEF LogInv, LogType, Files
  <2>5. Logs'
    BY <2>1, <2>3 DEF LogInv, Logs
  <2>6. Fetching'
    BY <1>0, <2>1, <2>2, <2>3 DEF LogInv, Fetching, Recent
  <2>q. QED
    BY <1>0, <2>4, <2>5, <2>6 DEF LogInv
<1>2. CASE ~ HasFetched
  <2>1. logs' = logs
    BY <1>2 DEF LogKey
  <2>2. LogType' /\ Files' /\ Logs'
    BY <2>1 DEF LogInv, LogType, Files, Logs
  <2>3. Fetching'
    BY <1>0, <2>1 DEF LogInv, Fetching, Recent
  <2>q. QED
    BY <1>0, <2>2, <2>3 DEF LogInv
<1>q. QED
  BY <1>1, <1>2

LEMMA FetchedStands == LogInv => Stands(Fetched) /\ Stands(line_log)
<1> SUFFICES ASSUME LogInv PROVE Stands(Fetched) /\ Stands(line_log)
  OBVIOUS
<1>1. CASE HasFetched
  BY <1>1 DEF HasFetched, Fetched, LogInv, LogType, Logs
<1>2. CASE ~ HasFetched
  BY <1>2, EmptyStands DEF Fetched, LogInv
<1>q. QED
  BY <1>1, <1>2

-----------------------------------------------------------------------------
\* One step per action.

LEMMA PressesKeeps ==
  ASSUME KeyType, Presses
  PROVE  /\ files' = files /\ listed' = listed /\ todo' = todo /\ fresh' = fresh /\ todo = {}
         /\ count' \in [{"output", "changes", "keys"} -> Nat]
  BY ViewsAssumption DEF Presses, Counts, KeyType

LEMMA AgentStill ==
  ASSUME Pictures(terminal, emulator), AgentStays
  PROVE  Pictures(terminal, emulator)'
  BY DEF AgentStays

LEMMA LogStill ==
  ASSUME LogInv, UNCHANGED <<files, listed, logs, daemon, line_log, todo, fresh>>
  PROVE  LogInv'
  BY DEF LogInv, LogType, Files, Logs, Fetching, Recent

LEMMA AgentKeyHolds ==
  ASSUME Pictures(terminal, emulator), NEW e, Scrolled(e), AgentKey(e)
  PROVE  Pictures(terminal, emulator)'
<1>1. emulator' = e /\ terminal' = UpdateView(terminal, e)
  BY DEF AgentKey
<1>2. Pictures(UpdateView(terminal, e), e)
  BY UpdatedPictures DEF Pictures
<1>q. QED
  BY <1>1, <1>2

\* The terminal's search leaves the picture, wherever the emulator went to.
LEMMA SearchAgentHolds ==
  ASSUME Pictures(terminal, emulator), NEW query \in Nat, NEW direction \in {"first", "next", "previous"},
         NEW t \in {SearchLines(terminal, query), NextMatch(terminal), PreviousMatch(terminal)},
         SearchAgent(t, query, direction)
  PROVE  Pictures(terminal, emulator)'
<1> DEFINE e == SearchScrollback(emulator, query, direction)
<1>1. /\ emulator' = IF e = None THEN emulator ELSE e
      /\ terminal' = IF e = None THEN t ELSE SearchLines(UpdateView(t, e), query)
  BY DEF SearchAgent
<1>2. e = None \/ Scrolled(e)
  BY SearchScrollbackIs DEF Pictures
<1> HIDE DEF e
<1>3. Snapshot(t) /\ t.lines = terminal.lines /\ t.follow = terminal.follow
  BY SearchedSnapshot DEF Pictures
<1>4. CASE e = None
  BY <1>1, <1>3, <1>4 DEF Pictures
<1>5. CASE e # None
  <2> DEFINE u == UpdateView(t, e)
             v == SearchLines(u, query)
  <2>1. Pictures(u, e)
    BY <1>2, <1>3, <1>5, UpdatedPictures
  <2> HIDE DEF u
  <2>2. Snapshot(v) /\ v.lines = u.lines /\ v.follow = u.follow
    BY <2>1, SearchedSnapshot DEF Pictures
  <2>3. Pictures(v, e)
    BY <2>1, <2>2 DEF Pictures
  <2>4. emulator' = e /\ terminal' = v
    BY <1>1, <1>5 DEF u
  <2> HIDE DEF v
  <2>q. QED
    BY <2>3, <2>4
<1>q. QED
  BY <1>4, <1>5

LEMMA AgentPrintsHolds ==
  ASSUME IInv, NEW has \in 0 .. Word, AgentPrints(has)
  PROVE  IInv'
<1> DEFINE line == [of |-> "agent", at |-> 0, has |-> has]
<1>1. line \in Line
  BY DEF Line
<1>2. emulator' = Prints(emulator, line) /\ terminal' = UpdateView(terminal, emulator')
  BY DEF AgentPrints
<1> HIDE DEF line
<1>3. Scrolled(emulator')
  BY <1>1, <1>2, PrintsIs DEF IInv, Pictures
<1>4. Pictures(UpdateView(terminal, emulator'), emulator')
  BY <1>3, UpdatedPictures DEF IInv, Pictures
<1>5. Pictures(terminal, emulator)'
  BY <1>2, <1>4
<1>6. LogInv'
  BY LogStill DEF IInv, AgentPrints, logVars
<1>7. KeyType' /\ CopiedLineMatches'
  BY ViewsAssumption DEF IInv, KeyType, AgentPrints, Counts, CopiedLineMatches
<1>q. QED
  BY <1>5, <1>6, <1>7 DEF IInv

LEMMA DaemonHolds ==
  ASSUME IInv, NEW d \in Daemons,
         DaemonAppears(d) \/ DaemonIsPurged(d) \/ \E has \in 0 .. Word : DaemonPrints(d, has)
  PROVE  IInv'
<1>1. LogInv'
  <2>1. CASE DaemonAppears(d)
    <3>1. <<>> \in Seq(Line) /\ Own(<<>>, d)
      BY EmptySeq DEF Own
    <3>2. files' = [files EXCEPT ![d] = <<>>] /\ UNCHANGED logVars
      BY <2>1 DEF DaemonAppears
    <3>q. QED
      BY <3>1, <3>2, FilesChange DEF IInv
  <2>2. CASE DaemonIsPurged(d)
    <3>1. files' = [files EXCEPT ![d] = None] /\ UNCHANGED logVars
      BY <2>2 DEF DaemonIsPurged
    <3>q. QED
      BY <3>1, FilesChange DEF IInv
  <2>3. ASSUME NEW has \in 0 .. Word, DaemonPrints(d, has) PROVE LogInv'
    <3> DEFINE f == Append(files[d], [of |-> d, at |-> Len(files[d]) + 1, has |-> has])
    <3>1. files' = [files EXCEPT ![d] = f] /\ UNCHANGED logVars /\ d \in Alive
      BY <2>3 DEF DaemonPrints
    <3>2. f \in Seq(Line) /\ Own(f, d)
      BY <3>1, PrintedIs DEF IInv
    <3> HIDE DEF f
    <3>q. QED
      BY <3>1, <3>2, FilesChange DEF IInv
  <2>q. QED
    BY <2>1, <2>2, <2>3
<1>2. Pictures(terminal, emulator)'
  BY DEF IInv, DaemonAppears, DaemonIsPurged, DaemonPrints, Shown
<1>3. KeyType' /\ CopiedLineMatches'
  <2>1. \E what \in {"output", "changes"} : count' = [count EXCEPT ![what] = count[what] + 1]
    BY DEF DaemonAppears, DaemonIsPurged, DaemonPrints, Counts
  <2>2. count' \in [{"output", "changes", "keys"} -> Nat]
    BY <2>1 DEF IInv, KeyType
  <2>3. focus' = focus /\ mode' = mode /\ copied' = copied
    BY DEF DaemonAppears, DaemonIsPurged, DaemonPrints, Shown
  <2>q. QED
    BY <2>2, <2>3 DEF IInv, KeyType, CopiedLineMatches
<1>q. QED
  BY <1>1, <1>2, <1>3 DEF IInv

LEMMA RefreshingHolds ==
  ASSUME IInv, RefreshSessions \/ FetchLog
  PROVE  IInv'
<1>1. LogInv'
  BY RefreshHolds, FetchHolds DEF IInv
<1>2. /\ emulator' = emulator /\ terminal' = terminal /\ mode' = mode /\ copied' = copied /\ count' = count
      /\ focus' \in {"agent", focus}
  BY DEF RefreshSessions, FetchLog
<1>3. Pictures(terminal, emulator)'
  BY <1>2 DEF IInv
<1>4. KeyType' /\ CopiedLineMatches'
  BY <1>2 DEF IInv, KeyType, CopiedLineMatches
<1>q. QED
  BY <1>1, <1>3, <1>4 DEF IInv

LEMMA ScrollKeyHolds ==
  ASSUME IInv, NEW key \in ScrollKeys, ScrollKey(key)
  PROVE  IInv'
<1>0. /\ files' = files /\ listed' = listed /\ todo' = todo /\ fresh' = fresh
      /\ count' \in [{"output", "changes", "keys"} -> Nat] /\ Rows \in Nat
      /\ daemon' = daemon /\ focus' = focus /\ mode' = mode /\ copied' = copied
  BY PressesKeeps, ViewsAssumption DEF IInv, ScrollKey
<1>1. KeyType' /\ CopiedLineMatches'
  BY <1>0 DEF IInv, KeyType, CopiedLineMatches
<1>2. CASE focus = "agent"
  <2> DEFINE n == CASE key = "ScrollUp" -> emulator.back + 1    [] key = "ScrollDown" -> Minus(emulator.back, 1)
                    [] key = "PageUp"   -> emulator.back + Rows [] key = "PageDown" -> Minus(emulator.back, Rows)
                    [] key = "JumpTop"  -> Above(emulator)
  <2>1. emulator.back \in Nat /\ Above(emulator) \in Nat
    BY ScrolledIs DEF IInv, Pictures
  <2>2. Minus(emulator.back, 1) \in Nat /\ Minus(emulator.back, Rows) \in Nat
    BY <1>0, <2>1, MinusIs
  <2>3. n \in Nat
    BY <1>0, <2>1, <2>2 DEF ScrollKeys
  <2>4. ScrollsEmulator(emulator, key) = SetScrollback(emulator, n)
    BY DEF ScrollsEmulator
  <2> HIDE DEF n
  <2>5. Scrolled(ScrollsEmulator(emulator, key))
    BY <2>3, <2>4, SetScrollbackIs DEF IInv, Pictures
  <2>6. AgentKey(ScrollsEmulator(emulator, key))
    BY <1>2 DEF ScrollKey
  <2>7. Pictures(terminal, emulator)'
    BY <2>5, <2>6, AgentKeyHolds DEF IInv
  <2>8. LogInv'
    BY <1>0, <2>6, LogStill DEF IInv, AgentKey, LogStays
  <2>q. QED
    BY <1>1, <2>7, <2>8 DEF IInv
<1>3. CASE focus # "agent"
  <2>1. ASSUME NEW p, Stands(p) PROVE Stands(Scrolls(p, key)) /\ Scrolls(p, key).lines = p.lines
    <3>1. \/ Scrolls(p, key) = ScrollUp(p, Rows, 1) \/ Scrolls(p, key) = ScrollDown(p, 1)
          \/ Scrolls(p, key) = ScrollUp(p, Rows, Rows) \/ Scrolls(p, key) = ScrollDown(p, Rows)
          \/ Scrolls(p, key) = JumpTop(p, Rows)
      BY DEF ScrollKeys, Scrolls
    <3>2. \A n \in Nat : \A q \in {JumpBottom(p), JumpTop(p, Rows), ScrollUp(p, Rows, n), ScrollDown(p, n)} :
            Stands(q) /\ q.lines = p.lines
      BY <1>0, <2>1, ScrolledStands
    <3>3. \E n \in Nat :
            Scrolls(p, key) \in {JumpBottom(p), JumpTop(p, Rows), ScrollUp(p, Rows, n), ScrollDown(p, n)}
      BY <1>0, <3>1
    <3>q. QED
      BY <3>2, <3>3
  <2>2. LogKey(Scrolls(line_log, key), Scrolls(Fetched, key))
    BY <1>3 DEF ScrollKey
  <2>3. Stands(Fetched) /\ Stands(line_log)
    BY FetchedStands DEF IInv
  <2>4. LogInv'
    BY <1>0, <2>1, <2>2, <2>3, LogKeyHolds DEF IInv
  <2>5. Pictures(terminal, emulator)'
    BY <2>2, AgentStill DEF IInv, LogKey
  <2>q. QED
    BY <1>1, <2>4, <2>5 DEF IInv
<1>q. QED
  BY <1>2, <1>3

\* Keys that only change the mode.
LEMMA ModeHolds ==
  ASSUME IInv, EnterScrollMode \/ BeginSearch \/ EndSearch
  PROVE  IInv'
<1>0. /\ files' = files /\ listed' = listed /\ todo' = todo /\ fresh' = fresh
      /\ count' \in [{"output", "changes", "keys"} -> Nat] /\ AgentStays /\ LogStays
      /\ daemon' = daemon /\ focus' = focus /\ copied' = copied
  BY PressesKeeps DEF IInv, EnterScrollMode, BeginSearch, EndSearch
<1>1. mode' \in [scroll : BOOLEAN, search : BOOLEAN, query : 0 .. Word]
  <2>1. 0 \in 0 .. Word /\ mode \in [scroll : BOOLEAN, search : BOOLEAN, query : 0 .. Word]
    BY ViewsAssumption DEF IInv, KeyType
  <2>2. \/ mode' = [mode EXCEPT !.scroll = TRUE] \/ mode' = [mode EXCEPT !.search = FALSE]
        \/ mode' = [scroll |-> TRUE, search |-> TRUE, query |-> 0]
    BY DEF EnterScrollMode, BeginSearch, EndSearch
  <2>3. /\ [mode EXCEPT !.scroll = TRUE] \in [scroll : BOOLEAN, search : BOOLEAN, query : 0 .. Word]
        /\ [mode EXCEPT !.search = FALSE] \in [scroll : BOOLEAN, search : BOOLEAN, query : 0 .. Word]
    BY <2>1
  <2>4. [scroll |-> TRUE, search |-> TRUE, query |-> 0] \in [scroll : BOOLEAN, search : BOOLEAN, query : 0 .. Word]
    BY <2>1
  <2>q. QED
    BY <2>2, <2>3, <2>4, Zenon
<1>2. KeyType' /\ CopiedLineMatches'
  BY <1>0, <1>1 DEF IInv, KeyType, CopiedLineMatches
<1>3. LogInv'
  BY <1>0, LogStill DEF IInv, LogStays
<1>4. Pictures(terminal, emulator)'
  BY <1>0, AgentStill DEF IInv
<1>q. QED
  BY <1>2, <1>3, <1>4 DEF IInv

LEMMA ExitHolds ==
  ASSUME IInv, ExitScrollMode
  PROVE  IInv'
<1>0. /\ files' = files /\ listed' = listed /\ todo' = todo /\ fresh' = fresh
      /\ count' \in [{"output", "changes", "keys"} -> Nat]
      /\ daemon' = daemon /\ focus' = focus /\ copied' = copied
      /\ mode' = [scroll |-> FALSE, search |-> FALSE, query |-> 0]
  BY PressesKeeps DEF IInv, ExitScrollMode
<1>1. KeyType' /\ CopiedLineMatches'
  BY <1>0, ViewsAssumption DEF IInv, KeyType, CopiedLineMatches
<1>2. CASE focus = "agent"
  <2>1. Scrolled(SetScrollback(emulator, 0)) /\ AgentKey(SetScrollback(emulator, 0))
    BY <1>2, SetScrollbackIs DEF IInv, Pictures, ExitScrollMode, FollowsAgent
  <2>2. Pictures(terminal, emulator)'
    BY <2>1, AgentKeyHolds DEF IInv
  <2>3. LogInv'
    BY <1>0, <2>1, LogStill DEF IInv, AgentKey, LogStays
  <2>q. QED
    BY <1>1, <2>2, <2>3 DEF IInv
<1>3. CASE focus # "agent"
  <2>1. LogKey(JumpBottom(line_log), JumpBottom(Fetched))
    BY <1>3 DEF ExitScrollMode
  <2>2. ASSUME NEW p, Stands(p) PROVE Stands(JumpBottom(p)) /\ JumpBottom(p).lines = p.lines
    BY <2>2, AtStands DEF JumpBottom
  <2>3. Stands(Fetched) /\ Stands(line_log)
    BY FetchedStands DEF IInv
  <2>4. LogInv'
    BY <1>0, <2>1, <2>2, <2>3, LogKeyHolds DEF IInv
  <2>5. Pictures(terminal, emulator)'
    BY <2>1, AgentStill DEF IInv, LogKey
  <2>q. QED
    BY <1>1, <2>4, <2>5 DEF IInv
<1>q. QED
  BY <1>2, <1>3

LEMMA SearchInputHolds ==
  ASSUME IInv, NEW query \in 0 .. Word, SearchInput(query)
  PROVE  IInv'
<1>0. /\ files' = files /\ listed' = listed /\ todo' = todo /\ fresh' = fresh
      /\ count' \in [{"output", "changes", "keys"} -> Nat]
      /\ daemon' = daemon /\ focus' = focus /\ copied' = copied
      /\ mode' = [mode EXCEPT !.query = query] /\ Searches(query) /\ query \in Nat
  BY PressesKeeps, ViewsAssumption DEF IInv, SearchInput
<1>1. KeyType' /\ CopiedLineMatches'
  BY <1>0 DEF IInv, KeyType, CopiedLineMatches
<1>2. CASE query = 0
  <2>1. AgentStays /\ LogStays
    BY <1>0, <1>2 DEF Searches
  <2>q. QED
    BY <1>0, <1>1, <2>1, LogStill, AgentStill DEF IInv, LogStays
<1>3. CASE query # 0 /\ focus = "agent"
  <2>1. SearchAgent(SearchLines(terminal, query), query, "first")
    BY <1>0, <1>3 DEF Searches
  <2>2. Pictures(terminal, emulator)'
    BY <1>0, <2>1, SearchAgentHolds DEF IInv
  <2>3. LogInv'
    BY <1>0, <2>1, LogStill DEF IInv, SearchAgent, LogStays
  <2>q. QED
    BY <1>1, <2>2, <2>3 DEF IInv
<1>4. CASE query # 0 /\ focus # "agent"
  <2>1. LogKey(SearchLines(line_log, query), SearchLines(Fetched, query))
    BY <1>0, <1>4 DEF Searches
  <2>2. ASSUME NEW p, Stands(p) PROVE Stands(SearchLines(p, query)) /\ SearchLines(p, query).lines = p.lines
    BY <1>0, <2>2, SearchedStands
  <2>3. Stands(Fetched) /\ Stands(line_log)
    BY FetchedStands DEF IInv
  <2>4. LogInv'
    BY <1>0, <2>1, <2>2, <2>3, LogKeyHolds DEF IInv
  <2>5. Pictures(terminal, emulator)'
    BY <2>1, AgentStill DEF IInv, LogKey
  <2>q. QED
    BY <1>1, <2>4, <2>5 DEF IInv
<1>q. QED
  BY <1>2, <1>3, <1>4

LEMMA StepSearchHolds ==
  ASSUME IInv, NEW direction \in {"next", "previous"}, StepSearch(direction)
  PROVE  IInv'
<1>0. /\ files' = files /\ listed' = listed /\ todo' = todo /\ fresh' = fresh
      /\ count' \in [{"output", "changes", "keys"} -> Nat]
      /\ daemon' = daemon /\ focus' = focus /\ copied' = copied /\ mode' = mode
      /\ mode.query \in Nat /\ focus \in {"agent", "log"}
  BY PressesKeeps, ViewsAssumption DEF IInv, KeyType, StepSearch
<1>1. KeyType' /\ CopiedLineMatches'
  BY <1>0 DEF IInv, KeyType, CopiedLineMatches
<1>2. CASE focus = "log"
  <2>1. LogKey(NextOrPrevious(line_log, direction), NextOrPrevious(Fetched, direction))
    BY <1>2 DEF StepSearch
  <2>2. ASSUME NEW p, Stands(p)
        PROVE  Stands(NextOrPrevious(p, direction)) /\ NextOrPrevious(p, direction).lines = p.lines
    BY <2>2, SearchedStands DEF NextOrPrevious
  <2>3. Stands(Fetched) /\ Stands(line_log)
    BY FetchedStands DEF IInv
  <2>4. LogInv'
    BY <1>0, <2>1, <2>2, <2>3, LogKeyHolds DEF IInv
  <2>5. Pictures(terminal, emulator)'
    BY <2>1, AgentStill DEF IInv, LogKey
  <2>q. QED
    BY <1>1, <2>4, <2>5 DEF IInv
<1>t. NextOrPrevious(terminal, direction) \in {NextMatch(terminal), PreviousMatch(terminal)}
  BY DEF NextOrPrevious
<1>3. CASE focus = "agent" /\ mode.query = 0
  <2>1. terminal' = NextOrPrevious(terminal, direction) /\ UNCHANGED emulator /\ LogStays
    BY <1>3 DEF StepSearch
  <2>2. Snapshot(terminal') /\ terminal'.lines = terminal.lines /\ terminal'.follow = terminal.follow
    BY <1>0, <1>t, <2>1, SearchedSnapshot DEF IInv, Pictures
  <2>3. Pictures(terminal, emulator)'
    BY <2>1, <2>2 DEF IInv, Pictures
  <2>4. LogInv'
    BY <1>0, <2>1, LogStill DEF IInv, LogStays
  <2>q. QED
    BY <1>1, <2>3, <2>4 DEF IInv
<1>4. CASE focus = "agent" /\ mode.query # 0
  <2>1. SearchAgent(NextOrPrevious(terminal, direction), mode.query, direction)
    BY <1>4 DEF StepSearch
  <2>2. Pictures(terminal, emulator)'
    BY <1>0, <1>t, <2>1, SearchAgentHolds DEF IInv
  <2>3. LogInv'
    BY <1>0, <2>1, LogStill DEF IInv, SearchAgent, LogStays
  <2>q. QED
    BY <1>1, <2>2, <2>3 DEF IInv
<1>q. QED
  BY <1>0, <1>2, <1>3, <1>4

\* What is copied from a log is the line that matched.
LEMMA CopyHolds ==
  ASSUME IInv, CopySearchMatch
  PROVE  IInv'
<1> DEFINE p == IF focus = "agent" THEN terminal ELSE line_log
<1>0. /\ files' = files /\ listed' = listed /\ todo' = todo /\ fresh' = fresh
      /\ count' \in [{"output", "changes", "keys"} -> Nat] /\ AgentStays /\ LogStays
      /\ daemon' = daemon /\ focus' = focus /\ mode' = [mode EXCEPT !.search = FALSE]
      /\ p.match # 0 /\ copied' = [from |-> focus, line |-> MatchedLine(p), query |-> p.query]
  BY PressesKeeps DEF IInv, CopySearchMatch
<1>1. p.lines \in Seq(Line) /\ p.query \in Nat
  BY PaneFields DEF IInv, LogInv, Stands, Pictures, Snapshot
<1>2. MatchedLine(p) \in Line
  <2>1. Blank \in Line
    BY ViewsAssumption DEF Blank, Line
  <2>2. p.match \in DOMAIN p.lines => p.lines[p.match] \in Line
    BY <1>1, ElementOfSeq, LenProperties
  <2> HIDE DEF p
  <2>q. QED
    BY <2>1, <2>2 DEF MatchedLine
<1>3. focus = "log" => MatchedLine(p).has >= p.query
  BY <1>0 DEF IInv, LogInv, Stands, Matched, MatchedLine
<1> HIDE DEF p
<1>4. KeyType'
  BY <1>0, <1>1, <1>2 DEF IInv, KeyType
<1>5. CopiedLineMatches'
  BY <1>0, <1>3 DEF CopiedLineMatches
<1>6. LogInv'
  BY <1>0, LogStill DEF IInv, LogStays
<1>7. Pictures(terminal, emulator)'
  BY <1>0, AgentStill DEF IInv
<1>q. QED
  BY <1>4, <1>5, <1>6, <1>7 DEF IInv

LEMMA SwitchHolds ==
  ASSUME IInv, SwitchFocus \/ \E d \in Daemons : ChooseDaemon(d)
  PROVE  IInv'
<1>0. /\ files' = files /\ listed' = listed /\ todo' = todo /\ fresh' = fresh
      /\ count' \in [{"output", "changes", "keys"} -> Nat] /\ AgentStays
      /\ logs' = logs /\ mode' = mode /\ copied' = copied /\ focus' \in {"agent", "log"}
  BY PressesKeeps DEF IInv, SwitchFocus, ChooseDaemon
<1>1. KeyType' /\ CopiedLineMatches'
  BY <1>0 DEF IInv, KeyType, CopiedLineMatches
<1>2. Pictures(terminal, emulator)'
  BY <1>0, AgentStill DEF IInv
<1>3. LogInv'
  <2>1. ASSUME NEW d \in listed, Selects(d) PROVE LogInv'
    BY <1>0, <2>1, ChosenHolds DEF IInv
  <2>2. CASE daemon' = daemon /\ line_log' = line_log
    BY <1>0, <2>2, LogStill DEF IInv
  <2>3. SwitchFocus => daemon \in listed
    BY DEF SwitchFocus, IInv, LogInv, LogType
  <2>q. QED
    BY <2>1, <2>2, <2>3 DEF SwitchFocus, ChooseDaemon
<1>q. QED
  BY <1>1, <1>2, <1>3 DEF IInv

LEMMA StepHolds == IInv /\ [Next]_vars => IInv'
<1> SUFFICES ASSUME IInv, [Next]_vars PROVE IInv'
  OBVIOUS
<1>1. CASE UNCHANGED vars
  <2>1. LogInv'
    BY <1>1, LogStill DEF IInv, vars, logVars
  <2>2. Pictures(terminal, emulator)' /\ KeyType' /\ CopiedLineMatches'
    BY <1>1 DEF IInv, vars, KeyType, CopiedLineMatches
  <2>q. QED
    BY <2>1, <2>2 DEF IInv
<1>2. CASE Next
  BY <1>2, AgentPrintsHolds, DaemonHolds, RefreshingHolds, ScrollKeyHolds, ModeHolds, ExitHolds,
     SearchInputHolds, StepSearchHolds, CopyHolds, SwitchHolds DEF Next
<1>q. QED
  BY <1>1, <1>2

LEMMA Invariant == Spec => []IInv
  BY InitHolds, StepHolds, PTL DEF Spec

-----------------------------------------------------------------------------
\* The logs, the views, the emulator and its snapshot keep their types; a snapshot has as many
\* lines as the screen, a match is among the lines (pane.rs, terminal.rs).
THEOREM TypeCorrect == Spec => []TypeOK
  BY Invariant, Typed, PTL

\* What is shown is what it is called: once a refresh went through, the lines under the name of
\* the selected daemon are that daemon's as last fetched, a followed log shows its last line, and
\* the terminal is called live exactly when the emulator is at its end (app.rs select_daemon,
\* replace_daemon_output; cockpit.rs refresh_logs).
THEOREM ViewsLabelled == Spec => []ShownAsLabelled
<1>1. IInv => ShownAsLabelled
  <2> SUFFICES ASSUME IInv PROVE ShownAsLabelled
    OBVIOUS
  <2>1. ASSUME fresh, daemon # None
        PROVE  /\ \A i \in DOMAIN line_log.lines : line_log.lines[i].of = daemon
               /\ line_log.lines = logs[daemon].lines
    <3>1. daemon \in listed /\ daemon \in Daemons /\ Recent(daemon)
      BY <2>1 DEF IInv, LogInv, LogType, Recent
    <3>2. logs[daemon] # None /\ line_log.lines = logs[daemon].lines
      BY <3>1 DEF IInv, LogInv, Fetching
    <3>q. QED
      BY <3>1, <3>2 DEF IInv, LogInv, Logs, Own
  <2>2. (line_log.follow /\ line_log.lines # <<>>) =>
          LastLines(VisibleLines(line_log, Rows), 1) = LastLines(line_log.lines, 1)
    BY FollowedShowsEnd DEF IInv, LogInv
  <2>q. QED
    BY <2>1, <2>2 DEF IInv, Pictures, ShownAsLabelled
<1>q. QED
  BY <1>1, Invariant, PTL

\* A line copied from a log contains what was searched for: a refresh that replaces the lines
\* gives up the match, whose place may be another line's (pane.rs:420-434, app.rs:670-690).
THEOREM CopiesMatch == Spec => []CopiedLineMatches
<1>1. IInv => CopiedLineMatches
  BY DEF IInv
<1>q. QED
  BY <1>1, Invariant, PTL
=============================================================================
