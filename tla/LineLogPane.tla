----------------------------- MODULE LineLogPane -----------------------------
(***************************************************************************)
(* A scrollable view of lines, as the terminal interfaces keep one for the *)
(* log of each daemon: the lines, how far the view is from their end, and  *)
(* the match of a search by its place among the lines.                     *)
(*                                                                         *)
(* Of a line's text, `has` says how much of the searched word it contains; *)
(* a query is the first `query` letters of that word.                      *)
(***************************************************************************)
EXTENDS Naturals, SequencesExt

CONSTANT Capacity   \* lines a view keeps

ASSUME CapacityAssumption == Capacity \in Nat \ {0}

FirstIn(I) == IF I = {} THEN 0 ELSE Min(I)
Minus(m, n) == IF m < n THEN 0 ELSE m - n
LastLines(s, n) == SubSeq(s, Minus(Len(s), n) + 1, Len(s))

\* Without an active search match is 0.
LogPane(Line) ==
  [lines : Seq(Line), offset : Nat, follow : BOOLEAN, match : Nat, query : Nat]
EmptyPane == [lines |-> <<>>, offset |-> 0, follow |-> TRUE, match |-> 0, query |-> 0]

MaxOffset(p, height) == Minus(Len(p.lines), height)
At(p, offset) == [p EXCEPT !.offset = offset, !.follow = (offset = 0)]

JumpBottom(p) == At(p, 0)
JumpTop(p, height) == At(p, MaxOffset(p, height))
ScrollUp(p, height, n) == At(p, Min({p.offset + n, MaxOffset(p, height)}))
ScrollDown(p, n) == At(p, Minus(p.offset, n))

\* What height rows of the view show.
VisibleLines(p, height) ==
  LET offset == Min({p.offset, MaxOffset(p, height)})
      start == Minus(Len(p.lines), height + offset)
  IN SubSeq(p.lines, start + 1, Min({start + height, Len(p.lines)}))

\* Mutant: the match of the replaced lines is kept.
ReplaceLinesOnly(p, lines) ==
  LET q == [p EXCEPT !.lines = LastLines(lines, Capacity)] IN
  IF p.follow THEN JumpBottom(q) ELSE At(q, Min({p.offset, MaxOffset(q, 1)}))
\* New lines: a view that follows goes on to follow, another keeps its distance from the end.
ReplaceLines(p, lines) ==
  LET q == [p EXCEPT !.lines = LastLines(lines, Capacity), !.match = 0, !.query = 0] IN
  IF p.follow THEN JumpBottom(q) ELSE At(q, Min({p.offset, MaxOffset(q, 1)}))

\* The searches take a view with any kind of lines, so the terminal's as well.
Found(p, i, query) == [p EXCEPT !.match = i, !.query = IF i = 0 THEN 0 ELSE query]
SearchLines(p, query) == Found(p, FirstIn({i \in DOMAIN p.lines : p.lines[i].has >= query}), query)

\* The first match after, or before, the current one, around the ends.
Turn(p, step) == [k \in 1 .. Len(p.lines) |->
  ((p.match - 1 + (IF step > 0 THEN k ELSE Len(p.lines) - k)) % Len(p.lines)) + 1]
Turned(p, turn) ==
  LET k == FirstIn({i \in DOMAIN turn : p.lines[turn[i]].has >= p.query}) IN
  IF p.match = 0 \/ k = 0 THEN p ELSE [p EXCEPT !.match = turn[k]]
NextMatch(p) == Turned(p, Turn(p, 1))
PreviousMatch(p) == Turned(p, Turn(p, 0))
=============================================================================
