---------------------------- MODULE CockpitProofs ----------------------------
(***************************************************************************)
(* The focus, the names, the owner of the input and the keys of the two    *)
(* interfaces, for every set of sessions and keys and every bound.  The    *)
(* proof goes operator by operator: what each operator of AppModel makes   *)
(* of a model that is in order (Fine), and what it leaves alone (Kept);    *)
(* the invariant of the loops follows from that.                           *)
(***************************************************************************)
EXTENDS Cockpit, WellFoundedInduction, TLAPS

-----------------------------------------------------------------------------
\* The smallest and the greatest of some positions.

LEMMA Smallest ==
  ASSUME NEW S, S \subseteq Nat, S # {}
  PROVE  Min(S) \in S /\ \A k \in S : Min(S) <= k
<1> DEFINE R == {p \in Nat \X Nat : p[1] < p[2]}
<1>0. R = OpToRel(<, Nat)
  BY DEF OpToRel
<1>1. IsWellFoundedOn(R, Nat)
  BY <1>0, NatLessThanWellFounded
<1>2. \E x \in S : \A y \in S : <<y, x>> \notin R
  BY <1>1, WFMin
<1>3. ASSUME NEW x \in Nat, NEW y \in Nat, <<y, x>> \notin R PROVE x <= y
  <2>1. <<y, x>> \in Nat \X Nat /\ <<y, x>>[1] = y /\ <<y, x>>[2] = x
    OBVIOUS
  <2>2. ~ (y < x)
    BY <1>3, <2>1
  <2>q. QED
    BY <2>2
<1> HIDE DEF R
<1>4. \E x \in S : \A y \in S : x <= y
  BY <1>2, <1>3
<1>q. QED
  BY <1>4 DEF Min

LEMMA Greatest ==
  ASSUME NEW n \in Nat, NEW S, S \subseteq 1 .. n, S # {}
  PROVE  Max(S) \in S
<1> DEFINE T == {n - k : k \in S}
<1>1. T \subseteq Nat /\ T # {}
  <2>1. ASSUME NEW k \in S PROVE n - k \in Nat
    <3>1. k \in 1 .. n
      OBVIOUS
    <3>q. QED
      BY <3>1
  <2>2. T \subseteq Nat
    BY <2>1
  <2>3. PICK k \in S : TRUE
    OBVIOUS
  <2>4. n - k \in T
    OBVIOUS
  <2>q. QED
    BY <2>2, <2>4
<1>2. Min(T) \in T /\ \A t \in T : Min(T) <= t
  <2> HIDE DEF T
  <2>q. QED
    BY <1>1, Smallest
<1>3. PICK x \in S : Min(T) = n - x
  BY <1>2
<1>4. ASSUME NEW y \in S PROVE x >= y
  <2>1. n - y \in T
    OBVIOUS
  <2>2. Min(T) <= n - y
    BY <1>2, <2>1
  <2>3. n - x <= n - y /\ x \in Nat /\ y \in Nat
    BY <1>3, <2>2
  <2>q. QED
    BY <2>3
<1>q. QED
  BY <1>4 DEF Max

\* The first of some positions, or 0.
LEMMA FirstInIs ==
  ASSUME NEW n \in Nat, NEW I, I \subseteq 1 .. n
  PROVE  /\ FirstIn(I) \in I \cup {0}
         /\ (FirstIn(I) = 0) = (I = {})
<1>1. CASE I = {}
  BY <1>1 DEF FirstIn
<1>2. CASE I # {}
  <2>1. I \subseteq Nat
    OBVIOUS
  <2>2. Min(I) \in I
    BY <1>2, <2>1, Smallest
  <2>q. QED
    BY <1>2, <2>2 DEF FirstIn
<1>q. QED
  BY <1>1, <1>2

\* Turning around a set of positions does not leave it.
LEMMA TurnStays ==
  ASSUME NEW n \in Nat, NEW I, I \subseteq 1 .. n, I # {}, NEW at
  PROVE  After(I, at) \in I /\ Before(I, at) \in I
<1> DEFINE above == {i \in I : i > Anchor(I, at)}
           below == {i \in I : i < Anchor(I, at)}
<1>0. above \subseteq I /\ below \subseteq I
  OBVIOUS
<1>2. After(I, at) = IF above = {} THEN Min(I) ELSE Min(above)
  BY DEF After
<1>3. Before(I, at) = IF below = {} THEN Max(I) ELSE Max(below)
  BY DEF Before
<1> HIDE DEF above, below
<1>1. above \subseteq Nat /\ below \subseteq 1 .. n /\ I \subseteq Nat
  <2>1. I \subseteq Nat
    OBVIOUS
  <2>q. QED
    BY <1>0, <2>1
<1>4. Min(I) \in I /\ (above # {} => Min(above) \in above)
  BY <1>1, Smallest
<1>5. Max(I) \in I /\ (below # {} => Max(below) \in below)
  BY <1>1, Greatest
<1>q. QED
  BY <1>0, <1>2, <1>3, <1>4, <1>5

\* The first of some sessions in the order of the host's answers is one of them.
LEMMA FirstIsOne ==
  ASSUME NEW S, S \subseteq Sessions
  PROVE  First(S) \in S \cup {None} /\ (S # {} => First(S) \in S)
<1>1. CASE S = {}
  BY <1>1 DEF First
<1>2. CASE S # {}
  <2>1. PICK s \in S : TRUE
    BY <1>2
  <2>2. \E i \in DOMAIN Order : Order[i] = s
    BY OrderAssumption DEF ToSet
  <2>3. Positions(S) # {} /\ Positions(S) \subseteq Nat
    BY <2>2, OrderAssumption DEF Positions
  <2>4. Min(Positions(S)) \in Positions(S)
    BY <2>3, Smallest
  <2>5. Order[Min(Positions(S))] \in S
    BY <2>4 DEF Positions
  <2>q. QED
    BY <1>2, <2>5 DEF First
<1>q. QED
  BY <1>1, <1>2

-----------------------------------------------------------------------------
\* Models with one field changed.

A == App(Ids)
Settings(a, b) ==
  b.mode = a.mode /\ b.ws = a.ws /\ b.open = a.open /\ b.ds = a.ds /\ b.mine = a.mine

LEMMA SetPanes ==
  ASSUME NEW a \in A, NEW P \in Seq(Pane(Ids))
  PROVE  LET b == [a EXCEPT !.panes = P] IN
         /\ b \in A /\ b.panes = P /\ Settings(a, b)
         /\ b.active = a.active /\ b.sel = a.sel /\ b.daemon = a.daemon /\ b.place = a.place
         /\ b.agent = a.agent
  BY DEF A, App, Settings

LEMMA SetActive ==
  ASSUME NEW a \in A, NEW id \in Ids \cup {None}
  PROVE  LET b == [a EXCEPT !.active = id] IN
         /\ b \in A /\ b.active = id /\ Settings(a, b)
         /\ b.panes = a.panes /\ b.sel = a.sel /\ b.daemon = a.daemon /\ b.place = a.place
         /\ b.agent = a.agent
  BY DEF A, App, Settings

LEMMA SetSel ==
  ASSUME NEW a \in A, NEW s \in Sessions \cup {None}
  PROVE  LET b == [a EXCEPT !.sel = s] IN
         /\ b \in A /\ b.sel = s /\ Settings(a, b)
         /\ b.panes = a.panes /\ b.active = a.active /\ b.daemon = a.daemon /\ b.place = a.place
         /\ b.agent = a.agent
  BY DEF A, App, Settings

LEMMA SetAgent ==
  ASSUME NEW a \in A, NEW s \in Sessions \cup {None}
  PROVE  LET b == [a EXCEPT !.agent = s] IN
         /\ b \in A /\ b.agent = s /\ Settings(a, b)
         /\ b.panes = a.panes /\ b.active = a.active /\ b.daemon = a.daemon /\ b.place = a.place
         /\ b.sel = a.sel
  BY DEF A, App, Settings

LEMMA SetDaemon ==
  ASSUME NEW a \in A, NEW s \in Sessions \cup {None}, NEW w \in Workspaces \cup {None}
  PROVE  LET b == [a EXCEPT !.daemon = s, !.place = w] IN
         /\ b \in A /\ b.daemon = s /\ b.place = w /\ Settings(a, b)
         /\ b.panes = a.panes /\ b.active = a.active /\ b.agent = a.agent /\ b.sel = a.sel
  BY DEF A, App, Settings

-----------------------------------------------------------------------------
\* Models in order, and what an operator leaves alone.

Plain(a) == \A i \in DOMAIN a.panes : a.panes[i].kind \in {"list", "output"} => a.panes[i].session = None
Unique(a) == \A i, j \in DOMAIN a.panes : a.panes[i].id = a.panes[j].id => i = j
DaemonPanes(a) == {i \in DOMAIN a.panes : a.panes[i].kind = "daemon"}
Monitored(a) ==
  a.mode = "console" =>
    /\ DaemonPanes(a) # {}
    /\ \A i \in DaemonPanes(a) : a.panes[i].session \in a.ds /\ ~a.panes[i].stale
    /\ \A i, j \in DaemonPanes(a) : a.panes[i].session = a.panes[j].session => i = j
Whole(a) == a \in A /\ Plain(a) /\ Unique(a) /\ Monitored(a)
Exact(a) == \A i \in DOMAIN a.panes : a.panes[i].stale = ViewIsStale(a, a.panes[i])
Fine(a) == Whole(a) /\ Exact(a)

Marked(a) == a.active # None => \A i \in DOMAIN a.panes : a.panes[i].focused = (a.panes[i].id = a.active)
Placed(a) == a.active = None \/ \E i \in DOMAIN a.panes : a.panes[i].id = a.active
Seated(a) == a.active = None \/ \E i \in Fresh(a) : a.panes[i].id = a.active
Focused(a) == Marked(a) /\ Seated(a)

Slots(a, b) ==
  /\ DOMAIN b.panes = DOMAIN a.panes
  /\ \A i \in DOMAIN a.panes : b.panes[i].id = a.panes[i].id /\ b.panes[i].kind = a.panes[i].kind
Agents(a, b) == \A i \in DOMAIN a.panes : a.panes[i].kind = "agent" => b.panes[i].session = a.panes[i].session
Names(a, b) ==
  /\ b.daemon \in {a.daemon} \cup a.ds /\ b.place \in {a.place} \cup Workspaces
  /\ b.sel \in {a.sel} \cup a.ws \cup a.ds
Kept(a, b) == Settings(a, b) /\ b.agent = a.agent /\ Slots(a, b) /\ Agents(a, b) /\ Names(a, b)

LEMMA KeptSelf == ASSUME NEW a PROVE Kept(a, a)
  BY DEF Kept, Settings, Slots, Agents, Names

LEMMA KeptOn == ASSUME NEW a, NEW b, NEW c, Kept(a, b), Kept(b, c) PROVE Kept(a, c)
<1>1. Settings(a, c) /\ c.agent = a.agent /\ Slots(a, c) /\ Agents(a, c)
  BY DEF Kept, Settings, Slots, Agents
<1>2. Names(a, c)
  BY DEF Kept, Settings, Names
<1>q. QED
  BY <1>1, <1>2 DEF Kept

\* The panes of a model: records at the positions 1 to n.
LEMMA PanesAre ==
  ASSUME NEW a \in A
  PROVE  /\ a.panes \in Seq(Pane(Ids))
         /\ \E n \in Nat : DOMAIN a.panes = 1 .. n
         /\ \A i \in DOMAIN a.panes :
              /\ a.panes[i] \in Pane(Ids) /\ a.panes[i].id \in Ids
              /\ a.panes[i].kind \in {"agent", "daemon", "list", "output"}
              /\ a.panes[i].session \in Sessions \cup {None}
              /\ a.panes[i].focused \in BOOLEAN /\ a.panes[i].stale \in BOOLEAN
<1>1. a.panes \in Seq(Pane(Ids))
  BY DEF A, App
<1>2. ASSUME NEW i \in DOMAIN a.panes
      PROVE  a.panes[i] \in Pane(Ids)
  BY <1>1
<1>3. \E n \in Nat : DOMAIN a.panes = 1 .. n
  BY <1>1
<1>q. QED
  BY <1>1, <1>2, <1>3 DEF Pane

LEMMA FieldsAre ==
  ASSUME NEW a \in A
  PROVE  /\ a.ws \subseteq Sessions /\ a.ds \subseteq Sessions /\ a.open \subseteq Sessions
         /\ a.active \in Ids \cup {None} /\ a.sel \in Sessions \cup {None}
         /\ a.daemon \in Sessions \cup {None} /\ a.agent \in Sessions \cup {None}
         /\ a.place \in Workspaces \cup {None} /\ a.mode \in {"cockpit", "console"}
         /\ a.mine \in BOOLEAN
  BY DEF A, App

\* Panes made anew one by one make a sequence of panes.
LEMMA PanesMade ==
  ASSUME NEW a \in A, NEW P, P = [i \in DOMAIN a.panes |-> P[i]],
         \A i \in DOMAIN a.panes : P[i] \in Pane(Ids)
  PROVE  P \in Seq(Pane(Ids)) /\ DOMAIN P = DOMAIN a.panes
<1>1. PICK n \in Nat : DOMAIN a.panes = 1 .. n
  BY PanesAre
<1>2. P \in [1 .. n -> Pane(Ids)]
  BY <1>1
<1>q. QED
  BY <1>1, <1>2

\* What the lookups find.
LEMMA Found ==
  ASSUME NEW a \in A, NEW id, NEW kind, NEW s
  PROVE  /\ PaneWithId(a, id) \in {0} \cup {i \in Fresh(a) : a.panes[i].id = id}
         /\ PaneWithId(a, id) = 0 => \A i \in Fresh(a) : a.panes[i].id # id
         /\ PaneOfKind(a, kind) \in {0} \cup {i \in Fresh(a) : a.panes[i].kind = kind}
         /\ PaneOfKind(a, kind) = 0 => \A i \in Fresh(a) : a.panes[i].kind # kind
         /\ Shows(a, s) \in {0} \cup {i \in Fresh(a) : a.panes[i].kind = "daemon" /\ a.panes[i].session = s}
         /\ Shows(a, s) = 0 =>
              \A i \in Fresh(a) : ~(a.panes[i].kind = "daemon" /\ a.panes[i].session = s)
<1>0. PICK n \in Nat : DOMAIN a.panes = 1 .. n
  BY PanesAre
<1>1. Fresh(a) \subseteq 1 .. n
  BY <1>0 DEF Fresh
<1> DEFINE I == {i \in Fresh(a) : a.panes[i].id = id}
           K == {i \in Fresh(a) : a.panes[i].kind = kind}
           S == {i \in Fresh(a) : a.panes[i].kind = "daemon" /\ a.panes[i].session = s}
<1>2. I \subseteq 1 .. n /\ K \subseteq 1 .. n /\ S \subseteq 1 .. n
  BY <1>1
<1>3. PaneWithId(a, id) = FirstIn(I) /\ PaneOfKind(a, kind) = FirstIn(K) /\ Shows(a, s) = FirstIn(S)
  BY DEF PaneWithId, PaneOfKind, Shows
<1>4. /\ FirstIn(I) \in I \cup {0} /\ (FirstIn(I) = 0) = (I = {})
      /\ FirstIn(K) \in K \cup {0} /\ (FirstIn(K) = 0) = (K = {})
      /\ FirstIn(S) \in S \cup {0} /\ (FirstIn(S) = 0) = (S = {})
  <2> HIDE DEF I, K, S
  <2>q. QED
    BY <1>2, FirstInIs
<1>q. QED
  BY <1>3, <1>4

\* A position is not 0.
LEMMA NotZero == ASSUME NEW a \in A PROVE 0 \notin DOMAIN a.panes
<1>0. PICK n \in Nat : DOMAIN a.panes = 1 .. n
  BY PanesAre
<1>q. QED
  BY <1>0

LEMMA TargetIs ==
  ASSUME NEW a \in A, NEW kind
  PROVE  /\ TargetPane(a, kind) \in {0} \cup {i \in Fresh(a) : a.panes[i].kind = kind}
         /\ TargetPane(a, kind) = 0 => \A i \in Fresh(a) : a.panes[i].kind # kind
<1>1. CASE ActivePaneIs(a, kind)
  <2>1. TargetPane(a, kind) = PaneWithId(a, a.active)
    BY <1>1 DEF TargetPane
  <2>2. PaneWithId(a, a.active) # 0 /\ a.panes[PaneWithId(a, a.active)].kind = kind
    BY <1>1 DEF ActivePaneIs
  <2>q. QED
    BY <2>1, <2>2, Found
<1>2. CASE ~ActivePaneIs(a, kind)
  <2>1. TargetPane(a, kind) = PaneOfKind(a, kind)
    BY <1>2 DEF TargetPane
  <2>q. QED
    BY <2>1, Found
<1>q. QED
  BY <1>1, <1>2

-----------------------------------------------------------------------------
\* Staleness, and panes that get another session.

\* Only the lists, the kind and the session of a pane decide whether it is stale.
LEMMA ViewSame ==
  ASSUME NEW a, NEW b, Settings(a, b), NEW p, NEW q, q.kind = p.kind, q.session = p.session
  PROVE  ViewIsStale(b, q) = ViewIsStale(a, p)
  BY DEF Settings, ViewIsStale, Selection

LEMMA ViewFresh ==
  ASSUME NEW a, NEW p
  PROVE  /\ ViewIsStale(a, p) \in BOOLEAN
         /\ p.kind = "daemon" => ViewIsStale(a, p) = (p.session \notin a.ds)
         /\ p.kind = "agent" => ViewIsStale(a, p) = (Selection(a, p.session) # "attach")
         /\ p.kind \in {"list", "output"} => ~ViewIsStale(a, p)
  BY DEF ViewIsStale

LEMMA SelectionIs ==
  ASSUME NEW a, NEW s
  PROVE  /\ Selection(a, s) = "attach" => s \in a.ws /\ s \notin Daemons /\ s \in a.open
         /\ Selection(a, s) = "daemon" => s \in a.ws
         /\ s \in (a.ws \ Daemons) \cap a.open => Selection(a, s) = "attach"
  BY DEF Selection

Rest(a, b) ==
  /\ Settings(a, b) /\ b.active = a.active /\ b.sel = a.sel /\ b.daemon = a.daemon
  /\ b.place = a.place /\ b.agent = a.agent

LEMMA RestaleIs ==
  ASSUME NEW a \in A
  PROVE  /\ Restale(a) \in A /\ Rest(a, Restale(a)) /\ Slots(a, Restale(a))
         /\ \A i \in DOMAIN a.panes :
              /\ Restale(a).panes[i].session = a.panes[i].session
              /\ Restale(a).panes[i].stale = ViewIsStale(a, a.panes[i])
              /\ Restale(a).panes[i].focused = (a.panes[i].focused /\ ~ViewIsStale(a, a.panes[i]))
<1> DEFINE P == [i \in DOMAIN a.panes |-> Judged(a, a.panes[i])]
<1>1. ASSUME NEW i \in DOMAIN a.panes
      PROVE  /\ P[i] \in Pane(Ids)
             /\ P[i].id = a.panes[i].id /\ P[i].kind = a.panes[i].kind
             /\ P[i].session = a.panes[i].session /\ P[i].stale = ViewIsStale(a, a.panes[i])
             /\ P[i].focused = (a.panes[i].focused /\ ~ViewIsStale(a, a.panes[i]))
  <2>1. a.panes[i] \in Pane(Ids) /\ ViewIsStale(a, a.panes[i]) \in BOOLEAN
    BY PanesAre, ViewFresh
  <2>2. P[i] = Judged(a, a.panes[i])
    OBVIOUS
  <2>q. QED
    BY <2>1, <2>2 DEF Judged, Pane
<1>2. P = [i \in DOMAIN a.panes |-> P[i]] /\ DOMAIN P = DOMAIN a.panes
  OBVIOUS
<1>3. Restale(a) = [a EXCEPT !.panes = P]
  BY DEF Restale
<1> HIDE DEF P
<1>4. P \in Seq(Pane(Ids))
  BY <1>1, <1>2, PanesMade
<1>5. Restale(a) \in A /\ Rest(a, Restale(a)) /\ Restale(a).panes = P
  BY <1>3, <1>4, SetPanes DEF Rest
<1>q. QED
  BY <1>1, <1>2, <1>5 DEF Slots

\* After the judgement every pane is marked stale exactly when it is.
LEMMA RestaleFine ==
  ASSUME NEW a, Whole(a)
  PROVE  Fine(Restale(a)) /\ Kept(a, Restale(a)) /\ Restale(a).active = a.active
<1> DEFINE b == Restale(a)
<1>0. a \in A
  BY DEF Whole
<1>1. b \in A /\ Rest(a, b) /\ Slots(a, b)
      /\ \A i \in DOMAIN a.panes :
           b.panes[i].session = a.panes[i].session /\ b.panes[i].stale = ViewIsStale(a, a.panes[i])
  BY <1>0, RestaleIs
<1> HIDE DEF b
<1>2. Plain(b)
  BY <1>1 DEF Whole, Plain, Slots
<1>3. Unique(b)
  BY <1>1 DEF Whole, Unique, Slots
<1>4. Monitored(b)
  <2>1. DaemonPanes(b) = DaemonPanes(a)
    BY <1>1 DEF DaemonPanes, Slots
  <2>2. \A i \in DaemonPanes(a) : a.panes[i].session \in a.ds => ~b.panes[i].stale
    BY <1>1, ViewFresh DEF DaemonPanes
  <2>3. DaemonPanes(a) \subseteq DOMAIN a.panes
    BY DEF DaemonPanes
  <2>q. QED
    BY <1>1, <2>1, <2>2, <2>3 DEF Whole, Monitored, Rest, Settings
<1>5. Exact(b)
  <2>1. ASSUME NEW i \in DOMAIN b.panes PROVE b.panes[i].stale = ViewIsStale(b, b.panes[i])
    <3>1. i \in DOMAIN a.panes /\ b.panes[i].kind = a.panes[i].kind
      BY <1>1, <2>1 DEF Slots
    <3>2. Settings(a, b) /\ b.panes[i].session = a.panes[i].session
      BY <1>1, <3>1 DEF Rest
    <3>3. ViewIsStale(b, b.panes[i]) = ViewIsStale(a, a.panes[i])
      BY <3>1, <3>2, ViewSame
    <3>q. QED
      BY <1>1, <3>1, <3>3
  <2>q. QED
    BY <2>1 DEF Exact
<1>6. Kept(a, b) /\ b.active = a.active
  BY <1>1 DEF Kept, Rest, Slots, Agents, Names
<1>q. QED
  BY <1>1, <1>2, <1>3, <1>4, <1>5, <1>6 DEF Fine, Whole, b

LEMMA BindIs ==
  ASSUME NEW a \in A, NEW i \in DOMAIN a.panes, NEW s \in Sessions \cup {None}
  PROVE  LET b == BindPane(a, i, s) IN
         /\ b \in A /\ Rest(a, b) /\ Slots(a, b)
         /\ b.panes[i].session = s /\ ~b.panes[i].stale /\ b.panes[i].focused = a.panes[i].focused
         /\ \A j \in DOMAIN a.panes : j # i => b.panes[j] = a.panes[j]
<1> DEFINE b == BindPane(a, i, s)
           P == [a.panes EXCEPT ![i] = Bound(a.panes[i], s)]
<1>0. i # 0
  BY NotZero
<1>1. a.panes[i] \in Pane(Ids)
  BY PanesAre
<1>2. LET p == Bound(a.panes[i], s) IN
      /\ p \in Pane(Ids) /\ p.id = a.panes[i].id /\ p.kind = a.panes[i].kind
      /\ p.session = s /\ p.stale = FALSE /\ p.focused = a.panes[i].focused
  BY <1>1 DEF Bound, Pane
<1>3. P \in Seq(Pane(Ids)) /\ DOMAIN P = DOMAIN a.panes
  <2> HIDE DEF P
  <2>1. a.panes \in Seq(Pane(Ids))
    BY PanesAre
  <2>q. QED
    BY <1>2, <2>1 DEF P
<1>4. P[i] = Bound(a.panes[i], s) /\ \A j \in DOMAIN a.panes : j # i => P[j] = a.panes[j]
  <2>1. a.panes \in Seq(Pane(Ids))
    BY PanesAre
  <2>q. QED
    BY <2>1
<1>5. b = [a EXCEPT !.panes = P]
  BY <1>0 DEF BindPane
<1> HIDE DEF P
<1>6. b \in A /\ Rest(a, b) /\ b.panes = P
  BY <1>3, <1>5, SetPanes DEF Rest
<1>q. QED
  BY <1>2, <1>3, <1>4, <1>6 DEF Slots

LEMMA BindNone == ASSUME NEW a, NEW s PROVE BindPane(a, 0, s) = a
  BY DEF BindPane

-----------------------------------------------------------------------------
\* Selecting a daemon.

\* A model whose panes and lists say the same is whole, and exact, when the other is.
LEMMA WholeSame ==
  ASSUME NEW a, Whole(a), NEW b \in A, Settings(a, b), Slots(a, b),
         \A i \in DOMAIN a.panes :
           b.panes[i].session = a.panes[i].session /\ b.panes[i].stale = a.panes[i].stale
  PROVE  Whole(b) /\ (Exact(a) => Exact(b)) /\ Fresh(b) = Fresh(a)
<1>1. Plain(b) /\ Unique(b)
  BY DEF Whole, Plain, Unique, Slots
<1>2. Monitored(b)
  <2>1. DaemonPanes(b) = DaemonPanes(a) /\ DaemonPanes(a) \subseteq DOMAIN a.panes
    BY DEF DaemonPanes, Slots
  <2>q. QED
    BY <2>1 DEF Whole, Monitored, Settings
<1>3. ASSUME Exact(a) PROVE Exact(b)
  <2>1. ASSUME NEW i \in DOMAIN b.panes PROVE b.panes[i].stale = ViewIsStale(b, b.panes[i])
    <3>1. i \in DOMAIN a.panes /\ b.panes[i].kind = a.panes[i].kind
      BY <2>1 DEF Slots
    <3>2. ViewIsStale(b, b.panes[i]) = ViewIsStale(a, a.panes[i])
      BY <3>1, ViewSame
    <3>q. QED
      BY <1>3, <3>1, <3>2 DEF Exact
  <2>q. QED
    BY <2>1 DEF Exact
<1>4. Fresh(b) = Fresh(a)
  BY DEF Fresh, Slots
<1>q. QED
  BY <1>1, <1>2, <1>3, <1>4 DEF Whole

LEMMA ShowDaemonIs ==
  ASSUME NEW a, Whole(a), NEW s \in a.ds
  PROVE  LET b == ShowDaemon(a, s) IN
         /\ Whole(b) /\ Rest(a, b) /\ Slots(a, b) /\ Agents(a, b)
         /\ Exact(a) => Exact(b)
         /\ Fresh(a) \subseteq Fresh(b)
         /\ \A i \in DOMAIN a.panes : b.panes[i].focused = a.panes[i].focused
         /\ a.mode = "console" => \E i \in DaemonPanes(b) : b.panes[i].session = s
<1> DEFINE b == ShowDaemon(a, s)
           k == TargetPane(a, "daemon")
<1>0. a \in A /\ s \in Sessions
  BY FieldsAre DEF Whole
<1>1. CASE Shows(a, s) # 0
  <2>1. b = a
    BY <1>1, BindNone DEF ShowDaemon
  <2>2. Shows(a, s) \in Fresh(a) /\ a.panes[Shows(a, s)].kind = "daemon" /\ a.panes[Shows(a, s)].session = s
    BY <1>0, <1>1, Found
  <2>3. Shows(a, s) \in DaemonPanes(a)
    BY <2>2 DEF DaemonPanes, Fresh
  <2>q. QED
    BY <2>1, <2>2, <2>3 DEF Rest, Settings, Slots, Agents
<1>2. CASE Shows(a, s) = 0 /\ k = 0
  <2>1. b = a
    BY <1>2, BindNone DEF ShowDaemon
  <2>2. a.mode # "console"
    <3>1. \A i \in Fresh(a) : a.panes[i].kind # "daemon"
      BY <1>0, <1>2, TargetIs
    <3>q. QED
      BY <3>1 DEF Whole, Monitored, DaemonPanes, Fresh
  <2>q. QED
    BY <2>1, <2>2 DEF Rest, Settings, Slots, Agents
<1>3. CASE Shows(a, s) = 0 /\ k # 0
  <2>1. b = BindPane(a, k, s)
    BY <1>3 DEF ShowDaemon
  <2>2. k \in DOMAIN a.panes /\ a.panes[k].kind = "daemon"
    BY <1>0, <1>3, TargetIs DEF Fresh
  <2>3. /\ b \in A /\ Rest(a, b) /\ Slots(a, b)
        /\ b.panes[k].session = s /\ ~b.panes[k].stale /\ b.panes[k].focused = a.panes[k].focused
        /\ \A j \in DOMAIN a.panes : j # k => b.panes[j] = a.panes[j]
    BY <1>0, <2>1, <2>2, BindIs
  <2> HIDE DEF b, k
  <2>4. Plain(b) /\ Unique(b) /\ Agents(a, b)
    BY <2>2, <2>3 DEF Whole, Plain, Unique, Slots, Agents
  <2>5. DaemonPanes(b) = DaemonPanes(a) /\ DaemonPanes(a) \subseteq DOMAIN a.panes /\ k \in DaemonPanes(a)
    BY <2>2, <2>3 DEF DaemonPanes, Slots
  <2>6. ASSUME a.mode = "console", NEW i \in DaemonPanes(a) PROVE a.panes[i].session # s
    <3>1. i \in Fresh(a) /\ a.panes[i].kind = "daemon"
      BY <2>6 DEF Whole, Monitored, Fresh, DaemonPanes
    <3>q. QED
      BY <1>0, <1>3, <3>1, Found
  <2>7. Monitored(b)
    <3>1. SUFFICES ASSUME a.mode = "console" PROVE Monitored(b)
      BY <2>3 DEF Monitored, Rest, Settings
    <3>2. /\ \A i \in DaemonPanes(a) : a.panes[i].session \in a.ds /\ ~a.panes[i].stale
          /\ \A i, j \in DaemonPanes(a) : a.panes[i].session = a.panes[j].session => i = j
      BY <3>1 DEF Whole, Monitored
    <3>3. b.ds = a.ds
      BY <2>3 DEF Rest, Settings
    <3>4. \A i \in DaemonPanes(b) : b.panes[i].session \in b.ds /\ ~b.panes[i].stale
      BY <2>3, <2>5, <3>2, <3>3
    <3>5. \A i, j \in DaemonPanes(b) : b.panes[i].session = b.panes[j].session => i = j
      BY <2>3, <2>5, <2>6, <3>1, <3>2
    <3>q. QED
      BY <2>5, <3>4, <3>5 DEF Monitored
  <2>8. ASSUME Exact(a) PROVE Exact(b)
    <3>1. ASSUME NEW i \in DOMAIN b.panes PROVE b.panes[i].stale = ViewIsStale(b, b.panes[i])
      <4>0. i \in DOMAIN a.panes /\ Settings(a, b) /\ b.ds = a.ds
        BY <2>3, <3>1 DEF Slots, Rest, Settings
      <4>1. CASE i = k
        <5>1. b.panes[i].kind = "daemon" /\ b.panes[i].session \in b.ds
          BY <2>2, <2>3, <4>0, <4>1 DEF Slots
        <5>2. b.panes[i].stale \in BOOLEAN
          BY <2>3, <3>1, PanesAre
        <5>q. QED
          BY <2>3, <4>1, <5>1, <5>2, ViewFresh
      <4>2. CASE i # k
        <5>1. b.panes[i] = a.panes[i]
          BY <2>3, <4>0, <4>2
        <5>2. ViewIsStale(b, b.panes[i]) = ViewIsStale(a, a.panes[i])
          BY <4>0, <5>1, ViewSame
        <5>q. QED
          BY <2>8, <4>0, <5>1, <5>2 DEF Exact
      <4>q. QED
        BY <4>1, <4>2
    <3>q. QED
      BY <3>1 DEF Exact
  <2>9. Fresh(a) \subseteq Fresh(b)
    BY <2>3 DEF Fresh, Slots
  <2>q. QED
    BY <2>3, <2>4, <2>5, <2>7, <2>8, <2>9 DEF Whole, b
<1>q. QED
  BY <1>1, <1>2, <1>3

LEMMA MarkMonitorsIs ==
  ASSUME NEW a \in A, NEW s
  PROVE  LET b == MarkMonitors(a, s) IN
         /\ b \in A /\ Rest(a, b) /\ Slots(a, b)
         /\ \A i \in DOMAIN a.panes :
              /\ b.panes[i].session = a.panes[i].session /\ b.panes[i].stale = a.panes[i].stale
              /\ b.panes[i].focused = (Monitors(a, a.panes[i], s)
                                        \/ (a.mode = "cockpit" /\ a.panes[i].id = a.active))
<1> DEFINE Mark(p) == Monitors(a, p, s) \/ (a.mode = "cockpit" /\ p.id = a.active)
           P == [i \in DOMAIN a.panes |-> [a.panes[i] EXCEPT !.focused = Mark(a.panes[i])]]
           b == MarkMonitors(a, s)
<1>1. ASSUME NEW i \in DOMAIN a.panes
      PROVE  /\ P[i] \in Pane(Ids) /\ P[i].id = a.panes[i].id /\ P[i].kind = a.panes[i].kind
             /\ P[i].session = a.panes[i].session /\ P[i].stale = a.panes[i].stale
             /\ P[i].focused = Mark(a.panes[i])
  <2>1. a.panes[i] \in Pane(Ids) /\ Mark(a.panes[i]) \in BOOLEAN
    BY PanesAre DEF Monitors
  <2>2. P[i] = [a.panes[i] EXCEPT !.focused = Mark(a.panes[i])]
    OBVIOUS
  <2> HIDE DEF P, Mark
  <2>q. QED
    BY <2>1, <2>2 DEF Pane
<1>2. P = [i \in DOMAIN a.panes |-> P[i]] /\ DOMAIN P = DOMAIN a.panes
  OBVIOUS
<1>3. b = [a EXCEPT !.panes = P]
  BY DEF MarkMonitors
<1>4. \A i \in DOMAIN a.panes :
        Mark(a.panes[i]) = (Monitors(a, a.panes[i], s) \/ (a.mode = "cockpit" /\ a.panes[i].id = a.active))
  OBVIOUS
<1> HIDE DEF P, Mark
<1>5. P \in Seq(Pane(Ids))
  BY <1>1, <1>2, PanesMade
<1>6. b \in A /\ Rest(a, b) /\ b.panes = P
  BY <1>3, <1>5, SetPanes DEF Rest
<1>q. QED
  BY <1>1, <1>2, <1>4, <1>6 DEF Slots

\* The focus moves to the pane that shows the daemon, in the console; a cockpit leaves it.
LEMMA ActivateMonitorIs ==
  ASSUME NEW a \in A, NEW s
  PROVE  LET b == ActivateMonitor(a, s) IN
         /\ b \in A /\ Settings(a, b) /\ b.panes = a.panes /\ b.sel = a.sel
         /\ b.daemon = a.daemon /\ b.place = a.place /\ b.agent = a.agent
         /\ a.mode = "cockpit" => b.active = a.active
         /\ (\E i \in DOMAIN a.panes : Monitors(a, a.panes[i], s)) =>
              \E i \in DOMAIN a.panes : Monitors(a, a.panes[i], s) /\ b.active = a.panes[i].id
<1> DEFINE found == {i \in DOMAIN a.panes : Monitors(a, a.panes[i], s)}
           b == ActivateMonitor(a, s)
<1>0. b = IF found = {} THEN a ELSE [a EXCEPT !.active = a.panes[Max(found)].id]
  BY DEF ActivateMonitor
<1>1. CASE found = {}
  <2>1. b = a
    BY <1>0, <1>1
  <2>q. QED
    BY <1>1, <2>1 DEF Settings
<1>2. CASE found # {}
  <2>1. PICK n \in Nat : DOMAIN a.panes = 1 .. n
    BY PanesAre
  <2>2. found \subseteq 1 .. n /\ found \subseteq DOMAIN a.panes
    BY <2>1
  <2>3. a.mode # "cockpit"
    BY <1>2 DEF Monitors
  <2>4. \A i \in found : Monitors(a, a.panes[i], s)
    OBVIOUS
  <2> HIDE DEF found
  <2>5. Max(found) \in found
    BY <1>2, <2>2, Greatest
  <2>6. a.panes[Max(found)].id \in Ids
    BY <2>2, <2>5, PanesAre
  <2>7. b = [a EXCEPT !.active = a.panes[Max(found)].id]
    BY <1>0, <1>2
  <2>8. /\ b \in A /\ Settings(a, b) /\ b.panes = a.panes /\ b.sel = a.sel
        /\ b.daemon = a.daemon /\ b.place = a.place /\ b.agent = a.agent
        /\ b.active = a.panes[Max(found)].id
    BY <2>6, <2>7, SetActive
  <2>q. QED
    BY <2>2, <2>3, <2>4, <2>5, <2>8
<1>q. QED
  BY <1>1, <1>2

LEMMA SelectDaemonFine ==
  ASSUME NEW a, Whole(a), NEW s \in a.ds
  PROVE  LET b == SelectDaemon(a, s) IN
         /\ Fine(b) /\ Kept(a, b) /\ b.daemon = s
         /\ (Exact(a) /\ Seated(a)) => Focused(b)
<1> DEFINE b1 == [a EXCEPT !.daemon = s, !.place = Place[s]]
           b2 == ShowDaemon(b1, s)
           b3 == ActivateMonitor(b2, s)
           b4 == MarkMonitors(b3, s)
           b == SelectDaemon(a, s)
<1>0. a \in A /\ s \in Sessions /\ Place[s] \in Workspaces
  BY FieldsAre DEF Whole, Workspaces
<1>1. /\ b1 \in A /\ b1.daemon = s /\ b1.place = Place[s] /\ Settings(a, b1)
      /\ b1.panes = a.panes /\ b1.active = a.active /\ b1.agent = a.agent /\ b1.sel = a.sel
  <2> DEFINE w == Place[s]
  <2>1. w \in Workspaces \cup {None}
    BY <1>0
  <2>2. b1 = [a EXCEPT !.daemon = s, !.place = w]
    OBVIOUS
  <2> HIDE DEF w, b1
  <2>3. /\ b1 \in A /\ b1.daemon = s /\ b1.place = w /\ Settings(a, b1)
        /\ b1.panes = a.panes /\ b1.active = a.active /\ b1.agent = a.agent /\ b1.sel = a.sel
    BY <1>0, <2>1, <2>2 DEF A, App, Settings
  <2>q. QED
    BY <2>3 DEF w
<1>2. b = Restale(b4)
  BY DEF SelectDaemon
<1> HIDE DEF b1, b
<1>3. Whole(b1) /\ (Exact(a) => Exact(b1)) /\ Fresh(b1) = Fresh(a) /\ s \in b1.ds
  <2>1. Slots(a, b1) /\ b1.ds = a.ds
    BY <1>1 DEF Slots, Settings
  <2>2. Whole(b1) /\ (Exact(a) => Exact(b1)) /\ Fresh(b1) = Fresh(a)
    BY <1>1, <2>1, WholeSame
  <2>q. QED
    BY <2>1, <2>2
<1>4. /\ Whole(b2) /\ Rest(b1, b2) /\ Slots(b1, b2) /\ Agents(b1, b2)
      /\ Exact(b1) => Exact(b2)
      /\ Fresh(b1) \subseteq Fresh(b2)
      /\ b1.mode = "console" => \E i \in DaemonPanes(b2) : b2.panes[i].session = s
  BY <1>3, ShowDaemonIs
<1> HIDE DEF b2
<1>5. /\ b3 \in A /\ Settings(b2, b3) /\ b3.panes = b2.panes /\ b3.sel = b2.sel
      /\ b3.daemon = b2.daemon /\ b3.place = b2.place /\ b3.agent = b2.agent
      /\ b2.mode = "cockpit" => b3.active = b2.active
      /\ (\E i \in DOMAIN b2.panes : Monitors(b2, b2.panes[i], s)) =>
           \E i \in DOMAIN b2.panes : Monitors(b2, b2.panes[i], s) /\ b3.active = b2.panes[i].id
  BY <1>4, ActivateMonitorIs DEF Whole
<1> HIDE DEF b3
<1>6. /\ b4 \in A /\ Rest(b3, b4) /\ Slots(b3, b4)
      /\ \A i \in DOMAIN b3.panes :
           /\ b4.panes[i].session = b3.panes[i].session /\ b4.panes[i].stale = b3.panes[i].stale
           /\ b4.panes[i].focused = (Monitors(b3, b3.panes[i], s)
                                      \/ (b3.mode = "cockpit" /\ b3.panes[i].id = b3.active))
  BY <1>5, MarkMonitorsIs
<1> HIDE DEF b4
<1>7. Whole(b4) /\ (Exact(b2) => Exact(b4)) /\ Fresh(b4) = Fresh(b2)
  <2>1. Settings(b2, b4) /\ Slots(b2, b4)
    BY <1>5, <1>6 DEF Settings, Rest, Slots
  <2>2. \A i \in DOMAIN b2.panes :
          b4.panes[i].session = b2.panes[i].session /\ b4.panes[i].stale = b2.panes[i].stale
    BY <1>5, <1>6
  <2>q. QED
    BY <1>4, <1>6, <2>1, <2>2, WholeSame
<1>8. Fine(b) /\ Kept(b4, b) /\ b.active = b4.active
  BY <1>2, <1>7, RestaleFine
<1>9. /\ Slots(b4, b) /\ Rest(b4, b)
      /\ \A i \in DOMAIN b4.panes :
           /\ b.panes[i].session = b4.panes[i].session
           /\ b.panes[i].stale = ViewIsStale(b4, b4.panes[i])
           /\ b.panes[i].focused = (b4.panes[i].focused /\ ~ViewIsStale(b4, b4.panes[i]))
  BY <1>2, <1>6, RestaleIs
<1>10. b.daemon = s
  BY <1>1, <1>4, <1>5, <1>6, <1>9 DEF Rest
<1>11. Kept(a, b)
  <2>1. Settings(a, b) /\ b.agent = a.agent /\ b.sel = a.sel /\ b.place = Place[s]
    BY <1>1, <1>4, <1>5, <1>6, <1>9 DEF Rest, Settings
  <2>2. Slots(a, b)
    BY <1>1, <1>4, <1>5, <1>6, <1>9 DEF Slots
  <2>3. Agents(a, b)
    BY <1>1, <1>4, <1>5, <1>6, <1>9 DEF Slots, Agents
  <2>q. QED
    BY <1>0, <1>10, <2>1, <2>2, <2>3 DEF Kept, Names
<1>12. ASSUME Exact(a), Seated(a) PROVE Focused(b)
  <2>0. b3.mode = a.mode /\ b3.mode = b2.mode /\ a.mode \in {"cockpit", "console"} /\ b1.mode = a.mode
    BY <1>0, <1>1, <1>4, <1>5, FieldsAre DEF Rest, Settings
  <2>1. DOMAIN b.panes = DOMAIN b2.panes /\ DOMAIN b4.panes = DOMAIN b2.panes
    BY <1>5, <1>6, <1>9 DEF Slots
  <2>2. ASSUME NEW i \in DOMAIN b2.panes
        PROVE  /\ b.panes[i].id = b2.panes[i].id /\ b.active = b3.active
               /\ b.panes[i].stale = b2.panes[i].stale
               /\ b.panes[i].focused =
                    ((Monitors(b3, b2.panes[i], s) \/ (b3.mode = "cockpit" /\ b2.panes[i].id = b3.active))
                     /\ ~b2.panes[i].stale)
    <3>1. b4.panes[i].stale = b2.panes[i].stale /\ Exact(b4)
      BY <1>3, <1>4, <1>5, <1>6, <1>7, <1>12
    <3>2. b4.panes[i].stale = ViewIsStale(b4, b4.panes[i])
      BY <2>1, <3>1 DEF Exact
    <3>3. b.panes[i].id = b2.panes[i].id /\ b.active = b3.active
      BY <1>5, <1>6, <1>9, <2>1 DEF Slots, Rest
    <3>q. QED
      BY <1>5, <1>6, <1>9, <2>1, <3>1, <3>2, <3>3
  <2>3. Unique(b2)
    BY <1>4 DEF Whole
  <2>4. CASE a.mode = "cockpit"
    <3>1. b3.active = a.active
      BY <1>1, <1>4, <1>5, <2>0, <2>4 DEF Rest
    <3>2. \A i \in DOMAIN b2.panes : ~Monitors(b3, b2.panes[i], s)
      BY <2>0, <2>4 DEF Monitors
    <3>3. CASE a.active = None
      BY <2>2, <3>1, <3>3, <1>8, <1>6, <1>5 DEF Focused, Marked, Seated, Rest
    <3>4. CASE a.active # None
      <4>1. PICK k \in Fresh(a) : a.panes[k].id = a.active
        BY <1>12, <3>4 DEF Seated
      <4>2. k \in DOMAIN b2.panes /\ ~b2.panes[k].stale /\ b2.panes[k].id = a.active
        BY <1>1, <1>3, <1>4, <4>1 DEF Fresh, Slots
      <4>3. ASSUME NEW i \in DOMAIN b2.panes PROVE b.panes[i].focused = (b.panes[i].id = b.active)
        <5>1. b2.panes[i].id = b3.active => i = k
          BY <2>3, <3>1, <4>2 DEF Unique
        <5>q. QED
          BY <2>0, <2>2, <2>4, <3>1, <3>2, <4>2, <5>1
      <4>4. k \in Fresh(b) /\ b.panes[k].id = b.active
        BY <2>1, <2>2, <3>1, <4>2 DEF Fresh
      <4>q. QED
        BY <2>1, <4>3, <4>4 DEF Focused, Marked, Seated
    <3>q. QED
      BY <3>3, <3>4
  <2>5. CASE a.mode = "console"
    <3>1. PICK m \in DaemonPanes(b2) : b2.panes[m].session = s
      BY <1>4, <2>0, <2>5
    <3>2. m \in DOMAIN b2.panes /\ Monitors(b2, b2.panes[m], s)
      BY <2>0, <2>5, <3>1 DEF Monitors, DaemonPanes
    <3>3. PICK k \in DOMAIN b2.panes : Monitors(b2, b2.panes[k], s) /\ b3.active = b2.panes[k].id
      BY <1>5, <3>2
    <3>4. k \in DaemonPanes(b2) /\ b2.panes[k].session = s
      BY <3>3 DEF Monitors, DaemonPanes
    <3>5. ~b2.panes[k].stale
      BY <1>4, <2>0, <2>5, <3>4 DEF Whole, Monitored
    <3>6. ASSUME NEW i \in DOMAIN b2.panes PROVE b.panes[i].focused = (b.panes[i].id = b.active)
      <4>1. b2.panes[i].id = b3.active => i = k
        BY <2>3, <3>3 DEF Unique
      <4>2. Monitors(b3, b2.panes[i], s) => i = k
        <5>1. SUFFICES ASSUME Monitors(b3, b2.panes[i], s) PROVE i = k
          OBVIOUS
        <5>2. i \in DaemonPanes(b2) /\ b2.panes[i].session = s
          BY <5>1 DEF Monitors, DaemonPanes
        <5>q. QED
          BY <1>4, <2>0, <2>5, <3>4, <5>2 DEF Whole, Monitored
      <4>3. Monitors(b3, b2.panes[k], s)
        BY <2>0, <2>5, <3>3 DEF Monitors
      <4>q. QED
        BY <2>0, <2>2, <2>5, <3>3, <3>5, <4>1, <4>2, <4>3
    <3>7. k \in Fresh(b) /\ b.panes[k].id = b.active
      BY <2>1, <2>2, <3>3, <3>5 DEF Fresh
    <3>q. QED
      BY <2>1, <3>6, <3>7 DEF Focused, Marked, Seated
  <2>q. QED
    BY <2>0, <2>4, <2>5
<1>q. QED
  BY <1>8, <1>10, <1>11, <1>12 DEF b

-----------------------------------------------------------------------------
\* Moving the focus.

LEMMA MarkFocusIs ==
  ASSUME NEW a, Fine(a), NEW i \in Fresh(a)
  PROVE  LET b == MarkFocus(a, a.panes[i].id) IN
         /\ Fine(b) /\ Focused(b) /\ Kept(a, b) /\ Fresh(b) = Fresh(a) /\ b.panes[i].kind = a.panes[i].kind
         /\ b.panes[i].session = a.panes[i].session /\ b.active = a.panes[i].id /\ b.daemon = a.daemon
<1> DEFINE id == a.panes[i].id
           P == [j \in DOMAIN a.panes |-> [a.panes[j] EXCEPT !.focused = (a.panes[j].id = id)]]
           b == MarkFocus(a, id)
<1>0. a \in A /\ i \in DOMAIN a.panes /\ ~a.panes[i].stale
  BY DEF Fine, Whole, Fresh
<1>1. ASSUME NEW j \in DOMAIN a.panes
      PROVE  /\ P[j] \in Pane(Ids) /\ P[j].id = a.panes[j].id /\ P[j].kind = a.panes[j].kind
             /\ P[j].session = a.panes[j].session /\ P[j].stale = a.panes[j].stale
             /\ P[j].focused = (a.panes[j].id = id)
  <2>1. a.panes[j] \in Pane(Ids)
    BY <1>0, PanesAre
  <2>2. P[j] = [a.panes[j] EXCEPT !.focused = (a.panes[j].id = id)]
    OBVIOUS
  <2> HIDE DEF P
  <2>q. QED
    BY <2>1, <2>2 DEF Pane
<1>2. P = [j \in DOMAIN a.panes |-> P[j]] /\ DOMAIN P = DOMAIN a.panes
  OBVIOUS
<1>3. b = [a EXCEPT !.active = id, !.panes = P]
  BY DEF MarkFocus
<1>4. id \in Ids
  BY <1>0, PanesAre
<1> HIDE DEF P, id
<1>5. P \in Seq(Pane(Ids))
  BY <1>0, <1>1, <1>2, PanesMade
<1>6. /\ b \in A /\ Settings(a, b) /\ b.panes = P /\ b.active = id /\ b.sel = a.sel
      /\ b.daemon = a.daemon /\ b.place = a.place /\ b.agent = a.agent
  <2> DEFINE d == [a EXCEPT !.active = id]
  <2>1. /\ d \in A /\ d.active = id /\ Settings(a, d)
        /\ d.panes = a.panes /\ d.sel = a.sel /\ d.daemon = a.daemon /\ d.place = a.place
        /\ d.agent = a.agent
    BY <1>0, <1>4, SetActive
  <2>2. b = [d EXCEPT !.panes = P]
    BY <1>3
  <2> HIDE DEF d, b
  <2>3. /\ b \in A /\ b.panes = P /\ Settings(d, b)
        /\ b.active = d.active /\ b.sel = d.sel /\ b.daemon = d.daemon /\ b.place = d.place
        /\ b.agent = d.agent
    BY <1>5, <2>1, <2>2, SetPanes
  <2>q. QED
    BY <2>1, <2>3 DEF Settings
<1> HIDE DEF b
<1>7. Slots(a, b) /\ Agents(a, b)
  BY <1>1, <1>2, <1>6 DEF Slots, Agents
<1>8. Whole(b) /\ Exact(b) /\ Fresh(b) = Fresh(a)
  <2>1. \A j \in DOMAIN a.panes :
          b.panes[j].session = a.panes[j].session /\ b.panes[j].stale = a.panes[j].stale
    BY <1>1, <1>6
  <2>q. QED
    BY <1>6, <1>7, <2>1, WholeSame DEF Fine
<1>9. Kept(a, b)
  BY <1>6, <1>7 DEF Kept, Names
<1>10. Focused(b)
  <2>1. \A j \in DOMAIN b.panes : b.panes[j].focused = (b.panes[j].id = b.active)
    BY <1>1, <1>2, <1>6
  <2>2. i \in Fresh(b) /\ b.panes[i].id = b.active
    BY <1>0, <1>1, <1>6, <1>8 DEF id
  <2>q. QED
    BY <2>1, <2>2 DEF Focused, Marked, Seated
<1>q. QED
  BY <1>0, <1>1, <1>6, <1>8, <1>9, <1>10 DEF Fine, b, id

\* The session of the focused pane is listed: a pane that is not stale shows a listed one.
LEMMA FocusedIsListed ==
  ASSUME NEW a, Fine(a)
  PROVE  FocusedSession(a) \in (a.ws \cup a.ds) \cup {None}
<1> DEFINE k == PaneWithId(a, a.active)
<1>0. a \in A
  BY DEF Fine, Whole
<1>1. CASE k = 0
  BY <1>1 DEF FocusedSession
<1>2. CASE k # 0
  <2>1. k \in DOMAIN a.panes /\ ~a.panes[k].stale /\ FocusedSession(a) = a.panes[k].session
    BY <1>0, <1>2, Found DEF FocusedSession, Fresh
  <2> HIDE DEF k
  <2>2. ~ViewIsStale(a, a.panes[k]) /\ a.panes[k].kind \in {"agent", "daemon", "list", "output"}
    BY <1>0, <2>1, PanesAre DEF Fine, Exact
  <2>3. a.panes[k].kind = "agent" => a.panes[k].session \in a.ws
    BY <2>2, ViewFresh, SelectionIs
  <2>4. a.panes[k].kind = "daemon" => a.panes[k].session \in a.ds
    BY <2>2, ViewFresh
  <2>5. a.panes[k].kind \in {"list", "output"} => a.panes[k].session = None
    BY <2>1 DEF Fine, Whole, Plain
  <2>q. QED
    BY <2>1, <2>2, <2>3, <2>4, <2>5
<1>q. QED
  BY <1>1, <1>2

LEMMA FollowFocusFine ==
  ASSUME NEW a, Fine(a)
  PROVE  LET b == FollowFocus(a) IN
         /\ Fine(b) /\ Kept(a, b) /\ (Focused(a) => Focused(b)) /\ b.daemon = a.daemon
         /\ b.panes = a.panes /\ b.active = a.active
<1> DEFINE b == FollowFocus(a)
<1>0. a \in A
  BY DEF Fine, Whole
<1>1. CASE FocusedSession(a) = None
  <2>1. b = a
    BY <1>1 DEF FollowFocus
  <2>q. QED
    BY <2>1, KeptSelf
<1>2. CASE FocusedSession(a) # None
  <2>1. FocusedSession(a) \in a.ws \cup a.ds /\ a.ws \cup a.ds \subseteq Sessions
    BY <1>0, <1>2, FocusedIsListed, FieldsAre
  <2>2. b = [a EXCEPT !.sel = FocusedSession(a)]
    BY <1>2 DEF FollowFocus
  <2>3. /\ b \in A /\ b.sel = FocusedSession(a) /\ Settings(a, b)
        /\ b.panes = a.panes /\ b.active = a.active /\ b.daemon = a.daemon /\ b.place = a.place
        /\ b.agent = a.agent
    BY <1>0, <2>1, <2>2, SetSel
  <2> HIDE DEF b
  <2>4. Slots(a, b) /\ Agents(a, b) /\ Names(a, b)
    BY <2>1, <2>3 DEF Slots, Agents, Names
  <2>5. Whole(b) /\ Exact(b) /\ Fresh(b) = Fresh(a)
    BY <2>3, <2>4, WholeSame DEF Fine
  <2>6. Focused(a) => Focused(b)
    BY <2>3, <2>5 DEF Focused, Marked, Seated
  <2>q. QED
    BY <2>3, <2>4, <2>5, <2>6 DEF Fine, Kept, b
<1>q. QED
  BY <1>1, <1>2

LEMMA FocusPaneFine ==
  ASSUME NEW a, Fine(a), NEW i \in Fresh(a)
  PROVE  Fine(FocusPane(a, i)) /\ Focused(FocusPane(a, i)) /\ Kept(a, FocusPane(a, i))
<1> DEFINE b == MarkFocus(a, a.panes[i].id)
           c == SelectShown(b, i)
<1>1. Fine(b) /\ Focused(b) /\ Kept(a, b)
  BY MarkFocusIs
<1>2. FocusPane(a, i) = FollowFocus(c)
  BY DEF FocusPane
<1> HIDE DEF b
<1>3. Fine(c) /\ Focused(c) /\ Kept(b, c)
  <2>1. CASE b.panes[i].kind = "daemon" /\ b.panes[i].session \in b.ds
    <3>1. c = SelectDaemon(b, b.panes[i].session)
      BY <2>1 DEF SelectShown
    <3>q. QED
      BY <1>1, <2>1, <3>1, SelectDaemonFine DEF Fine, Focused
  <2>2. CASE ~(b.panes[i].kind = "daemon" /\ b.panes[i].session \in b.ds)
    <3>1. c = b
      BY <2>2 DEF SelectShown
    <3>q. QED
      BY <1>1, <3>1, KeptSelf
  <2>q. QED
    BY <2>1, <2>2
<1> HIDE DEF c
<1>4. Fine(FollowFocus(c)) /\ Focused(FollowFocus(c)) /\ Kept(c, FollowFocus(c))
  BY <1>3, FollowFocusFine
<1>q. QED
  BY <1>1, <1>2, <1>3, <1>4, KeptOn

LEMMA ClearFine ==
  ASSUME NEW a, Fine(a)
  PROVE  LET b == [a EXCEPT !.active = None] IN Fine(b) /\ Focused(b) /\ Kept(a, b)
<1> DEFINE b == [a EXCEPT !.active = None]
<1>0. a \in A
  BY DEF Fine, Whole
<1>1. /\ b \in A /\ b.active = None /\ Settings(a, b)
      /\ b.panes = a.panes /\ b.sel = a.sel /\ b.daemon = a.daemon /\ b.place = a.place
      /\ b.agent = a.agent
  BY <1>0, SetActive
<1> HIDE DEF b
<1>2. Slots(a, b) /\ Agents(a, b) /\ Names(a, b)
  BY <1>1 DEF Slots, Agents, Names
<1>3. Whole(b) /\ Exact(b)
  BY <1>1, <1>2, WholeSame DEF Fine
<1>q. QED
  BY <1>1, <1>2, <1>3 DEF Fine, Focused, Marked, Seated, Kept, b

LEMMA FocusFirstFine ==
  ASSUME NEW a, Fine(a), NEW found, found \subseteq Fresh(a)
  PROVE  Fine(FocusFirst(a, found)) /\ Focused(FocusFirst(a, found)) /\ Kept(a, FocusFirst(a, found))
<1>1. CASE found = {}
  BY <1>1, ClearFine DEF FocusFirst
<1>2. CASE found # {}
  <2>0. PICK n \in Nat : DOMAIN a.panes = 1 .. n
    BY PanesAre DEF Fine, Whole
  <2>1. found \subseteq Nat
    BY <2>0 DEF Fresh
  <2>2. Min(found) \in found
    BY <1>2, <2>1, Smallest
  <2>3. FocusFirst(a, found) = FocusPane(a, Min(found))
    BY <1>2 DEF FocusFirst
  <2>q. QED
    BY <2>2, <2>3, FocusPaneFine
<1>q. QED
  BY <1>1, <1>2

LEMMA SafeFallbackFine ==
  ASSUME NEW a, Fine(a)
  PROVE  Fine(SafeFallback(a)) /\ Focused(SafeFallback(a)) /\ Kept(a, SafeFallback(a))
<1> DEFINE Of(kind) == {i \in Focusable(a) : a.panes[i].kind = kind}
<1>1. \E found : found \subseteq Focusable(a) /\ SafeFallback(a) = FocusFirst(a, found)
  <2>1. CASE Of("agent") # {}
    <3>1. SafeFallback(a) = FocusFirst(a, Of("agent"))
      BY <2>1 DEF SafeFallback
    <3>q. QED
      BY <3>1
  <2>2. CASE Of("agent") = {} /\ Of("daemon") # {}
    <3>1. SafeFallback(a) = FocusFirst(a, Of("daemon"))
      BY <2>2 DEF SafeFallback
    <3>q. QED
      BY <3>1
  <2>3. CASE Of("agent") = {} /\ Of("daemon") = {}
    <3>1. SafeFallback(a) = FocusFirst(a, Focusable(a))
      BY <2>3 DEF SafeFallback
    <3>q. QED
      BY <3>1
  <2>q. QED
    BY <2>1, <2>2, <2>3
<1>2. Focusable(a) \subseteq Fresh(a)
  BY DEF Focusable
<1>q. QED
  BY <1>1, <1>2, FocusFirstFine

LEMMA SwitchFocusFine ==
  ASSUME NEW a, Fine(a)
  PROVE  Fine(SwitchFocus(a)) /\ Focused(SwitchFocus(a)) /\ Kept(a, SwitchFocus(a))
<1>1. CASE Focusable(a) = {}
  BY <1>1, ClearFine DEF SwitchFocus
<1>2. CASE Focusable(a) # {}
  <2>0. PICK n \in Nat : DOMAIN a.panes = 1 .. n
    BY PanesAre DEF Fine, Whole
  <2>1. Focusable(a) \subseteq 1 .. n /\ Focusable(a) \subseteq Fresh(a)
    BY <2>0 DEF Focusable, Fresh
  <2>2. After(Focusable(a), ActiveIndex(a)) \in Focusable(a)
    BY <1>2, <2>1, TurnStays
  <2>3. SwitchFocus(a) = FocusPane(a, After(Focusable(a), ActiveIndex(a)))
    BY <1>2 DEF SwitchFocus
  <2>q. QED
    BY <2>1, <2>2, <2>3, FocusPaneFine
<1>q. QED
  BY <1>1, <1>2

\* A judgement that makes the focused pane stale moves the focus: it is sound again.
LEMMA RefreshFine ==
  ASSUME NEW a, Whole(a), Marked(a), Placed(a)
  PROVE  LET b == RefreshStaleness(a) IN Fine(b) /\ Focused(b) /\ Kept(a, b)
<1> DEFINE r == Restale(a)
<1>0. a \in A
  BY DEF Whole
<1>1. Fine(r) /\ Kept(a, r) /\ r.active = a.active
  BY RestaleFine
<1>2. /\ Slots(a, r)
      /\ \A i \in DOMAIN a.panes :
           /\ r.panes[i].stale = ViewIsStale(a, a.panes[i])
           /\ r.panes[i].focused = (a.panes[i].focused /\ ~ViewIsStale(a, a.panes[i]))
  BY <1>0, RestaleIs
<1>3. RefreshStaleness(a) = LeaveStale(r)
  BY DEF RefreshStaleness
<1> HIDE DEF r
<1>4. CASE \E i \in DOMAIN r.panes : r.panes[i].id = r.active /\ r.panes[i].stale
  <2>1. LeaveStale(r) = SafeFallback(r)
    BY <1>4 DEF LeaveStale
  <2>q. QED
    BY <1>1, <1>3, <2>1, SafeFallbackFine, KeptOn
<1>5. CASE ~ \E i \in DOMAIN r.panes : r.panes[i].id = r.active /\ r.panes[i].stale
  <2>1. LeaveStale(r) = r
    BY <1>5 DEF LeaveStale
  <2>2. Seated(r)
    BY <1>1, <1>2, <1>5 DEF Placed, Seated, Slots, Fresh
  <2>3. Marked(r)
    <3>1. SUFFICES ASSUME r.active # None, NEW i \in DOMAIN r.panes
                   PROVE  r.panes[i].focused = (r.panes[i].id = r.active)
      BY DEF Marked
    <3>2. i \in DOMAIN a.panes /\ r.panes[i].id = a.panes[i].id
      BY <1>2, <3>1 DEF Slots
    <3>3. a.panes[i].focused = (a.panes[i].id = a.active)
      BY <1>1, <3>1, <3>2 DEF Marked
    <3>4. r.panes[i].id = r.active => ~ViewIsStale(a, a.panes[i])
      BY <1>2, <1>5, <3>1, <3>2
    <3>q. QED
      BY <1>1, <1>2, <3>2, <3>3, <3>4
  <2>q. QED
    BY <1>1, <1>3, <2>1, <2>2, <2>3 DEF Focused
<1>q. QED
  BY <1>4, <1>5

LEMMA FocusIfThereFine ==
  ASSUME NEW a, Fine(a), NEW i \in Fresh(a) \cup {0}
  PROVE  LET b == FocusIfThere(a, i) IN
         Fine(b) /\ Kept(a, b) /\ ((i # 0 \/ Focused(a)) => Focused(b))
<1>1. CASE i = 0
  BY <1>1, KeptSelf DEF FocusIfThere
<1>2. CASE i # 0
  BY <1>2, FocusPaneFine DEF FocusIfThere
<1>q. QED
  BY <1>1, <1>2

LEMMA FocusDaemonFine ==
  ASSUME NEW a, Fine(a), NEW s
  PROVE  LET b == FocusDaemon(a, s) IN Fine(b) /\ Kept(a, b) /\ (Focused(a) => Focused(b))
<1> DEFINE i == IF Shows(a, s) # 0 THEN Shows(a, s) ELSE PaneOfKind(a, "daemon")
<1>1. FocusDaemon(a, s) = FocusIfThere(a, i)
  BY DEF FocusDaemon
<1>2. i \in Fresh(a) \cup {0}
  <2>1. Shows(a, s) \in Fresh(a) \cup {0} /\ PaneOfKind(a, "daemon") \in Fresh(a) \cup {0}
    BY Found DEF Fine, Whole
  <2>q. QED
    BY <2>1
<1> HIDE DEF i
<1>q. QED
  BY <1>1, <1>2, FocusIfThereFine

\* An agent's pane gets a session that can be attached, and the focus.
Rebound(a, b, s) ==
  \A i \in DOMAIN a.panes :
    a.panes[i].kind = "agent" => b.panes[i].session \in {a.panes[i].session, s}

LEMMA BindAgentFine ==
  ASSUME NEW a, Fine(a), NEW s, Selection(a, s) = "attach"
  PROVE  LET b == BindAndFocus(a, TargetPane(a, "agent"), s) IN
         /\ Fine(b) /\ Settings(a, b) /\ b.agent = a.agent /\ Slots(a, b) /\ Rebound(a, b, s) /\ Names(a, b)
         /\ Focused(a) => Focused(b)
<1> DEFINE k == TargetPane(a, "agent")
           p == BindPane(a, k, s)
           b == BindAndFocus(a, k, s)
<1>0. a \in A /\ s \in Sessions /\ b = FocusIfThere(p, k)
  BY SelectionIs, FieldsAre DEF Fine, Whole, BindAndFocus
<1>1. k \in {0} \cup {i \in Fresh(a) : a.panes[i].kind = "agent"}
  BY <1>0, TargetIs
<1> HIDE DEF k
<1>2. CASE k = 0
  <2>1. p = a
    BY <1>2, BindNone
  <2>2. b = a
    BY <1>0, <1>2, <2>1 DEF FocusIfThere
  <2> HIDE DEF b, p
  <2>q. QED
    BY <2>2 DEF Settings, Slots, Rebound, Names, b, k
<1>3. CASE k # 0
  <2>1. k \in DOMAIN a.panes /\ a.panes[k].kind = "agent"
    BY <1>1, <1>3 DEF Fresh
  <2>2. /\ p \in A /\ Rest(a, p) /\ Slots(a, p)
        /\ p.panes[k].session = s /\ ~p.panes[k].stale
        /\ \A j \in DOMAIN a.panes : j # k => p.panes[j] = a.panes[j]
    BY <1>0, <2>1, BindIs
  <2> HIDE DEF p
  <2>3. Plain(p) /\ Unique(p) /\ Rebound(a, p, s)
    BY <2>1, <2>2 DEF Fine, Whole, Plain, Unique, Slots, Rebound
  <2>4. Monitored(p)
    <3>1. DaemonPanes(p) = DaemonPanes(a) /\ \A i \in DaemonPanes(a) : p.panes[i] = a.panes[i]
      BY <2>1, <2>2 DEF DaemonPanes, Slots
    <3>q. QED
      BY <2>2, <3>1 DEF Fine, Whole, Monitored, Rest, Settings
  <2>5. Exact(p)
    <3>1. ASSUME NEW i \in DOMAIN p.panes PROVE p.panes[i].stale = ViewIsStale(p, p.panes[i])
      <4>0. i \in DOMAIN a.panes /\ Settings(a, p) /\ p.panes[i].kind = a.panes[i].kind
        BY <2>2, <3>1 DEF Slots, Rest
      <4>1. CASE i = k
        <5>1. Selection(p, s) = "attach"
          BY <4>0 DEF Settings, Selection
        <5>2. p.panes[i].stale \in BOOLEAN
          BY <2>2, <3>1, PanesAre
        <5>q. QED
          BY <2>1, <2>2, <4>0, <4>1, <5>1, <5>2, ViewFresh
      <4>2. CASE i # k
        <5>1. p.panes[i] = a.panes[i]
          BY <2>2, <4>0, <4>2
        <5>2. ViewIsStale(p, p.panes[i]) = ViewIsStale(a, a.panes[i])
          BY <4>0, <5>1, ViewSame
        <5>q. QED
          BY <4>0, <5>1, <5>2 DEF Fine, Exact
      <4>q. QED
        BY <4>1, <4>2
    <3>q. QED
      BY <3>1 DEF Exact
  <2>6. Fine(p) /\ k \in Fresh(p)
    BY <2>1, <2>2, <2>3, <2>4, <2>5 DEF Fine, Whole, Fresh, Slots
  <2>7. Fine(b) /\ Focused(b) /\ Kept(p, b)
    BY <1>0, <1>3, <2>6, FocusIfThereFine
  <2> HIDE DEF b
  <2>8. Settings(a, b) /\ b.agent = a.agent /\ Slots(a, b)
    BY <2>2, <2>7 DEF Kept, Rest, Settings, Slots
  <2>9. Rebound(a, b, s)
    BY <2>2, <2>3, <2>7 DEF Rebound, Kept, Agents, Slots
  <2>10. Names(a, b)
    BY <2>2, <2>7 DEF Kept, Rest, Settings, Names
  <2>q. QED
    BY <2>7, <2>8, <2>9, <2>10 DEF b, k
<1>q. QED
  BY <1>2, <1>3

-----------------------------------------------------------------------------
\* Selecting a session.

LEMMA SelFine ==
  ASSUME NEW a, Fine(a), NEW s \in Sessions \cup {None}
  PROVE  LET b == [a EXCEPT !.sel = s] IN
         /\ Fine(b) /\ (Focused(a) => Focused(b))
         /\ b.sel = s /\ b.panes = a.panes /\ Settings(a, b) /\ b.active = a.active
         /\ b.daemon = a.daemon /\ b.place = a.place /\ b.agent = a.agent
<1> DEFINE b == [a EXCEPT !.sel = s]
<1>1. /\ b \in A /\ b.sel = s /\ Settings(a, b)
      /\ b.panes = a.panes /\ b.active = a.active /\ b.daemon = a.daemon /\ b.place = a.place
      /\ b.agent = a.agent
  BY SetSel DEF Fine, Whole
<1> HIDE DEF b
<1>2. Slots(a, b)
  BY <1>1 DEF Slots
<1>3. Whole(b) /\ Exact(b) /\ Fresh(b) = Fresh(a)
  BY <1>1, <1>2, WholeSame DEF Fine
<1>4. Focused(a) => Focused(b)
  BY <1>1, <1>3 DEF Focused, Marked, Seated
<1>q. QED
  BY <1>1, <1>3, <1>4 DEF Fine, b

LEMMA AgentFine ==
  ASSUME NEW a, Fine(a), NEW s \in Sessions \cup {None}
  PROVE  LET b == [a EXCEPT !.agent = s] IN
         /\ Fine(b) /\ (Focused(a) => Focused(b))
         /\ b.agent = s /\ b.panes = a.panes /\ Settings(a, b) /\ b.active = a.active
         /\ b.daemon = a.daemon /\ b.place = a.place /\ b.sel = a.sel
<1> DEFINE b == [a EXCEPT !.agent = s]
<1>1. /\ b \in A /\ b.agent = s /\ Settings(a, b)
      /\ b.panes = a.panes /\ b.active = a.active /\ b.daemon = a.daemon /\ b.place = a.place
      /\ b.sel = a.sel
  BY SetAgent DEF Fine, Whole
<1> HIDE DEF b
<1>2. Slots(a, b)
  BY <1>1 DEF Slots
<1>3. Whole(b) /\ Exact(b) /\ Fresh(b) = Fresh(a)
  BY <1>1, <1>2, WholeSame DEF Fine
<1>4. Focused(a) => Focused(b)
  BY <1>1, <1>3 DEF Focused, Marked, Seated
<1>q. QED
  BY <1>1, <1>3, <1>4 DEF Fine, b

\* What a choice of a session leaves alone: all but the focus, the names and its pane.
Chosen(a, b, s) ==
  /\ Settings(a, b) /\ Slots(a, b) /\ Names(a, b) /\ b.agent \in {a.agent} \cup a.ws
  /\ Rebound(a, b, s) /\ (Selection(a, s) # "attach" => Agents(a, b))

LEMMA TargetSame ==
  ASSUME NEW a, NEW b, b.panes = a.panes, b.active = a.active, NEW kind
  PROVE  TargetPane(b, kind) = TargetPane(a, kind)
<1>1. Fresh(b) = Fresh(a)
  BY DEF Fresh
<1>2. PaneWithId(b, b.active) = PaneWithId(a, a.active) /\ PaneOfKind(b, kind) = PaneOfKind(a, kind)
  BY <1>1 DEF PaneWithId, PaneOfKind
<1>q. QED
  BY <1>2 DEF TargetPane, ActivePaneIs

LEMMA SelectSessionFine ==
  ASSUME NEW a, Fine(a), Focused(a), NEW s
  PROVE  LET b == SelectSession(a, s) IN Fine(b) /\ Focused(b) /\ Chosen(a, b, s)
<1> DEFINE b == SelectSession(a, s)
<1>0. a.ws \subseteq Sessions /\ a \in A
  BY FieldsAre DEF Fine, Whole
<1>1. CASE Selection(a, s) = "daemon" /\ s \in a.ds
  <2> DEFINE c0 == [a EXCEPT !.sel = s]
             c1 == SelectDaemon(c0, s)
             c2 == FocusDaemon(c1, s)
  <2>0. s \in a.ws /\ s \in Sessions
    BY <1>0, <1>1, SelectionIs
  <2>1. b = [c2 EXCEPT !.sel = s]
    BY <1>1 DEF SelectSession
  <2>2. /\ Fine(c0) /\ Focused(c0) /\ c0.sel = s /\ c0.panes = a.panes /\ Settings(a, c0)
        /\ c0.daemon = a.daemon /\ c0.place = a.place /\ c0.agent = a.agent /\ s \in c0.ds
    BY <1>1, <2>0, SelFine DEF Settings
  <2> HIDE DEF c0
  <2>3. Fine(c1) /\ Kept(c0, c1) /\ Focused(c1)
    BY <2>2, SelectDaemonFine DEF Fine, Focused
  <2> HIDE DEF c1
  <2>4. Fine(c2) /\ Kept(c1, c2) /\ Focused(c2)
    BY <2>3, FocusDaemonFine
  <2> HIDE DEF c2, b
  <2>5. Kept(c0, c2)
    BY <2>3, <2>4, KeptOn
  <2>6. /\ Fine(b) /\ Focused(b) /\ b.sel = s /\ b.panes = c2.panes /\ Settings(c2, b)
        /\ b.daemon = c2.daemon /\ b.place = c2.place /\ b.agent = c2.agent
    BY <2>0, <2>1, <2>4, SelFine
  <2>7. Settings(a, b) /\ Slots(a, b) /\ Agents(a, b) /\ b.agent = a.agent
    BY <2>2, <2>5, <2>6 DEF Kept, Settings, Slots, Agents
  <2>8. Names(a, b)
    BY <2>0, <2>2, <2>5, <2>6 DEF Kept, Settings, Names
  <2>9. Rebound(a, b, s)
    BY <2>7 DEF Agents, Rebound
  <2>q. QED
    BY <2>6, <2>7, <2>8, <2>9 DEF b, Chosen
<1>2. CASE Selection(a, s) = "attach"
  <2> DEFINE c0 == [a EXCEPT !.sel = s]
             c1 == [c0 EXCEPT !.agent = s]
             c2 == BindAndFocus(c1, TargetPane(a, "agent"), s)
  <2>0. s \in a.ws /\ s \in Sessions
    BY <1>0, <1>2, SelectionIs
  <2>1. b = [c2 EXCEPT !.sel = s]
    BY <1>2 DEF SelectSession
  <2>2. /\ Fine(c0) /\ Focused(c0) /\ c0.sel = s /\ c0.panes = a.panes /\ Settings(a, c0)
        /\ c0.daemon = a.daemon /\ c0.place = a.place /\ c0.agent = a.agent /\ c0.active = a.active
    BY <2>0, SelFine
  <2> HIDE DEF c0
  <2>3. /\ Fine(c1) /\ Focused(c1) /\ c1.sel = s /\ c1.panes = a.panes /\ Settings(c0, c1)
        /\ c1.daemon = a.daemon /\ c1.place = a.place /\ c1.agent = s /\ c1.active = c0.active
    BY <2>0, <2>2, AgentFine
  <2> HIDE DEF c1
  <2>4. Selection(c1, s) = "attach"
    BY <1>2, <2>2, <2>3 DEF Selection, Settings
  <2>5. /\ Fine(c2) /\ Focused(c2) /\ Settings(c1, c2) /\ c2.agent = s /\ Slots(c1, c2)
        /\ Rebound(c1, c2, s) /\ Names(c1, c2)
    <3>1. TargetPane(c1, "agent") = TargetPane(a, "agent")
      BY <2>2, <2>3, TargetSame
    <3>q. QED
      BY <2>3, <2>4, <3>1, BindAgentFine
  <2> HIDE DEF c2, b
  <2>6. /\ Fine(b) /\ Focused(b) /\ b.sel = s /\ b.panes = c2.panes /\ Settings(c2, b)
        /\ b.daemon = c2.daemon /\ b.place = c2.place /\ b.agent = c2.agent
    BY <2>0, <2>1, <2>5, SelFine
  <2>7. Settings(a, b) /\ Slots(a, b) /\ Rebound(a, b, s) /\ b.agent = s
    BY <2>2, <2>3, <2>5, <2>6 DEF Settings, Slots, Rebound
  <2>8. Names(a, b)
    BY <2>0, <2>2, <2>3, <2>5, <2>6 DEF Settings, Names
  <2>q. QED
    BY <1>2, <2>0, <2>6, <2>7, <2>8 DEF b, Chosen
<1>3. CASE ~(Selection(a, s) = "daemon" /\ s \in a.ds) /\ Selection(a, s) # "attach"
  <2>1. b = a
    BY <1>3 DEF SelectSession
  <2> HIDE DEF b
  <2>q. QED
    BY <2>1, KeptSelf DEF b, Chosen, Kept, Rebound, Agents
<1>q. QED
  BY <1>1, <1>2, <1>3

-----------------------------------------------------------------------------
\* A new snapshot of the sessions, for a cockpit.

LEMMA SetDs ==
  ASSUME NEW a \in A, NEW found, found \subseteq Sessions
  PROVE  LET b == [a EXCEPT !.ds = found] IN
         /\ b \in A /\ b.ds = found /\ b.panes = a.panes /\ b.active = a.active /\ b.sel = a.sel
         /\ b.daemon = a.daemon /\ b.place = a.place /\ b.agent = a.agent
         /\ b.mode = a.mode /\ b.ws = a.ws /\ b.open = a.open /\ b.mine = a.mine
  BY DEF A, App

\* The panes do not depend on the lists.
Loose(a) == Whole(a) /\ a.mode = "cockpit" /\ Marked(a) /\ Placed(a)

LEMMA LooseSame ==
  ASSUME NEW a, Loose(a), NEW b \in A, b.panes = a.panes, b.active = a.active, b.mode = a.mode
  PROVE  Loose(b)
  BY DEF Loose, Whole, Plain, Unique, Monitored, Marked, Placed

LEMMA SeatedPlaced == ASSUME NEW a, Seated(a) PROVE Placed(a)
  BY DEF Seated, Placed, Fresh

LEMMA FocusedLoose == ASSUME NEW a, Fine(a), Focused(a), a.mode = "cockpit" PROVE Loose(a)
  BY SeatedPlaced DEF Fine, Focused, Loose

\* What a new list of daemons leaves alone.
Adopted(a, b) ==
  /\ b.mode = a.mode /\ b.ws = a.ws /\ b.open = a.open /\ b.mine = a.mine /\ b.agent = a.agent
  /\ Slots(a, b) /\ Agents(a, b)
  /\ b.daemon \in b.ds \cup {None} /\ b.sel \in {a.sel} \cup b.ws \cup b.ds
  /\ b.place = None => b.ds = {}

LEMMA AdoptDaemonFine ==
  ASSUME NEW a, Loose(a), NEW d \in a.ds \cup {None}, d = None => a.ds = {}
  PROVE  LET b == AdoptDaemon(a, d) IN Fine(b) /\ Focused(b) /\ Adopted(a, b) /\ b.ds = a.ds
<1> DEFINE b == AdoptDaemon(a, d)
<1>0. a \in A /\ a.ds \subseteq Sessions
  BY FieldsAre DEF Loose, Whole
<1>1. CASE d = None
  <2> DEFINE c == [a EXCEPT !.daemon = None, !.place = None]
  <2>1. b = RefreshStaleness(c)
    BY <1>1 DEF AdoptDaemon
  <2>2. /\ c \in A /\ c.daemon = None /\ c.place = None /\ Settings(a, c)
        /\ c.panes = a.panes /\ c.active = a.active /\ c.agent = a.agent /\ c.sel = a.sel
    BY <1>0 DEF A, App, Settings
  <2> HIDE DEF b, c
  <2>3. Loose(c)
    BY <2>2, LooseSame DEF Settings
  <2>4. Fine(b) /\ Focused(b) /\ Kept(c, b)
    BY <2>1, <2>3, RefreshFine DEF Loose
  <2>5. Settings(a, b) /\ b.agent = a.agent /\ Slots(a, b) /\ Agents(a, b)
    BY <2>2, <2>4 DEF Kept, Settings, Slots, Agents
  <2>6. b.ds = {} /\ b.daemon = None /\ b.sel \in {a.sel} \cup b.ws \cup b.ds
    BY <1>1, <2>2, <2>4 DEF Kept, Settings, Names
  <2>q. QED
    BY <2>4, <2>5, <2>6 DEF b, Adopted, Settings
<1>2. CASE d # None
  <2> DEFINE c == [a EXCEPT !.daemon = d, !.place = Place[d]]
             e == ShowDaemon(c, d)
             w == Place[d]
  <2>0. w \in Workspaces /\ w # None /\ d \in Sessions /\ d \in a.ds
    BY <1>0, <1>2, PlaceAssumption DEF Workspaces
  <2>1. b = RefreshStaleness(e)
    BY <1>2 DEF AdoptDaemon
  <2>2. /\ c \in A /\ c.daemon = d /\ c.place = w /\ Settings(a, c)
        /\ c.panes = a.panes /\ c.active = a.active /\ c.agent = a.agent /\ c.sel = a.sel
    <3>1. c = [a EXCEPT !.daemon = d, !.place = w]
      OBVIOUS
    <3> HIDE DEF w, c
    <3>q. QED
      BY <1>0, <2>0, <3>1 DEF A, App, Settings
  <2> HIDE DEF b, c, w
  <2>3. Loose(c) /\ d \in c.ds
    BY <2>0, <2>2, LooseSame DEF Settings
  <2>4. /\ Whole(e) /\ Rest(c, e) /\ Slots(c, e) /\ Agents(c, e)
        /\ \A i \in DOMAIN c.panes : e.panes[i].focused = c.panes[i].focused
    BY <2>3, ShowDaemonIs DEF Loose
  <2> HIDE DEF e
  <2>5. Marked(e) /\ Placed(e)
    BY <2>3, <2>4 DEF Loose, Marked, Placed, Rest, Slots
  <2>6. Fine(b) /\ Focused(b) /\ Kept(e, b)
    BY <2>1, <2>4, <2>5, RefreshFine
  <2>7. Settings(a, b) /\ b.agent = a.agent /\ Slots(a, b) /\ Agents(a, b)
    BY <2>2, <2>4, <2>6 DEF Kept, Rest, Settings, Slots, Agents
  <2>8. b.daemon \in b.ds /\ b.sel \in {a.sel} \cup b.ws \cup b.ds /\ b.place # None
    BY <2>0, <2>2, <2>4, <2>6, PlaceAssumption DEF Kept, Rest, Settings, Names
  <2>q. QED
    BY <2>6, <2>7, <2>8 DEF b, Adopted, Settings
<1>q. QED
  BY <1>1, <1>2

LEMMA ReplaceDaemonsFine ==
  ASSUME NEW a, Loose(a), NEW found, found \subseteq Sessions
  PROVE  LET b == ReplaceDaemons(a, found) IN Fine(b) /\ Focused(b) /\ Adopted(a, b) /\ b.ds = found
<1> DEFINE c == [a EXCEPT !.ds = found]
           d == IF a.daemon \in found THEN a.daemon ELSE First(found)
<1>0. a \in A
  BY DEF Loose, Whole
<1>1. /\ c \in A /\ c.ds = found /\ c.panes = a.panes /\ c.active = a.active /\ c.sel = a.sel
      /\ c.agent = a.agent /\ c.mode = a.mode /\ c.ws = a.ws /\ c.open = a.open /\ c.mine = a.mine
  BY <1>0, SetDs
<1>2. d \in found \cup {None} /\ (d = None => found = {})
  <2>1. First(found) \in found \cup {None} /\ (found # {} => First(found) \in found)
    BY FirstIsOne
  <2>2. None \notin found
    BY OrderAssumption
  <2>q. QED
    BY <2>1, <2>2
<1>3. ReplaceDaemons(a, found) = AdoptDaemon(c, d)
  BY DEF ReplaceDaemons
<1> HIDE DEF c, d
<1>4. Loose(c)
  BY <1>1, LooseSame
<1>5. LET b == AdoptDaemon(c, d) IN Fine(b) /\ Focused(b) /\ Adopted(c, b) /\ b.ds = c.ds
  BY <1>1, <1>2, <1>4, AdoptDaemonFine
<1>6. \A b : Adopted(c, b) => Adopted(a, b)
  BY <1>1 DEF Adopted, Slots, Agents
<1>q. QED
  BY <1>1, <1>3, <1>5, <1>6

Listing(a) ==
  /\ a.daemon \in a.ds \cup {None} /\ a.agent \in a.ws \cup {None}
  /\ a.sel \in a.ws \cup a.ds \cup {None} /\ (a.place = None => a.ds = {})

\* An agent that is not listed any more gives its pane to another; the names in between.
LEMMA AdoptAgentIs ==
  ASSUME NEW a, Fine(a), Focused(a), a.mode = "cockpit", NEW g \in a.ws \cup {None}
  PROVE  LET b == AdoptAgent(a, g) IN
         /\ Loose(b) /\ Settings(a, b) /\ Slots(a, b) /\ b.agent \in b.ws \cup {None}
         /\ b.daemon = a.daemon /\ b.place = a.place /\ b.sel = a.sel
         /\ FocusedSession(b) \in b.ws \cup b.ds \cup {None}
         /\ a.agent \in a.ws => Agents(a, b)
<1> DEFINE b == AdoptAgent(a, g)
<1>0. a \in A /\ a.ws \subseteq Sessions /\ Loose(a)
  BY FocusedLoose, FieldsAre DEF Fine, Whole
<1>1. CASE a.agent \in a.ws
  <2>1. b = a
    BY <1>1 DEF AdoptAgent
  <2> HIDE DEF b
  <2>q. QED
    BY <1>0, <1>1, <2>1, FocusedIsListed, KeptSelf DEF b, Kept
<1>2. CASE a.agent \notin a.ws
  <2> DEFINE c == [a EXCEPT !.agent = g]
             k == TargetPane(a, "agent")
  <2>0. g \in Sessions \cup {None}
    BY <1>0
  <2>1. b = BindPane(c, k, g)
    BY <1>2 DEF AdoptAgent
  <2>2. /\ Fine(c) /\ Focused(c)
        /\ c.agent = g /\ c.panes = a.panes /\ Settings(a, c) /\ c.active = a.active
        /\ c.daemon = a.daemon /\ c.place = a.place /\ c.sel = a.sel
    BY <2>0, AgentFine
  <2>3. k \in {0} \cup {i \in Fresh(a) : a.panes[i].kind = "agent"}
    BY <1>0, TargetIs
  <2> HIDE DEF b, c, k
  <2>4. c \in A /\ Loose(c) /\ FocusedSession(c) \in c.ws \cup c.ds \cup {None}
    BY <2>2, FocusedLoose, FocusedIsListed DEF Fine, Whole, Settings
  <2>5. CASE k = 0
    <3>1. b = c
      BY <2>1, <2>5, BindNone
    <3>q. QED
      BY <1>2, <2>2, <2>4, <3>1 DEF b, Settings, Slots
  <2>6. CASE k # 0
    <3>1. k \in DOMAIN c.panes /\ c.panes[k].kind = "agent"
      BY <2>2, <2>3, <2>6 DEF Fresh
    <3>2. /\ b \in A /\ Rest(c, b) /\ Slots(c, b)
          /\ b.panes[k].session = g /\ b.panes[k].focused = c.panes[k].focused
          /\ \A j \in DOMAIN c.panes : j # k => b.panes[j] = c.panes[j]
      BY <2>0, <2>1, <2>4, <3>1, BindIs
    <3>3. Plain(b) /\ Unique(b) /\ b.mode = "cockpit" /\ Monitored(b)
      BY <2>4, <3>1, <3>2 DEF Loose, Whole, Plain, Unique, Slots, Rest, Settings, Monitored
    <3>4. Marked(b) /\ Placed(b)
      <4>1. \A i \in DOMAIN c.panes : b.panes[i].focused = c.panes[i].focused
        BY <3>2
      <4>q. QED
        BY <2>4, <3>2, <4>1 DEF Loose, Marked, Placed, Slots, Rest
    <3>5. FocusedSession(b) \in b.ws \cup b.ds \cup {None}
      <4> DEFINE m == PaneWithId(b, b.active)
      <4>1. CASE m = 0
        BY <4>1 DEF FocusedSession
      <4>2. CASE m # 0
        <5>1. m \in DOMAIN b.panes /\ ~b.panes[m].stale /\ FocusedSession(b) = b.panes[m].session
              /\ b.panes[m].id = b.active
          BY <3>2, <4>2, Found DEF FocusedSession, Fresh
        <5> HIDE DEF m
        <5>2. CASE m = k
          BY <2>2, <3>2, <5>1, <5>2 DEF Rest, Settings
        <5>3. CASE m # k
          <6>1. m \in DOMAIN c.panes /\ b.panes[m] = c.panes[m]
            BY <3>2, <5>1, <5>3 DEF Slots
          <6>2. ~ViewIsStale(c, c.panes[m]) /\ c.panes[m].kind \in {"agent", "daemon", "list", "output"}
            BY <2>2, <2>4, <5>1, <6>1, PanesAre DEF Fine, Exact
          <6>3. c.panes[m].kind = "agent" => c.panes[m].session \in c.ws
            BY <6>2, ViewFresh, SelectionIs
          <6>4. c.panes[m].kind = "daemon" => c.panes[m].session \in c.ds
            BY <6>2, ViewFresh
          <6>5. c.panes[m].kind \in {"list", "output"} => c.panes[m].session = None
            BY <2>2, <6>1 DEF Fine, Whole, Plain
          <6>6. b.ws = c.ws /\ b.ds = c.ds
            BY <3>2 DEF Rest, Settings
          <6>q. QED
            BY <5>1, <6>1, <6>2, <6>3, <6>4, <6>5, <6>6
        <5>q. QED
          BY <5>2, <5>3
      <4>q. QED
        BY <4>1, <4>2
    <3>6. Settings(a, b) /\ Slots(a, b) /\ b.agent \in b.ws \cup {None}
          /\ b.daemon = a.daemon /\ b.place = a.place /\ b.sel = a.sel
      BY <2>2, <3>2 DEF Rest, Settings, Slots
    <3>q. QED
      BY <1>2, <3>2, <3>3, <3>4, <3>5, <3>6 DEF b, Loose, Whole
  <2>q. QED
    BY <2>5, <2>6
<1>q. QED
  BY <1>1, <1>2

LEMMA AdoptSelectionIs ==
  ASSUME NEW a, Loose(a), a.agent \in a.ws \cup {None}, a.daemon \in a.ds \cup {None},
         FocusedSession(a) \in a.ws \cup a.ds \cup {None}
  PROVE  LET b == AdoptSelection(a) IN
         /\ Loose(b) /\ Settings(a, b) /\ b.panes = a.panes /\ b.agent = a.agent
         /\ b.daemon = a.daemon /\ b.place = a.place /\ b.sel \in b.ws \cup b.ds \cup {None}
<1> DEFINE b == AdoptSelection(a)
           s == Either(FocusedSession(a), Either(a.agent, a.daemon))
<1>0. a \in A /\ a.ws \subseteq Sessions /\ a.ds \subseteq Sessions
  BY FieldsAre DEF Loose, Whole
<1>1. s \in a.ws \cup a.ds \cup {None}
  BY DEF Either
<1>2. CASE a.sel \in a.ws
  <2>1. b = a
    BY <1>2 DEF AdoptSelection
  <2> HIDE DEF b
  <2>q. QED
    BY <1>2, <2>1 DEF b, Settings
<1>3. CASE a.sel \notin a.ws
  <2>1. b = [a EXCEPT !.sel = s]
    BY <1>3 DEF AdoptSelection
  <2> HIDE DEF b, s
  <2>2. /\ b \in A /\ b.sel = s /\ Settings(a, b)
        /\ b.panes = a.panes /\ b.active = a.active /\ b.daemon = a.daemon /\ b.place = a.place
        /\ b.agent = a.agent
    BY <1>0, <1>1, <2>1, SetSel
  <2>3. Loose(b)
    BY <2>2, LooseSame DEF Settings
  <2>q. QED
    BY <1>1, <2>2, <2>3 DEF b, Settings
<1>q. QED
  BY <1>2, <1>3

\* A snapshot of a workspace leaves a cockpit in order, and no name that is not listed.
LEMMA ReplaceWorkspaceFine ==
  ASSUME NEW a, Loose(a), NEW found, found \subseteq Sessions, NEW open, open \subseteq Sessions
  PROVE  LET b == ReplaceWorkspace(a, found, open) IN
         /\ Fine(b) /\ Focused(b) /\ Listing(b) /\ Slots(a, b)
         /\ b.mode = "cockpit" /\ b.mine = a.mine /\ b.ws = found
         /\ a.agent \in found => Agents(a, b)
<1> DEFINE a0 == [a EXCEPT !.ws = found, !.open = open]
           a1 == ReplaceDaemons(a0, found \cap Daemons)
           g == First(found \ Daemons)
           a2 == AdoptAgent(a1, g)
           a3 == AdoptSelection(a2)
           a4 == RefreshStaleness(a3)
           b == ReplaceWorkspace(a, found, open)
<1>0. b = FollowFocus(a4)
  BY DEF ReplaceWorkspace
<1>1. /\ a0 \in A /\ a0.ws = found /\ a0.panes = a.panes /\ a0.active = a.active
      /\ a0.agent = a.agent /\ a0.mode = a.mode /\ a0.mine = a.mine
  <2>0. a \in A
    BY DEF Loose, Whole
  <2>1. a0 = [a EXCEPT !.ws = found, !.open = open]
    OBVIOUS
  <2> HIDE DEF a0
  <2>q. QED
    BY <2>0, <2>1 DEF A, App
<1> HIDE DEF a0, b
<1>2. Loose(a0)
  BY <1>1, LooseSame
<1>3. Fine(a1) /\ Focused(a1) /\ Adopted(a0, a1)
  <2>1. found \cap Daemons \subseteq Sessions
    OBVIOUS
  <2>q. QED
    BY <1>2, <2>1, ReplaceDaemonsFine
<1> HIDE DEF a1
<1>4. g \in a1.ws \cup {None} /\ a1.mode = "cockpit"
  <2>1. found \ Daemons \subseteq Sessions /\ a1.ws = found
    BY <1>1, <1>3 DEF Adopted
  <2>q. QED
    BY <1>1, <1>3, <2>1, FirstIsOne DEF Adopted, Loose
<1> HIDE DEF g
<1>5. /\ Loose(a2) /\ Settings(a1, a2) /\ Slots(a1, a2) /\ a2.agent \in a2.ws \cup {None}
      /\ a2.daemon = a1.daemon /\ a2.place = a1.place
      /\ FocusedSession(a2) \in a2.ws \cup a2.ds \cup {None}
      /\ a1.agent \in a1.ws => Agents(a1, a2)
  BY <1>3, <1>4, AdoptAgentIs
<1> HIDE DEF a2
<1>6. a2.daemon \in a2.ds \cup {None}
  BY <1>3, <1>5 DEF Adopted, Settings
<1>7. /\ Loose(a3) /\ Settings(a2, a3) /\ a3.panes = a2.panes /\ a3.agent = a2.agent
      /\ a3.daemon = a2.daemon /\ a3.place = a2.place /\ a3.sel \in a3.ws \cup a3.ds \cup {None}
  BY <1>5, <1>6, AdoptSelectionIs
<1> HIDE DEF a3
<1>8. Fine(a4) /\ Focused(a4) /\ Kept(a3, a4)
  BY <1>7, RefreshFine DEF Loose
<1> HIDE DEF a4
<1>9. Fine(b) /\ Focused(b) /\ Kept(a4, b)
  BY <1>0, <1>8, FollowFocusFine
<1>10. Kept(a3, b)
  BY <1>8, <1>9, KeptOn
<1>11. Slots(a, b)
  BY <1>1, <1>3, <1>5, <1>7, <1>10 DEF Adopted, Slots, Kept
<1>12. b.mode = "cockpit" /\ b.mine = a.mine /\ b.ws = found
  BY <1>1, <1>3, <1>4, <1>5, <1>7, <1>10 DEF Adopted, Kept, Settings
<1>13. ASSUME a.agent \in found PROVE Agents(a, b)
  <2>1. Agents(a0, a1) /\ Agents(a1, a2) /\ Slots(a0, a1) /\ Slots(a1, a2)
    BY <1>1, <1>3, <1>5, <1>13 DEF Adopted
  <2>q. QED
    BY <1>1, <1>7, <1>10, <2>1 DEF Agents, Slots, Kept
<1>14. Listing(b)
  <2>1. a3.daemon \in a3.ds \cup {None} /\ a3.agent \in a3.ws \cup {None} /\ (a3.place = None => a3.ds = {})
    BY <1>3, <1>5, <1>7 DEF Adopted, Settings
  <2>2. b.ws = a3.ws /\ b.ds = a3.ds /\ b.agent = a3.agent /\ Names(a3, b)
    BY <1>10 DEF Kept, Settings
  <2>3. b.place = None => b.ds = {}
    BY <2>1, <2>2, PlaceAssumption DEF Names
  <2>q. QED
    BY <1>7, <2>1, <2>2, <2>3 DEF Names, Listing
<1>q. QED
  BY <1>9, <1>11, <1>12, <1>13, <1>14 DEF b

\* The names stay listed when the lists stay.
LEMMA ListingKept ==
  ASSUME NEW a, Listing(a), NEW b, Settings(a, b), Names(a, b), b.agent \in {a.agent} \cup a.ws
  PROVE  Listing(b)
  BY PlaceAssumption DEF Listing, Settings, Names

-----------------------------------------------------------------------------
\* The context that is published, and a model restored from one.

Spare(c) == \A i \in DOMAIN c.panes : c.panes[i].kind \in {"list", "output"} => c.panes[i].session = None
Sound(c) ==
  /\ c \in Context /\ Spare(c)
  /\ \A i, j \in DOMAIN c.panes : c.panes[i].id = c.panes[j].id => i = j

LEMMA UiContextSound ==
  ASSUME NEW a, Fine(a)
  PROVE  /\ Sound(UiContext(a))
         /\ DOMAIN UiContext(a).panes = DOMAIN a.panes
         /\ \A i \in DOMAIN a.panes : UiContext(a).panes[i].id = a.panes[i].id
<1> DEFINE X(i) ==
      [id |-> a.panes[i].id, kind |-> a.panes[i].kind, session |-> a.panes[i].session,
       stale |-> a.panes[i].stale, focused |-> a.panes[i].id = a.active,
       live |-> a.panes[i].kind = "agent" => a.follow,
       readonly |-> a.panes[i].kind = "agent" /\ ~a.mine, overlay |-> OverlayOwnsInput(a)]
           P == [i \in DOMAIN a.panes |-> X(i)]
           c == UiContext(a)
           kind == IF ActiveIndex(a) = 0 THEN "none" ELSE a.panes[ActiveIndex(a)].kind
<1>0. a \in A
  BY DEF Fine, Whole
<1>1. ASSUME NEW i \in DOMAIN a.panes
      PROVE  /\ X(i) \in PaneContext /\ X(i).id = a.panes[i].id /\ X(i).kind = a.panes[i].kind
             /\ X(i).session = a.panes[i].session
  <2>1. /\ a.panes[i].id \in Ids /\ a.panes[i].kind \in {"agent", "daemon", "list", "output"}
        /\ a.panes[i].session \in Sessions \cup {None} /\ a.panes[i].stale \in BOOLEAN
    BY <1>0, PanesAre
  <2>2. /\ (a.panes[i].kind = "agent" => a.follow) \in BOOLEAN
        /\ (a.panes[i].kind = "agent" /\ ~a.mine) \in BOOLEAN
        /\ OverlayOwnsInput(a) \in BOOLEAN
    BY DEF OverlayOwnsInput
  <2>q. QED
    BY <2>1, <2>2 DEF PaneContext
<1>2. P \in Seq(PaneContext) /\ DOMAIN P = DOMAIN a.panes /\ \A i \in DOMAIN a.panes : P[i] = X(i)
  <2>1. PICK n \in Nat : DOMAIN a.panes = 1 .. n
    BY <1>0, PanesAre
  <2>2. P \in [1 .. n -> PaneContext]
    BY <1>1, <2>1
  <2>q. QED
    BY <2>1, <2>2
<1>3. kind \in {"none", "agent", "daemon", "list", "output"}
  <2>1. ActiveIndex(a) \in DOMAIN a.panes \cup {0}
    <3>1. PICK n \in Nat : DOMAIN a.panes = 1 .. n
      BY <1>0, PanesAre
    <3> DEFINE I == {i \in DOMAIN a.panes : a.panes[i].id = a.active}
    <3>2. I \subseteq 1 .. n /\ I \subseteq DOMAIN a.panes /\ ActiveIndex(a) = FirstIn(I)
      BY <3>1 DEF ActiveIndex
    <3> HIDE DEF I
    <3>3. FirstIn(I) \in I \cup {0}
      BY <3>1, <3>2, FirstInIs
    <3>q. QED
      BY <3>2, <3>3
  <2>q. QED
    BY <1>0, <2>1, PanesAre
<1>4. /\ a.active \in Ids \cup {None} /\ a.sel \in Sessions \cup {None}
      /\ FocusedSession(a) \in Sessions \cup {None}
      /\ a.daemon \in Sessions \cup {None} /\ a.agent \in Sessions \cup {None} /\ a.ws \in SUBSET Sessions
  BY <1>0, FieldsAre, FocusedIsListed
<1>5. c = [panes |-> P, active |-> a.active, sel |-> a.sel, focused |-> FocusedSession(a),
           kind |-> kind, daemon |-> a.daemon, agent |-> a.agent, managed |-> a.ws]
  BY DEF UiContext
<1> HIDE DEF P, kind, c
<1>6. c \in Context /\ c.panes = P
  BY <1>2, <1>3, <1>4, <1>5 DEF Context
<1>7. \A i \in DOMAIN a.panes :
        P[i].id = a.panes[i].id /\ P[i].kind = a.panes[i].kind /\ P[i].session = a.panes[i].session
  BY <1>1, <1>2
<1> HIDE DEF X
<1>8. Spare(c) /\ \A i, j \in DOMAIN c.panes : c.panes[i].id = c.panes[j].id => i = j
  BY <1>2, <1>6, <1>7 DEF Fine, Whole, Plain, Unique, Spare
<1>q. QED
  BY <1>2, <1>6, <1>7, <1>8 DEF c, Sound

\* A change of what is neither a pane nor a name nor a list.
Same(a, b) == b \in A /\ Rest(a, b) /\ b.panes = a.panes

LEMMA SameFine ==
  ASSUME NEW a, Fine(a), NEW b, Same(a, b)
  PROVE  Fine(b) /\ (Focused(a) => Focused(b)) /\ Kept(a, b)
<1>1. Settings(a, b) /\ Slots(a, b) /\ Agents(a, b) /\ Names(a, b)
  BY DEF Same, Rest, Slots, Agents, Names
<1>2. Whole(b) /\ Exact(b) /\ Fresh(b) = Fresh(a)
  BY <1>1, WholeSame DEF Fine, Same
<1>3. Focused(a) => Focused(b)
  BY <1>2 DEF Focused, Marked, Seated, Same, Rest
<1>q. QED
  BY <1>1, <1>2, <1>3 DEF Fine, Kept, Same, Rest

LEMMA FocusIdFine ==
  ASSUME NEW a, Fine(a), NEW id
  PROVE  LET b == FocusId(a, id) IN Fine(b) /\ Focused(b) /\ Kept(a, b)
<1>1. CASE PaneWithId(a, id) # 0
  <2>1. PaneWithId(a, id) \in Fresh(a)
    BY <1>1, Found DEF Fine, Whole
  <2>q. QED
    BY <1>1, <2>1, FocusPaneFine DEF FocusId, FocusOrFallback
<1>2. CASE PaneWithId(a, id) = 0
  BY <1>2, SafeFallbackFine DEF FocusId, FocusOrFallback
<1>q. QED
  BY <1>1, <1>2

PaneIds(a) == {a.panes[i].id : i \in DOMAIN a.panes}
Apart(a, c) == PaneIds(a) \cap PaneIds(c) = {}

LEMMA SavedPanesFine ==
  ASSUME NEW a, Fine(a), a.mode = "cockpit", NEW c, Sound(c)
  PROVE  LET b == SavedPanes(a, c) IN
         /\ Fine(b) /\ b.active = None /\ Settings(a, b) /\ b.sel = a.sel
         /\ b.daemon = a.daemon /\ b.place = a.place /\ b.agent = a.agent
         /\ DOMAIN b.panes = DOMAIN c.panes /\ \A i \in DOMAIN c.panes : b.panes[i].id = c.panes[i].id
<1> DEFINE X(p) == [id |-> p.id, kind |-> p.kind, session |-> p.session, focused |-> FALSE,
                    stale |-> ViewIsStale(a, p)]
           P == [i \in DOMAIN c.panes |-> X(c.panes[i])]
           b == SavedPanes(a, c)
<1>0. a \in A /\ c.panes \in Seq(PaneContext)
  BY DEF Fine, Whole, Sound, Context
<1>1. ASSUME NEW i \in DOMAIN c.panes
      PROVE  /\ X(c.panes[i]) \in Pane(Ids)
             /\ X(c.panes[i]).id = c.panes[i].id /\ X(c.panes[i]).kind = c.panes[i].kind
             /\ X(c.panes[i]).session = c.panes[i].session
             /\ X(c.panes[i]).stale = ViewIsStale(a, c.panes[i])
  <2>1. c.panes[i] \in PaneContext
    BY <1>0
  <2>2. ViewIsStale(a, c.panes[i]) \in BOOLEAN
    BY ViewFresh
  <2>q. QED
    BY <2>1, <2>2 DEF PaneContext, Pane
<1>2. DOMAIN P = DOMAIN c.panes /\ \A i \in DOMAIN c.panes : P[i] = X(c.panes[i])
  OBVIOUS
<1>3. P \in Seq(Pane(Ids))
  <2>1. PICK n \in Nat : DOMAIN c.panes = 1 .. n
    BY <1>0
  <2>2. P \in [1 .. n -> Pane(Ids)]
    BY <1>1, <2>1
  <2>q. QED
    BY <2>2
<1>4. b = [[a EXCEPT !.active = None] EXCEPT !.panes = P]
  BY DEF SavedPanes
<1> DEFINE d == [a EXCEPT !.active = None]
<1>5. /\ d \in A /\ d.active = None /\ Settings(a, d)
      /\ d.panes = a.panes /\ d.sel = a.sel /\ d.daemon = a.daemon /\ d.place = a.place
      /\ d.agent = a.agent
  BY <1>0, SetActive
<1>6. b = [d EXCEPT !.panes = P]
  BY <1>4
<1> HIDE DEF d, P, b
<1>7. /\ b \in A /\ b.panes = P /\ Settings(d, b)
      /\ b.active = d.active /\ b.sel = d.sel /\ b.daemon = d.daemon /\ b.place = d.place
      /\ b.agent = d.agent
  BY <1>3, <1>5, <1>6, SetPanes
<1>8. Settings(a, b)
  BY <1>5, <1>7 DEF Settings
<1>9. \A i \in DOMAIN c.panes :
        /\ b.panes[i].id = c.panes[i].id /\ b.panes[i].kind = c.panes[i].kind
        /\ b.panes[i].session = c.panes[i].session
        /\ b.panes[i].stale = ViewIsStale(a, c.panes[i])
  BY <1>1, <1>2, <1>7
<1> HIDE DEF X
<1>10. DOMAIN b.panes = DOMAIN c.panes
  BY <1>2, <1>7
<1>11. Plain(b) /\ Unique(b) /\ Monitored(b)
  BY <1>8, <1>9, <1>10 DEF Sound, Spare, Plain, Unique, Monitored, Settings
<1>12. Exact(b)
  <2>1. ASSUME NEW i \in DOMAIN b.panes PROVE b.panes[i].stale = ViewIsStale(b, b.panes[i])
    <3>1. ViewIsStale(b, b.panes[i]) = ViewIsStale(a, c.panes[i])
      BY <1>8, <1>9, <1>10, ViewSame
    <3>q. QED
      BY <1>9, <1>10, <3>1
  <2>q. QED
    BY <2>1 DEF Exact
<1>q. QED
  BY <1>5, <1>7, <1>8, <1>9, <1>10, <1>11, <1>12 DEF Fine, Whole, b

\* One of the new panes is added; its id is none of the saved ones.
LEMMA WithOneOfFine ==
  ASSUME NEW a, Fine(a), NEW b, Fine(b), b.mode = "cockpit", b.active = None, Settings(a, b),
         PaneIds(a) \cap PaneIds(b) = {}
  PROVE  LET d == WithOneOf(b, a) IN
         /\ Fine(d) /\ d.active = None /\ Settings(b, d) /\ d.sel = b.sel
         /\ d.daemon = b.daemon /\ d.place = b.place /\ d.agent = b.agent
         /\ PaneIds(d) \subseteq PaneIds(a) \cup PaneIds(b)
<1> DEFINE found == {i \in DOMAIN a.panes : ~ViewIsStale(b, a.panes[i])}
           q == [a.panes[Min(found)] EXCEPT !.focused = FALSE]
           d == WithOneOf(b, a)
<1>0. a \in A /\ b \in A
  BY DEF Fine, Whole
<1>1. CASE ~(Focusable(b) = {} /\ found # {})
  <2>1. d = b
    BY <1>1 DEF WithOneOf
  <2> HIDE DEF d
  <2>q. QED
    BY <2>1 DEF d, Settings
<1>2. CASE Focusable(b) = {} /\ found # {}
  <2>1. d = [b EXCEPT !.panes = Append(b.panes, q)]
    BY <1>2 DEF WithOneOf
  <2>2. Min(found) \in found
    <3>1. PICK n \in Nat : DOMAIN a.panes = 1 .. n
      BY <1>0, PanesAre
    <3>2. found \subseteq Nat
      BY <3>1
    <3> HIDE DEF found
    <3>q. QED
      BY <1>2, <3>2, Smallest
  <2> DEFINE m == Min(found)
  <2>3. m \in DOMAIN a.panes /\ ~ViewIsStale(b, a.panes[m]) /\ q = [a.panes[m] EXCEPT !.focused = FALSE]
    BY <2>2
  <2> HIDE DEF found, m
  <2>4. /\ q \in Pane(Ids) /\ q.id = a.panes[m].id /\ q.kind = a.panes[m].kind
        /\ q.session = a.panes[m].session /\ q.stale = a.panes[m].stale
    <3>1. a.panes[m] \in Pane(Ids)
      BY <1>0, <2>3, PanesAre
    <3>q. QED
      BY <2>3, <3>1 DEF Pane
  <2>5. a.panes[m].stale = FALSE
    <3>1. ViewIsStale(b, a.panes[m]) = ViewIsStale(a, a.panes[m])
      BY ViewSame
    <3>q. QED
      BY <2>3, <3>1 DEF Fine, Exact
  <2> DEFINE P == Append(b.panes, q)
  <2> HIDE DEF q
  <2>6. PICK n \in Nat : DOMAIN b.panes = 1 .. n
    BY <1>0, PanesAre
  <2>7. /\ P \in Seq(Pane(Ids)) /\ DOMAIN P = 1 .. n + 1 /\ P[n + 1] = q
        /\ \A i \in 1 .. n : P[i] = b.panes[i]
    <3>1. b.panes \in Seq(Pane(Ids)) /\ Len(b.panes) = n
      BY <1>0, <2>6, PanesAre
    <3>q. QED
      BY <2>4, <3>1
  <2> HIDE DEF P
  <2>8. /\ d \in A /\ d.panes = P /\ Settings(b, d)
        /\ d.active = b.active /\ d.sel = b.sel /\ d.daemon = b.daemon /\ d.place = b.place
        /\ d.agent = b.agent
    <3>1. d = [b EXCEPT !.panes = P]
      BY <2>1 DEF P
    <3> HIDE DEF d
    <3>q. QED
      BY <1>0, <2>7, <3>1, SetPanes
  <2> HIDE DEF d
  <2>9. \A i \in DOMAIN d.panes : (i \in DOMAIN b.panes /\ d.panes[i] = b.panes[i]) \/ (i = n + 1 /\ d.panes[i] = q)
    BY <2>6, <2>7, <2>8
  <2>10. Plain(d) /\ Monitored(d)
    <3>1. q.kind \in {"list", "output"} => q.session = None
      BY <2>3, <2>4 DEF Fine, Whole, Plain
    <3>q. QED
      BY <2>8, <2>9, <3>1 DEF Fine, Whole, Plain, Monitored, Settings
  <2>11. Unique(d)
    <3>1. \A i \in DOMAIN b.panes : b.panes[i].id # q.id
      BY <2>3, <2>4 DEF PaneIds
    <3>q. QED
      BY <2>9, <3>1 DEF Fine, Whole, Unique
  <2>12. Exact(d)
    <3>1. ASSUME NEW i \in DOMAIN d.panes PROVE d.panes[i].stale = ViewIsStale(d, d.panes[i])
      <4>1. ViewIsStale(d, d.panes[i]) = ViewIsStale(b, d.panes[i])
        BY <2>8, ViewSame
      <4>2. CASE i \in DOMAIN b.panes /\ d.panes[i] = b.panes[i]
        BY <4>1, <4>2 DEF Fine, Exact
      <4>3. CASE d.panes[i] = q
        <5>1. ViewIsStale(b, q) = ViewIsStale(b, a.panes[m])
          BY <2>4, ViewSame DEF Settings
        <5>2. ViewIsStale(b, a.panes[m]) = FALSE
          BY <2>3, ViewFresh
        <5>q. QED
          BY <2>4, <2>5, <4>1, <4>3, <5>1, <5>2
      <4>q. QED
        BY <2>9, <4>2, <4>3
    <3>q. QED
      BY <3>1 DEF Exact
  <2>13. PaneIds(d) \subseteq PaneIds(a) \cup PaneIds(b)
    BY <2>3, <2>4, <2>9 DEF PaneIds
  <2>q. QED
    BY <2>8, <2>10, <2>11, <2>12, <2>13 DEF d, Fine, Whole
<1>q. QED
  BY <1>1, <1>2

\* What restoring a context leaves alone; the panes are others.
Restored(a, b) == Settings(a, b) /\ Names(a, b) /\ b.agent \in {a.agent} \cup a.ws

LEMMA RestoredOn == ASSUME NEW a, NEW b, NEW c, Restored(a, b), Restored(b, c) PROVE Restored(a, c)
<1>1. Settings(a, c) /\ c.agent \in {a.agent} \cup a.ws
  BY DEF Restored, Settings
<1>2. Names(a, c)
  BY DEF Restored, Settings, Names
<1>q. QED
  BY <1>1, <1>2 DEF Restored

LEMMA KeptRestored ==
  ASSUME NEW a, NEW b, Kept(a, b) PROVE Restored(a, b) /\ PaneIds(b) = PaneIds(a)
<1>1. Restored(a, b)
  BY DEF Kept, Restored
<1>2. PaneIds(b) = PaneIds(a)
  BY DEF Kept, Slots, PaneIds
<1>q. QED
  BY <1>1, <1>2

\* One step of the restoration.
Steady(a, b) == Fine(b) /\ Focused(b) /\ Restored(a, b) /\ PaneIds(b) = PaneIds(a)

LEMMA SteadyOn == ASSUME NEW a, NEW b, NEW c, Steady(a, b), Steady(b, c) PROVE Steady(a, c)
  BY RestoredOn DEF Steady

LEMMA KeptSteady == ASSUME NEW a, NEW b, Kept(a, b), Fine(b), Focused(b) PROVE Steady(a, b)
  BY KeptRestored DEF Steady

LEMMA RestorePanesFine ==
  ASSUME NEW a, Fine(a), Focused(a), a.mode = "cockpit", NEW c, Sound(c), Apart(a, c)
  PROVE  LET b == RestorePanes(a, c) IN
         /\ Fine(b) /\ Focused(b) /\ Restored(a, b) /\ PaneIds(b) \subseteq PaneIds(a) \cup PaneIds(c)
<1> DEFINE b == RestorePanes(a, c)
           p == SavedPanes(a, c)
           w == WithOneOf(p, a)
<1>1. CASE c.panes = <<>>
  <2>1. b = a
    BY <1>1 DEF RestorePanes
  <2> HIDE DEF b
  <2>q. QED
    BY <2>1, KeptSelf, KeptRestored DEF b
<1>2. CASE c.panes # <<>>
  <2>1. b = FocusId(w, c.active)
    BY <1>2 DEF RestorePanes
  <2> HIDE DEF b
  <2>2. /\ Fine(p) /\ p.active = None /\ Settings(a, p) /\ p.sel = a.sel
        /\ p.daemon = a.daemon /\ p.place = a.place /\ p.agent = a.agent
        /\ DOMAIN p.panes = DOMAIN c.panes /\ \A i \in DOMAIN c.panes : p.panes[i].id = c.panes[i].id
    BY SavedPanesFine
  <2> HIDE DEF p
  <2>3. PaneIds(p) = PaneIds(c) /\ p.mode = "cockpit"
    BY <2>2 DEF PaneIds, Settings
  <2>4. /\ Fine(w) /\ w.active = None /\ Settings(p, w) /\ w.sel = p.sel
        /\ w.daemon = p.daemon /\ w.place = p.place /\ w.agent = p.agent
        /\ PaneIds(w) \subseteq PaneIds(a) \cup PaneIds(p)
    BY <2>2, <2>3, WithOneOfFine DEF Apart
  <2> HIDE DEF w
  <2>5. Fine(b) /\ Focused(b) /\ Kept(w, b)
    BY <2>1, <2>4, FocusIdFine
  <2>6. Restored(a, w)
    BY <2>2, <2>4 DEF Restored, Names, Settings
  <2>7. Restored(w, b) /\ PaneIds(b) = PaneIds(w)
    BY <2>5, KeptRestored
  <2>q. QED
    BY <2>3, <2>4, <2>5, <2>6, <2>7, RestoredOn DEF b
<1>q. QED
  BY <1>1, <1>2

LEMMA RestoreDaemonFine ==
  ASSUME NEW a, Fine(a), Focused(a), NEW d PROVE Steady(a, RestoreDaemon(a, d))
<1>1. CASE d \in a.ds
  BY <1>1, SelectDaemonFine, KeptSteady DEF RestoreDaemon, Fine, Focused
<1>2. CASE d \notin a.ds
  BY <1>2, KeptSelf, KeptSteady DEF RestoreDaemon
<1>q. QED
  BY <1>1, <1>2

LEMMA RestoreAgentFine ==
  ASSUME NEW a, Fine(a), Focused(a), NEW g PROVE Steady(a, RestoreAgent(a, g))
<1>1. CASE Selection(a, g) = "attach"
  <2> DEFINE b == [a EXCEPT !.agent = g]
  <2>1. g \in a.ws /\ g \in Sessions
    BY <1>1, SelectionIs, FieldsAre DEF Fine, Whole
  <2>2. /\ Fine(b) /\ Focused(b)
        /\ b.agent = g /\ b.panes = a.panes /\ Settings(a, b)
        /\ b.daemon = a.daemon /\ b.place = a.place /\ b.sel = a.sel
    BY <2>1, AgentFine
  <2>3. RestoreAgent(a, g) = b
    BY <1>1 DEF RestoreAgent
  <2> HIDE DEF b
  <2>q. QED
    BY <2>1, <2>2, <2>3 DEF Steady, Restored, Names, PaneIds
<1>2. CASE Selection(a, g) # "attach"
  BY <1>2, KeptSelf, KeptSteady DEF RestoreAgent
<1>q. QED
  BY <1>1, <1>2

LEMMA RestoreSelectionFine ==
  ASSUME NEW a, Fine(a), Focused(a), NEW s PROVE Steady(a, RestoreSelection(a, s))
<1>1. CASE s \in a.ws
  <2> DEFINE b == [a EXCEPT !.sel = s]
  <2>1. s \in Sessions
    BY <1>1, FieldsAre DEF Fine, Whole
  <2>2. /\ Fine(b) /\ Focused(b)
        /\ b.sel = s /\ b.panes = a.panes /\ Settings(a, b)
        /\ b.daemon = a.daemon /\ b.place = a.place /\ b.agent = a.agent
    BY <2>1, SelFine
  <2>3. RestoreSelection(a, s) = b
    BY <1>1 DEF RestoreSelection
  <2> HIDE DEF b
  <2>q. QED
    BY <1>1, <2>2, <2>3 DEF Steady, Restored, Names, PaneIds
<1>2. CASE s \notin a.ws
  BY <1>2, KeptSelf, KeptSteady DEF RestoreSelection
<1>q. QED
  BY <1>1, <1>2

LEMMA LegacyAgentFine ==
  ASSUME NEW a, Fine(a), Focused(a), NEW g PROVE Steady(a, LegacyAgent(a, g))
<1>1. CASE Selection(a, g) = "attach"
  <2> DEFINE c == [a EXCEPT !.agent = g]
             d == BindAndFocus(c, TargetPane(a, "agent"), g)
             b == [d EXCEPT !.sel = g]
  <2>1. g \in a.ws /\ g \in Sessions
    BY <1>1, SelectionIs, FieldsAre DEF Fine, Whole
  <2>2. LegacyAgent(a, g) = b
    BY <1>1 DEF LegacyAgent
  <2>3. /\ Fine(c) /\ Focused(c)
        /\ c.agent = g /\ c.panes = a.panes /\ Settings(a, c) /\ c.active = a.active
        /\ c.daemon = a.daemon /\ c.place = a.place /\ c.sel = a.sel
    BY <2>1, AgentFine
  <2> HIDE DEF c
  <2>4. Selection(c, g) = "attach" /\ TargetPane(c, "agent") = TargetPane(a, "agent")
    BY <1>1, <2>3, TargetSame DEF Selection, Settings
  <2>5. Fine(d) /\ Focused(d) /\ Settings(c, d) /\ d.agent = g /\ Slots(c, d) /\ Names(c, d)
    BY <2>3, <2>4, BindAgentFine
  <2> HIDE DEF d
  <2>6. /\ Fine(b) /\ Focused(b) /\ b.sel = g /\ b.panes = d.panes /\ Settings(d, b)
        /\ b.daemon = d.daemon /\ b.place = d.place /\ b.agent = d.agent
    BY <2>1, <2>5, SelFine
  <2> HIDE DEF b
  <2>7. Restored(a, b)
    BY <2>1, <2>3, <2>5, <2>6 DEF Restored, Names, Settings
  <2>8. PaneIds(b) = PaneIds(a)
    BY <2>3, <2>5, <2>6 DEF PaneIds, Slots
  <2>q. QED
    BY <2>2, <2>6, <2>7, <2>8 DEF Steady
<1>2. CASE Selection(a, g) # "attach"
  BY <1>2, KeptSelf, KeptSteady DEF LegacyAgent
<1>q. QED
  BY <1>1, <1>2

LEMMA RestoreLegacyFine ==
  ASSUME NEW a, Fine(a), Focused(a), NEW c PROVE Steady(a, RestoreLegacyFocus(a, c))
<1>1. CASE c.kind = "daemon"
  <2> DEFINE b == LegacyDaemon(a, Either(c.focused, c.daemon))
  <2>1. Steady(a, b)
    BY RestoreDaemonFine DEF LegacyDaemon, RestoreDaemon
  <2>2. RestoreLegacyFocus(a, c) = FocusDaemon(b, None)
    BY <1>1 DEF RestoreLegacyFocus
  <2> HIDE DEF b
  <2>3. Steady(b, FocusDaemon(b, None))
    BY <2>1, FocusDaemonFine, KeptSteady DEF Steady
  <2>q. QED
    BY <2>1, <2>2, <2>3, SteadyOn
<1>2. CASE c.kind = "agent"
  BY <1>2, LegacyAgentFine DEF RestoreLegacyFocus
<1>3. CASE c.kind # "daemon" /\ c.kind # "agent"
  BY <1>3, SafeFallbackFine, KeptSteady DEF RestoreLegacyFocus
<1>q. QED
  BY <1>1, <1>2, <1>3

LEMMA RestoreFollowFine ==
  ASSUME NEW a, Fine(a), Focused(a), NEW c, Sound(c) PROVE Steady(a, RestoreFollow(a, c))
<1> DEFINE I == {i \in DOMAIN c.panes : c.panes[i].kind = "agent" /\ c.panes[i].id = a.active}
           at == FirstIn(I)
<1>0. c.panes \in Seq(PaneContext)
  BY DEF Sound, Context
<1>1. RestoreFollow(a, c) = IF at = 0 THEN a ELSE [a EXCEPT !.follow = c.panes[at].live]
  BY DEF RestoreFollow
<1>2. CASE at = 0
  BY <1>1, <1>2, KeptSelf, KeptSteady
<1>3. CASE at # 0
  <2>1. PICK n \in Nat : DOMAIN c.panes = 1 .. n
    BY <1>0
  <2>2. I \subseteq 1 .. n /\ I \subseteq DOMAIN c.panes
    BY <2>1
  <2>3. at \in DOMAIN c.panes
    <3> HIDE DEF I
    <3>1. FirstIn(I) \in I \cup {0}
      BY <2>1, <2>2, FirstInIs
    <3>q. QED
      BY <1>3, <2>2, <3>1
  <2> HIDE DEF at
  <2>4. c.panes[at].live \in BOOLEAN
    <3>1. c.panes[at] \in PaneContext
      BY <1>0, <2>3
    <3>q. QED
      BY <3>1 DEF PaneContext
  <2> DEFINE l == c.panes[at].live
             b == [a EXCEPT !.follow = l]
  <2> HIDE DEF l
  <2>5. Same(a, b)
    BY <2>4 DEF l, Fine, Whole, A, App, Same, Rest, Settings
  <2> HIDE DEF b
  <2>6. Fine(b) /\ Focused(b) /\ Kept(a, b)
    BY <2>5, SameFine
  <2>q. QED
    BY <1>1, <1>3, <2>6, KeptSteady DEF b, l
<1>q. QED
  BY <1>2, <1>3

LEMMA RestoreFocusFine ==
  ASSUME NEW a, Fine(a), Focused(a), NEW c, Sound(c) PROVE Steady(a, RestoreFocus(a, c))
<1>1. CASE c.panes = <<>> /\ PaneWithId(a, c.active) = 0
  BY <1>1, RestoreLegacyFine DEF RestoreFocus
<1>2. CASE ~(c.panes = <<>> /\ PaneWithId(a, c.active) = 0)
  <2> DEFINE b == FocusId(a, c.active)
  <2>1. Steady(a, b)
    BY FocusIdFine, KeptSteady
  <2>2. RestoreFocus(a, c) = RestoreFollow(b, c)
    BY <1>2 DEF RestoreFocus
  <2> HIDE DEF b
  <2>3. Steady(b, RestoreFollow(b, c))
    BY <2>1, RestoreFollowFine DEF Steady
  <2>q. QED
    BY <2>1, <2>2, <2>3, SteadyOn
<1>q. QED
  BY <1>1, <1>2

\* A cockpit restored from a saved context is in order, whatever the context names.
LEMMA RestoreContextFine ==
  ASSUME NEW a, Fine(a), Focused(a), Listing(a), a.mode = "cockpit", NEW c, Sound(c), Apart(a, c)
  PROVE  LET b == RestoreContext(a, c) IN
         /\ Fine(b) /\ Focused(b) /\ Listing(b) /\ b.mode = "cockpit"
         /\ PaneIds(b) \subseteq PaneIds(a) \cup PaneIds(c)
<1> DEFINE p == RestorePanes(a, c)
           d == RestoreDaemon(p, c.daemon)
           g == RestoreAgent(d, c.agent)
           s == RestoreSelection(g, Either(c.sel, Either(c.focused, Either(c.agent, c.daemon))))
           b == RestoreContext(a, c)
<1>0. b = RestoreFocus(s, c)
  BY DEF RestoreContext
<1> HIDE DEF b
<1>1. /\ Fine(p) /\ Focused(p) /\ Restored(a, p) /\ PaneIds(p) \subseteq PaneIds(a) \cup PaneIds(c)
  BY RestorePanesFine
<1> HIDE DEF p
<1>2. Steady(p, d)
  BY <1>1, RestoreDaemonFine
<1> HIDE DEF d
<1>3. Steady(d, g)
  BY <1>2, RestoreAgentFine DEF Steady
<1> HIDE DEF g
<1>4. Steady(g, s)
  BY <1>3, RestoreSelectionFine DEF Steady
<1> HIDE DEF s
<1>5. Steady(s, b)
  BY <1>0, <1>4, RestoreFocusFine DEF Steady
<1>6. Steady(p, b)
  BY <1>2, <1>3, <1>4, <1>5, SteadyOn
<1>7. Restored(a, b)
  BY <1>1, <1>6, RestoredOn DEF Steady
<1>8. Listing(b) /\ b.mode = "cockpit"
  BY <1>7, ListingKept DEF Restored, Settings
<1>q. QED
  BY <1>1, <1>6, <1>8 DEF b, Steady


-----------------------------------------------------------------------------
\* The interfaces when they are opened.

\* The four names of the panes of one run.
LEMMA RunIds ==
  ASSUME NEW run \in 1 .. MaxLaunches
  PROVE  /\ \A k \in 1 .. 4 : <<run, k>> \in Ids /\ <<run, k>>[1] = run
         /\ \A k, l \in 1 .. 4 : <<run, k>> = <<run, l>> => k = l
  BY IdsAssumption

LEMMA CockpitAppLoose ==
  ASSUME NEW run \in 1 .. MaxLaunches, NEW agent \in Sessions,
         NEW daemons, daemons \subseteq Sessions, NEW selected \in daemons
  PROVE  LET a == CockpitApp(run, agent, daemons, selected) IN
         /\ Loose(a) /\ \A id \in PaneIds(a) : id[1] = run
<1> DEFINE P == <<NewPane(<<run, 1>>, "agent", agent, TRUE), NewPane(<<run, 2>>, "daemon", selected, FALSE),
                  NewPane(<<run, 3>>, "list", None, FALSE), NewPane(<<run, 4>>, "output", None, FALSE)>>
           a == CockpitApp(run, agent, daemons, selected)
<1>0. None \notin Sessions /\ selected \in Sessions
  BY OrderAssumption
<1>1. \A k \in 1 .. 4 : <<run, k>> \in Ids
  BY RunIds
<1>2. /\ P[1] \in Pane(Ids) /\ P[1].id = <<run, 1>> /\ P[1].kind = "agent" /\ P[1].focused = TRUE
      /\ P[2] \in Pane(Ids) /\ P[2].id = <<run, 2>> /\ P[2].kind = "daemon" /\ P[2].focused = FALSE
      /\ P[3] \in Pane(Ids) /\ P[3].id = <<run, 3>> /\ P[3].session = None /\ P[3].focused = FALSE
      /\ P[4] \in Pane(Ids) /\ P[4].id = <<run, 4>> /\ P[4].session = None /\ P[4].focused = FALSE
  <2> DEFINE q1 == NewPane(<<run, 1>>, "agent", agent, TRUE)
             q2 == NewPane(<<run, 2>>, "daemon", selected, FALSE)
             q3 == NewPane(<<run, 3>>, "list", None, FALSE)
             q4 == NewPane(<<run, 4>>, "output", None, FALSE)
  <2>0. <<run, 1>> \in Ids /\ <<run, 2>> \in Ids /\ <<run, 3>> \in Ids /\ <<run, 4>> \in Ids
    BY IdsAssumption
  <2>1. q1 \in Pane(Ids) /\ q1.id = <<run, 1>> /\ q1.kind = "agent" /\ q1.focused = TRUE
    BY <2>0 DEF NewPane, Pane
  <2>2. q2 \in Pane(Ids) /\ q2.id = <<run, 2>> /\ q2.kind = "daemon" /\ q2.focused = FALSE
    BY <1>0, <2>0 DEF NewPane, Pane
  <2>3. q3 \in Pane(Ids) /\ q3.id = <<run, 3>> /\ q3.session = None /\ q3.focused = FALSE
    BY <2>0 DEF NewPane, Pane
  <2>4. q4 \in Pane(Ids) /\ q4.id = <<run, 4>> /\ q4.session = None /\ q4.focused = FALSE
    BY <2>0 DEF NewPane, Pane
  <2>5. P = <<q1, q2, q3, q4>>
    OBVIOUS
  <2> HIDE DEF q1, q2, q3, q4, P
  <2>q. QED
    BY <2>1, <2>2, <2>3, <2>4, <2>5
<1>3. DOMAIN P = 1 .. 4
  OBVIOUS
<1>4. a = NewApp("cockpit", run, daemons \cup {agent}, {agent}, daemons, selected, agent, P)
  BY DEF CockpitApp
<1> HIDE DEF P, a
<1>5. P \in Seq(Pane(Ids))
  <2>1. \A i \in 1 .. 4 : P[i] \in Pane(Ids)
    <3>1. \A i \in 1 .. 4 : i = 1 \/ i = 2 \/ i = 3 \/ i = 4
      OBVIOUS
    <3>q. QED
      BY <1>2, <3>1
  <2>2. P = [i \in 1 .. 4 |-> P[i]]
    BY <1>3 DEF P
  <2>q. QED
    BY <2>1, <2>2
<1>6. a \in A /\ a.mode = "cockpit" /\ a.panes = P /\ a.active = <<run, 1>>
  <2> DEFINE sel == Either(agent, selected)
             place == Place[selected]
             id == <<run, 1>>
             mine == agent # None
             ws == daemons \cup {agent}
  <2>1. /\ sel \in Sessions \cup {None} /\ place \in Workspaces \cup {None} /\ mine \in BOOLEAN
        /\ ws \subseteq Sessions
    BY <1>0 DEF Either, Workspaces
  <2>2. id \in Ids \cup {None} /\ id = <<run, 1>>
    BY IdsAssumption
  <2>3. a = [mode |-> "cockpit", ws |-> ws, open |-> {agent}, ds |-> daemons, place |-> place, panes |-> P,
             active |-> id, sel |-> sel, daemon |-> selected, agent |-> agent,
             mine |-> mine, follow |-> TRUE, prefix |-> FALSE, view |-> "live", palette |-> FALSE,
             help |-> FALSE, switch |-> [open |-> FALSE, sel |-> None],
             confirm |-> [op |-> "none", challenge |-> None], out |-> FALSE]
    BY <1>4 DEF NewApp
  <2> HIDE DEF sel, place, id, mine, ws
  <2>q. QED
    BY <1>0, <1>5, <2>1, <2>2, <2>3 DEF A, App
<1>7. \A i \in 1 .. 4 : P[i].id = <<run, i>> /\ P[i].focused = (i = 1)
  <2>1. \A i \in 1 .. 4 : i = 1 \/ i = 2 \/ i = 3 \/ i = 4
    OBVIOUS
  <2>q. QED
    BY <1>2, <2>1
<1>8. Plain(a)
  <2>1. \A i \in 1 .. 4 : i = 1 \/ i = 2 \/ i = 3 \/ i = 4
    OBVIOUS
  <2>q. QED
    BY <1>2, <1>3, <1>6, <2>1 DEF Plain
<1>9. Unique(a) /\ Marked(a) /\ Placed(a)
  BY <1>3, <1>6, <1>7, RunIds DEF Unique, Marked, Placed
<1>10. \A id \in PaneIds(a) : id[1] = run
  BY <1>3, <1>6, <1>7, RunIds DEF PaneIds
<1>q. QED
  BY <1>6, <1>8, <1>9, <1>10 DEF Loose, Whole, Monitored, a

\* The panes of a console, whichever of its forms was asked for.
OpensWith(p, run, daemons) ==
  /\ ~p.stale /\ p.focused = (p.id = <<run, 1>>) /\ p.id[1] = run
  /\ p.kind \in {"list", "output"} => p.session = None
  /\ p.kind = "daemon" => p.session \in daemons
  /\ p.kind # "agent"
Differ(p, q) == p.id # q.id /\ ~(p.kind = "daemon" /\ q.kind = "daemon" /\ p.session = q.session)
OpeningPanes(P, run, daemons) ==
  /\ P \in Seq(Pane(Ids))
  /\ \A i \in DOMAIN P : OpensWith(P[i], run, daemons)
  /\ \A i, j \in DOMAIN P : i # j => Differ(P[i], P[j])
  /\ \E i \in DOMAIN P : P[i].kind = "daemon" /\ P[i].id = <<run, 1>>

LEMMA ConsolePanes ==
  ASSUME NEW run \in 1 .. MaxLaunches, NEW daemons, daemons \subseteq Sessions,
         NEW selected \in daemons, NEW limit \in {0, 1, 2}
  PROVE  OpeningPanes(ConsoleApp(run, daemons, selected, limit).panes, run, daemons)
<1> DEFINE other == First(daemons \ {selected})
           p1 == NewPane(<<run, 1>>, "daemon", selected, TRUE)
           p2 == NewPane(<<run, 2>>, "daemon", other, FALSE)
           p3 == NewPane(<<run, 3>>, "list", None, FALSE)
           p4 == NewPane(<<run, 4>>, "output", None, FALSE)
           P == ConsoleApp(run, daemons, selected, limit).panes
<1>0. /\ <<run, 1>> \in Ids /\ <<run, 2>> \in Ids /\ <<run, 3>> \in Ids /\ <<run, 4>> \in Ids
      /\ None \notin Sessions /\ selected \in Sessions
  BY IdsAssumption, OrderAssumption
<1>a. p1 = [id |-> <<run, 1>>, kind |-> "daemon", session |-> selected, focused |-> TRUE, stale |-> FALSE]
  BY DEF NewPane
<1>b. p2 = [id |-> <<run, 2>>, kind |-> "daemon", session |-> other, focused |-> FALSE, stale |-> FALSE]
  BY DEF NewPane
<1>c. p3 = [id |-> <<run, 3>>, kind |-> "list", session |-> None, focused |-> FALSE, stale |-> FALSE]
  BY DEF NewPane
<1>d. p4 = [id |-> <<run, 4>>, kind |-> "output", session |-> None, focused |-> FALSE, stale |-> FALSE]
  BY DEF NewPane
<1> HIDE DEF p1, p2, p3, p4
<1>e. p1 \in Pane(Ids) /\ p3 \in Pane(Ids) /\ p4 \in Pane(Ids)
  BY <1>0, <1>a, <1>c, <1>d DEF Pane
<1>f. daemons # {selected} => other \in daemons \ {selected}
  <2>1. daemons \ {selected} \subseteq Sessions /\ (daemons # {selected} => daemons \ {selected} # {})
    OBVIOUS
  <2>q. QED
    BY <2>1, FirstIsOne
<1>g. daemons # {selected} => p2 \in Pane(Ids)
  <2>1. ASSUME daemons # {selected} PROVE other \in Sessions \cup {None}
    BY <1>f, <2>1
  <2> HIDE DEF other
  <2>q. QED
    BY <1>0, <1>b, <2>1 DEF Pane
<1>1. \/ P = <<p3, p1, p4>>
      \/ P = <<p1, p4>>
      \/ P = <<p1, p2, p4>> /\ daemons # {selected}
  <2>1. P = CASE limit = 0 -> <<p3, p1, p4>>
              [] limit = 2 /\ daemons # {selected} -> <<p1, p2, p4>>
              [] OTHER -> <<p1, p4>>
    BY DEF ConsoleApp, NewApp, p1, p2, p3, p4
  <2> HIDE DEF P
  <2>2. CASE limit = 0
    BY <2>1, <2>2
  <2>3. CASE limit = 2 /\ daemons # {selected}
    BY <2>1, <2>3
  <2>4. CASE limit # 0 /\ ~(limit = 2 /\ daemons # {selected})
    BY <2>1, <2>4
  <2>q. QED
    BY <2>2, <2>3, <2>4
<1> HIDE DEF P, other
<1>2. OpensWith(p1, run, daemons) /\ OpensWith(p3, run, daemons) /\ OpensWith(p4, run, daemons)
  <2>1. /\ <<run, 1>>[1] = run /\ <<run, 3>>[1] = run /\ <<run, 4>>[1] = run
        /\ <<run, 3>> # <<run, 1>> /\ <<run, 4>> # <<run, 1>>
    OBVIOUS
  <2>2. /\ ~p1.stale /\ p1.focused = (p1.id = <<run, 1>>) /\ p1.id[1] = run
        /\ p1.kind = "daemon" /\ p1.session \in daemons
    BY <1>a, <2>1
  <2>3. /\ ~p3.stale /\ p3.focused = (p3.id = <<run, 1>>) /\ p3.id[1] = run
        /\ p3.kind = "list" /\ p3.session = None
    BY <1>c, <2>1
  <2>4. /\ ~p4.stale /\ p4.focused = (p4.id = <<run, 1>>) /\ p4.id[1] = run
        /\ p4.kind = "output" /\ p4.session = None
    BY <1>d, <2>1
  <2>q. QED
    BY <2>2, <2>3, <2>4 DEF OpensWith
<1>3. daemons # {selected} => OpensWith(p2, run, daemons) /\ Differ(p1, p2) /\ Differ(p2, p1)
  <2>1. <<run, 2>>[1] = run /\ <<run, 2>> # <<run, 1>>
    OBVIOUS
  <2>2. ~p2.stale /\ p2.focused = (p2.id = <<run, 1>>) /\ p2.id[1] = run /\ p2.kind = "daemon"
    BY <1>b, <2>1
  <2>3. daemons # {selected} => p2.session \in daemons /\ p2.session # p1.session
    BY <1>a, <1>b, <1>f
  <2>4. p1.id # p2.id
    BY <1>a, <1>b, <2>1
  <2>q. QED
    BY <2>2, <2>3, <2>4 DEF OpensWith, Differ
<1>4. /\ Differ(p3, p1) /\ Differ(p1, p3) /\ Differ(p3, p4) /\ Differ(p4, p3)
      /\ Differ(p1, p4) /\ Differ(p4, p1) /\ Differ(p2, p4) /\ Differ(p4, p2)
  BY <1>a, <1>b, <1>c, <1>d DEF Differ
<1>5. p1.kind = "daemon" /\ p1.id = <<run, 1>>
  BY <1>a
<1>6. CASE P = <<p3, p1, p4>>
  <2>1. P \in Seq(Pane(Ids)) /\ DOMAIN P = 1 .. 3 /\ P[1] = p3 /\ P[2] = p1 /\ P[3] = p4
    BY <1>e, <1>6
  <2>2. \A i \in DOMAIN P : i = 1 \/ i = 2 \/ i = 3
    BY <2>1
  <2>q. QED
    BY <1>2, <1>4, <1>5, <2>1, <2>2 DEF OpeningPanes, P
<1>7. CASE P = <<p1, p4>>
  <2>1. P \in Seq(Pane(Ids)) /\ DOMAIN P = 1 .. 2 /\ P[1] = p1 /\ P[2] = p4
    BY <1>e, <1>7
  <2>2. \A i \in DOMAIN P : i = 1 \/ i = 2
    BY <2>1
  <2>q. QED
    BY <1>2, <1>4, <1>5, <2>1, <2>2 DEF OpeningPanes, P
<1>8. CASE P = <<p1, p2, p4>> /\ daemons # {selected}
  <2>1. P \in Seq(Pane(Ids)) /\ DOMAIN P = 1 .. 3 /\ P[1] = p1 /\ P[2] = p2 /\ P[3] = p4
    BY <1>e, <1>g, <1>8
  <2>2. \A i \in DOMAIN P : i = 1 \/ i = 2 \/ i = 3
    BY <2>1
  <2>q. QED
    BY <1>2, <1>3, <1>4, <1>5, <1>8, <2>1, <2>2 DEF OpeningPanes, P
<1>q. QED
  BY <1>1, <1>6, <1>7, <1>8

LEMMA ConsoleAppFine ==
  ASSUME NEW run \in 1 .. MaxLaunches, NEW daemons, daemons \subseteq Sessions,
         NEW selected \in daemons, NEW limit \in {0, 1, 2}
  PROVE  LET a == ConsoleApp(run, daemons, selected, limit) IN
         /\ Fine(a) /\ Focused(a) /\ Listing(a) /\ a.mode = "console" /\ a.daemon \in Sessions
         /\ \A id \in PaneIds(a) : id[1] = run
<1> DEFINE a == ConsoleApp(run, daemons, selected, limit)
           P == a.panes
<1>0. None \notin Sessions /\ selected \in Sessions
  BY OrderAssumption
<1>1. OpeningPanes(P, run, daemons)
  BY ConsolePanes
<1> DEFINE place == Place[selected]
           id == <<run, 1>>
<1>2. a = [mode |-> "console", ws |-> daemons, open |-> {}, ds |-> daemons, place |-> place, panes |-> P,
           active |-> id, sel |-> selected, daemon |-> selected, agent |-> None,
           mine |-> FALSE, follow |-> TRUE, prefix |-> FALSE, view |-> "live", palette |-> FALSE,
           help |-> FALSE, switch |-> [open |-> FALSE, sel |-> None],
           confirm |-> [op |-> "none", challenge |-> None], out |-> FALSE]
  <2>1. Either(None, selected) = selected /\ (None # None) = FALSE
    BY <1>0 DEF Either
  <2> DEFINE Q == CASE limit = 0 -> <<NewPane(<<run, 3>>, "list", None, FALSE),
                                      NewPane(<<run, 1>>, "daemon", selected, TRUE),
                                      NewPane(<<run, 4>>, "output", None, FALSE)>>
                    [] limit = 2 /\ daemons # {selected} ->
                         <<NewPane(<<run, 1>>, "daemon", selected, TRUE),
                           NewPane(<<run, 2>>, "daemon", First(daemons \ {selected}), FALSE),
                           NewPane(<<run, 4>>, "output", None, FALSE)>>
                    [] OTHER -> <<NewPane(<<run, 1>>, "daemon", selected, TRUE),
                                  NewPane(<<run, 4>>, "output", None, FALSE)>>
  <2>2. a = NewApp("console", run, daemons, {}, daemons, selected, None, Q)
    BY DEF ConsoleApp
  <2> HIDE DEF Q, a, P
  <2>3. a = [mode |-> "console", ws |-> daemons, open |-> {}, ds |-> daemons, place |-> place, panes |-> Q,
             active |-> id, sel |-> selected, daemon |-> selected, agent |-> None,
             mine |-> FALSE, follow |-> TRUE, prefix |-> FALSE, view |-> "live", palette |-> FALSE,
             help |-> FALSE, switch |-> [open |-> FALSE, sel |-> None],
             confirm |-> [op |-> "none", challenge |-> None], out |-> FALSE]
    BY <2>1, <2>2 DEF NewApp
  <2>4. P = Q
    BY <2>3 DEF P
  <2>q. QED
    BY <2>3, <2>4
<1>3. place \in Workspaces /\ place # None
  BY <1>0, PlaceAssumption DEF Workspaces
<1>4. id \in Ids /\ id = <<run, 1>>
  BY IdsAssumption
<1> HIDE DEF a, P, place, id
<1>5. a \in A
  <2>1. P \in Seq(Pane(Ids))
    BY <1>1 DEF OpeningPanes
  <2>q. QED
    BY <1>0, <1>2, <1>3, <1>4, <2>1 DEF A, App
<1>6. a.mode = "console" /\ a.ds = daemons /\ a.active = id /\ a.panes = P
  BY <1>2
<1>7. Plain(a) /\ Unique(a)
  BY <1>1, <1>6 DEF OpeningPanes, OpensWith, Differ, Plain, Unique
<1>8. Monitored(a)
  BY <1>1, <1>6 DEF OpeningPanes, OpensWith, Differ, Monitored, DaemonPanes
<1>9. Exact(a)
  <2>1. ASSUME NEW i \in DOMAIN a.panes PROVE a.panes[i].stale = ViewIsStale(a, a.panes[i])
    <3>1. ViewIsStale(a, a.panes[i]) = FALSE
      BY <1>1, <1>6 DEF OpeningPanes, OpensWith, ViewIsStale
    <3>2. a.panes[i].stale = FALSE
      <4>1. a.panes[i].stale \in BOOLEAN
        BY <1>5, PanesAre
      <4>q. QED
        BY <1>1, <1>6, <4>1 DEF OpeningPanes, OpensWith
    <3>q. QED
      BY <3>1, <3>2
  <2>q. QED
    BY <2>1 DEF Exact
<1>10. Focused(a)
  <2>1. Marked(a)
    BY SMTT(30), <1>1, <1>4, <1>6 DEF OpeningPanes, OpensWith, Marked
  <2>2. Seated(a)
    BY <1>1, <1>4, <1>6 DEF OpeningPanes, OpensWith, Seated, Fresh
  <2>q. QED
    BY <2>1, <2>2 DEF Focused
<1>11. Listing(a) /\ a.daemon \in Sessions
  BY <1>0, <1>2, <1>3 DEF Listing
<1>12. \A k \in PaneIds(a) : k[1] = run
  BY <1>1, <1>6 DEF OpeningPanes, OpensWith, PaneIds
<1>q. QED
  BY <1>5, <1>6, <1>7, <1>8, <1>9, <1>10, <1>11, <1>12 DEF a, Fine, Whole

-----------------------------------------------------------------------------
\* Keys.

LEMMA FollowingSame == ASSUME NEW a \in A, NEW yes \in BOOLEAN PROVE Same(a, Following(a, yes))
  BY DEF Following, A, App, Same, Rest, Settings

LEMMA SetView ==
  ASSUME NEW a \in A, NEW v \in {"live", "scroll", "search"} PROVE Same(a, [a EXCEPT !.view = v])
  BY DEF A, App, Same, Rest, Settings

LEMMA SetSwitch ==
  ASSUME NEW a \in A, NEW o \in BOOLEAN, NEW s \in Sessions \cup {None}
  PROVE  Same(a, [a EXCEPT !.switch = [open |-> o, sel |-> s]])
<1> DEFINE w == [open |-> o, sel |-> s]
<1>1. w \in [open : BOOLEAN, sel : Sessions \cup {None}]
  OBVIOUS
<1> HIDE DEF w
<1>2. Same(a, [a EXCEPT !.switch = w])
  BY <1>1 DEF A, App, Same, Rest, Settings
<1>q. QED
  BY <1>2 DEF w

LEMMA SetConfirm ==
  ASSUME NEW a \in A, NEW op \in {"none", "close", "kill", "delete"}, NEW s \in Sessions \cup {None}
  PROVE  Same(a, [a EXCEPT !.confirm = [op |-> op, challenge |-> s]])
<1> DEFINE w == [op |-> op, challenge |-> s]
<1>1. w \in [op : {"none", "close", "kill", "delete"}, challenge : Sessions \cup {None}]
  OBVIOUS
<1> HIDE DEF w
<1>2. Same(a, [a EXCEPT !.confirm = w])
  BY <1>1 DEF A, App, Same, Rest, Settings
<1>q. QED
  BY <1>2 DEF w

LEMMA SetFlags ==
  ASSUME NEW a \in A, NEW v \in BOOLEAN
  PROVE  /\ Same(a, [a EXCEPT !.prefix = v]) /\ Same(a, [a EXCEPT !.palette = v])
         /\ Same(a, [a EXCEPT !.help = v]) /\ Same(a, [a EXCEPT !.out = v])
<1>1. Same(a, [a EXCEPT !.prefix = v])
  BY DEF A, App, Same, Rest, Settings
<1>2. Same(a, [a EXCEPT !.palette = v])
  BY DEF A, App, Same, Rest, Settings
<1>3. Same(a, [a EXCEPT !.help = v])
  BY DEF A, App, Same, Rest, Settings
<1>4. Same(a, [a EXCEPT !.out = v])
  BY DEF A, App, Same, Rest, Settings
<1>q. QED
  BY <1>1, <1>2, <1>3, <1>4

LEMMA SameOn == ASSUME NEW a, NEW b, NEW c, Same(a, b), Same(b, c) PROVE Same(a, c)
  BY DEF Same, Rest, Settings

LEMMA SameSelf == ASSUME NEW a \in A PROVE Same(a, a)
  BY DEF Same, Rest, Settings

LEMMA ExitScrollSame == ASSUME NEW a \in A PROVE Same(a, ExitScrollMode(a))
<1> DEFINE b == Following(a, TRUE)
<1>1. Same(a, b)
  BY FollowingSame
<1> HIDE DEF b
<1>2. Same(b, [b EXCEPT !.view = "live"])
  BY <1>1, SetView DEF Same
<1>q. QED
  BY <1>1, <1>2, SameOn DEF ExitScrollMode, b

LEMMA EitherOne ==
  ASSUME NEW S, NEW x \in S \cup {None}, NEW y \in S \cup {None} PROVE Either(x, y) \in S \cup {None}
  BY DEF Either

LEMMA OpenSwitcherSame == ASSUME NEW a \in A PROVE Same(a, OpenSwitcher(a))
<1> DEFINE s == Either(a.sel, Either(a.agent, a.daemon))
<1>1. s \in Sessions \cup {None}
  BY FieldsAre, EitherOne
<1> HIDE DEF s
<1>q. QED
  BY <1>1, SetSwitch DEF OpenSwitcher, s

LEMMA CloseSwitcherSame == ASSUME NEW a \in A PROVE Same(a, CloseSwitcher(a))
  BY SetSwitch DEF CloseSwitcher

LEMMA MoveSwitcherSame == ASSUME NEW a \in A, NEW down \in BOOLEAN PROVE Same(a, MoveSwitcher(a, down))
<1> DEFINE list == Positions(a.ws)
           at == FirstIn(Positions({Either(a.switch.sel, Either(a.sel, Either(a.agent, a.daemon)))}))
           to == IF down THEN After(list, at) ELSE Before(list, at)
<1>1. CASE a.ws = {}
  BY <1>1, SameSelf DEF MoveSwitcher
<1>2. CASE a.ws # {}
  <2>1. MoveSwitcher(a, down) = [a EXCEPT !.switch = [open |-> a.switch.open, sel |-> Order[to]]]
    BY <1>2 DEF MoveSwitcher
  <2>2. PICK n \in Nat : DOMAIN Order = 1 .. n
    BY OrderAssumption
  <2>3. PICK s \in a.ws : TRUE
    BY <1>2
  <2>4. \E i \in DOMAIN Order : Order[i] = s
    BY <2>3, FieldsAre, OrderAssumption DEF ToSet
  <2>5. list # {} /\ list \subseteq 1 .. n
    BY <2>2, <2>3, <2>4 DEF Positions
  <2> HIDE DEF at
  <2>6. After(list, at) \in list /\ Before(list, at) \in list
    <3> HIDE DEF list
    <3>q. QED
      BY <2>2, <2>5, TurnStays
  <2>7. Order[to] \in Sessions
    <3>1. to \in list
      BY <2>6
    <3>q. QED
      BY <3>1, FieldsAre DEF Positions
  <2> DEFINE w == Order[to]
             o == a.switch.open
  <2>8. o \in BOOLEAN
    BY DEF A, App
  <2> HIDE DEF list, to, w, o
  <2>9. Same(a, [a EXCEPT !.switch = [open |-> o, sel |-> w]])
    BY <2>7, <2>8, SetSwitch DEF w
  <2>q. QED
    BY <2>1, <2>9 DEF w, o
<1>q. QED
  BY <1>1, <1>2

\* A key moves the focus, or changes neither panes nor names.
LEMMA ApplyActionIs ==
  ASSUME NEW a \in A, NEW action
  PROVE  IF action = "SwitchFocus" THEN ApplyAction(a, action) = SwitchFocus(a)
         ELSE Same(a, ApplyAction(a, action))
<1> DEFINE b == ApplyAction(a, action)
<1>1. CASE action = "SwitchFocus"
  BY <1>1 DEF ApplyAction
<1>2. CASE action = "EnterScrollMode"
  <2> DEFINE v == IF a.view = "search" THEN "search" ELSE "scroll"
  <2>1. b = [a EXCEPT !.view = v] /\ v \in {"live", "scroll", "search"}
    BY <1>2 DEF ApplyAction
  <2> HIDE DEF v, b
  <2>q. QED
    BY <1>2, <2>1, SetView DEF b
<1>3. CASE action \in {"ExitScrollMode", "JumpBottom"}
  BY <1>3, ExitScrollSame DEF ApplyAction
<1>4. CASE action = "OpenCommandPalette"
  BY <1>4, SetFlags DEF ApplyAction
<1>5. CASE action = "OpenDaemonList"
  BY <1>5, OpenSwitcherSame DEF ApplyAction
<1>6. CASE action = "ToggleHelp"
  <2> DEFINE v == ~a.help
  <2>1. b = [a EXCEPT !.help = v] /\ v \in BOOLEAN
    BY <1>6 DEF ApplyAction
  <2> HIDE DEF v, b
  <2>q. QED
    BY <1>6, <2>1, SetFlags DEF b
<1>7. CASE action \in {"ScrollUp", "ScrollDown"}
  BY <1>7, FollowingSame DEF ApplyAction
<1>8. CASE action \in {"BeginSearch", "CopySearchMatch"}
  BY <1>8, SetView DEF ApplyAction
<1>9. CASE action = "Escape"
  <2>1. b = IF a.view = "search" THEN [a EXCEPT !.view = "scroll"] ELSE ExitScrollMode(a)
    BY <1>9 DEF ApplyAction
  <2> HIDE DEF b
  <2>q. QED
    BY <1>9, <2>1, SetView, ExitScrollSame DEF b
<1>10. CASE action \notin {"SwitchFocus", "EnterScrollMode", "ExitScrollMode", "JumpBottom",
                           "OpenCommandPalette", "OpenDaemonList", "ToggleHelp", "ScrollUp", "ScrollDown",
                           "BeginSearch", "CopySearchMatch", "Escape"}
  BY <1>10, SameSelf DEF ApplyAction
<1>q. QED
  BY <1>1, <1>2, <1>3, <1>4, <1>5, <1>6, <1>7, <1>8, <1>9, <1>10

LEMMA HandleKeyFine ==
  ASSUME NEW a, Fine(a), Focused(a), NEW key
  PROVE  LET b == HandleKey(a, key) IN Fine(b) /\ Focused(b) /\ Kept(a, b)
<1> DEFINE v == KeyAction(a, key) = "Prefix"
           c == [a EXCEPT !.prefix = v]
           action == KeyAction(a, key)
           b == HandleKey(a, key)
<1>0. b = ApplyAction(c, action) /\ v \in BOOLEAN /\ a \in A
  BY DEF HandleKey, Fine, Whole
<1> HIDE DEF v, action, b
<1>1. Same(a, c)
  BY <1>0, SetFlags
<1>2. Fine(c) /\ Focused(c) /\ Kept(a, c)
  BY <1>1, SameFine
<1> HIDE DEF c
<1>3. IF action = "SwitchFocus" THEN b = SwitchFocus(c) ELSE Same(c, b)
  BY <1>0, <1>2, ApplyActionIs DEF Fine, Whole
<1>4. Fine(b) /\ Focused(b) /\ Kept(c, b)
  BY <1>2, <1>3, SwitchFocusFine, SameFine
<1>5. Kept(a, b)
  BY <1>2, <1>4, KeptOn
<1>q. QED
  BY <1>4, <1>5 DEF b

-----------------------------------------------------------------------------
\* The inductive invariant of the loops.

Good(a, n) == Fine(a) /\ Focused(a) /\ Listing(a) /\ \A id \in PaneIds(a) : id[1] <= n
Prior(c, n) == c = None \/ (Sound(c) /\ \A id \in PaneIds(c) : id[1] <= n)

\* What a start has found so far: a daemon of the list, and a context of an earlier run.
Planned ==
  stage \in {"ensure", "build"} =>
    /\ plan \in Plan /\ count.launches >= 1 /\ plan.selected \in plan.daemons
    /\ Prior(plan.prior, count.launches - 1)
    /\ stage = "build" => plan.agent \in Sessions
\* The model of an interface that is open is in order.
Presented ==
  Open =>
    /\ Good(app, count.launches)
    /\ app.mode = IF stage = "attach" \/ Streaming THEN "cockpit" ELSE "console"
    /\ stage = "ready" => app.daemon \in Sessions
\* What a switch has opened is another session's stream, and its input is as it was told.
Opened ==
  stage = "switching" =>
    next.of # attached /\ (next.attach = "open" => next.mine = (owner[next.of] = "cockpit"))
Held == OwnershipIsKnown /\ Opened /\ (Streaming => attached \in Sessions)

IInv ==
  /\ TypeOK /\ Prior(context, count.launches)
  /\ Planned /\ Presented /\ Held /\ KeysReachShownSession

LEMMA KeptGood ==
  ASSUME NEW a, NEW n, Good(a, n), NEW b, Fine(b), Focused(b), Kept(a, b) PROVE Good(b, n) /\ b.mode = a.mode
<1>1. Listing(b)
  BY ListingKept DEF Good, Kept
<1>2. PaneIds(b) = PaneIds(a)
  BY KeptRestored
<1>q. QED
  BY <1>1, <1>2 DEF Good, Kept, Settings

LEMMA SameGood ==
  ASSUME NEW a, NEW n, Good(a, n), NEW b, Same(a, b)
  PROVE  /\ Good(b, n) /\ Kept(a, b) /\ b.mode = a.mode /\ b.mine = a.mine
         /\ b.panes = a.panes /\ b.daemon = a.daemon
<1>1. Fine(b) /\ Focused(b) /\ Kept(a, b)
  BY SameFine DEF Good
<1>q. QED
  BY <1>1, KeptGood DEF Same, Rest, Settings

LEMMA ChosenGood ==
  ASSUME NEW a, NEW n, Good(a, n), NEW s
  PROVE  LET b == SelectSession(a, s) IN
         Good(b, n) /\ Chosen(a, b, s) /\ b.mode = a.mode /\ b.mine = a.mine
<1> DEFINE b == SelectSession(a, s)
<1>1. Fine(b) /\ Focused(b) /\ Chosen(a, b, s)
  BY SelectSessionFine DEF Good
<1> HIDE DEF b
<1>2. Listing(b)
  BY <1>1, ListingKept DEF Chosen, Good
<1>3. PaneIds(b) = PaneIds(a)
  BY <1>1 DEF Chosen, Slots, PaneIds
<1>q. QED
  BY <1>1, <1>2, <1>3 DEF Good, Chosen, Settings, b

LEMMA KeyGood ==
  ASSUME NEW a, NEW n, Good(a, n), NEW key
  PROVE  LET b == HandleKey(a, key) IN Good(b, n) /\ Kept(a, b) /\ b.mode = a.mode /\ b.mine = a.mine
<1> DEFINE b == HandleKey(a, key)
<1>1. Fine(b) /\ Focused(b) /\ Kept(a, b)
  BY HandleKeyFine DEF Good
<1> HIDE DEF b
<1>q. QED
  BY <1>1, KeptGood DEF b, Kept, Settings

\* The input's owner and whether the output follows change neither panes nor names.
MineFine(a, n, m, f) ==
  LET b == [a EXCEPT !.mine = m, !.follow = f] IN Good(b, n) /\ b.mode = a.mode /\ b.mine = m

LEMMA MineGood ==
  ASSUME NEW a, NEW n, Good(a, n), NEW m \in BOOLEAN, NEW f \in BOOLEAN PROVE MineFine(a, n, m, f)
<1> DEFINE b == [a EXCEPT !.mine = m, !.follow = f]
<1>0. a \in A
  BY DEF Good, Fine, Whole
<1>1. /\ b \in A /\ b.mode = a.mode /\ b.mine = m /\ b.panes = a.panes /\ b.ws = a.ws /\ b.ds = a.ds
      /\ b.open = a.open /\ b.active = a.active /\ b.sel = a.sel /\ b.agent = a.agent
      /\ b.daemon = a.daemon /\ b.place = a.place
  BY ZenonT(60), <1>0 DEF A, App
<1> HIDE DEF b
<1>2. Plain(b) /\ Unique(b) /\ Monitored(b)
  BY <1>1 DEF Good, Fine, Whole, Plain, Unique, Monitored, DaemonPanes
<1>3. Exact(b)
  <2>1. ASSUME NEW i \in DOMAIN b.panes PROVE b.panes[i].stale = ViewIsStale(b, b.panes[i])
    <3>1. ViewIsStale(b, b.panes[i]) = ViewIsStale(a, a.panes[i])
      BY <1>1 DEF ViewIsStale, Selection
    <3>q. QED
      BY <1>1, <3>1 DEF Good, Fine, Exact
  <2>q. QED
    BY <2>1 DEF Exact
<1>4. Focused(b) /\ Listing(b) /\ PaneIds(b) = PaneIds(a)
  BY <1>1 DEF Good, Focused, Marked, Seated, Fresh, Listing, PaneIds
<1>q. QED
  BY <1>1, <1>2, <1>3, <1>4 DEF b, Good, Fine, Whole, MineFine

LEMMA PublishedPrior == ASSUME NEW a, NEW n, Good(a, n) PROVE Prior(UiContext(a), n)
<1>1. /\ Sound(UiContext(a))
      /\ DOMAIN UiContext(a).panes = DOMAIN a.panes
      /\ \A i \in DOMAIN a.panes : UiContext(a).panes[i].id = a.panes[i].id
  BY UiContextSound DEF Good
<1>q. QED
  BY <1>1 DEF Good, Prior, PaneIds

LEMMA PriorOn ==
  ASSUME NEW c, NEW n \in Nat, Prior(c, n) PROVE Prior(c, n + 1)
<1>1. ASSUME NEW id \in PaneIds(c), Sound(c), id[1] <= n PROVE id[1] <= n + 1
  <2>1. PICK i \in DOMAIN c.panes : id = c.panes[i].id
    BY <1>1 DEF PaneIds
  <2>2. c.panes[i] \in PaneContext
    BY <1>1 DEF Sound, Context
  <2>3. id \in Ids
    BY <2>1, <2>2 DEF PaneContext
  <2>4. id[1] \in Nat
    BY <2>3, IdsAssumption, BoundsAssumption
  <2>q. QED
    BY <1>1, <2>4
<1>q. QED
  BY <1>1 DEF Prior

\* The bounds.
Counted == [launches : 0 .. MaxLaunches, keys : 0 .. MaxKeys, changes : 0 .. MaxChanges]

LEMMA CountsKeeps ==
  ASSUME count \in Counted, Counts("keys", MaxKeys) \/ Counts("changes", MaxChanges)
  PROVE  count' \in Counted /\ count'.launches = count.launches
  BY BoundsAssumption DEF Counts, Counted

LEMMA CountsLaunch ==
  ASSUME count \in Counted, Counts("launches", MaxLaunches)
  PROVE  /\ count' \in Counted /\ count'.launches = count.launches + 1
         /\ count.launches \in Nat /\ count.launches + 1 \in 1 .. MaxLaunches
  BY BoundsAssumption DEF Counts, Counted

\* The daemons that are found, and the one that is selected or started.
LEMMA Discovered ==
  ASSUME world \in [Sessions -> {"unborn", "running", "ended", "gone"}], NEW found \in DiscoverDaemons
  PROVE  /\ found.daemons \subseteq Daemons /\ found.selected \in found.daemons
         /\ found.world \in [Sessions -> {"unborn", "running", "ended", "gone"}]
<1> DEFINE all == ListedDaemons
           active == all \cap AtHome \cap Running
           started(d) == [daemons |-> (all \ AtHome) \cup {d}, selected |-> d, world |-> StartDaemon(d)]
           known(d) == [daemons |-> Retained(all), selected |-> d, world |-> world]
<1>0. all \subseteq Daemons /\ Daemons \subseteq Sessions
  BY OrderAssumption DEF ListedDaemons
<1>1. Retained(all) \subseteq all
  BY DEF Retained
<1>2. CASE active # {}
  <2>1. found = known(First(active))
    BY <1>2 DEF DiscoverDaemons
  <2>2. First(active) \in active
    <3>1. active \subseteq Sessions
      BY <1>0
    <3> HIDE DEF active
    <3>q. QED
      BY <1>2, <3>1, FirstIsOne
  <2>3. First(active) \in Retained(all)
    BY <2>2 DEF Retained
  <2> DEFINE d == First(active)
  <2> HIDE DEF all, active, d
  <2>q. QED
    BY <1>0, <1>1, <2>1, <2>3 DEF d
<1>3. CASE active = {}
  <2>1. \/ all \cap AtHome # {} /\ found = known(First(all \cap AtHome))
        \/ \E d \in {x \in Daemons \cap AtHome : world[x] = "unborn"} : found = started(d)
    BY <1>3 DEF DiscoverDaemons
  <2>2. CASE all \cap AtHome # {} /\ found = known(First(all \cap AtHome))
    <3> DEFINE here == all \cap AtHome
               d == First(here)
    <3>1. here \subseteq Sessions /\ here \subseteq all
      BY <1>0
    <3>2. d \in all
      <4> HIDE DEF here
      <4>q. QED
        BY <2>2, <3>1, FirstIsOne DEF here
    <3>3. d \in Retained(all)
      BY <1>3, <3>2 DEF Retained
    <3>4. found = known(d)
      BY <2>2
    <3> HIDE DEF all, active, d
    <3>q. QED
      BY <1>0, <1>1, <3>3, <3>4
  <2>3. CASE \E d \in {x \in Daemons \cap AtHome : world[x] = "unborn"} : found = started(d)
    <3>1. PICK d \in Daemons : found = started(d)
      BY <2>3
    <3>2. StartDaemon(d) \in [Sessions -> {"unborn", "running", "ended", "gone"}]
      BY DEF StartDaemon
    <3> HIDE DEF all
    <3>q. QED
      BY <1>0, <3>1, <3>2
  <2>q. QED
    BY <2>1, <2>2, <2>3
<1>q. QED
  BY <1>2, <1>3

LEMMA DiscoveredByConsole ==
  ASSUME world \in [Sessions -> {"unborn", "running", "ended", "gone"}], NEW found \in ConsoleDaemons
  PROVE  /\ found.daemons \subseteq Daemons /\ found.selected \in found.daemons
         /\ found.world \in [Sessions -> {"unborn", "running", "ended", "gone"}]
<1> DEFINE Shows2(all) == IF all \cap Running = {} THEN all ELSE all \cap Running
           known(all) == [daemons |-> Shows2(all), selected |-> First(Shows2(all)), world |-> world]
           started(d) == [daemons |-> {d}, selected |-> d, world |-> StartDaemon(d)]
<1>0. ListedDaemons \subseteq Daemons /\ Daemons \subseteq Sessions
  BY OrderAssumption DEF ListedDaemons
<1>1. \/ \E all \in {ListedDaemons, ListedDaemons \cap AtHome} \ {{}} : found = known(all)
      \/ \E d \in Daemons : found = started(d)
  BY DEF ConsoleDaemons
<1>2. CASE \E all \in {ListedDaemons, ListedDaemons \cap AtHome} \ {{}} : found = known(all)
  <2>1. PICK all \in {ListedDaemons, ListedDaemons \cap AtHome} \ {{}} : found = known(all)
    BY <1>2
  <2>2. Shows2(all) \subseteq Daemons /\ Shows2(all) \subseteq Sessions /\ Shows2(all) # {}
    BY <1>0, <2>1
  <2> HIDE DEF Shows2
  <2>3. First(Shows2(all)) \in Shows2(all)
    BY <2>2, FirstIsOne
  <2>q. QED
    BY <2>1, <2>2, <2>3
<1>3. CASE \E d \in Daemons : found = started(d)
  <2>1. PICK d \in Daemons : found = started(d)
    BY <1>3
  <2>2. StartDaemon(d) \in [Sessions -> {"unborn", "running", "ended", "gone"}]
    BY DEF StartDaemon
  <2>q. QED
    BY <2>1, <2>2
<1>q. QED
  BY <1>1, <1>2, <1>3

-----------------------------------------------------------------------------
\* The invariant across the steps of a cockpit, of a console and of everybody else.

Worlds == [Sessions -> {"unborn", "running", "ended", "gone"}]
Owners == [Sessions -> {"nobody", "cockpit", "rival"}]

StreamsTyped ==
  /\ IF Streaming THEN attach \in Streams ELSE attach = "none"
  /\ IF stage \in {"switching", "bound"} THEN next \in NextAttach ELSE next = None

LEMMA StreamsStay ==
  ASSUME StreamsTyped, UNCHANGED <<stage, attach, next>> PROVE StreamsTyped'
  BY DEF StreamsTyped, Streaming

LEMMA Typed ==
  ASSUME IInv
  PROVE  /\ world \in Worlds /\ owner \in Owners /\ aged \in BOOLEAN /\ doctor \in BOOLEAN
         /\ route \in Sessions \cup {None} /\ up \in BOOLEAN /\ count \in Counted
         /\ attached \in Sessions \cup {None} /\ StreamsTyped
  BY DEF IInv, TypeOK, Streams, StreamsTyped, HostTypeOK, Worlds, Owners, Counted, Streaming

LEMMA GoodTyped == ASSUME NEW a, NEW n, Good(a, n) PROVE a \in App(Ids)
  BY DEF Good, Fine, Whole, A

LEMMA ReleasedOwners ==
  ASSUME NEW o \in Owners PROVE Released(o) \in Owners /\ \A s \in Sessions : Released(o)[s] # "cockpit"
  BY DEF Released, Owners

LEMMA FreesOwners ==
  ASSUME NEW o \in Owners, NEW s \in Sessions
  PROVE  /\ Frees(o, s) \in Owners /\ Frees(o, s)[s] # "cockpit"
         /\ \A x \in Sessions \ {s} : Frees(o, s)[x] = o[x]
  BY DEF Frees, Owners

LEMMA AttachedOwners ==
  ASSUME NEW o \in Owners, NEW s \in Sessions
  PROVE  /\ Attached(o, s) \in Owners /\ Owned(o, s) \in BOOLEAN
         /\ Owned(o, s) = (Attached(o, s)[s] = "cockpit")
         /\ \A x \in Sessions \ {s} : Attached(o, s)[x] = o[x]
  BY DEF Attached, Owned, Owners

\* Outside the cockpit's stages no input is held and no stream is open.
LEMMA NothingHeld ==
  ASSUME IInv, ~Streaming
  PROVE  attach = "none" /\ next = None /\ \A s \in Sessions : owner[s] # "cockpit"
<1>1. attach = "none" /\ next = None
  BY Typed DEF Streaming, StreamsTyped
<1>q. QED
  BY <1>1 DEF IInv, Held, OwnershipIsKnown

LEMMA HeldNothing ==
  ASSUME ~Streaming', \A s \in Sessions : owner'[s] # "cockpit" PROVE Held'
  BY DEF Held, OwnershipIsKnown, Opened, Streaming

LEMMA HeldStays ==
  ASSUME Held, UNCHANGED <<owner, stage, attached, attach, next>>, app'.mine = app.mine PROVE Held'
  BY DEF Held, OwnershipIsKnown, Opened, Streaming, Shown

LEMMA CockpitStep ==
  ASSUME IInv, stage = "attach" \/ Streaming, UNCHANGED <<world, doctor, route, plan>>,
         stage' \in {"cockpit", "switching", "bound", "left", "failed"},
         Good(app', count.launches), app'.mode = "cockpit",
         context' = context \/ context' = UiContext(app'), aged' \in BOOLEAN, up' \in BOOLEAN,
         count' \in Counted, count'.launches = count.launches,
         owner' \in Owners, attached' \in Sessions \cup {None},
         StreamsTyped', Held',
         \/ effect' = None
         \/ /\ effect' = [kind |-> "typed", on |-> attached', by |-> attached'] /\ attached' \in Sessions
            /\ owner'[attached'] = "cockpit" /\ app'.mine
  PROVE  IInv'
<1>1. Prior(context', count.launches)
  BY PublishedPrior DEF IInv
<1>2. context' = None \/ context' \in Context
  BY <1>1 DEF Prior, Sound
<1>3. effect' = None \/ effect' \in [kind : {"typed", "struck"}, on : Sessions, by : Sessions]
  OBVIOUS
<1>4. TypeOK'
  BY <1>2, <1>3, GoodTyped DEF IInv, TypeOK, HostTypeOK, Owners, Counted, Streaming, Streams, StreamsTyped
<1>5. Planned' /\ Presented'
  BY DEF Planned, Presented, Open, Streaming
<1>6. KeysReachShownSession'
  BY DEF KeysReachShownSession
<1>q. QED
  BY <1>1, <1>4, <1>5, <1>6 DEF IInv

LEMMA ConsoleStep ==
  ASSUME IInv, stage \in {"ready", "console"}, UNCHANGED <<owner, doctor, route, plan, attached, attach, next>>,
         stage' \in {"console", "left", "failed"},
         Good(app', count.launches), app'.mode = "console", world' \in Worlds,
         context' \in {context, UiContext(app'), None}, aged' \in BOOLEAN, up' \in BOOLEAN,
         count' \in Counted, count'.launches = count.launches,
         effect' = None \/ \E s \in Sessions : effect' = [kind |-> "struck", on |-> s, by |-> s]
  PROVE  IInv'
<1>0. ~Streaming /\ ~Streaming'
  BY DEF Streaming
<1>1. Prior(context', count.launches)
  BY PublishedPrior DEF IInv, Prior
<1>2. context' = None \/ context' \in Context
  BY <1>1 DEF Prior, Sound
<1>3. effect' = None \/ effect' \in [kind : {"typed", "struck"}, on : Sessions, by : Sessions]
  OBVIOUS
<1>4. TypeOK'
  BY <1>2, <1>3, GoodTyped DEF IInv, TypeOK, HostTypeOK, Worlds, Counted
<1>5. Planned' /\ Presented'
  BY <1>0 DEF Planned, Presented, Open, Streaming
<1>6. Held'
  BY <1>0, NothingHeld, HeldNothing
<1>7. KeysReachShownSession'
  BY DEF KeysReachShownSession
<1>q. QED
  BY <1>1, <1>4, <1>5, <1>6, <1>7 DEF IInv

\* Sessions, their owners, the host and the context change under an interface, and a stream
\* that loses its input is cut.
LEMMA OtherStep ==
  ASSUME IInv, UNCHANGED <<stage, plan, app, attached>>, effect' = None,
         world' \in Worlds, owner' \in Owners, context' \in {context, None},
         aged' \in BOOLEAN, doctor' \in BOOLEAN, route' \in Sessions \cup {None}, up' \in BOOLEAN,
         count' \in Counted, count'.launches = count.launches,
         StreamsTyped', Held'
  PROVE  IInv'
<1>1. Prior(context', count.launches)
  BY DEF IInv, Prior
<1>2. context' = None \/ context' \in Context
  BY <1>1 DEF Prior, Sound
<1>3. TypeOK'
  BY <1>2 DEF IInv, TypeOK, HostTypeOK, Worlds, Owners, Counted, Streaming, Streams, StreamsTyped
<1>4. Planned' /\ Presented'
  BY DEF IInv, Planned, Presented, Open, Streaming
<1>6. KeysReachShownSession'
  BY DEF KeysReachShownSession
<1>q. QED
  BY <1>1, <1>3, <1>4, <1>6 DEF IInv

\* The steps of an interface that starts: it shows nothing yet, or the model it has built.
LEMMA StartStep ==
  ASSUME IInv, ~Streaming, stage' \in {"ensure", "build", "attach", "ready", "left", "failed"},
         UNCHANGED <<owner, doctor, route, attach, next>>, effect' = None,
         world' \in Worlds, attached' \in Sessions \cup {None},
         aged' \in BOOLEAN, up' \in BOOLEAN, count' \in Counted, Prior(context', count'.launches),
         plan'.daemons \subseteq Daemons, plan'.prior = None \/ plan'.prior \in Context,
         app' = None \/ app' \in App(Ids), Planned', Presented'
  PROVE  IInv'
<1>1. ~Streaming' /\ owner \in Owners
  BY Typed DEF Streaming, StreamsTyped
<1>2. context' = None \/ context' \in Context
  BY DEF Prior, Sound
<1>3. attach' = "none" /\ next' = None
  BY NothingHeld
<1>4. TypeOK'
  BY <1>1, <1>2, <1>3 DEF IInv, TypeOK, HostTypeOK, Worlds, Owners, Counted
<1>5. Held'
  BY <1>1, NothingHeld, HeldNothing
<1>6. KeysReachShownSession'
  BY DEF KeysReachShownSession
<1>q. QED
  BY <1>4, <1>5, <1>6 DEF IInv

-----------------------------------------------------------------------------
\* The steps of a start.

LEMMA InitFine == ASSUME Init PROVE IInv
<1>1. Prior(context, 0)
  <2>1. ASSUME NEW k \in {"none", "daemon", "agent"}, NEW s \in Sessions \cup {None}
        PROVE  Prior(Legacy(k, s), 0)
    <3>1. Legacy(k, s).panes = <<>> /\ Legacy(k, s) \in Context
      BY DEF Legacy, Context
    <3>q. QED
      BY <3>1 DEF Prior, Sound, Spare, PaneIds
  <2>2. context \in {None} \cup {Legacy("none", None)} \cup {Legacy("daemon", d) : d \in Daemons}
                      \cup {Legacy("agent", s) : s \in Sessions \ Daemons}
    BY DEF Init
  <2>q. QED
    BY <2>1, <2>2, OrderAssumption DEF Prior
<1>2. context = None \/ context \in Context
  BY <1>1 DEF Prior, Sound
<1>3. HostTypeOK
  <2>1. world \in Worlds /\ owner \in Owners
    BY DEF Init, Worlds, Owners
  <2>q. QED
    BY <1>2, <2>1 DEF Init, HostTypeOK, Worlds, Owners
<1>4. count \in Counted
  BY BoundsAssumption DEF Init, Counted
<1>5. plan.daemons \subseteq Daemons /\ plan.prior = None
  BY DEF Init, NoPlan
<1>6. TypeOK
  BY <1>3, <1>4, <1>5 DEF Init, TypeOK, Counted, Streams
<1>7. Planned /\ Presented /\ Held /\ KeysReachShownSession
  BY DEF Init, Planned, Presented, Held, OwnershipIsKnown, Opened, Streaming, Open, KeysReachShownSession
<1>8. count.launches = 0
  BY DEF Init
<1>q. QED
  BY <1>1, <1>6, <1>7, <1>8 DEF IInv

LEMMA LaunchStep == ASSUME IInv, Launch PROVE IInv'
<1>0. /\ stage \in {"off", "left", "failed"} /\ stage' = "ensure" /\ Counts("launches", MaxLaunches)
      /\ attached' = None /\ effect' = None /\ app' = None /\ up' = TRUE
      /\ UNCHANGED <<owner, context, aged, doctor, route, attach, next>>
  BY DEF Launch, Opens, Silent
<1>1. count' \in Counted /\ count'.launches = count.launches + 1 /\ count.launches \in Nat
  BY <1>0, Typed, CountsLaunch
<1>2. PICK found \in DiscoverDaemons :
        /\ world' = found.world
        /\ plan' = [daemons |-> found.daemons, selected |-> found.selected, prior |-> context, agent |-> None]
  BY DEF Launch
<1>3. /\ found.daemons \subseteq Daemons /\ found.selected \in found.daemons
      /\ found.world \in Worlds
  BY Typed, Discovered DEF Worlds
<1>4. /\ plan'.daemons = found.daemons /\ plan'.selected = found.selected /\ plan'.prior = context
  BY <1>2
<1>5. Prior(context, count.launches) /\ (context = None \/ context \in Context)
  BY DEF IInv, Prior, Sound
<1>6. Prior(context', count'.launches)
  BY <1>0, <1>1, <1>5, PriorOn
<1>7. Planned'
  <2>1. count'.launches - 1 = count.launches /\ count'.launches >= 1
    BY <1>1
  <2>2. plan' \in Plan
    BY <1>2, <1>3, <1>5, OrderAssumption DEF Plan
  <2>q. QED
    BY <1>0, <1>3, <1>4, <1>5, <2>1, <2>2 DEF Planned
<1>8. Presented'
  BY <1>0 DEF Presented, Open, Streaming
<1>9. ~Streaming
  BY <1>0 DEF Streaming
<1>q. QED
  BY <1>0, <1>1, <1>2, <1>3, <1>4, <1>5, <1>6, <1>7, <1>8, <1>9, Typed, StartStep

LEMMA EnsureStep == ASSUME IInv, EnsureAgentSession PROVE IInv'
<1> DEFINE agents == (Running \cap AtHome) \ Daemons
<1>0. /\ stage = "ensure" /\ effect' = None
      /\ UNCHANGED <<owner, context, aged, doctor, route, up, app, attached, attach, next, count>>
  BY DEF EnsureAgentSession, Silent
<1>1. \/ /\ stage' = "build" /\ (\E s \in Sessions : plan' = [plan EXCEPT !.agent = s])
         /\ world' \in Worlds
      \/ stage' = "failed" /\ plan' = plan /\ world' = world
  <2>1. CASE agents # {}
    <3>1. First(agents) \in Sessions
      <4>1. agents \subseteq Sessions
        BY DEF Running
      <4> HIDE DEF agents
      <4>q. QED
        BY <2>1, <4>1, FirstIsOne
    <3>q. QED
      BY <2>1, <3>1, Typed DEF EnsureAgentSession
  <2>2. CASE agents = {}
    <3>1. \/ \E s \in AtHome \ Daemons :
               Moves(s, "unborn", "running") /\ stage' = "build" /\ plan' = [plan EXCEPT !.agent = s]
          \/ stage' = "failed" /\ plan' = plan /\ world' = world
      BY <2>2 DEF EnsureAgentSession
    <3>2. ASSUME NEW s \in AtHome \ Daemons, Moves(s, "unborn", "running") PROVE world' \in Worlds /\ s \in Sessions
      BY <3>2, Typed DEF Moves, Worlds, AtHome
    <3>q. QED
      BY <3>1, <3>2
  <2>q. QED
    BY <2>1, <2>2
<1>2. plan \in Plan
  BY <1>0 DEF IInv, Planned
<1>3. /\ plan.daemons \subseteq Daemons /\ (plan.prior = None \/ plan.prior \in Context)
      /\ count.launches >= 1 /\ plan.selected \in plan.daemons /\ Prior(plan.prior, count.launches - 1)
      /\ Prior(context, count.launches) /\ ~Streaming /\ (app = None \/ app \in App(Ids))
  BY <1>0 DEF IInv, TypeOK, Planned, Streaming
<1>4. CASE stage' = "failed" /\ plan' = plan /\ world' = world
  <2>1. Planned' /\ Presented'
    BY <1>4 DEF Planned, Presented, Open, Streaming
  <2>q. QED
    BY <1>0, <1>3, <1>4, <2>1, Typed, StartStep
<1>5. CASE stage' = "build" /\ (\E s \in Sessions : plan' = [plan EXCEPT !.agent = s]) /\ world' \in Worlds
  <2>1. PICK s \in Sessions : plan' = [plan EXCEPT !.agent = s]
    BY <1>5
  <2>2. /\ plan' \in Plan /\ plan'.agent = s /\ plan'.daemons = plan.daemons
        /\ plan'.selected = plan.selected /\ plan'.prior = plan.prior
    BY <1>2, <2>1 DEF Plan
  <2>3. Planned'
    BY <1>0, <1>3, <1>5, <2>2 DEF Planned
  <2>4. Presented'
    BY <1>5 DEF Presented, Open, Streaming
  <2>q. QED
    BY <1>0, <1>3, <1>5, <2>2, <2>3, <2>4, Typed, StartStep
<1>q. QED
  BY <1>1, <1>4, <1>5

\* A snapshot, taken at the start or by a refresh.
LEMMA SnapshotGood ==
  ASSUME NEW a, NEW n, Good(a, n), a.mode = "cockpit", NEW place
  PROVE  LET b == Snapshot(a, place) IN
         /\ Good(b, n) /\ b.mode = "cockpit" /\ b.mine = a.mine /\ b.ws = SessionsAt(place)
         /\ Slots(a, b) /\ (a.agent \in SessionsAt(place) => Agents(a, b))
<1> DEFINE found == SessionsAt(place)
           open == (found \cap Running) \ Daemons
           b == Snapshot(a, place)
<1>0. b = ReplaceWorkspace(a, found, open) /\ found \subseteq Sessions /\ open \subseteq Sessions
  BY DEF Snapshot, SessionsAt, Listed
<1> HIDE DEF found, open, b
<1>1. Loose(a)
  BY FocusedLoose DEF Good
<1>2. /\ Fine(b) /\ Focused(b) /\ Listing(b) /\ Slots(a, b)
      /\ b.mode = "cockpit" /\ b.mine = a.mine /\ b.ws = found
      /\ a.agent \in found => Agents(a, b)
  BY <1>0, <1>1, ReplaceWorkspaceFine
<1>3. PaneIds(b) = PaneIds(a)
  BY <1>2 DEF Slots, PaneIds
<1>q. QED
  BY <1>2, <1>3 DEF Good, b, found

LEMMA BuildStep == ASSUME IInv, BuildCockpitApp PROVE IInv'
<1> DEFINE n == count.launches
           new == CockpitApp(n, plan.agent, plan.daemons, plan.selected)
           found == SessionsAt(Home)
           open == (found \cap Running) \ Daemons
           r == Snapshot(new, Home)
           b == IF plan.prior = None THEN r ELSE RestoreContext(r, plan.prior)
<1>0. /\ stage = "build" /\ stage' = "attach" /\ up' = TRUE /\ effect' = None /\ plan' = NoPlan
      /\ app' = b /\ context' = UiContext(b) /\ aged' = FALSE
      /\ UNCHANGED <<world, owner, doctor, route, attached, attach, next, count>>
  BY DEF BuildCockpitApp, Goes, Publishes, RecordUiEvent, SetContext, Silent
<1>1. /\ plan \in Plan /\ n >= 1 /\ plan.selected \in plan.daemons /\ plan.agent \in Sessions
      /\ Prior(plan.prior, n - 1) /\ count \in Counted
  BY <1>0, Typed DEF IInv, Planned
<1>2. n \in 1 .. MaxLaunches
  BY <1>1, BoundsAssumption DEF Counted
<1>3. plan.daemons \subseteq Sessions
  BY <1>1, OrderAssumption DEF Plan
<1> HIDE DEF n
<1>4. Loose(new) /\ \A id \in PaneIds(new) : id[1] = n
  BY <1>1, <1>2, <1>3, CockpitAppLoose
<1>5. r = ReplaceWorkspace(new, found, open) /\ found \subseteq Sessions /\ open \subseteq Sessions
  BY DEF Snapshot, SessionsAt, Listed
<1> HIDE DEF new, r, found, open
<1>6. Fine(r) /\ Focused(r) /\ Listing(r) /\ Slots(new, r) /\ r.mode = "cockpit"
  BY <1>4, <1>5, ReplaceWorkspaceFine
<1>7. PaneIds(r) = PaneIds(new)
  BY <1>6 DEF Slots, PaneIds
<1>8. Good(b, n) /\ b.mode = "cockpit"
  <2>1. CASE plan.prior = None
    <3>1. b = r
      BY <2>1
    <3>2. \A id \in PaneIds(r) : id[1] <= n
      BY <1>2, <1>4, <1>7
    <3> HIDE DEF b
    <3>q. QED
      BY <1>6, <3>1, <3>2 DEF Good
  <2>2. CASE plan.prior # None
    <3> DEFINE c == plan.prior
    <3>1. Sound(c) /\ \A id \in PaneIds(c) : id[1] <= n - 1
      BY <1>1, <2>2 DEF Prior
    <3>2. b = RestoreContext(r, c)
      BY <2>2
    <3> HIDE DEF b, c
    <3>3. \A id \in PaneIds(c) : id \in Ids
      <4>1. ASSUME NEW i \in DOMAIN c.panes PROVE c.panes[i].id \in Ids
        <5>1. c.panes[i] \in PaneContext
          BY <3>1 DEF Sound, Context
        <5>q. QED
          BY <5>1 DEF PaneContext
      <4>q. QED
        BY <4>1 DEF PaneIds
    <3>4. \A id \in PaneIds(c) : id[1] \in Int /\ id[1] # n /\ id[1] <= n
      BY <1>2, <3>1, <3>3, IdsAssumption, BoundsAssumption
    <3>5. Apart(r, c)
      BY <1>4, <1>7, <3>4 DEF Apart
    <3>6. /\ Fine(b) /\ Focused(b) /\ Listing(b) /\ b.mode = "cockpit"
          /\ PaneIds(b) \subseteq PaneIds(r) \cup PaneIds(c)
      BY <1>6, <3>1, <3>2, <3>5, RestoreContextFine
    <3>7. \A id \in PaneIds(b) : id[1] <= n
      BY <1>2, <1>4, <1>7, <3>4, <3>6
    <3>q. QED
      BY <3>6, <3>7 DEF Good
  <2>q. QED
    BY <2>1, <2>2
<1> HIDE DEF b
<1>9. Presented' /\ Planned'
  BY <1>0, <1>8 DEF Presented, Planned, Open, n
<1>10. Prior(context', count'.launches)
  BY <1>0, <1>8, PublishedPrior DEF n
<1>11. /\ ~Streaming /\ plan'.daemons \subseteq Daemons /\ plan'.prior = None /\ app' \in App(Ids)
  BY <1>0, <1>8, GoodTyped DEF NoPlan, Streaming
<1>q. QED
  BY <1>0, <1>9, <1>10, <1>11, Typed, StartStep

LEMMA LaunchConsoleStep == ASSUME IInv, NEW limit \in {0, 1, 2}, LaunchConsole(limit) PROVE IInv'
<1> DEFINE n == count.launches + 1
<1>0. /\ stage \in {"off", "left", "failed"} /\ stage' = "ready" /\ Counts("launches", MaxLaunches)
      /\ attached' = None /\ effect' = None
      /\ UNCHANGED <<owner, doctor, route, plan, attach, next>>
  BY DEF LaunchConsole, Opens, Silent
<1>1. count' \in Counted /\ count'.launches = n /\ n \in 1 .. MaxLaunches
  BY <1>0, Typed, CountsLaunch
<1>2. PICK found \in ConsoleDaemons :
        /\ world' = found.world
        /\ Publishes(ConsoleApp(n, found.daemons, found.selected, limit))
  BY DEF LaunchConsole
<1>3. /\ found.daemons \subseteq Daemons /\ found.selected \in found.daemons
      /\ found.world \in Worlds
  BY Typed, DiscoveredByConsole DEF Worlds
<1> DEFINE a == ConsoleApp(n, found.daemons, found.selected, limit)
<1>4. app' = a /\ context' = UiContext(a) /\ aged' = FALSE /\ up' = TRUE
  BY <1>2 DEF Publishes, RecordUiEvent, SetContext
<1> HIDE DEF n
<1>5. /\ Fine(a) /\ Focused(a) /\ Listing(a) /\ a.mode = "console" /\ a.daemon \in Sessions
      /\ \A id \in PaneIds(a) : id[1] = n
  <2> DEFINE ds == found.daemons
             d == found.selected
  <2>1. ds \subseteq Sessions /\ d \in ds
    BY <1>3, OrderAssumption
  <2> HIDE DEF ds, d
  <2>2. LET q == ConsoleApp(n, ds, d, limit) IN
        /\ Fine(q) /\ Focused(q) /\ Listing(q) /\ q.mode = "console" /\ q.daemon \in Sessions
        /\ \A id \in PaneIds(q) : id[1] = n
    BY <1>1, <2>1, ConsoleAppFine
  <2>q. QED
    BY <2>2 DEF ds, d
<1> HIDE DEF a
<1>6. Good(a, n)
  BY <1>1, <1>5 DEF Good
<1>7. Presented' /\ Planned'
  BY <1>0, <1>1, <1>4, <1>5, <1>6 DEF Presented, Planned, Open, Streaming
<1>8. Prior(context', count'.launches)
  BY <1>1, <1>4, <1>6, PublishedPrior
<1>9. ~Streaming /\ plan.daemons \subseteq Daemons /\ (plan.prior = None \/ plan.prior \in Context)
  BY <1>0, Typed DEF IInv, TypeOK, Streaming
<1>10. app' \in App(Ids)
  BY <1>4, <1>6, GoodTyped
<1>q. QED
  BY <1>0, <1>1, <1>2, <1>3, <1>4, <1>7, <1>8, <1>9, <1>10, Typed, StartStep

-----------------------------------------------------------------------------
\* The steps of a cockpit: its stream, its refresh, its size.

LEMMA InTheCockpit ==
  ASSUME IInv, Streaming
  PROVE  /\ Good(app, count.launches) /\ app.mode = "cockpit" /\ attached \in Sessions
         /\ attach \in Streams /\ owner \in Owners /\ Held /\ OwnershipIsKnown
         /\ app.mine \in BOOLEAN /\ StreamsTyped
         /\ count \in Counted /\ aged \in BOOLEAN /\ up \in BOOLEAN
<1>1. Good(app, count.launches) /\ app.mode = "cockpit" /\ Held /\ OwnershipIsKnown /\ attached \in Sessions
  BY DEF IInv, Presented, Open, Held
<1>2. app.mine \in BOOLEAN
  BY <1>1 DEF Good, Fine, Whole, A, App
<1>q. QED
  BY <1>1, <1>2, Typed DEF StreamsTyped

LEMMA CockpitStreams == (stage = "cockpit" => Streaming) /\ (stage' = "cockpit" => Streaming')
  BY DEF Streaming

\* Leaving the cockpit.
LEMMA LeavesStep ==
  ASSUME IInv, stage = "attach" \/ Streaming, UNCHANGED <<world, doctor, route, plan>>,
         attached' \in Sessions \cup {None},
         NEW s \in {"left", "failed"}, Leaves(s), effect' = None,
         Good(app', count.launches), app'.mode = "cockpit",
         context' = context \/ context' = UiContext(app'), aged' \in BOOLEAN, up' \in BOOLEAN,
         count' \in Counted, count'.launches = count.launches
  PROVE  IInv'
<1>1. /\ stage' = s /\ attach' = "none" /\ next' = None /\ owner' \in Owners /\ ~Streaming'
      /\ \A x \in Sessions : owner'[x] # "cockpit"
  BY Typed, ReleasedOwners DEF Leaves, Streaming
<1>2. Held' /\ StreamsTyped'
  BY <1>1, HeldNothing DEF StreamsTyped
<1>q. QED
  BY <1>1, <1>2, CockpitStep

LEMMA OpenAgentAttachStep == ASSUME IInv, OpenAgentAttach PROVE IInv'
<1>0. /\ stage = "attach" /\ effect' = None /\ ~Streaming
      /\ UNCHANGED <<world, context, aged, doctor, route, up, plan, count>>
  BY DEF OpenAgentAttach, Silent, Streaming
<1>1. Good(app, count.launches) /\ app.mode = "cockpit"
  BY <1>0 DEF IInv, Presented, Open
<1> DEFINE s == app.agent
           m == Owned(owner, s)
           b == [app EXCEPT !.mine = m, !.follow = TRUE]
<1>2. CASE up /\ s \in Running
  <2>1. /\ stage' = "cockpit" /\ attached' = s /\ attach' = "open" /\ owner' = Attached(owner, s)
        /\ app' = b /\ next' = next
    BY <1>2 DEF OpenAgentAttach
  <2>2. s \in Sessions
    BY <1>2 DEF Running
  <2>3. /\ Attached(owner, s) \in Owners /\ m \in BOOLEAN /\ m = (Attached(owner, s)[s] = "cockpit")
        /\ \A x \in Sessions \ {s} : Attached(owner, s)[x] = owner[x]
    BY <2>2, Typed, AttachedOwners
  <2> HIDE DEF m
  <2>4. Good(b, count.launches) /\ b.mode = app.mode /\ b.mine = m
    BY <1>1, <2>3, MineGood DEF MineFine
  <2> HIDE DEF b, s
  <2>5. next' = None /\ \A x \in Sessions : owner[x] # "cockpit"
    BY <1>0, <2>1, NothingHeld
  <2>6. Held'
    BY <2>1, <2>2, <2>3, <2>4, <2>5 DEF Held, OwnershipIsKnown, Opened, Streaming, Shown
  <2>7. StreamsTyped'
    BY <2>1, <2>5 DEF StreamsTyped, Streaming, Streams
  <2>q. QED
    BY <1>0, <1>1, <2>1, <2>2, <2>3, <2>4, <2>6, <2>7, Typed, CockpitStep
<1>3. CASE ~(up /\ s \in Running)
  <2>1. Leaves("failed") /\ UNCHANGED <<app, attached>>
    BY <1>3 DEF OpenAgentAttach
  <2>q. QED
    BY <1>0, <1>1, <2>1, Typed, LeavesStep
<1>q. QED
  BY <1>2, <1>3

LEMMA SnapshotOnceStep == ASSUME IInv, SnapshotOnce PROVE IInv'
<1> DEFINE b == Snapshot(app, app.place)
<1>0. /\ stage = "attach" /\ stage' = "left" /\ effect' = None /\ ~Streaming /\ ~Streaming'
      /\ app' = b /\ context' = UiContext(b) /\ aged' = FALSE /\ up' = TRUE
      /\ UNCHANGED <<world, owner, doctor, route, plan, attached, attach, next, count>>
  BY DEF SnapshotOnce, Goes, Publishes, RecordUiEvent, SetContext, Silent, Streaming
<1>1. Good(app, count.launches) /\ app.mode = "cockpit"
  BY <1>0 DEF IInv, Presented, Open
<1>2. Good(b, count.launches) /\ b.mode = "cockpit"
  BY <1>1, SnapshotGood
<1> HIDE DEF b
<1>3. StreamsTyped' /\ Held'
  BY <1>0, NothingHeld, HeldNothing DEF StreamsTyped
<1>q. QED
  BY <1>0, <1>2, <1>3, Typed, CockpitStep

LEMMA ErrorFrameStep == ASSUME IInv, ErrorFrame PROVE IInv'
<1> DEFINE b == [app EXCEPT !.out = TRUE]
<1>0. /\ stage = "cockpit" /\ attach = "open" /\ app' = b /\ effect' = None /\ Streaming
      /\ UNCHANGED <<world, doctor, route, plan, context, aged, up, owner, stage, attached, attach, next, count>>
  BY DEF ErrorFrame, InCockpit, Silent, NoRecord, Streaming
<1>1. Same(app, b)
  BY <1>0, InTheCockpit, SetFlags DEF Good, Fine, Whole
<1> HIDE DEF b
<1>2. Good(b, count.launches) /\ b.mode = app.mode /\ b.mine = app.mine
  BY <1>0, <1>1, InTheCockpit, SameGood
<1>3. Held' /\ StreamsTyped'
  BY <1>0, <1>2, InTheCockpit, HeldStays, StreamsStay
<1>q. QED
  BY <1>0, <1>2, <1>3, InTheCockpit, CockpitStep

LEMMA StreamClosesStep == ASSUME IInv, StreamCloses PROVE IInv'
<1>0. /\ stage = "cockpit" /\ Leaves("left") /\ context' = UiContext(app') /\ aged' = FALSE /\ up' = TRUE
      /\ effect' = None /\ UNCHANGED <<world, doctor, route, plan, app, attached, count>>
  BY DEF StreamCloses, InCockpit, Silent, RecordUiEvent, SetContext
<1>q. QED
  BY <1>0, InTheCockpit, CockpitStreams, LeavesStep

LEMMA ResizeStep == ASSUME IInv, ResizeTerminal PROVE IInv'
<1>0. /\ stage = "cockpit" /\ Leaves("failed") /\ UNCHANGED <<context, aged, up>>
      /\ effect' = None /\ UNCHANGED <<world, doctor, route, plan, app, attached, count>>
  BY DEF ResizeTerminal, InCockpit, Silent, NoRecord
<1>q. QED
  BY <1>0, InTheCockpit, CockpitStreams, LeavesStep

LEMMA ReopenAttachStep == ASSUME IInv, ReopenAttach PROVE IInv'
<1> DEFINE m == Owned(owner, attached)
           b == [app EXCEPT !.mine = m]
<1>0. /\ stage = "cockpit" /\ attach' = "open" /\ owner' = Attached(owner, attached) /\ app' = b
      /\ up' = TRUE /\ effect' = None /\ Streaming /\ stage' = stage
      /\ UNCHANGED <<world, doctor, route, plan, context, aged, attached, next, count>>
  BY DEF ReopenAttach, InCockpit, Silent, Streaming
<1>1. /\ Attached(owner, attached) \in Owners /\ m \in BOOLEAN
      /\ m = (Attached(owner, attached)[attached] = "cockpit")
      /\ \A x \in Sessions \ {attached} : Attached(owner, attached)[x] = owner[x]
  BY <1>0, InTheCockpit, AttachedOwners
<1> HIDE DEF m
<1>2. Good(b, count.launches) /\ b.mode = app.mode /\ b.mine = m
  <2>1. app \in A /\ app.follow \in BOOLEAN
    BY <1>0, InTheCockpit DEF Good, Fine, Whole, A, App
  <2> DEFINE f == app.follow
             c == [app EXCEPT !.mine = m, !.follow = f]
  <2>2. b = c
    BY <2>1 DEF A, App
  <2>3. Good(c, count.launches) /\ c.mode = app.mode /\ c.mine = m
    <3>1. f \in BOOLEAN /\ m \in BOOLEAN /\ Good(app, count.launches)
      BY <1>0, <1>1, <2>1, InTheCockpit
    <3> HIDE DEF f
    <3>2. MineFine(app, count.launches, m, f)
      BY ONLY <3>1, MineGood
    <3>q. QED
      BY <3>2 DEF MineFine
  <2> HIDE DEF b, c
  <2>q. QED
    BY <2>2, <2>3
<1> HIDE DEF b
<1>3. Held'
  BY <1>0, <1>1, <1>2, InTheCockpit DEF Held, OwnershipIsKnown, Opened, Streaming, Shown
<1>4. StreamsTyped'
  BY <1>0, InTheCockpit DEF StreamsTyped, Streaming, Streams
<1>q. QED
  BY <1>0, <1>1, <1>2, <1>3, <1>4, InTheCockpit, CockpitStep

\* The steps of a switch: each gives back the input it does not keep.
LEMMA SwitchFailsStep == ASSUME IInv, SwitchFails PROVE IInv'
<1>0. /\ stage = "switching" /\ stage' = "cockpit" /\ effect' = None /\ Streaming /\ next' = None
      /\ owner' = Frees(owner, next.of)
      /\ UNCHANGED <<world, doctor, route, plan, count, context, aged, up, app, attached, attach>>
  BY DEF SwitchFails, Switching, NoRecord, Silent, Streaming
<1>1. next \in NextAttach /\ next.of \in Sessions /\ next.of # attached
  BY <1>0, InTheCockpit DEF Held, Opened, NextAttach, StreamsTyped
<1>2. /\ owner' \in Owners /\ owner'[next.of] # "cockpit"
      /\ \A x \in Sessions \ {next.of} : owner'[x] = owner[x]
  BY <1>0, <1>1, Typed, FreesOwners
<1>3. Held'
  BY <1>0, <1>1, <1>2, InTheCockpit DEF Held, OwnershipIsKnown, Opened, Streaming, Shown
<1>4. StreamsTyped'
  BY <1>0, InTheCockpit DEF StreamsTyped, Streaming
<1>q. QED
  BY <1>0, <1>2, <1>3, <1>4, InTheCockpit, CockpitStep

LEMMA SwitchBindsStep == ASSUME IInv, SwitchBinds PROVE IInv'
<1> DEFINE s == next.of
           m == next.mine
           c == [app EXCEPT !.mine = m, !.follow = TRUE]
           b == SelectSession(c, s)
<1>0. /\ stage = "switching" /\ stage' = "bound" /\ effect' = None /\ Streaming /\ Streaming'
      /\ attach' = next.attach /\ owner' = Frees(owner, attached) /\ app' = b
      /\ UNCHANGED <<world, doctor, route, plan, count, context, aged, up, attached, next>>
  BY DEF SwitchBinds, Switching, NoRecord, Silent, Streaming
<1>1. /\ next \in NextAttach /\ s \in Sessions /\ s # attached /\ m \in BOOLEAN /\ next.attach \in Streams
      /\ next.attach = "open" => m = (owner[s] = "cockpit")
  BY <1>0, InTheCockpit DEF Held, Opened, NextAttach, StreamsTyped
<1>2. /\ owner' \in Owners /\ owner'[attached] # "cockpit"
      /\ \A x \in Sessions \ {attached} : owner'[x] = owner[x]
  BY <1>0, InTheCockpit, FreesOwners
<1> HIDE DEF m, b
<1>3. Good(c, count.launches) /\ c.mode = app.mode /\ c.mine = m
  BY <1>0, <1>1, InTheCockpit, MineGood DEF MineFine
<1> HIDE DEF c
<1>4. Good(b, count.launches) /\ b.mode = c.mode /\ b.mine = c.mine
  BY <1>3, ChosenGood DEF b
<1> HIDE DEF s
<1>5. Held'
  <2>1. Shown' = s
    BY <1>0 DEF Shown, s
  <2>2. (Streaming' /\ attach' = "open") => app'.mine = (owner'[s] = "cockpit")
    BY <1>0, <1>1, <1>2, <1>3, <1>4
  <2>3. \A x \in Sessions : owner'[x] = "cockpit" => x = s
    BY <1>0, <1>1, <1>2, InTheCockpit DEF OwnershipIsKnown, Shown, s
  <2>4. OwnershipIsKnown'
    BY <1>0, <2>1, <2>2, <2>3 DEF OwnershipIsKnown
  <2>q. QED
    BY <1>0, <2>4, InTheCockpit DEF Held, Opened
<1>6. StreamsTyped'
  BY <1>0, <1>1, InTheCockpit DEF StreamsTyped
<1>q. QED
  BY <1>0, <1>2, <1>3, <1>4, <1>5, <1>6, InTheCockpit, CockpitStep

LEMMA SwitchPublishesStep == ASSUME IInv, SwitchPublishes PROVE IInv'
<1>0. /\ stage = "bound" /\ effect' = None /\ Streaming /\ attached' = next.of
      /\ UNCHANGED <<world, doctor, route, plan, count, app>>
  BY DEF SwitchPublishes, Switching, Silent, Streaming
<1>1. next.of \in Sessions
  BY <1>0, InTheCockpit DEF NextAttach, StreamsTyped
<1>2. CASE stage' = "cockpit" /\ next' = None /\ UNCHANGED <<owner, attach>> /\ RecordUiEvent(app)
  <2>1. context' = UiContext(app') /\ aged' = FALSE /\ up' = TRUE
    BY <1>0, <1>2 DEF RecordUiEvent, SetContext
  <2>2. Held'
    BY <1>0, <1>1, <1>2, InTheCockpit DEF Held, OwnershipIsKnown, Opened, Streaming, Shown
  <2>3. StreamsTyped'
    BY <1>0, <1>2, InTheCockpit DEF StreamsTyped, Streaming
  <2>q. QED
    BY <1>0, <1>1, <1>2, <2>1, <2>2, <2>3, InTheCockpit, CockpitStep
<1>3. CASE Leaves("failed") /\ NoRecord
  BY <1>0, <1>1, <1>3, InTheCockpit, LeavesStep DEF NoRecord
<1>q. QED
  BY <1>2, <1>3 DEF SwitchPublishes

LEMMA RefreshStep == ASSUME IInv, RefreshSessions PROVE IInv'
<1>0. /\ stage = "cockpit" /\ effect' = None /\ Streaming
      /\ UNCHANGED <<world, doctor, route, plan, context, aged, up, attached, count>>
  BY DEF RefreshSessions, InCockpit, Silent, NoRecord, Streaming
<1>1. CASE ~up
  <2>1. Leaves("failed") /\ app' = app
    BY <1>1 DEF RefreshSessions
  <2>q. QED
    BY <1>0, <2>1, InTheCockpit, LeavesStep
<1>2. ASSUME Good(app', count.launches), app'.mode = "cockpit", app'.mine = app.mine,
             UNCHANGED <<owner, stage, attach, next>>
      PROVE  IInv'
  <2>1. Held' /\ StreamsTyped'
    BY <1>0, <1>2, InTheCockpit, HeldStays, StreamsStay
  <2>q. QED
    BY <1>0, <1>2, <2>1, InTheCockpit, CockpitStep
<1>3. CASE up /\ app.place # None
  <2> DEFINE b == Snapshot(app, app.place)
  <2>1. app' = b /\ UNCHANGED <<owner, stage, attach, next>>
    BY <1>3 DEF RefreshSessions
  <2>2. Good(b, count.launches) /\ b.mode = "cockpit" /\ b.mine = app.mine
    BY <1>0, InTheCockpit, SnapshotGood
  <2> HIDE DEF b
  <2>q. QED
    BY <1>2, <2>1, <2>2
<1>4. CASE up /\ app.place = None
  <2> DEFINE b == ReplaceDaemons(app, ListedDaemons)
  <2>1. app' = b /\ UNCHANGED <<owner, stage, attach, next>>
    BY <1>4 DEF RefreshSessions
  <2>2. Loose(app) /\ app.ds = {} /\ Listing(app) /\ ListedDaemons \subseteq Sessions
    BY <1>0, <1>4, InTheCockpit, FocusedLoose DEF Good, Listing, ListedDaemons, Listed
  <2>3. Fine(b) /\ Focused(b) /\ Adopted(app, b) /\ b.ds = ListedDaemons
    BY <2>2, ReplaceDaemonsFine
  <2> HIDE DEF b
  <2>4. Listing(b)
    BY <2>2, <2>3 DEF Adopted, Listing
  <2>5. PaneIds(b) = PaneIds(app)
    BY <2>3 DEF Adopted, Slots, PaneIds
  <2>6. Good(b, count.launches) /\ b.mode = "cockpit" /\ b.mine = app.mine
    BY <1>0, <2>3, <2>4, <2>5, InTheCockpit DEF Good, Adopted
  <2>q. QED
    BY <1>2, <2>1, <2>6
<1>q. QED
  BY <1>0, <1>1, <1>3, <1>4, InTheCockpit

-----------------------------------------------------------------------------
\* The keys and pastes of a cockpit.

LEMMA PressesKeeps ==
  ASSUME IInv, NEW k, Presses(k) PROVE count' \in Counted /\ count'.launches = count.launches
<1>1. UNCHANGED count \/ Counts("keys", MaxKeys)
  BY DEF Presses
<1>q. QED
  BY <1>1, Typed, CountsKeeps

LEMMA RecordIs ==
  ASSUME aged \in BOOLEAN, up \in BOOLEAN, NEW b \in BOOLEAN, NEW a, RecordIf(b, a) \/ NoRecord \/ RecordUiEvent(a)
  PROVE  (context' = context \/ context' = UiContext(a)) /\ aged' \in BOOLEAN /\ up' \in BOOLEAN
  BY DEF RecordIf, RecordUiEvent, SetContext, NoRecord

\* Text is typed into what the focused pane shows, by the owner of its input.
LEMMA TypesStep ==
  ASSUME IInv, stage = "cockpit", UNCHANGED <<world, doctor, route, plan>>,
         AcceptsText(app'), Types(app'), app'.mine = app.mine,
         Good(app', count.launches), app'.mode = "cockpit",
         context' = context \/ context' = UiContext(app'), aged' \in BOOLEAN, up' \in BOOLEAN,
         count' \in Counted, count'.launches = count.launches
  PROVE  IInv'
<1>0. Streaming
  BY CockpitStreams
<1>1. CASE attach = "open"
  <2>1. /\ effect' = [kind |-> "typed", on |-> attached, by |-> FocusedSession(app')]
        /\ UNCHANGED <<owner, stage, attached, attach, next>>
    BY <1>1 DEF Types
  <2>2. FocusedAttach(app') = attached /\ app'.mine
    BY DEF AcceptsText
  <2>3. attached # None
    BY <1>0, InTheCockpit, OrderAssumption
  <2>4. FocusedSession(app') = attached
    BY <2>2, <2>3 DEF FocusedAttach
  <2>5. owner[attached] = "cockpit"
    BY <1>0, <1>1, <2>2, InTheCockpit DEF OwnershipIsKnown, Shown
  <2>6. Held' /\ StreamsTyped'
    BY <1>0, <2>1, InTheCockpit, HeldStays, StreamsStay
  <2>q. QED
    BY <1>0, <2>1, <2>2, <2>4, <2>5, <2>6, InTheCockpit, CockpitStep
<1>2. CASE attach # "open"
  <2>1. Leaves("failed") /\ effect' = None /\ attached' = attached
    BY <1>2 DEF Types, Silent
  <2>q. QED
    BY <1>0, <2>1, InTheCockpit, LeavesStep
<1>q. QED
  BY <1>1, <1>2

\* Nothing is typed, and the cockpit stays.
LEMMA QuietStep ==
  ASSUME IInv, stage = "cockpit", UNCHANGED <<world, doctor, route, plan>>, Quiet,
         app'.mine = app.mine, Good(app', count.launches), app'.mode = "cockpit",
         context' = context \/ context' = UiContext(app'), aged' \in BOOLEAN, up' \in BOOLEAN,
         count' \in Counted, count'.launches = count.launches
  PROVE  IInv'
<1>1. effect' = None /\ UNCHANGED <<owner, stage, attached, attach, next>> /\ Streaming
  BY CockpitStreams DEF Quiet, Silent
<1>2. Held' /\ StreamsTyped'
  BY <1>1, InTheCockpit, HeldStays, StreamsStay
<1>q. QED
  BY <1>1, <1>2, InTheCockpit, CockpitStep

LEMMA AfterKeyStep ==
  ASSUME IInv, stage = "cockpit", UNCHANGED <<world, doctor, route, plan>>,
         count' \in Counted, count'.launches = count.launches,
         NEW k, AfterCockpitKey(HandleKey(app, k), KeyAction(app, k))
  PROVE  IInv'
<1> DEFINE a == HandleKey(app, k)
           action == KeyAction(app, k)
           recorded == action \in RecordedKeys /\ ~(action = "Escape" /\ app.view = "search")
           moved == recorded \/ a.daemon # app.daemon
<1>0. Streaming
  BY CockpitStreams
<1>1. app' = a
  BY DEF AfterCockpitKey
<1>2. Good(a, count.launches) /\ a.mode = app.mode /\ a.mine = app.mine
  BY <1>0, InTheCockpit, KeyGood
<1>3. \/ Leaves("left") /\ Silent /\ UNCHANGED attached /\ RecordUiEvent(a)
      \/ AcceptsText(a) /\ Types(a) /\ NoRecord
      \/ Quiet /\ RecordIf(moved, a)
  BY DEF AfterCockpitKey
<1>m. moved \in BOOLEAN
  OBVIOUS
<1> HIDE DEF a, action, moved
<1>5. CASE Leaves("left") /\ Silent /\ UNCHANGED attached /\ RecordUiEvent(a)
  <2>1. context' = UiContext(app') /\ aged' = FALSE /\ up' = TRUE /\ effect' = None
    BY <1>1, <1>5 DEF RecordUiEvent, SetContext, Silent
  <2>q. QED
    BY <1>0, <1>1, <1>2, <1>5, <2>1, InTheCockpit, LeavesStep
<1>6. CASE AcceptsText(a) /\ Types(a) /\ NoRecord
  <2>1. (context' = context \/ context' = UiContext(app')) /\ aged' \in BOOLEAN /\ up' \in BOOLEAN
    BY <1>0, <1>6, InTheCockpit DEF NoRecord
  <2>q. QED
    BY <1>0, <1>1, <1>2, <1>6, <2>1, InTheCockpit, TypesStep
<1>7. CASE Quiet /\ RecordIf(moved, a)
  <2>1. (context' = context \/ context' = UiContext(app')) /\ aged' \in BOOLEAN /\ up' \in BOOLEAN
    BY <1>0, <1>1, <1>7, <1>m, InTheCockpit, RecordIs
  <2>q. QED
    BY <1>0, <1>1, <1>2, <1>7, <2>1, InTheCockpit, QuietStep
<1>q. QED
  BY <1>3, <1>5, <1>6, <1>7

\* The choice in the switcher: the attached session, a daemon, or another agent, whose stream
\* is opened while the old one is held.
LEMMA ChooseStep ==
  ASSUME IInv, stage = "cockpit", UNCHANGED <<world, doctor, route, plan>>,
         count' \in Counted, count'.launches = count.launches,
         NEW a, Same(app, a), NEW s, ChooseSession(a, s)
  PROVE  IInv'
<1>s. Streaming
  BY CockpitStreams
<1>0. Good(a, count.launches) /\ a.mode = "cockpit" /\ a.mine = app.mine
  BY <1>s, InTheCockpit, SameGood
<1>1. CASE Selection(a, s) = "attach" /\ s # attached
  <2>0. SwitchAgentAttach(a, s)
    BY <1>1 DEF ChooseSession
  <2>1. CASE up /\ s \in Running
    <3> DEFINE m == Owned(owner, s)
               o == Attached(owner, s)
    <3>1. /\ stage' = "switching" /\ next' = [of |-> s, mine |-> m, attach |-> "open"]
          /\ owner' = o /\ app' = a /\ effect' = None
          /\ UNCHANGED <<context, aged, up, attached, attach>>
      BY <2>0, <2>1 DEF SwitchAgentAttach, Silent, NoRecord
    <3>2. s \in Sessions
      BY <2>1 DEF Running
    <3>3. /\ o \in Owners /\ m \in BOOLEAN /\ m = (o[s] = "cockpit")
          /\ \A x \in Sessions \ {s} : o[x] = owner[x]
      BY <1>s, <3>2, InTheCockpit, AttachedOwners
    <3> HIDE DEF m, o
    <3>4. /\ next' \in NextAttach /\ next'.of = s /\ next'.mine = m
          /\ next'.attach = "open" /\ Streaming'
      <4>1. next' \in NextAttach
        BY <3>1, <3>2, <3>3 DEF NextAttach, Streams
      <4>2. next'.of = s /\ next'.mine = m /\ next'.attach = "open"
        BY <3>1
      <4>3. Streaming'
        BY <3>1 DEF Streaming
      <4>q. QED
        BY <4>1, <4>2, <4>3
    <3>5. Held'
      BY <1>0, <1>1, <1>s, <3>1, <3>2, <3>3, <3>4, InTheCockpit DEF Held, OwnershipIsKnown, Opened, Streaming, Shown
    <3>6. StreamsTyped'
      BY <1>s, <3>1, <3>4, InTheCockpit DEF StreamsTyped
    <3>q. QED
      BY <1>0, <1>s, <3>1, <3>3, <3>5, <3>6, InTheCockpit, CockpitStep
  <2>2. CASE ~(up /\ s \in Running)
    <3>1. app' = a /\ Quiet /\ NoRecord
      BY <2>0, <2>2 DEF SwitchAgentAttach
    <3>3. (context' = context \/ context' = UiContext(app')) /\ aged' \in BOOLEAN /\ up' \in BOOLEAN
      BY <1>s, <3>1, InTheCockpit DEF NoRecord
    <3>q. QED
      BY <1>0, <3>1, <3>3, QuietStep
  <2>q. QED
    BY <2>1, <2>2
<1>2. CASE ~(Selection(a, s) = "attach" /\ s # attached)
  <2> DEFINE b == SelectSession(a, s)
             moved == b.daemon # a.daemon
  <2>1. app' = b /\ Quiet /\ RecordIf(moved, b) /\ moved \in BOOLEAN
    BY <1>2 DEF ChooseSession, Selects
  <2>2. Good(b, count.launches) /\ b.mode = a.mode /\ b.mine = a.mine
    BY <1>0, ChosenGood
  <2> HIDE DEF b, moved
  <2>4. (context' = context \/ context' = UiContext(app')) /\ aged' \in BOOLEAN /\ up' \in BOOLEAN
    BY <1>s, <2>1, InTheCockpit, RecordIs
  <2>q. QED
    BY <1>0, <2>1, <2>2, <2>4, QuietStep
<1>q. QED
  BY <1>1, <1>2

LEMMA SwitcherStep ==
  ASSUME IInv, stage = "cockpit", UNCHANGED <<world, doctor, route, plan>>,
         count' \in Counted, count'.launches = count.launches, NEW k, SwitcherKey(k)
  PROVE  IInv'
<1>s. Streaming
  BY CockpitStreams
<1>0. app \in A
  BY <1>s, InTheCockpit DEF Good, Fine, Whole
<1>1. CASE k = "Enter" /\ app.switch.sel # None
  <2>1. ChooseSession(CloseSwitcher(app), app.switch.sel)
    BY <1>1 DEF SwitcherKey
  <2>q. QED
    BY <1>0, <2>1, CloseSwitcherSame, ChooseStep
<1>2. CASE ~(k = "Enter" /\ app.switch.sel # None)
  <2>1. Same(app, app') /\ Quiet /\ NoRecord
    <3>1. CASE k = "Esc"
      BY <1>0, <3>1, CloseSwitcherSame DEF SwitcherKey
    <3>2. CASE k \in {"k", "j", "Tab"}
      <4>1. app' = MoveSwitcher(app, k # "k") /\ Quiet /\ NoRecord
        BY <3>2 DEF SwitcherKey
      <4>2. (k # "k") \in BOOLEAN
        OBVIOUS
      <4>q. QED
        BY <1>0, <4>1, <4>2, MoveSwitcherSame
    <3>3. CASE k \notin {"Esc", "k", "j", "Tab"}
      <4>1. app' = app /\ Quiet /\ NoRecord
        BY <1>2, <3>3 DEF SwitcherKey
      <4>q. QED
        BY <1>0, <4>1, SameSelf
    <3>q. QED
      BY <3>1, <3>2, <3>3
  <2>2. Good(app', count.launches) /\ app'.mode = "cockpit" /\ app'.mine = app.mine
    BY <1>s, <2>1, InTheCockpit, SameGood
  <2>4. (context' = context \/ context' = UiContext(app')) /\ aged' \in BOOLEAN /\ up' \in BOOLEAN
    BY <1>s, <2>1, InTheCockpit DEF NoRecord
  <2>q. QED
    BY <2>1, <2>2, <2>4, QuietStep
<1>q. QED
  BY <1>1, <1>2

LEMMA CockpitKeyStep == ASSUME IInv, NEW k, CockpitKey(k) PROVE IInv'
<1>0. stage = "cockpit" /\ UNCHANGED <<world, doctor, route, plan>> /\ Presses(k)
  BY DEF CockpitKey, InCockpit
<1>1. count' \in Counted /\ count'.launches = count.launches
  BY <1>0, PressesKeeps
<1>2. SwitcherKey(k) \/ AfterCockpitKey(HandleKey(app, k), KeyAction(app, k))
  BY DEF CockpitKey
<1>q. QED
  BY <1>0, <1>1, <1>2, SwitcherStep, AfterKeyStep

LEMMA PasteStep == ASSUME IInv, NEW tooLarge \in BOOLEAN, Paste(tooLarge) PROVE IInv'
<1>0. stage = "cockpit" /\ UNCHANGED <<world, doctor, route, plan, app>> /\ Streaming
  BY DEF Paste, InCockpit, Streaming
<1>1. count' \in Counted /\ count'.launches = count.launches
  BY Typed, CountsKeeps DEF Paste
<1>2. \/ AcceptsText(app') /\ Types(app') /\ RecordIf(attach = "open", app')
      \/ Quiet /\ RecordUiEvent(app')
  BY <1>0 DEF Paste
<1>3. Good(app', count.launches) /\ app'.mode = "cockpit" /\ app'.mine = app.mine
  BY <1>0, InTheCockpit
<1>4. (context' = context \/ context' = UiContext(app')) /\ aged' \in BOOLEAN /\ up' \in BOOLEAN
  <2> DEFINE open == attach = "open"
  <2>1. open \in BOOLEAN
    OBVIOUS
  <2>2. RecordIf(open, app') \/ RecordUiEvent(app')
    BY <1>2
  <2> HIDE DEF open
  <2>q. QED
    BY <1>0, <2>1, <2>2, InTheCockpit, RecordIs
<1>q. QED
  BY <1>0, <1>1, <1>2, <1>3, <1>4, TypesStep, QuietStep

-----------------------------------------------------------------------------
\* The steps of a console.

LEMMA InTheConsole ==
  ASSUME IInv, stage \in {"ready", "console"}
  PROVE  /\ Good(app, count.launches) /\ app.mode = "console" /\ app \in A
         /\ (stage = "ready" => app.daemon \in Sessions)
         /\ world \in Worlds /\ count \in Counted /\ aged \in BOOLEAN /\ up \in BOOLEAN
<1>1. Good(app, count.launches) /\ app.mode = "console" /\ (stage = "ready" => app.daemon \in Sessions)
  BY DEF IInv, Presented, Open, Streaming
<1>q. QED
  BY <1>1, Typed DEF Good, Fine, Whole

\* What a key or an answer leaves of the model.
Console(a) == Good(a, count.launches) /\ a.mode = "console" /\ a \in A

LEMMA ConsoleSame ==
  ASSUME NEW a, Console(a), NEW b, Same(a, b) PROVE Console(b) /\ b.daemon = a.daemon
  BY SameGood DEF Console, Same

\* The console stays or leaves, and what it shows is in order.
LEMMA QuietConsole ==
  ASSUME IInv, stage \in {"ready", "console"}, UNCHANGED <<owner, doctor, route, plan, attached, attach, next, world>>,
         stage' \in {"console", "left", "failed"}, Console(app'), effect' = None,
         context' \in {context, UiContext(app'), None}, aged' \in BOOLEAN, up' \in BOOLEAN,
         count' \in Counted, count'.launches = count.launches
  PROVE  IInv'
<1>1. world' \in Worlds
  BY InTheConsole
<1>q. QED
  BY <1>1, ConsoleStep DEF Console

LEMMA StaysStep ==
  ASSUME IInv, InConsole("console"), count' \in Counted, count'.launches = count.launches,
         NEW a, Console(a), NEW b \in BOOLEAN, ConsoleStays(a, b)
  PROVE  IInv'
<1>1. /\ stage = "console" /\ stage' = "console" /\ app' = a /\ effect' = None
      /\ UNCHANGED <<owner, doctor, route, plan, attached, attach, next, world>> /\ RecordIf(b, a)
  BY DEF InConsole, ConsoleStays, Silent
<1>2. (context' = context \/ context' = UiContext(a)) /\ aged' \in BOOLEAN /\ up' \in BOOLEAN
  BY <1>1, InTheConsole, RecordIs
<1>q. QED
  BY <1>1, <1>2, QuietConsole

LEMMA ConsoleLeavesStep ==
  ASSUME IInv, NEW s \in {"ready", "console"}, InConsole(s), count' \in Counted, count'.launches = count.launches,
         NEW a, Console(a), NEW t \in {"left", "failed"}, ConsoleLeaves(t, a),
         \/ NoRecord \/ RecordUiEvent(a)
         \/ up' = TRUE /\ context' = None /\ aged' = FALSE
  PROVE  IInv'
<1>1. /\ stage = s /\ stage' = t /\ app' = a /\ effect' = None
      /\ UNCHANGED <<owner, doctor, route, plan, attached, attach, next, world>>
  BY DEF InConsole, ConsoleLeaves, Silent
<1>2. context' \in {context, UiContext(a), None} /\ aged' \in BOOLEAN /\ up' \in BOOLEAN
  BY <1>1, InTheConsole DEF RecordUiEvent, SetContext, NoRecord
<1>q. QED
  BY <1>1, <1>2, QuietConsole

\* A command strikes the session that was typed to confirm it, or no session.
LEMMA RunsStrikes ==
  ASSUME world \in Worlds, NEW op \in Ops, NEW typed, app.daemon \in Sessions,
         op # "status" => typed = app.daemon, Runs(op, typed)
  PROVE  /\ world' \in Worlds
         /\ effect' = None \/ \E s \in Sessions : effect' = [kind |-> "struck", on |-> s, by |-> s]
<1>1. CASE op = "status"
  BY <1>1 DEF Runs, Silent
<1>2. CASE op # "status"
  <2>1. effect' = [kind |-> "struck", on |-> app.daemon, by |-> app.daemon] /\ Strikes(op, app.daemon)
    BY <1>2 DEF Runs
  <2>2. \/ world' = [world EXCEPT ![app.daemon] = "ended"]
        \/ world' = [world EXCEPT ![app.daemon] = "gone"]
        \/ world' = world
    BY <2>1 DEF Strikes
  <2>3. world' \in Worlds
    BY <2>2 DEF Worlds
  <2>q. QED
    BY <2>1, <2>3
<1>q. QED
  BY <1>1, <1>2

LEMMA ExecuteStep ==
  ASSUME IInv, InConsole("console"), count' \in Counted, count'.launches = count.launches,
         NEW a, Console(a), a.daemon = app.daemon, NEW op \in Ops, NEW confirmation, NEW typed,
         op # "status" => typed = confirmation,
         ExecuteConsoleCommand(a, op, confirmation, typed)
  PROVE  IInv'
<1> DEFINE b == [a EXCEPT !.out = TRUE]
<1>0. stage = "console" /\ UNCHANGED <<owner, doctor, route, plan, attached, attach, next>>
  BY DEF InConsole
<1>1. CASE a.daemon # None /\ (op = "status" \/ confirmation = a.daemon)
  <2>1. /\ app' = b /\ context' = UiContext(b) /\ aged' = FALSE /\ up' = TRUE /\ stage' = stage
        /\ Runs(op, typed)
    BY <1>1 DEF ExecuteConsoleCommand, Publishes, RecordUiEvent, SetContext
  <2>2. app.daemon \in Sessions
    BY <1>0, <1>1, InTheConsole, FieldsAre
  <2>3. /\ world' \in Worlds
        /\ effect' = None \/ \E s \in Sessions : effect' = [kind |-> "struck", on |-> s, by |-> s]
    BY <1>0, <1>1, <2>1, <2>2, InTheConsole, RunsStrikes
  <2>4. Same(a, b)
    BY SetFlags DEF Console
  <2> HIDE DEF b
  <2>5. Console(b)
    BY <2>4, ConsoleSame
  <2>q. QED
    BY <1>0, <2>1, <2>3, <2>5, ConsoleStep DEF Console
<1>2. CASE ~(a.daemon # None /\ (op = "status" \/ confirmation = a.daemon))
  <2>1. ConsoleLeaves("failed", a) /\ NoRecord
    BY <1>2 DEF ExecuteConsoleCommand
  <2>q. QED
    BY <2>1, ConsoleLeavesStep
<1>q. QED
  BY <1>1, <1>2

LEMMA ConsoleAppNow ==
  ASSUME IInv, stage \in {"ready", "console"} PROVE Console(app)
  BY InTheConsole DEF Console

LEMMA PromptingKeeps ==
  ASSUME IInv, Prompting
  PROVE  InConsole("console") /\ count' \in Counted /\ count'.launches = count.launches /\ Console(app)
<1>1. InConsole("console") /\ Counts("keys", MaxKeys) /\ stage = "console"
  BY DEF Prompting, InConsole
<1>q. QED
  BY <1>1, Typed, CountsKeeps, ConsoleAppNow

LEMMA PaletteStep == ASSUME IInv, NEW op \in Ops \cup {"nothing", "unknown"}, PaletteEnter(op) PROVE IInv'
<1> DEFINE a == [app EXCEPT !.palette = FALSE]
           d == a.daemon
           b == [a EXCEPT !.confirm = [op |-> op, challenge |-> d]]
<1>0. Prompting
  BY DEF PaletteEnter
<1>1. InConsole("console") /\ count' \in Counted /\ count'.launches = count.launches /\ Console(app)
  BY <1>0, PromptingKeeps
<1>2. \/ op = "status" /\ ExecuteConsoleCommand(a, op, None, None)
      \/ op \in Ops \ {"status"} /\ ConsoleStays(b, FALSE)
      \/ ConsoleStays(a, FALSE)
      \/ ConsoleLeaves("failed", a) /\ NoRecord
  BY DEF PaletteEnter
<1>3. Same(app, a)
  BY <1>1, SetFlags DEF Console
<1> HIDE DEF a
<1>4. Console(a) /\ d = app.daemon
  BY <1>1, <1>3, ConsoleSame
<1>5. CASE op = "status" /\ ExecuteConsoleCommand(a, op, None, None)
  <2>1. op \in Ops
    BY <1>5 DEF Ops
  <2>q. QED
    BY <1>1, <1>4, <1>5, <2>1, ExecuteStep
<1>6. CASE op \in Ops \ {"status"} /\ ConsoleStays(b, FALSE)
  <2>1. d \in Sessions \cup {None} /\ op \in {"none", "close", "kill", "delete"}
    BY <1>4, <1>6, FieldsAre DEF Console, Ops
  <2> HIDE DEF d
  <2>2. Same(a, b)
    BY <1>4, <2>1, SetConfirm DEF Console
  <2>3. Console(b)
    BY <1>4, <2>2, ConsoleSame
  <2> HIDE DEF b
  <2>q. QED
    BY <1>1, <1>6, <2>3, StaysStep
<1>7. CASE ConsoleStays(a, FALSE)
  BY <1>1, <1>4, <1>7, StaysStep
<1>8. CASE ConsoleLeaves("failed", a) /\ NoRecord
  BY <1>1, <1>4, <1>8, ConsoleLeavesStep
<1>q. QED
  BY <1>2, <1>5, <1>6, <1>7, <1>8

LEMMA ConfirmationStep ==
  ASSUME IInv, NEW answer \in Sessions \cup {None}, ConfirmationEnter(answer) PROVE IInv'
<1> DEFINE a == [app EXCEPT !.confirm = [op |-> "none", challenge |-> None]]
           b == [a EXCEPT !.out = TRUE]
           op == app.confirm.op
           challenge == app.confirm.challenge
<1>0. Prompting /\ op # "none"
  BY DEF ConfirmationEnter
<1>1. InConsole("console") /\ count' \in Counted /\ count'.launches = count.launches /\ Console(app)
  BY <1>0, PromptingKeeps
<1>2. \/ answer # challenge /\ ConsoleStays(b, FALSE)
      \/ /\ answer = challenge /\ op = "close" /\ ConsoleLeaves("left", a)
         /\ up' = TRUE /\ context' = None /\ aged' = FALSE
      \/ /\ answer = challenge /\ op # "close" /\ ExecuteConsoleCommand(a, op, challenge, answer)
  BY DEF ConfirmationEnter
<1>3. op \in {"none", "close", "kill", "delete"}
  BY <1>1 DEF Console, A, App
<1>4. Same(app, a)
  BY <1>1, SetConfirm DEF Console
<1> HIDE DEF a, op, challenge
<1>5. Console(a) /\ a.daemon = app.daemon
  BY <1>1, <1>4, ConsoleSame
<1>6. CASE answer # challenge /\ ConsoleStays(b, FALSE)
  <2>1. Same(a, b)
    BY <1>5, SetFlags DEF Console
  <2> HIDE DEF b
  <2>2. Console(b)
    BY <1>5, <2>1, ConsoleSame
  <2>q. QED
    BY <1>1, <1>6, <2>2, StaysStep
<1>7. CASE /\ answer = challenge /\ op = "close" /\ ConsoleLeaves("left", a)
           /\ up' = TRUE /\ context' = None /\ aged' = FALSE
  BY <1>1, <1>5, <1>7, ConsoleLeavesStep
<1>8. CASE answer = challenge /\ op # "close" /\ ExecuteConsoleCommand(a, op, challenge, answer)
  <2>1. op \in Ops
    BY <1>0, <1>3, <1>8 DEF Ops, op
  <2>q. QED
    BY <1>1, <1>5, <1>8, <2>1, ExecuteStep
<1>q. QED
  BY <1>2, <1>6, <1>7, <1>8

LEMMA CommandStep ==
  ASSUME IInv, NEW answer \in Sessions \cup {None}, NEW op \in Ops \cup {"none"}, CommandOnce(op, answer)
  PROVE  IInv'
<1> DEFINE a == [app EXCEPT !.out = TRUE]
           allowed == op = "status" \/ answer = app.daemon
<1>0. /\ InConsole("ready") /\ stage = "ready" /\ UNCHANGED count
      /\ UNCHANGED <<owner, doctor, route, plan, attached, attach, next>>
  BY DEF CommandOnce, InConsole
<1>1. count' \in Counted /\ count'.launches = count.launches /\ Console(app) /\ app.daemon \in Sessions
  BY <1>0, InTheConsole, ConsoleAppNow
<1>2. \/ ConsoleLeaves("left", app) /\ RecordUiEvent(app)
      \/ ConsoleLeaves("failed", app) /\ NoRecord
      \/ op # "none" /\ allowed /\ stage' = "left" /\ Publishes(a) /\ Runs(op, answer)
  BY DEF CommandOnce
<1>3. CASE \/ ConsoleLeaves("left", app) /\ RecordUiEvent(app)
           \/ ConsoleLeaves("failed", app) /\ NoRecord
  BY <1>0, <1>1, <1>3, ConsoleLeavesStep
<1>4. CASE op # "none" /\ allowed /\ stage' = "left" /\ Publishes(a) /\ Runs(op, answer)
  <2>1. app' = a /\ context' = UiContext(a) /\ aged' = FALSE /\ up' = TRUE
    BY <1>4 DEF Publishes, RecordUiEvent, SetContext
  <2>2. op \in Ops /\ (op # "status" => answer = app.daemon)
    BY <1>4
  <2>3. /\ world' \in Worlds
        /\ effect' = None \/ \E s \in Sessions : effect' = [kind |-> "struck", on |-> s, by |-> s]
    BY <1>0, <1>1, <1>4, <2>2, InTheConsole, RunsStrikes
  <2>4. Same(app, a)
    BY <1>1, SetFlags DEF Console
  <2> HIDE DEF a
  <2>5. Console(a)
    BY <1>1, <2>4, ConsoleSame
  <2>q. QED
    BY <1>0, <1>1, <1>4, <2>1, <2>3, <2>5, ConsoleStep DEF Console
<1>q. QED
  BY <1>2, <1>3, <1>4

LEMMA ConsoleKeyStep == ASSUME IInv, NEW k, ConsoleKey(k) PROVE IInv'
<1>0. InConsole("console") /\ stage = "console" /\ Presses(k)
  BY DEF ConsoleKey, InConsole
<1>1. count' \in Counted /\ count'.launches = count.launches /\ Console(app)
  BY <1>0, PressesKeeps, ConsoleAppNow
<1>2. CASE app.switch.open
  <2> DEFINE s == app.switch.sel
             c == CloseSwitcher(app)
             a == CASE k = "Enter" /\ s # None -> SelectSession(c, s)
                    [] k = "Esc" -> c
                    [] k \in {"k", "j", "Tab"} -> MoveSwitcher(app, k # "k")
                    [] OTHER -> app
             moved == a.daemon # app.daemon
  <2>1. ConsoleStays(a, moved) /\ moved \in BOOLEAN
    BY <1>2 DEF ConsoleKey, ConsoleSwitcherKey, ConsoleStaysAt
  <2>2. Console(c)
    BY <1>1, CloseSwitcherSame, ConsoleSame DEF Console
  <2>3. Console(SelectSession(c, s))
    <3> HIDE DEF c, s
    <3>1. LET b == SelectSession(c, s) IN Good(b, count.launches) /\ b.mode = c.mode
      BY <2>2, ChosenGood DEF Console
    <3>q. QED
      BY <2>2, <3>1 DEF Console, Good, Fine, Whole
  <2>4. Console(MoveSwitcher(app, k # "k"))
    <3> DEFINE down == k # "k"
    <3>1. down \in BOOLEAN
      OBVIOUS
    <3> HIDE DEF down
    <3>2. Same(app, MoveSwitcher(app, down))
      BY <1>1, <3>1, MoveSwitcherSame DEF Console
    <3>q. QED
      BY <1>1, <3>2, ConsoleSame DEF down
  <2>5. Console(a)
    <3> HIDE DEF c, s
    <3>1. CASE k = "Enter" /\ s # None
      BY <2>3, <3>1
    <3>2. CASE k = "Esc"
      BY <2>2, <3>2
    <3>3. CASE k \in {"k", "j", "Tab"}
      BY <2>4, <3>3
    <3>4. CASE ~(k = "Enter" /\ s # None) /\ k \notin {"Esc", "k", "j", "Tab"}
      BY <1>1, <3>4
    <3>q. QED
      BY <3>1, <3>2, <3>3, <3>4
  <2> HIDE DEF a, moved
  <2>q. QED
    BY <1>0, <1>1, <2>1, <2>5, StaysStep
<1>3. CASE ~app.switch.open /\ app.confirm.op # "none"
  <2> DEFINE a == IF k = "Esc" THEN [app EXCEPT !.confirm = [op |-> "none", challenge |-> None]] ELSE app
  <2>1. ConsoleStays(a, FALSE)
    BY <1>3 DEF ConsoleKey
  <2>2. Same(app, [app EXCEPT !.confirm = [op |-> "none", challenge |-> None]]) /\ Same(app, app)
    BY <1>1, SetConfirm, SameSelf DEF Console
  <2>3. Same(app, a)
    BY <2>2
  <2> HIDE DEF a
  <2>4. Console(a)
    BY <1>1, <2>3, ConsoleSame
  <2>q. QED
    BY <1>0, <1>1, <2>1, <2>4, StaysStep
<1>4. CASE ~app.switch.open /\ app.confirm.op = "none" /\ app.palette
  <2> DEFINE a == IF k = "Esc" THEN [app EXCEPT !.palette = FALSE] ELSE app
  <2>1. ConsoleStays(a, FALSE)
    BY <1>4 DEF ConsoleKey
  <2>2. Same(app, [app EXCEPT !.palette = FALSE]) /\ Same(app, app)
    BY <1>1, SetFlags, SameSelf DEF Console
  <2>3. Same(app, a)
    BY <2>2
  <2> HIDE DEF a
  <2>4. Console(a)
    BY <1>1, <2>3, ConsoleSame
  <2>q. QED
    BY <1>0, <1>1, <2>1, <2>4, StaysStep
<1>5. CASE ~app.switch.open /\ app.confirm.op = "none" /\ ~app.palette
  <2> DEFINE a == HandleKey(app, k)
             action == KeyAction(app, k)
             b == [a EXCEPT !.confirm = [op |-> "close", challenge |-> None]]
             moved == action \in RecordedKeys \/ a.daemon # app.daemon
  <2>1. AfterConsoleKey(a, action)
    BY <1>5 DEF ConsoleKey
  <2>2. Console(a)
    BY <1>1, KeyGood DEF Console, Good, Fine, Whole
  <2>3. moved \in BOOLEAN
    OBVIOUS
  <2>4. \/ ConsoleLeaves("left", a) /\ RecordUiEvent(a)
        \/ ConsoleStays(b, FALSE)
        \/ ConsoleStays(a, moved)
    BY <2>1 DEF AfterConsoleKey
  <2> HIDE DEF a, action, moved
  <2>5. Same(a, b)
    BY <2>2, SetConfirm DEF Console
  <2> HIDE DEF b
  <2>6. Console(b)
    BY <2>2, <2>5, ConsoleSame
  <2>7. CASE ConsoleLeaves("left", a) /\ RecordUiEvent(a)
    BY <1>0, <1>1, <2>2, <2>7, ConsoleLeavesStep
  <2>8. CASE ConsoleStays(b, FALSE)
    BY <1>0, <1>1, <2>6, <2>8, StaysStep
  <2>9. CASE ConsoleStays(a, moved)
    BY <1>0, <1>1, <2>2, <2>3, <2>9, StaysStep
  <2>q. QED
    BY <2>4, <2>7, <2>8, <2>9
<1>6. app.switch.open \in BOOLEAN /\ app.palette \in BOOLEAN
  BY <1>1 DEF Console, A, App
<1>q. QED
  BY <1>2, <1>3, <1>4, <1>5, <1>6

LEMMA InteractiveStep == ASSUME IInv, Interactive PROVE IInv'
<1>1. /\ stage = "ready" /\ stage' = "console" /\ effect' = None
      /\ UNCHANGED <<owner, doctor, route, plan, attached, attach, next, world, app, count, context, aged, up>>
  BY DEF Interactive, InConsole, Silent, NoRecord
<1>2. Console(app') /\ count \in Counted /\ aged \in BOOLEAN /\ up \in BOOLEAN
  BY <1>1, InTheConsole, ConsoleAppNow DEF Console
<1>q. QED
  BY <1>1, <1>2, QuietConsole

LEMMA ConsoleRefreshStep == ASSUME IInv, ConsoleRefresh PROVE IInv'
<1>1. /\ stage = "console" /\ stage' = "console" /\ effect' = None /\ up' = TRUE
      /\ UNCHANGED <<owner, doctor, route, plan, attached, attach, next, world, app, count, context, aged>>
  BY DEF ConsoleRefresh, InConsole, Silent
<1>2. Console(app') /\ count \in Counted /\ aged \in BOOLEAN
  BY <1>1, InTheConsole, ConsoleAppNow DEF Console
<1>q. QED
  BY <1>1, <1>2, QuietConsole

-----------------------------------------------------------------------------
\* The steps of everybody else.

\* What is left of the streams when some are cut: their owners stay known when every stream
\* that is still open keeps its session's owner.
CutStep(to) ==
  /\ attach' = attach \/ (attach = "open" /\ attach' = to)
  /\ StreamsTyped'
  /\ stage = "switching" =>
       next'.of = next.of /\ next'.mine = next.mine /\ next'.attach \in {next.attach, to}
  /\ stage # "switching" => next' = next

LEMMA CutsKeep ==
  ASSUME IInv, UNCHANGED <<stage, attached>>, NEW to \in {"closed", "eof"}, NEW b \in BOOLEAN, NEW c \in BOOLEAN,
         Cuts(to, b, c)
  PROVE  CutStep(to)
<1>1. \/ next' = next
      \/ stage = "switching" /\ next' = [next EXCEPT !.attach = to]
  BY DEF Cuts
<1>2. attach' = attach \/ (attach = "open" /\ attach' = to)
  BY DEF Cuts
<1>3. StreamsTyped
  BY Typed
<1>4. StreamsTyped' /\ (stage = "switching" =>
        next'.of = next.of /\ next'.mine = next.mine /\ next'.attach \in {next.attach, to})
  BY <1>1, <1>2, <1>3 DEF StreamsTyped, NextAttach, Streams, Streaming
<1>q. QED
  BY <1>1, <1>2, <1>4 DEF CutStep

LEMMA CutsNext ==
  ASSUME IInv, UNCHANGED stage, NEW to \in {"closed", "eof"}, NEW b, NEW c, Cuts(to, b, c),
         stage = "switching", next'.attach = "open"
  PROVE  ~c
<1>1. next \in NextAttach
  BY Typed DEF StreamsTyped
<1>q. QED
  BY <1>1 DEF Cuts, NextAttach, Streams

LEMMA HeldCut ==
  ASSUME IInv, UNCHANGED <<stage, app, attached>>, NEW to \in {"closed", "eof"}, CutStep(to),
         \A x \in Sessions : owner'[x] = "cockpit" => owner[x] = "cockpit",
         attach' = "open" => owner'[Shown] = owner[Shown],
         (stage = "switching" /\ next'.attach = "open") => owner'[next.of] = owner[next.of]
  PROVE  Held'
<1>1. Held
  BY DEF IInv
<1>2. Streaming' = Streaming
  BY DEF Streaming
<1>3. Shown' = Shown /\ (stage = "switching" => next'.of = next.of)
  BY DEF CutStep, Shown
<1>4. OwnershipIsKnown'
  BY <1>1, <1>2, <1>3 DEF CutStep, Held, OwnershipIsKnown
<1>5. Opened'
  BY <1>1, <1>3 DEF CutStep, Held, Opened
<1>q. QED
  BY <1>1, <1>2, <1>4, <1>5 DEF Held

LEMMA SessionSteps ==
  ASSUME IInv, NEW s \in Sessions, SessionStarts(s) \/ SessionEnds(s) \/ SessionArchived(s) \/ RivalMoves(s)
  PROVE  IInv'
<1>1. /\ Counts("changes", MaxChanges) /\ effect' = None
      /\ UNCHANGED <<context, aged, doctor, route, stage, plan, app, attached, up>>
  BY DEF SessionStarts, SessionEnds, SessionArchived, RivalMoves, Others, Silent
<1>2. count' \in Counted /\ count'.launches = count.launches
  BY <1>1, Typed, CountsKeeps
<1>3. world' \in Worlds
  BY Typed DEF SessionStarts, SessionEnds, SessionArchived, RivalMoves, Moves, Worlds
<1>4. owner' \in Owners
  BY Typed DEF SessionStarts, SessionEnds, SessionArchived, RivalMoves, RivalAttaches, RivalLeaves, Owners
<1>5. CASE SessionStarts(s) \/ SessionArchived(s)
  <2>1. UNCHANGED <<owner, attach, next>>
    BY <1>5 DEF SessionStarts, SessionArchived
  <2>2. Held' /\ StreamsTyped'
    BY <1>1, <2>1, Typed, HeldStays, StreamsStay DEF IInv
  <2>q. QED
    BY <1>1, <1>2, <1>3, <1>4, <2>1, <2>2, Typed, OtherStep
<1>6. CASE RivalMoves(s)
  <2>1. /\ UNCHANGED <<attach, next>>
        /\ \/ owner[s] = "nobody" /\ owner' = [owner EXCEPT ![s] = "rival"]
           \/ owner[s] = "rival" /\ owner' = [owner EXCEPT ![s] = "nobody"]
    BY <1>6 DEF RivalMoves, RivalAttaches, RivalLeaves
  <2>2. \A x \in Sessions : (owner'[x] = "cockpit") = (owner[x] = "cockpit")
    BY <2>1, Typed DEF Owners
  <2>3. Held' /\ StreamsTyped'
    <3>1. StreamsTyped'
      BY <1>1, <2>1, Typed, StreamsStay
    <3>2. Streaming => Shown \in Sessions
      BY Typed DEF IInv, Held, StreamsTyped, NextAttach, Shown
    <3>3. stage = "switching" => next.of \in Sessions
      BY Typed DEF StreamsTyped, NextAttach
    <3>4. UNCHANGED <<Streaming, Shown>>
      BY <1>1, <2>1 DEF Streaming, Shown
    <3>q. QED
      BY <1>1, <2>1, <2>2, <3>1, <3>2, <3>3, <3>4 DEF IInv, Held, OwnershipIsKnown, Opened
  <2>q. QED
    BY <1>1, <1>2, <1>3, <1>4, <2>1, <2>3, Typed, OtherStep
<1>7. CASE SessionEnds(s)
  <2>1. PICK to \in {"closed", "eof"} : Cuts(to, s = Shown, stage = "switching" /\ s = next.of)
    BY <1>7 DEF SessionEnds
  <2>2. owner' = [owner EXCEPT ![s] = "nobody"]
    BY <1>7 DEF SessionEnds
  <2>3. /\ owner'[s] # "cockpit"
        /\ \A x \in Sessions : owner'[x] = "cockpit" => owner[x] = "cockpit"
        /\ \A x \in Sessions \ {s} : owner'[x] = owner[x]
    BY <2>2, Typed DEF Owners
  <2>4. CutStep(to)
    BY <1>1, <2>1, CutsKeep
  <2>5. /\ attach = "open" => Shown \in Sessions
        /\ stage = "switching" => next.of \in Sessions
    BY Typed DEF IInv, Held, StreamsTyped, NextAttach, Shown
  <2>6. attach' = "open" => owner'[Shown] = owner[Shown]
    BY <2>1, <2>3, <2>5 DEF Cuts
  <2>7. (stage = "switching" /\ next'.attach = "open") => owner'[next.of] = owner[next.of]
    <3>1. (stage = "switching" /\ next'.attach = "open") => s # next.of
      BY <1>1, <2>1, CutsNext
    <3>q. QED
      BY <2>3, <2>5, <3>1
  <2>8. Held' /\ StreamsTyped'
    BY <1>1, <2>3, <2>4, <2>6, <2>7, HeldCut DEF CutStep
  <2>9. up' = up
    BY <1>1
  <2>q. QED
    BY ONLY <1>1, <1>2, <1>3, <1>4, <2>8, <2>9, IInv, Typed, OtherStep
<1>q. QED
  BY <1>5, <1>6, <1>7

LEMMA HostSteps == ASSUME IInv, HostStops \/ HostStarts PROVE IInv'
<1>1. CASE HostStops
  <2>1. /\ Counts("changes", MaxChanges) /\ effect' = None /\ up' = FALSE
        /\ UNCHANGED <<context, aged, doctor, route, stage, plan, app, attached, world>>
        /\ owner' = Released(owner) /\ Cuts("eof", TRUE, TRUE)
    BY <1>1 DEF HostStops, Others, Silent
  <2>2. /\ count' \in Counted /\ count'.launches = count.launches /\ owner' \in Owners
        /\ \A x \in Sessions : owner'[x] # "cockpit"
    BY <2>1, Typed, CountsKeeps, ReleasedOwners
  <2>3. CutStep("eof")
    BY <2>1, CutsKeep
  <2>4. attach' # "open" /\ ~(stage = "switching" /\ next'.attach = "open")
    BY <2>1, <2>3, CutsNext DEF Cuts, CutStep
  <2>5. Held'
    BY <2>1, <2>2, <2>3, <2>4, HeldCut
  <2>q. QED
    BY <2>1, <2>2, <2>3, <2>5, Typed, OtherStep DEF CutStep
<1>2. CASE HostStarts
  <2>1. /\ effect' = None /\ up' = TRUE
        /\ UNCHANGED <<context, aged, doctor, route, stage, plan, app, attached, world, owner, attach, next, count>>
    BY <1>2 DEF HostStarts, Others, Silent
  <2>2. Held' /\ StreamsTyped'
    BY <2>1, Typed, HeldStays, StreamsStay DEF IInv
  <2>q. QED
    BY <2>1, <2>2, Typed, OtherStep
<1>q. QED
  BY <1>1, <1>2

LEMMA RouteIs ==
  ASSUME IInv, NEW id, NEW needFocus, RouteInput(id, needFocus) PROVE route' \in Sessions \cup {None}
<1>1. context \in Context
  BY DEF IInv, TypeOK, HostTypeOK, RouteInput
<1>2. PICK i \in DOMAIN context.panes : route' = context.panes[i].session
  BY DEF RouteInput
<1>3. context.panes[i] \in PaneContext
  BY <1>1 DEF Context
<1>q. QED
  BY <1>2, <1>3 DEF PaneContext

LEMMA ContextSteps ==
  ASSUME IInv,
         \/ ContextClosed \/ ContextAges \/ Doctor \/ InputSent
         \/ \E id \in Ids, needFocus \in BOOLEAN : InputSend(id, needFocus)
  PROVE  IInv'
<1>1. effect' = None /\ UNCHANGED <<up, stage, plan, app, attached, attach, next, world, owner>>
  BY DEF ContextClosed, ContextAges, Doctor, InputSent, InputSend, Elsewhere, Silent, CloseRequest, Grows,
         DoctorReads, DoctorCloses, SendRouted, RouteInput
<1>2. UNCHANGED count \/ Counts("changes", MaxChanges)
  BY DEF ContextClosed, ContextAges, Doctor, InputSent, InputSend
<1>3. count' \in Counted /\ count'.launches = count.launches
  BY <1>2, Typed, CountsKeeps
<1>4. context' \in {context, None} /\ aged' \in BOOLEAN /\ doctor' \in BOOLEAN
  BY Typed DEF ContextClosed, ContextAges, Doctor, InputSent, InputSend, CloseRequest, CloseContext, Grows,
         DoctorReads, DoctorCloses, SendRouted, RouteInput
<1>5. route' \in Sessions \cup {None}
  <2>1. CASE ContextClosed \/ ContextAges \/ Doctor \/ InputSent
    BY <2>1, Typed DEF ContextClosed, ContextAges, Doctor, InputSent, CloseRequest, Grows,
         DoctorReads, DoctorCloses, SendRouted
  <2>2. CASE \E id \in Ids, needFocus \in BOOLEAN : InputSend(id, needFocus)
    BY <2>2, RouteIs DEF InputSend
  <2>q. QED
    BY <2>1, <2>2
<1>6. Held' /\ StreamsTyped'
  BY <1>1, Typed, HeldStays, StreamsStay DEF IInv
<1>q. QED
  BY <1>1, <1>3, <1>4, <1>5, <1>6, Typed, OtherStep

LEMMA StutterStep == ASSUME IInv, UNCHANGED vars PROVE IInv'
<1>1. Held'
  BY HeldStays DEF vars, uiVars, hostVars, IInv
<1>2. TypeOK' /\ Prior(context', count'.launches)
  BY DEF vars, uiVars, hostVars, IInv, TypeOK, HostTypeOK
<1>q. QED
  BY <1>1, <1>2 DEF vars, uiVars, hostVars, IInv, Planned, Presented, Open, Streaming, KeysReachShownSession

-----------------------------------------------------------------------------
LEMMA Inductive == ASSUME IInv, [Next]_vars PROVE IInv'
<1>1. CASE Launch \/ EnsureAgentSession \/ BuildCockpitApp \/ OpenAgentAttach \/ SnapshotOnce
  BY <1>1, LaunchStep, EnsureStep, BuildStep, OpenAgentAttachStep, SnapshotOnceStep
<1>2. CASE ErrorFrame \/ StreamCloses \/ ReopenAttach \/ RefreshSessions \/ ResizeTerminal
  BY <1>2, ErrorFrameStep, StreamClosesStep, ReopenAttachStep, RefreshStep, ResizeStep
<1>3. CASE SwitchFails \/ SwitchBinds \/ SwitchPublishes
  BY <1>3, SwitchFailsStep, SwitchBindsStep, SwitchPublishesStep
<1>4. CASE \E k \in Keys : CockpitKey(k) \/ ConsoleKey(k)
  BY <1>4, CockpitKeyStep, ConsoleKeyStep
<1>5. CASE \E tooLarge \in BOOLEAN : Paste(tooLarge)
  BY <1>5, PasteStep
<1>6. CASE \E limit \in {0, 1, 2} : LaunchConsole(limit)
  BY <1>6, LaunchConsoleStep
<1>7. CASE Interactive \/ ConsoleRefresh
  BY <1>7, InteractiveStep, ConsoleRefreshStep
<1>8. CASE \E op \in Ops \cup {"nothing", "unknown"} : PaletteEnter(op)
  BY <1>8, PaletteStep
<1>9. CASE \E answer \in Sessions \cup {None} :
             ConfirmationEnter(answer) \/ \E op \in Ops \cup {"none"} : CommandOnce(op, answer)
  BY <1>9, ConfirmationStep, CommandStep
<1>10. CASE \E s \in Sessions : SessionStarts(s) \/ SessionEnds(s) \/ SessionArchived(s) \/ RivalMoves(s)
  BY <1>10, SessionSteps
<1>11. CASE HostStops \/ HostStarts
  BY <1>11, HostSteps
<1>12. CASE \/ ContextClosed \/ ContextAges \/ Doctor \/ InputSent
            \/ \E id \in Ids, needFocus \in BOOLEAN : InputSend(id, needFocus)
  BY <1>12, ContextSteps
<1>13. CASE UNCHANGED vars
  BY <1>13, StutterStep
<1>q. QED
  BY <1>1, <1>2, <1>3, <1>4, <1>5, <1>6, <1>7, <1>8, <1>9, <1>10, <1>11, <1>12, <1>13 DEF Next

LEMMA Invariant == Spec => []IInv
<1>1. Init => IInv
  BY InitFine
<1>2. IInv /\ [Next]_vars => IInv'
  BY Inductive
<1>q. QED
  BY <1>1, <1>2, PTL DEF Spec

-----------------------------------------------------------------------------
\* The interface's model, the sessions and their owners, the published context and what is under
\* way keep their types, for any sessions, places and bounds.
THEOREM TypeCorrect == Spec => []TypeOK
<1>1. IInv => TypeOK
  BY DEF IInv
<1>q. QED
  BY <1>1, Invariant, PTL

\* The focus is nowhere or on a pane that is there and not stale, exactly that pane is marked,
\* and a pane is stale exactly when the last snapshot cannot fill it: after every launch,
\* restored context, key, choice in the switcher and refresh (app.rs, FocusPane to RestoreContext).
THEOREM FocusSound == Spec => []FocusIsSound
<1>1. IInv => FocusIsSound
  <2> SUFFICES ASSUME IInv, Open PROVE FocusIsSound
    BY DEF FocusIsSound
  <2>1. Fine(app) /\ Focused(app) /\ app \in A
    BY DEF IInv, Presented, Good, Fine, Whole
  <2>2. app.active = None \/ PaneWithId(app, app.active) # 0
    BY <2>1, Found DEF Focused, Seated
  <2>q. QED
    BY <2>1, <2>2 DEF FocusIsSound, Focused, Marked, Fine, Exact
<1>q. QED
  BY <1>1, Invariant, PTL

\* The daemon, the agent and the selection that keys and commands act on are sessions of the
\* last snapshot, whatever started, ended or was archived since and whatever was restored.
THEOREM NamesListed == Spec => []NamesAreListed
<1>1. IInv => NamesAreListed
  BY DEF IInv, Presented, Good, Listing, NamesAreListed
<1>q. QED
  BY <1>1, Invariant, PTL

\* Keys and pastes are typed into the session that the focused pane shows, and only while the
\* cockpit owns its input: across switches, lost streams, reopened attaches and rivals.
THEOREM KeysReach == Spec => []KeysReachShownSession
<1>1. IInv => KeysReachShownSession
  BY DEF IInv
<1>q. QED
  BY <1>1, Invariant, PTL

\* The cockpit takes itself for the owner of the shown session's input exactly while its open
\* stream holds it, and holds no other but the one it is switching to: whatever fails in a
\* switch, and whatever ends, is cut, is reopened or is taken by a rival meanwhile.
THEOREM OwnershipKnown == Spec => []OwnershipIsKnown
<1>1. IInv => OwnershipIsKnown
  BY DEF IInv, Held
<1>q. QED
  BY <1>1, Invariant, PTL
=============================================================================
