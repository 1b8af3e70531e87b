------------------------------- MODULE AppModel -------------------------------
(***************************************************************************)
(* The model behind the two terminal interfaces, the agent cockpit and the *)
(* daemon console: panes, focus, the selected sessions, the snapshot of    *)
(* the workspace's sessions they were last shown, and the modes a key is   *)
(* read in.  Every operator maps one such state to the next one; Cockpit   *)
(* calls them from the interfaces' loops.                                  *)
(*                                                                         *)
(* A pane's content is one of four kinds: a session's terminal (agent), a  *)
(* daemon's log (daemon), the list of sessions (list), the output of the   *)
(* last command (output).  Text, sizes and layout are left out.            *)
(***************************************************************************)
EXTENDS Naturals, FiniteSets, SequencesExt

CONSTANTS
  Sessions,
  Daemons,   \* the sessions whose role is millrace_daemon
  Place,     \* the workspace of each session
  Order,     \* the sessions in the order of the host's answers, daemons first
  None

ASSUME OrderAssumption ==
  /\ Daemons \subseteq Sessions /\ None \notin Sessions
  /\ Order \in Seq(Sessions) /\ ToSet(Order) = Sessions /\ Len(Order) = Cardinality(Sessions)
  /\ \A i, j \in DOMAIN Order : (Order[i] \notin Daemons /\ Order[j] \in Daemons) => j < i

Workspaces == {Place[s] : s \in Sessions}
ASSUME PlaceAssumption == None \notin Workspaces

\* A state of the model.  `open` holds the sessions of the snapshot that can be
\* attached, `mine` says that the terminal's attach owns the session's input.
Pane(Ids) ==
  [id : Ids, kind : {"agent", "daemon", "list", "output"}, session : Sessions \cup {None},
   focused : BOOLEAN, stale : BOOLEAN]
App(Ids) ==
  [mode : {"cockpit", "console"}, ws : SUBSET Sessions, open : SUBSET Sessions, ds : SUBSET Sessions,
   place : Workspaces \cup {None},
   panes : Seq(Pane(Ids)),
   active : Ids \cup {None}, sel : Sessions \cup {None}, daemon : Sessions \cup {None},
   agent : Sessions \cup {None}, mine : BOOLEAN, follow : BOOLEAN,
   prefix : BOOLEAN, view : {"live", "scroll", "search"}, palette : BOOLEAN, help : BOOLEAN,
   switch : [open : BOOLEAN, sel : Sessions \cup {None}],
   confirm : [op : {"none", "close", "kill", "delete"}, challenge : Sessions \cup {None}],
   out : BOOLEAN]

-----------------------------------------------------------------------------
\* Lookups.

FirstIn(I) == IF I = {} THEN 0 ELSE Min(I)
\* Around a set of positions, from one of them, or from the first if `at` is none of them.
Anchor(I, at) == IF at \in I THEN at ELSE Min(I)
After(I, at) ==
  LET rest == {i \in I : i > Anchor(I, at)} IN IF rest = {} THEN Min(I) ELSE Min(rest)
Before(I, at) ==
  LET rest == {i \in I : i < Anchor(I, at)} IN IF rest = {} THEN Max(I) ELSE Max(rest)

Positions(S) == {i \in DOMAIN Order : Order[i] \in S}
First(S) == IF S = {} THEN None ELSE Order[Min(Positions(S))]
Either(x, y) == IF x # None THEN x ELSE y

Selection(a, s) ==
  CASE s \notin a.ws -> "missing"
    [] s \in a.ws \cap Daemons -> "daemon"
    [] s \in (a.ws \ Daemons) \cap a.open -> "attach"
    [] OTHER -> "not attachable"

Fresh(a) == {i \in DOMAIN a.panes : ~a.panes[i].stale}
PaneWithId(a, id) == FirstIn({i \in Fresh(a) : a.panes[i].id = id})
PaneOfKind(a, kind) == FirstIn({i \in Fresh(a) : a.panes[i].kind = kind})
ActiveIndex(a) == FirstIn({i \in DOMAIN a.panes : a.panes[i].id = a.active})
ActivePaneIs(a, kind) ==
  PaneWithId(a, a.active) # 0 /\ a.panes[PaneWithId(a, a.active)].kind = kind

TargetPane(a, kind) ==
  IF ActivePaneIs(a, kind) THEN PaneWithId(a, a.active)
  ELSE PaneOfKind(a, kind)

FocusedSession(a) ==
  IF PaneWithId(a, a.active) = 0 THEN None ELSE a.panes[PaneWithId(a, a.active)].session
FocusedAttach(a) ==
  IF ActivePaneIs(a, "agent") THEN FocusedSession(a) ELSE None
\* The kind of the focused pane, whether or not it is stale.
AgentFocused(a) == ActiveIndex(a) # 0 /\ a.panes[ActiveIndex(a)].kind = "agent"
TerminalIsAttached(a) == FocusedAttach(a) # None /\ FocusedAttach(a) = a.agent

ViewIsStale(a, p) ==
  \/ p.kind = "agent" /\ Selection(a, p.session) # "attach"
  \/ p.kind = "daemon" /\ p.session \notin a.ds

Focusable(a) ==
  {i \in Fresh(a) : a.panes[i].kind = "output" => a.out}

-----------------------------------------------------------------------------
\* Focus and the content of the panes.

Bound(p, s) == [p EXCEPT !.session = s, !.stale = FALSE]
BindPane(a, i, s) ==
  IF i = 0 THEN a ELSE [a EXCEPT !.panes = [a.panes EXCEPT ![i] = Bound(a.panes[i], s)]]
Shows(a, s) ==
  FirstIn({i \in Fresh(a) : a.panes[i].kind = "daemon" /\ a.panes[i].session = s})
ShowDaemon(a, s) == BindPane(a, IF Shows(a, s) # 0 THEN 0 ELSE TargetPane(a, "daemon"), s)
Judged(a, p) ==
  [p EXCEPT !.stale = ViewIsStale(a, p), !.focused = p.focused /\ ~ViewIsStale(a, p)]
Restale(a) == [a EXCEPT !.panes = [i \in DOMAIN a.panes |-> Judged(a, a.panes[i])]]

\* The console moves the focus to the panes of the daemon; the cockpit leaves it alone.
Monitors(a, p, s) == a.mode = "console" /\ p.kind = "daemon" /\ p.session = s
ActivateMonitor(a, s) ==
  LET found == {i \in DOMAIN a.panes : Monitors(a, a.panes[i], s)} IN
  IF found = {} THEN a ELSE [a EXCEPT !.active = a.panes[Max(found)].id]
MarkMonitors(a, s) ==
  LET Marked(p) == Monitors(a, p, s) \/ (a.mode = "cockpit" /\ p.id = a.active) IN
  [a EXCEPT !.panes = [i \in DOMAIN a.panes |->
                         [a.panes[i] EXCEPT !.focused = Marked(a.panes[i])]]]

\* The panes are judged again at the end of the code's function as well; the focus cannot
\* move then, since what it judges by has not changed.
SelectDaemon(a, s) ==
  Restale(MarkMonitors(ActivateMonitor(
    ShowDaemon([a EXCEPT !.daemon = s, !.place = Place[s]], s), s), s))

FollowFocus(a) == IF FocusedSession(a) = None THEN a ELSE [a EXCEPT !.sel = FocusedSession(a)]
MarkFocus(a, id) ==
  [a EXCEPT !.active = id,
            !.panes = [i \in DOMAIN a.panes |-> [a.panes[i] EXCEPT !.focused = (a.panes[i].id = id)]]]
SelectShown(a, i) ==
  IF a.panes[i].kind = "daemon" /\ a.panes[i].session \in a.ds
  THEN SelectDaemon(a, a.panes[i].session) ELSE a

FocusPane(a, i) == FollowFocus(SelectShown(MarkFocus(a, a.panes[i].id), i))
FocusIfThere(a, i) == IF i = 0 THEN a ELSE FocusPane(a, i)
FocusFirst(a, found) == IF found = {} THEN [a EXCEPT !.active = None] ELSE FocusPane(a, Min(found))

SafeFallback(a) ==
  LET Of(kind) == {i \in Focusable(a) : a.panes[i].kind = kind} IN
  FocusFirst(a, CASE Of("agent") # {} -> Of("agent")
                  [] Of("agent") = {} /\ Of("daemon") # {} -> Of("daemon")
                  [] OTHER -> Focusable(a))

\* Mutant: the focus stays on a pane that became stale.
LeaveNothing(a) == a
LeaveStale(a) ==
  IF \E i \in DOMAIN a.panes : a.panes[i].id = a.active /\ a.panes[i].stale
  THEN SafeFallback(a) ELSE a
RefreshStaleness(a) == LeaveStale(Restale(a))

\* With nothing to focus a pane keeps its mark, although it is not active any more.
SwitchFocus(a) ==
  IF Focusable(a) = {} THEN [a EXCEPT !.active = None]
  ELSE FocusPane(a, After(Focusable(a), ActiveIndex(a)))

\* Bring the session to a pane and focus it there.
FocusDaemon(a, s) ==
  FocusIfThere(a, IF Shows(a, s) # 0 THEN Shows(a, s) ELSE PaneOfKind(a, "daemon"))
BindAndFocus(a, i, s) == FocusIfThere(BindPane(a, i, s), i)
SelectSession(a, s) ==
  CASE Selection(a, s) = "daemon" /\ s \in a.ds ->
         [FocusDaemon(SelectDaemon([a EXCEPT !.sel = s], s), s) EXCEPT !.sel = s]
    [] Selection(a, s) = "attach" ->
         [BindAndFocus([a EXCEPT !.sel = s, !.agent = s], TargetPane(a, "agent"), s) EXCEPT !.sel = s]
    [] OTHER -> a

-----------------------------------------------------------------------------
\* A new snapshot of the sessions.

AdoptDaemon(a, d) ==
  RefreshStaleness(
    IF d = None THEN [a EXCEPT !.daemon = None, !.place = None]
    ELSE ShowDaemon([a EXCEPT !.daemon = d, !.place = Place[d]], d))
ReplaceDaemons(a, found) ==
  AdoptDaemon([a EXCEPT !.ds = found], IF a.daemon \in found THEN a.daemon ELSE First(found))

\* An agent that is not listed any more is replaced by the first session of the list,
\* whether it runs or not.
AdoptAgent(a, g) ==
  IF a.agent \in a.ws THEN a ELSE BindPane([a EXCEPT !.agent = g], TargetPane(a, "agent"), g)
\* Mutant: a selection that is not listed any more is kept.
KeepSelection(a) == a
AdoptSelection(a) ==
  IF a.sel \in a.ws THEN a
  ELSE [a EXCEPT !.sel = Either(FocusedSession(a), Either(a.agent, a.daemon))]
ReplaceWorkspace(a, found, attachable) ==
  FollowFocus(RefreshStaleness(AdoptSelection(AdoptAgent(
    ReplaceDaemons([a EXCEPT !.ws = found, !.open = attachable], found \cap Daemons),
    First(found \ Daemons)))))

-----------------------------------------------------------------------------
\* The context an interface publishes, and an interface restored from one.

OverlayOwnsInput(a) == a.palette \/ a.help \/ a.confirm.op # "none"

UiContext(a) ==
  [panes |-> [i \in DOMAIN a.panes |->
      [id |-> a.panes[i].id, kind |-> a.panes[i].kind, session |-> a.panes[i].session,
       stale |-> a.panes[i].stale, focused |-> a.panes[i].id = a.active,
       live |-> a.panes[i].kind = "agent" => a.follow,
       readonly |-> a.panes[i].kind = "agent" /\ ~a.mine, overlay |-> OverlayOwnsInput(a)]],
   active |-> a.active, sel |-> a.sel, focused |-> FocusedSession(a),
   kind |-> IF ActiveIndex(a) = 0 THEN "none" ELSE a.panes[ActiveIndex(a)].kind,
   daemon |-> a.daemon, agent |-> a.agent, managed |-> a.ws]

\* The saved panes, with one of the new ones if none of them can be focused.
SavedPanes(a, context) ==
  [a EXCEPT !.active = None, !.panes = [i \in DOMAIN context.panes |->
     LET p == context.panes[i] IN
     [id |-> p.id, kind |-> p.kind, session |-> p.session, focused |-> FALSE, stale |-> ViewIsStale(a, p)]]]
WithOneOf(a, new) ==
  LET found == {i \in DOMAIN new.panes : ~ViewIsStale(a, new.panes[i])} IN
  IF Focusable(a) = {} /\ found # {}
  THEN [a EXCEPT !.panes = Append(a.panes, [new.panes[Min(found)] EXCEPT !.focused = FALSE])] ELSE a
FocusOrFallback(a, i) == IF i # 0 THEN FocusPane(a, i) ELSE SafeFallback(a)
FocusId(a, id) == FocusOrFallback(a, PaneWithId(a, id))
RestorePanes(a, context) ==
  IF context.panes = <<>> THEN a
  ELSE FocusId(WithOneOf(SavedPanes(a, context), a), context.active)

\* A context written before panes were saved names a kind of pane and a session.
LegacyDaemon(a, d) == IF d \in a.ds THEN SelectDaemon(a, d) ELSE a
LegacyAgent(a, g) ==
  IF Selection(a, g) # "attach" THEN a
  ELSE [BindAndFocus([a EXCEPT !.agent = g], TargetPane(a, "agent"), g) EXCEPT !.sel = g]
RestoreLegacyFocus(a, context) ==
  CASE context.kind = "daemon" ->
         FocusDaemon(LegacyDaemon(a, Either(context.focused, context.daemon)), None)
    [] context.kind = "agent" -> LegacyAgent(a, Either(context.focused, context.agent))
    [] OTHER -> SafeFallback(a)

RestoreDaemon(a, d) == IF d \in a.ds THEN SelectDaemon(a, d) ELSE a
RestoreAgent(a, g) == IF Selection(a, g) = "attach" THEN [a EXCEPT !.agent = g] ELSE a
RestoreSelection(a, s) == IF s \in a.ws THEN [a EXCEPT !.sel = s] ELSE a
RestoreFollow(a, context) ==
  LET at == FirstIn({i \in DOMAIN context.panes :
                       context.panes[i].kind = "agent" /\ context.panes[i].id = a.active}) IN
  IF at = 0 THEN a ELSE [a EXCEPT !.follow = context.panes[at].live]
RestoreFocus(a, context) ==
  IF context.panes = <<>> /\ PaneWithId(a, context.active) = 0 THEN RestoreLegacyFocus(a, context)
  ELSE RestoreFollow(FocusId(a, context.active), context)

RestoreContext(a, context) ==
  RestoreFocus(
    RestoreSelection(
      RestoreAgent(RestoreDaemon(RestorePanes(a, context), context.daemon), context.agent),
      Either(context.sel, Either(context.focused, Either(context.agent, context.daemon)))),
    context)

-----------------------------------------------------------------------------
\* The interfaces when they are opened.  The panes are named by the run and their place.

NewPane(id, kind, s, focused) ==
  [id |-> id, kind |-> kind, session |-> s, focused |-> focused, stale |-> FALSE]
NewApp(mode, run, ws, open, daemons, daemon, agent, panes) ==
  [mode |-> mode, ws |-> ws, open |-> open, ds |-> daemons, place |-> Place[daemon], panes |-> panes,
   active |-> <<run, 1>>, sel |-> Either(agent, daemon), daemon |-> daemon, agent |-> agent,
   mine |-> agent # None, follow |-> TRUE, prefix |-> FALSE, view |-> "live", palette |-> FALSE,
   help |-> FALSE, switch |-> [open |-> FALSE, sel |-> None],
   confirm |-> [op |-> "none", challenge |-> None], out |-> FALSE]

CockpitApp(run, agent, daemons, selected) ==
  NewApp("cockpit", run, daemons \cup {agent}, {agent}, daemons, selected, agent,
         <<NewPane(<<run, 1>>, "agent", agent, TRUE), NewPane(<<run, 2>>, "daemon", selected, FALSE),
           NewPane(<<run, 3>>, "list", None, FALSE), NewPane(<<run, 4>>, "output", None, FALSE)>>)

\* The console shows a list and one daemon (limit 0), one daemon, or two; a console of four
\* shows what one of two does, with more panes.
ConsoleApp(run, daemons, selected, limit) ==
  LET first == NewPane(<<run, 1>>, "daemon", selected, TRUE)
      second == NewPane(<<run, 2>>, "daemon", First(daemons \ {selected}), FALSE)
      list == NewPane(<<run, 3>>, "list", None, FALSE)
      output == NewPane(<<run, 4>>, "output", None, FALSE)
  IN NewApp("console", run, daemons, {}, daemons, selected, None,
            CASE limit = 0 -> <<list, first, output>>
              [] limit = 2 /\ daemons # {selected} -> <<first, second, output>>
              [] OTHER -> <<first, output>>)

-----------------------------------------------------------------------------
\* Keys.  Enter in a search stands for the key that copies a match; j and k for the keys
\* that scroll, j down to the end of the output.

PrefixBindings ==
  [x \in {"Tab", "[", "]", "d", "p", "l", "?", "q"} |->
     CASE x = "Tab" -> "SwitchFocus" [] x = "[" -> "EnterScrollMode" [] x = "]" -> "ExitScrollMode"
       [] x = "d" -> "Detach" [] x = "p" -> "OpenCommandPalette" [] x = "l" -> "OpenDaemonList"
       [] x = "?" -> "ToggleHelp" [] x = "q" -> "CloseRequested"]
ScrollBindings ==
  [x \in {"k", "j", "G", "/", "Esc"} |->
     CASE x = "k" -> "ScrollUp" [] x = "j" -> "ScrollDown" [] x = "G" -> "JumpBottom"
       [] x = "/" -> "BeginSearch" [] x = "Esc" -> "Escape"]
SearchBindings ==
  [x \in {"Esc", "Enter"} |-> CASE x = "Esc" -> "Escape" [] x = "Enter" -> "CopySearchMatch"]

ActionOf(bindings, key, otherwise) ==
  IF key \in DOMAIN bindings THEN bindings[key] ELSE otherwise

KeyAction(a, key) ==
  CASE a.prefix -> ActionOf(PrefixBindings, key, "Ignored")
    [] ~a.prefix /\ key = "prefix" -> "Prefix"
    [] ~a.prefix /\ key # "prefix" /\ a.view = "search" -> ActionOf(SearchBindings, key, "SearchInput")
    [] ~a.prefix /\ key # "prefix" /\ a.view = "scroll" -> ActionOf(ScrollBindings, key, "Input")
    [] OTHER -> "Input"

Following(a, yes) == IF TerminalIsAttached(a) THEN [a EXCEPT !.follow = yes] ELSE a
ExitScrollMode(a) == [Following(a, TRUE) EXCEPT !.view = "live"]
OpenSwitcher(a) ==
  [a EXCEPT !.switch = [open |-> TRUE, sel |-> Either(a.sel, Either(a.agent, a.daemon))]]
CloseSwitcher(a) == [a EXCEPT !.switch = [open |-> FALSE, sel |-> None]]
MoveSwitcher(a, down) ==
  LET list == Positions(a.ws)
      at == FirstIn(Positions({Either(a.switch.sel, Either(a.sel, Either(a.agent, a.daemon)))}))
      to == IF down THEN After(list, at) ELSE Before(list, at)
  IN IF a.ws = {} THEN a ELSE [a EXCEPT !.switch = [open |-> a.switch.open, sel |-> Order[to]]]

ApplyAction(a, action) ==
  CASE action = "SwitchFocus" -> SwitchFocus(a)
    [] action = "EnterScrollMode" -> [a EXCEPT !.view = IF a.view = "search" THEN "search" ELSE "scroll"]
    [] action = "ExitScrollMode" -> ExitScrollMode(a)
    [] action = "OpenCommandPalette" -> [a EXCEPT !.palette = TRUE]
    [] action = "OpenDaemonList" -> OpenSwitcher(a)
    [] action = "ToggleHelp" -> [a EXCEPT !.help = ~a.help]
    [] action = "ScrollUp" -> Following(a, FALSE)
    [] action = "ScrollDown" -> Following(a, TRUE)
    [] action = "JumpBottom" -> ExitScrollMode(a)
    [] action = "BeginSearch" -> [a EXCEPT !.view = "search"]
    [] action = "CopySearchMatch" -> [a EXCEPT !.view = "scroll"]
    [] action = "Escape" -> IF a.view = "search" THEN [a EXCEPT !.view = "scroll"] ELSE ExitScrollMode(a)
    [] OTHER -> a

HandleKey(a, key) ==
  ApplyAction([a EXCEPT !.prefix = KeyAction(a, key) = "Prefix"], KeyAction(a, key))
=============================================================================
