------------------------------- MODULE Cockpit -------------------------------
(***************************************************************************)
(* The loops of the two interfaces around AppModel, one interface at a     *)
(* time for one ui id: `millmux cockpit`, which types into the agent it is *)
(* attached to, and `millmux console`, which runs commands on the selected *)
(* daemon.  An interface may be left and opened again and then restores    *)
(* the context it published; in between and meanwhile sessions start, end  *)
(* and are archived, other clients own the input of some of them, and the  *)
(* host stops and is started again.                                        *)
(***************************************************************************)
EXTENDS UiContexts

CONSTANTS
  Home,         \* the workspace the interface is opened for
  Keys,         \* the keys that are pressed
  MaxLaunches,  \* bounds: how often an interface is opened,
  MaxKeys,      \*   how many keys are pressed, prefixes and moves in the switcher aside,
  MaxChanges,   \*   how often sessions, their owners, the context or the host change,
  MaxAll        \*   and how often all of this happens

ASSUME BoundsAssumption ==
  Home \in Workspaces /\ Keys \subseteq STRING /\ {MaxLaunches, MaxKeys, MaxChanges, MaxAll} \subseteq Nat
ASSUME IdsAssumption == Ids = (1 .. MaxLaunches) \X (1 .. 4)

VARIABLES
  up,        \* a host serves
  stage,     \* where the interface is
  plan,      \* what its start has found so far
  app,       \* its model, or None
  attached,  \* the session the terminal shows
  attach,    \* the stream of that session's attach
  next,      \* while it is switched to another session: that session, its stream and its input
  effect,    \* what the last key did to a session
  count      \* [launches, keys, changes]

uiVars == <<stage, plan, app, attached, attach, next, effect>>
vars == <<hostVars, up, uiVars, count>>

Plan == [daemons : SUBSET Daemons, selected : Sessions \cup {None},
         prior : Context \cup {None}, agent : Sessions \cup {None}]
NoPlan == [daemons |-> {}, selected |-> None, prior |-> None, agent |-> None]
Streams == {"open", "closed", "eof"}
NextAttach == [of : Sessions, mine : BOOLEAN, attach : Streams]

TypeOK ==
  /\ HostTypeOK /\ up \in BOOLEAN
  /\ stage \in {"off", "ensure", "build", "attach", "cockpit", "switching", "bound",
               "ready", "console", "left", "failed"}
  /\ plan.daemons \subseteq Daemons /\ (plan.prior = None \/ plan.prior \in Context)
  /\ app = None \/ app \in App(Ids)
  /\ attached \in Sessions \cup {None} /\ attach \in {"none"} \cup Streams
  /\ (attach # "none") = (stage \in {"cockpit", "switching", "bound"})
  /\ IF stage \in {"switching", "bound"} THEN next \in NextAttach ELSE next = None
  /\ effect = None \/ effect \in [kind : {"typed", "struck"}, on : Sessions, by : Sessions]
  /\ count \in [launches : 0 .. MaxLaunches, keys : 0 .. MaxKeys, changes : 0 .. MaxChanges]

Init ==
  /\ world \in [Sessions -> {"unborn", "running"}] /\ owner = [s \in Sessions |-> "nobody"]
  /\ \A s \in Sessions : Place[s] # Home => world[s] = "running"
  /\ context \in {None, Legacy("none", None)} \cup {Legacy("daemon", d) : d \in Daemons}
                  \cup {Legacy("agent", s) : s \in Sessions \ Daemons}
  /\ aged = FALSE /\ doctor = FALSE /\ route = None
  /\ up = TRUE /\ stage = "off" /\ plan = NoPlan /\ app = None /\ attached = None
  /\ attach = "none" /\ next = None /\ effect = None /\ count = [launches |-> 0, keys |-> 0, changes |-> 0]

Counts(what, max) ==
  /\ count[what] < max /\ count.launches + count.keys + count.changes < MaxAll
  /\ count' = [count EXCEPT ![what] = count[what] + 1]
Presses(k) ==
  IF (k = "prefix" /\ ~app.prefix) \/ (k \in {"j", "k"} /\ app.switch.open)
  THEN UNCHANGED count ELSE Counts("keys", MaxKeys)
Silent == effect' = None
Goes(from, to) == stage = from /\ stage' = to

-----------------------------------------------------------------------------
\* What the loops ask of the host.  A request that records an event starts the host when
\* it is down; the other requests fail.

RecordUiEvent(a) == SetContext(UiContext(a)) /\ up' = TRUE
Publishes(a) == app' = a /\ RecordUiEvent(a)
NoRecord == UNCHANGED <<context, aged, up>>
RecordIf(b, a) == IF b THEN RecordUiEvent(a) ELSE NoRecord

Released(o) == [s \in Sessions |-> IF o[s] = "cockpit" THEN "nobody" ELSE o[s]]
Frees(o, s) == [o EXCEPT ![s] = IF o[s] = "cockpit" THEN "nobody" ELSE o[s]]
\* An attach that asks for the input and falls back to reading when it is owned.
Attached(o, s) == [o EXCEPT ![s] = IF o[s] = "rival" THEN "rival" ELSE "cockpit"]
Owned(o, s) == o[s] # "rival"

Leaves(s) == stage' = s /\ attach' = "none" /\ next' = None /\ owner' = Released(owner)

-----------------------------------------------------------------------------
\* Starting a cockpit.

AtHome == {s \in Sessions : Place[s] = Home}
Retained(found) ==
  IF found \cap AtHome \cap Running = {} THEN found ELSE found \ (AtHome \ Running)

ListedDaemons == Daemons \cap Listed
SessionsAt(place) == {s \in Listed : Place[s] = place}
StartDaemon(d) == [world EXCEPT ![d] = "running"]

\* The daemons are listed, and one is started if none is active (unless --no-start).
DiscoverDaemons ==
  LET found == ListedDaemons
      active == found \cap AtHome \cap Running
      Found(d, started) ==
        [daemons |-> IF started THEN (found \ AtHome) \cup {d} ELSE Retained(found), selected |-> d,
         world |-> IF started THEN StartDaemon(d) ELSE world]
  IN IF active # {} THEN {Found(First(active), FALSE)}
     ELSE {Found(First(found \cap AtHome), FALSE) : x \in found \cap AtHome}
            \cup {Found(d, TRUE) : d \in {x \in Daemons \cap AtHome : world[x] = "unborn"}}

Opens(s) ==
  /\ stage \in {"off", "left", "failed"} /\ stage' = s /\ Counts("launches", MaxLaunches)
  /\ attached' = None /\ UNCHANGED next /\ Silent

Launch ==
  /\ Opens("ensure") /\ app' = None /\ up' = TRUE
  /\ \E found \in DiscoverDaemons :
       /\ world' = found.world
       /\ plan' = [daemons |-> found.daemons, selected |-> found.selected, prior |-> context, agent |-> None]
  /\ UNCHANGED <<owner, context, aged, doctor, route, attach>>

EnsureAgentSession ==
  LET agents == (Running \cap AtHome) \ Daemons
      Takes(s) == stage' = "build" /\ plan' = [plan EXCEPT !.agent = s]
  IN /\ stage = "ensure" /\ up
     /\ IF agents # {} THEN Takes(First(agents)) /\ UNCHANGED world
        ELSE \/ \E s \in AtHome \ Daemons : Moves(s, "unborn", "running") /\ Takes(s)
             \/ stage' = "failed" /\ UNCHANGED <<plan, world>>
     /\ Silent /\ UNCHANGED <<owner, context, aged, doctor, route, up, app, attached, attach, next, count>>

Snapshot(a, place) ==
  LET here == SessionsAt(place) IN ReplaceWorkspace(a, here, (here \cap Running) \ Daemons)

\* The model is built, restored and published: UiStarted and the sessions it is bound to.
BuildCockpitApp ==
  LET new == CockpitApp(count.launches, plan.agent, plan.daemons, plan.selected)
      Restored(a) == IF plan.prior = None THEN a ELSE RestoreContext(a, plan.prior)
  IN /\ Goes("build", "attach") /\ up /\ Publishes(Restored(Snapshot(new, Home))) /\ plan' = NoPlan
     /\ Silent /\ UNCHANGED <<world, owner, doctor, route, attached, attach, next, count>>

\* The worker of a new session is waited for; an agent that is not running ends the cockpit.
OpenAgentAttach ==
  LET s == app.agent IN
  /\ stage = "attach"
  /\ IF up /\ s \in Running
     THEN /\ stage' = "cockpit" /\ attached' = s /\ attach' = "open" /\ owner' = Attached(owner, s)
          /\ app' = [app EXCEPT !.mine = Owned(owner, s), !.follow = TRUE] /\ UNCHANGED next
     ELSE Leaves("failed") /\ UNCHANGED <<app, attached>>
  /\ Silent /\ UNCHANGED <<world, context, aged, doctor, route, up, plan, count>>

\* --once: read the agent's screen, refresh, publish and leave.
SnapshotOnce ==
  /\ Goes("attach", "left") /\ up /\ app.place # None /\ Publishes(Snapshot(app, app.place))
  /\ Silent /\ UNCHANGED <<world, owner, doctor, route, plan, attached, attach, next, count>>

-----------------------------------------------------------------------------
\* The cockpit's loop: the stream, the refresh, the size.

InCockpit == stage = "cockpit" /\ UNCHANGED <<world, doctor, route, plan>>

\* An error frame shows the command output pane; other frames are text.  One that says that
\* another client owns the input makes the terminal read-only, which it is by then: nobody
\* takes the input of a cockpit away (OwnershipIsKnown).
ErrorFrame ==
  /\ InCockpit /\ Silent /\ attach = "open" /\ ~app.out /\ app' = [app EXCEPT !.out = TRUE] /\ NoRecord
  /\ UNCHANGED <<owner, stage, attached, attach, next, count>>

StreamCloses ==
  /\ InCockpit /\ Silent /\ attach = "closed" /\ Leaves("left") /\ RecordUiEvent(app)
  /\ UNCHANGED <<app, attached, count>>

\* Tried again in every turn of the loop; a turn that fails changes nothing.
ReopenAttach ==
  /\ InCockpit /\ Silent /\ attach = "eof" /\ up' = TRUE /\ attached \in Running
  /\ attach' = "open" /\ owner' = Attached(owner, attached)
  /\ app' = [app EXCEPT !.mine = Owned(owner, attached)]
  /\ UNCHANGED <<context, aged, stage, attached, next, count>>

RefreshSessions ==
  /\ InCockpit /\ Silent
  /\ IF ~up THEN Leaves("failed") /\ UNCHANGED app
     ELSE /\ app' = IF app.place # None THEN Snapshot(app, app.place)
                    ELSE ReplaceDaemons(app, ListedDaemons)
          /\ UNCHANGED <<owner, stage, attach, next>>
  /\ NoRecord /\ UNCHANGED <<attached, count>>

\* A new size is written to the attach; a stream that has ended ends the cockpit.
ResizeTerminal ==
  /\ InCockpit /\ Silent /\ attach = "eof" /\ Leaves("failed") /\ NoRecord
  /\ UNCHANGED <<app, attached, count>>

-----------------------------------------------------------------------------
\* The cockpit's keys and pastes.

OverlayAcceptsInput(a) == a.switch.open \/ OverlayOwnsInput(a)
\* Mutant: the pane that has the focus is not asked for.
AcceptsAnywhere(a) == ~OverlayAcceptsInput(a) /\ a.mine
AcceptsText(a) ==
  FocusedAttach(a) = attached /\ ~OverlayAcceptsInput(a) /\ AgentFocused(a) /\ a.mine

Quiet == Silent /\ UNCHANGED <<owner, stage, attached, attach, next>>

\* Text goes to the attach; writing to a stream that has ended ends the cockpit.
Types(a) ==
  IF attach = "open"
  THEN /\ effect' = [kind |-> "typed", on |-> attached, by |-> FocusedSession(a)]
       /\ UNCHANGED <<owner, stage, attached, attach, next>>
  ELSE Leaves("failed") /\ Silent /\ UNCHANGED attached

\* Choosing another agent opens its stream, while the stream of the session shown is held.
\* Mutant: the model is told of the new stream's input before the switch is sure.
SwitchToldEarly(a, s) ==
  IF up /\ s \in Running
  THEN /\ stage' = "switching" /\ next' = [of |-> s, mine |-> Owned(owner, s), attach |-> "open"]
       /\ owner' = Attached(owner, s) /\ app' = [a EXCEPT !.mine = Owned(owner, s)]
       /\ Silent /\ NoRecord /\ UNCHANGED <<attached, attach>>
  ELSE app' = a /\ Quiet /\ NoRecord
SwitchAgentAttach(a, s) ==
  IF up /\ s \in Running
  THEN /\ stage' = "switching" /\ next' = [of |-> s, mine |-> Owned(owner, s), attach |-> "open"]
       /\ owner' = Attached(owner, s) /\ app' = a
       /\ Silent /\ NoRecord /\ UNCHANGED <<attached, attach>>
  ELSE app' = a /\ Quiet /\ NoRecord

Switching(from) == stage = from /\ Silent /\ UNCHANGED <<world, doctor, route, plan, count>>

\* The size is written to the new stream; one that has ended is dropped again.
SwitchFails ==
  /\ Switching("switching") /\ stage' = "cockpit" /\ NoRecord
  /\ next.attach # "open" /\ next' = None /\ owner' = Frees(owner, next.of)
  /\ UNCHANGED <<app, attached, attach>>

\* The old stream is closed and replaced, and the model shows the new session; the loop's
\* own name for it follows only after the host has been asked to mark its items as read.
SwitchBinds ==
  /\ Switching("switching") /\ stage' = "bound" /\ NoRecord
  /\ attach' = next.attach /\ owner' = Frees(owner, attached)
  /\ app' = SelectSession([app EXCEPT !.mine = next.mine, !.follow = TRUE], next.of)
  /\ UNCHANGED <<attached, next>>

\* A switch that cannot be published ends the cockpit.
SwitchPublishes ==
  /\ Switching("bound") /\ attached' = next.of /\ UNCHANGED app
  /\ \/ stage' = "cockpit" /\ next' = None /\ UNCHANGED <<owner, attach>> /\ RecordUiEvent(app)
     \/ ~up /\ Leaves("failed") /\ NoRecord

Selects(a, b) == app' = b /\ Quiet /\ RecordIf(b.daemon # a.daemon, b)
ChooseSession(a, s) ==
  IF Selection(a, s) = "attach" /\ s # attached THEN SwitchAgentAttach(a, s)
  ELSE Selects(a, SelectSession(a, s))

\* A switcher with no choice stays open.
SwitcherKey(k) ==
  CASE k = "Enter" /\ app.switch.sel # None -> ChooseSession(CloseSwitcher(app), app.switch.sel)
    [] k = "Esc" -> app' = CloseSwitcher(app) /\ Quiet /\ NoRecord
    [] k \in {"k", "j", "Tab"} -> app' = MoveSwitcher(app, k # "k") /\ Quiet /\ NoRecord
    [] OTHER -> UNCHANGED app /\ Quiet /\ NoRecord

RecordedKeys == {"SwitchFocus", "EnterScrollMode", "ExitScrollMode", "JumpBottom", "Escape"}

\* `a` is the model after the key, which it read as `action`.
AfterCockpitKey(a, action) ==
  LET recorded == action \in RecordedKeys /\ ~(action = "Escape" /\ app.view = "search") IN
  /\ app' = a
  /\ CASE action = "Detach" -> Leaves("left") /\ Silent /\ UNCHANGED attached /\ RecordUiEvent(a)
       [] action = "Input" /\ AcceptsText(a) -> Types(a) /\ NoRecord
       [] OTHER -> Quiet /\ RecordIf(recorded \/ a.daemon # app.daemon, a)

CockpitKey(k) ==
  /\ InCockpit /\ Presses(k)
  /\ IF app.switch.open THEN SwitcherKey(k) ELSE AfterCockpitKey(HandleKey(app, k), KeyAction(app, k))

\* A paste is recorded whether it is accepted or rejected; one too large is rejected.
Paste(tooLarge) ==
  /\ InCockpit /\ Counts("keys", MaxKeys) /\ UNCHANGED app
  /\ IF ~tooLarge /\ AcceptsText(app)
     THEN Types(app) /\ RecordIf(attach = "open", app)
     ELSE Quiet /\ RecordUiEvent(app)

-----------------------------------------------------------------------------
\* The console: a start, its keys, and the commands of its palette.

\* The daemons of the given workspace, of which one is started when none is active (unless
\* --no-start), or those of all; the ones that have ended are left out when another is active.
ConsoleDaemons ==
  LET Shown(found) == IF found \cap Running = {} THEN found ELSE found \cap Running
      Known(found) == [daemons |-> Shown(found), selected |-> First(Shown(found)), world |-> world]
      Started(d) == [daemons |-> {d}, selected |-> d, world |-> StartDaemon(d)]
      here == ListedDaemons \cap AtHome
  IN {Known(found) : found \in {ListedDaemons, here} \ {{}}}
       \cup {Started(d) : d \in {x \in Daemons \cap AtHome : world[x] = "unborn" /\ here \cap Running = {}}}

LaunchConsole(limit) ==
  /\ Opens("ready")
  /\ \E found \in ConsoleDaemons :
       /\ world' = found.world
       /\ Publishes(ConsoleApp(count.launches + 1, found.daemons, found.selected, limit))
  /\ UNCHANGED <<owner, doctor, route, plan, attach>>

Ops == {"status", "kill", "delete"}
InConsole(s) == stage = s /\ UNCHANGED <<owner, doctor, route, plan, attached, attach, next>>

ConsoleLeaves(s, a) == stage' = s /\ app' = a /\ Silent /\ UNCHANGED world
ConsoleStays(a, b) ==
  app' = a /\ Silent /\ UNCHANGED <<stage, world>> /\ RecordIf(b, a)

\* Stop and kill are one command here, delete, archive and purge another.
Strikes(op, s) ==
  CASE op = "kill" /\ world[s] = "running" -> world' = [world EXCEPT ![s] = "ended"]
    [] op = "delete" /\ world[s] = "ended" -> world' = [world EXCEPT ![s] = "gone"]
    [] OTHER -> UNCHANGED world

\* `typed` is what the user entered, at the prompt or with --confirm.
Runs(op, typed) ==
  IF op = "status" THEN Silent /\ UNCHANGED world
  ELSE effect' = [kind |-> "struck", on |-> app.daemon, by |-> typed] /\ Strikes(op, app.daemon)

\* The command names the daemon that is selected when it runs, and is recorded before and
\* after; an error of this function ends the console.
ExecuteConsoleCommand(a, op, confirmation, typed) ==
  IF a.daemon # None /\ (op = "status" \/ confirmation = a.daemon)
  THEN LET b == [a EXCEPT !.out = TRUE] IN
       Publishes(b) /\ UNCHANGED stage /\ Runs(op, typed)
  ELSE ConsoleLeaves("failed", a) /\ NoRecord

ConsoleStaysAt(a) == ConsoleStays(a, a.daemon # app.daemon)
ConsoleSwitcherKey(k) ==
  LET s == app.switch.sel IN
  ConsoleStaysAt(CASE k = "Enter" /\ s # None -> SelectSession(CloseSwitcher(app), s)
                   [] k = "Esc" -> CloseSwitcher(app)
                   [] k \in {"k", "j", "Tab"} -> MoveSwitcher(app, k # "k")
                   [] OTHER -> app)

AfterConsoleKey(a, action) ==
  CASE action = "Detach" -> ConsoleLeaves("left", a) /\ RecordUiEvent(a)
    [] action = "CloseRequested" ->
         ConsoleStays([a EXCEPT !.confirm = [op |-> "close", challenge |-> None]], FALSE)
    [] OTHER -> ConsoleStays(a, action \in RecordedKeys \/ a.daemon # app.daemon)

ConsoleKey(k) ==
  /\ InConsole("console") /\ Presses(k)
  /\ CASE app.switch.open -> ConsoleSwitcherKey(k)
       [] ~app.switch.open /\ app.confirm.op # "none" ->
            ConsoleStays(IF k = "Esc" THEN [app EXCEPT !.confirm = [op |-> "none", challenge |-> None]]
                         ELSE app, FALSE)
       [] ~app.switch.open /\ app.confirm.op = "none" /\ app.palette ->
            ConsoleStays(IF k = "Esc" THEN [app EXCEPT !.palette = FALSE] ELSE app, FALSE)
       [] OTHER -> AfterConsoleKey(HandleKey(app, k), KeyAction(app, k))

Prompting == InConsole("console") /\ ~app.switch.open /\ Counts("keys", MaxKeys)

\* Enter in the palette: a destructive command asks for the id of the selected daemon; what
\* is no command ends the console.
PaletteEnter(op) ==
  LET a == [app EXCEPT !.palette = FALSE] IN
  /\ Prompting /\ app.confirm.op = "none" /\ app.palette
  /\ CASE op = "status" -> ExecuteConsoleCommand(a, op, None, None)
       [] op = "nothing" -> ConsoleStays(a, FALSE)
       [] op = "unknown" -> ConsoleLeaves("failed", a) /\ NoRecord
       [] OTHER -> ConsoleStays([a EXCEPT !.confirm = [op |-> op, challenge |-> a.daemon]], FALSE)

\* Mutant: the confirmation is not compared with what was typed.
ConfirmationSkipped(answer) ==
  /\ Prompting /\ app.confirm.op \in Ops
  /\ ExecuteConsoleCommand([app EXCEPT !.confirm = [op |-> "none", challenge |-> None]],
                           app.confirm.op, app.confirm.challenge, answer)

\* Enter in the confirmation, with what was typed; None is the word asked for by close.
ConfirmationEnter(answer) ==
  LET a == [app EXCEPT !.confirm = [op |-> "none", challenge |-> None]]
      prompt == app.confirm
  IN /\ Prompting /\ prompt.op # "none"
     /\ CASE answer # prompt.challenge -> ConsoleStays([a EXCEPT !.out = TRUE], FALSE)
          [] answer = prompt.challenge /\ prompt.op = "close" ->
               ConsoleLeaves("left", a) /\ up' = TRUE /\ context' = None /\ aged' = FALSE
          [] OTHER -> ExecuteConsoleCommand(a, prompt.op, prompt.challenge, answer)

\* --command with --confirm, or --once: one command or none, and the interface is left.
CommandOnce(op, confirmation) ==
  LET allowed == op = "status" \/ confirmation = app.daemon
      a == [app EXCEPT !.out = TRUE]
  IN /\ InConsole("ready") /\ UNCHANGED count
     /\ CASE op = "none" -> ConsoleLeaves("left", app) /\ RecordUiEvent(app)
          [] op # "none" /\ ~allowed -> ConsoleLeaves("failed", app) /\ NoRecord
          [] OTHER -> stage' = "left" /\ Publishes(a) /\ Runs(op, confirmation)
Interactive ==
  InConsole("ready") /\ Silent /\ stage' = "console" /\ NoRecord /\ UNCHANGED <<app, world, count>>

\* The console's refresh reads logs, and starts the host when they cannot be read.
ConsoleRefresh ==
  InConsole("console") /\ Silent /\ ~up /\ up' = TRUE /\ UNCHANGED <<world, context, aged, stage, app, count>>

-----------------------------------------------------------------------------
\* Everybody else.

Others == Silent /\ UNCHANGED <<context, aged, doctor, route, stage, plan, app, attached>>

\* The session of the cockpit's stream: during a switch, from the moment it is replaced.
Shown == IF stage = "bound" THEN next.of ELSE attached
Cuts(to, ofShown, ofNext) ==
  /\ attach' = IF attach = "open" /\ ofShown THEN to ELSE attach
  /\ next' = IF stage = "switching" /\ next.attach = "open" /\ ofNext THEN [next EXCEPT !.attach = to] ELSE next

SessionStarts(s) ==
  /\ Moves(s, "unborn", "running") /\ Counts("changes", MaxChanges) /\ Others
  /\ UNCHANGED <<owner, up, attach, next>>
\* The worker ends the streams of its session, with a Closed frame if it lives to write one.
SessionEnds(s) ==
  /\ Moves(s, "running", "ended") /\ Counts("changes", MaxChanges) /\ Others
  /\ owner' = [owner EXCEPT ![s] = "nobody"] /\ UNCHANGED up
  /\ \E to \in {"closed", "eof"} : Cuts(to, s = Shown, stage = "switching" /\ s = next.of)
SessionArchived(s) ==
  /\ Moves(s, "ended", "gone") /\ Counts("changes", MaxChanges) /\ Others
  /\ UNCHANGED <<owner, up, attach, next>>
RivalMoves(s) ==
  /\ RivalAttaches(s) \/ RivalLeaves(s)
  /\ Counts("changes", MaxChanges) /\ Others /\ UNCHANGED <<world, up, attach, next>>
\* A host that stops cuts the streams it relays; its workers live on.
HostStops ==
  /\ up /\ up' = FALSE /\ Counts("changes", MaxChanges) /\ Others /\ owner' = Released(owner)
  /\ Cuts("eof", TRUE, TRUE) /\ UNCHANGED world
HostStarts == ~up /\ up' = TRUE /\ Others /\ UNCHANGED <<world, owner, attach, next, count>>

Elsewhere == Silent /\ UNCHANGED <<up, stage, plan, app, attached, attach, next>>
ContextClosed == up /\ CloseRequest /\ Elsewhere /\ Counts("changes", MaxChanges)
ContextAges == Grows /\ Elsewhere /\ Counts("changes", MaxChanges)
InputSend(id, needFocus) ==
  up /\ RouteInput(id, needFocus) /\ Elsewhere /\ Counts("changes", MaxChanges)
InputSent == up /\ SendRouted /\ Elsewhere /\ UNCHANGED count
Doctor == (DoctorReads \/ DoctorCloses) /\ Elsewhere /\ UNCHANGED count

-----------------------------------------------------------------------------
Next ==
  \/ Launch \/ EnsureAgentSession \/ BuildCockpitApp \/ OpenAgentAttach \/ SnapshotOnce
  \/ ErrorFrame \/ StreamCloses \/ ReopenAttach \/ RefreshSessions \/ ResizeTerminal
  \/ SwitchFails \/ SwitchBinds \/ SwitchPublishes
  \/ \E k \in Keys : CockpitKey(k) \/ ConsoleKey(k)
  \/ \E tooLarge \in BOOLEAN : Paste(tooLarge)
  \/ \E limit \in {0, 1, 2} : LaunchConsole(limit)
  \/ Interactive \/ ConsoleRefresh
  \/ \E op \in Ops \cup {"nothing", "unknown"} : PaletteEnter(op)
  \/ \E answer \in Sessions \cup {None} :
       ConfirmationEnter(answer) \/ \E op \in Ops \cup {"none"} : CommandOnce(op, answer)
  \/ \E s \in Sessions : SessionStarts(s) \/ SessionEnds(s) \/ SessionArchived(s) \/ RivalMoves(s)
  \/ HostStops \/ HostStarts
  \/ ContextClosed \/ ContextAges \/ Doctor \/ InputSent
  \/ \E id \in Ids, needFocus \in BOOLEAN : InputSend(id, needFocus)

Spec == Init /\ [][Next]_vars

-----------------------------------------------------------------------------
Streaming == stage \in {"cockpit", "switching", "bound"}
Open == Streaming \/ stage \in {"attach", "ready", "console"}

\* The focus is nowhere or on a pane that is there and not stale; when it is on one, exactly
\* that pane is marked as focused (a pane keeps its mark when nothing can take the focus,
\* app.rs:335); and a pane is marked stale exactly when the last snapshot of the sessions
\* cannot fill it.
FocusIsSound ==
  Open =>
    /\ app.active = None \/ PaneWithId(app, app.active) # 0
    /\ \A i \in DOMAIN app.panes :
         /\ app.active # None => app.panes[i].focused = (app.panes[i].id = app.active)
         /\ app.panes[i].stale = ViewIsStale(app, app.panes[i])

\* The daemon, the agent and the selection that keys and commands act on are sessions of
\* the last snapshot: none of them outlives the list it was taken from.
NamesAreListed ==
  Open =>
    /\ app.daemon \in app.ds \cup {None} /\ app.agent \in app.ws \cup {None}
    /\ app.sel \in app.ws \cup app.ds \cup {None}

\* The cockpit takes itself for the owner of the shown session's input exactly while its
\* stream holds it, and holds the input of no other session, the one it is switching to
\* aside: a switch opens the new stream before it lets go of the old one and may fail in
\* between, streams end, are reopened and are cut by a host that stops, and rivals come and
\* go at any of its steps.
OwnershipIsKnown ==
  /\ (Streaming /\ attach = "open") => app.mine = (owner[Shown] = "cockpit")
  /\ \A s \in Sessions : owner[s] = "cockpit" =>
       Streaming /\ (s = Shown \/ (stage = "switching" /\ s = next.of))

\* A key or a paste is typed into the session that the focused pane shows, and only by
\* the owner of its input: after a switch, a refresh, a lost stream or a restored context.
KeysReachShownSession ==
  (effect # None /\ effect.kind = "typed") =>
    effect.on = effect.by /\ owner[effect.on] = "cockpit" /\ app.mine

\* A stop, kill or removal strikes the session whose id the user typed to confirm it
\* (README.md: destructive console commands require the selected session id).
DestructiveIsConfirmed == (effect # None /\ effect.kind = "struck") => effect.on = effect.by

\* "persists the current pane set, [...] view assignment" (docs/cockpit-pane-view-model.md:15),
\* which the code does not keep: a refresh that binds another agent is not published, and
\* after the daemons of two workspaces came and went the agent before it may still run.
ContextIsShown ==
  (stage = "cockpit" /\ context # None) =>
    \A i \in DOMAIN context.panes :
      LET p == context.panes[i] IN
      (p.kind = "agent" /\ ~p.stale /\ p.session \in Running) =>
        \E j \in DOMAIN app.panes : app.panes[j].id = p.id /\ app.panes[j].session = p.session

\* "rejects [...] overlay-owned panes" (README.md:239), which the code does not keep:
\* opening the palette or the help is not published, so input.send routes to the pane below.
OverlayOwnedPaneRejects ==
  [][(stage = "cockpit" /\ route = None /\ route' # None) => ~OverlayOwnsInput(app)]_vars
=============================================================================
