----------------------------- MODULE ScrollViews -----------------------------
(***************************************************************************)
(* What the cockpit shows of its sessions' output, in the detail AppModel  *)
(* leaves out: the terminal of the attached agent, which is a snapshot of  *)
(* the emulator's screen taken wherever the emulator was scrolled to, and  *)
(* the log of the selected daemon, a copy of one of the logs that are      *)
(* fetched again from the host on every refresh.  Keys scroll, search and  *)
(* copy in the view that has the focus, while the agent prints, the logs   *)
(* grow, and daemons appear and are purged.                                *)
(***************************************************************************)
EXTENDS LineLogPane

CONSTANTS
  Order,        \* the daemons, in the order they are listed in
  None,
  Rows,         \* rows of the terminal, and of the log view
  Scrollback,   \* lines the emulator keeps above the screen
  LogTail,      \* lines of a log the interface asks for
  Word,         \* letters of the word that is searched
  MaxOutput,    \* bounds: lines printed by the agent and the daemons,
  MaxChanges,   \*   daemons that appear or are purged,
  MaxKeys       \*   keys pressed

ASSUME ViewsAssumption ==
  /\ Order \in Seq(ToSet(Order)) \ {<<>>} /\ None \notin ToSet(Order) /\ {Rows, LogTail} \subseteq Nat \ {0}
  /\ {Scrollback, Word, MaxOutput, MaxChanges, MaxKeys} \subseteq Nat

VARIABLES
  files,     \* the log of each daemon that is there
  listed,    \* the daemons the interface knows
  logs,      \* their logs as last fetched
  daemon,    \* the selected one
  line_log,  \* the log that is shown
  todo,      \* the logs the refresh under way has still to fetch
  fresh,     \* the last refresh fetched all of them
  emulator,  \* the lines of the agent's screen with its scrollback, and how far it is scrolled
  terminal,  \* the snapshot that is shown: lines, follow, and the match of a search
  focus,     \* the view that keys go to
  mode,      \* [scroll, search, query]
  copied,    \* the last line copied, with the view and the query of its match
  count      \* [output, changes, keys]

logVars == <<listed, logs, daemon, line_log, todo, fresh>>
vars == <<files, logVars, emulator, terminal, focus, mode, copied, count>>

Daemons == ToSet(Order)
Line == [of : Daemons \cup {"agent"}, at : Nat, has : 0 .. Word]
ASSUME NoPane == None \notin LogPane(Line)
Alive == {d \in Daemons : files[d] # None}
First(S) == IF S = {} THEN None ELSE Order[FirstIn({i \in DOMAIN Order : Order[i] \in S})]

TypeOK ==
  /\ files \in [Daemons -> {None} \cup Seq(Line)]
  /\ listed \subseteq Daemons /\ daemon \in listed \cup {None} /\ todo \subseteq listed
  /\ logs \in [Daemons -> {None} \cup LogPane(Line)]
  /\ line_log \in LogPane(Line) /\ fresh \in BOOLEAN
  /\ emulator \in [lines : Seq(Line), back : 0 .. Scrollback]
  /\ Len(emulator.lines) \in Rows + emulator.back .. Rows + Scrollback
  /\ terminal \in [lines : Seq(Line), follow : BOOLEAN, match : Nat, query : Nat]
  /\ Len(terminal.lines) = Rows
  /\ count \in [{"output", "changes", "keys"} -> Nat]
  /\ focus \in {"agent", "log"} /\ mode \in [scroll : BOOLEAN, search : BOOLEAN, query : 0 .. Word]
  /\ copied = None \/ copied \in [from : {"agent", "log"}, line : Line, query : Nat]
  /\ \A p \in {line_log, terminal} : p.match <= Len(p.lines)

-----------------------------------------------------------------------------
\* The emulator: a screen of Rows lines below its scrollback.

Blank == [of |-> "agent", at |-> 0, has |-> 0]
Above(e) == Len(e.lines) - Rows
Screen(e) == SubSeq(e.lines, Above(e) - e.back + 1, Len(e.lines) - e.back)
SetScrollback(e, n) == [e EXCEPT !.back = Min({n, Above(e)})]
\* A screen that is scrolled back keeps its place as long as the scrollback holds it.
Prints(e, line) ==
  LET lines == LastLines(Append(e.lines, line), Rows + Scrollback) IN
  [lines |-> lines, back |-> IF e.back = 0 THEN 0 ELSE Min({e.back + 1, Len(lines) - Rows})]

\* The places a search looks at, in order.
SearchOffsets(e, direction) ==
  LET cur == e.back  max == Above(e) IN
  CASE direction = "first"    -> [i \in 1 .. max + 1 |-> i - 1]
    [] direction = "next"     -> [i \in 1 .. max + 1 |-> (cur + i) % (max + 1)]
    [] direction = "previous" -> [i \in 1 .. max + 1 |-> (cur + max + 1 - i) % (max + 1)]
Shows(e, query) == \E i \in 1 .. Rows : Screen(e)[i].has >= query
SearchScrollback(e, query, direction) ==
  LET offsets == SearchOffsets(e, direction)
      i == FirstIn({k \in DOMAIN offsets : Shows(SetScrollback(e, offsets[k]), query)})
  IN IF i = 0 THEN None ELSE SetScrollback(e, offsets[i])

UpdateView(t, e) == [t EXCEPT !.lines = Screen(e), !.follow = (e.back = 0)]

-----------------------------------------------------------------------------
EmptyEmulator == [lines |-> [i \in 1 .. Rows |-> Blank], back |-> 0]

Init ==
  /\ files = [d \in Daemons |-> IF d = Order[1] THEN <<>> ELSE None]
  /\ listed = {Order[1]} /\ daemon = Order[1]
  /\ logs = [d \in Daemons |-> IF d = Order[1] THEN EmptyPane ELSE None]
  /\ line_log = EmptyPane /\ todo = {} /\ fresh = TRUE
  /\ emulator = EmptyEmulator
  /\ terminal = [lines |-> Screen(EmptyEmulator), follow |-> TRUE, match |-> 0, query |-> 0]
  /\ focus = "agent" /\ mode = [scroll |-> FALSE, search |-> FALSE, query |-> 0]
  /\ copied = None /\ count = [output |-> 0, changes |-> 0, keys |-> 0]

Counts(what, max) == count[what] < max /\ count' = [count EXCEPT ![what] = count[what] + 1]
Shown == <<terminal, focus, mode, copied>>

\* The daemons' side.
DaemonPrints(d, has) ==
  /\ Counts("output", MaxOutput) /\ d \in Alive
  /\ files' = [files EXCEPT ![d] = Append(files[d], [of |-> d, at |-> Len(files[d]) + 1, has |-> has])]
  /\ UNCHANGED <<logVars, emulator, Shown>>
DaemonAppears(d) ==
  /\ Counts("changes", MaxChanges) /\ d \notin Alive /\ d \notin listed
  /\ files' = [files EXCEPT ![d] = <<>>] /\ UNCHANGED <<logVars, emulator, Shown>>
DaemonIsPurged(d) ==
  /\ Counts("changes", MaxChanges) /\ d \in Alive
  /\ files' = [files EXCEPT ![d] = None] /\ UNCHANGED <<logVars, emulator, Shown>>

\* A frame of the attach; the match of a search keeps its row.
AgentPrints(has) ==
  /\ todo = {} /\ Counts("output", MaxOutput)
  /\ emulator' = Prints(emulator, [of |-> "agent", at |-> 0, has |-> has])
  /\ terminal' = UpdateView(terminal, emulator')
  /\ UNCHANGED <<files, logVars, focus, mode, copied>>

-----------------------------------------------------------------------------
\* The refresh: the sessions, then one log after the other.

\* Mutant: the log that is shown is not changed with the selection.
SelectsOnly(d) == daemon' = d /\ UNCHANGED line_log
\* The log of a daemon that has none yet is not shown before it is fetched.
Selects(d) == daemon' = d /\ line_log' = IF d # None /\ logs[d] # None THEN logs[d] ELSE line_log

RefreshSessions ==
  /\ todo = {} /\ listed' = Alive /\ todo' = Alive /\ fresh' = (Alive = {})
  /\ Selects(IF daemon \in Alive THEN daemon ELSE First(Alive))
  /\ focus' = IF Alive = {} THEN "agent" ELSE focus
  /\ UNCHANGED <<files, logs, emulator, terminal, mode, copied, count>>

ReplaceDaemonOutput(d, lines) ==
  /\ logs' = [logs EXCEPT ![d] = ReplaceLines(IF logs[d] = None THEN EmptyPane ELSE logs[d], lines)]
  /\ line_log' = IF d = daemon THEN ReplaceLines(line_log, lines) ELSE line_log

\* The host's answer; a log file that is not there yet is empty.
ReadTailLines(lines) == LastLines(lines, LogTail)
ReadSessionLog(d) == ReadTailLines(files[d])

\* A log that cannot be read, after the host was asked a second time, ends the refresh.
FetchLog ==
  LET d == First(todo) IN
  /\ todo # {}
  /\ IF d \in Alive
     THEN /\ ReplaceDaemonOutput(d, ReadSessionLog(d))
          /\ todo' = todo \ {d} /\ fresh' = (todo = {d})
     ELSE todo' = {} /\ UNCHANGED <<logs, line_log, fresh>>
  /\ UNCHANGED <<files, listed, daemon, emulator, terminal, focus, mode, copied, count>>

-----------------------------------------------------------------------------
\* Keys.  They are read between two refreshes; those of the prefix work in every mode.

Presses == todo = {} /\ Counts("keys", MaxKeys) /\ UNCHANGED <<files, listed, todo, fresh>>
AgentStays == UNCHANGED <<emulator, terminal>>
LogStays == UNCHANGED <<logs, line_log>>

\* The log that is shown and the fetched log it is a copy of.
HasFetched == daemon # None /\ logs[daemon] # None
Fetched == IF HasFetched THEN logs[daemon] ELSE EmptyPane
LogKey(shown, fetched) ==
  /\ line_log' = shown
  /\ logs' = IF HasFetched THEN [logs EXCEPT ![daemon] = fetched] ELSE logs
  /\ AgentStays
AgentKey(e) == emulator' = e /\ terminal' = UpdateView(terminal, e) /\ LogStays

ScrollKeys == {"ScrollUp", "ScrollDown", "PageUp", "PageDown", "JumpTop"}
Scrolls(p, key) ==
  CASE key = "ScrollUp" -> ScrollUp(p, Rows, 1)    [] key = "ScrollDown" -> ScrollDown(p, 1)
    [] key = "PageUp"   -> ScrollUp(p, Rows, Rows) [] key = "PageDown" -> ScrollDown(p, Rows)
    [] key = "JumpTop"  -> JumpTop(p, Rows)
ScrollsEmulator(e, key) ==
  SetScrollback(e, CASE key = "ScrollUp" -> e.back + 1    [] key = "ScrollDown" -> Minus(e.back, 1)
                     [] key = "PageUp"   -> e.back + Rows [] key = "PageDown" -> Minus(e.back, Rows)
                     [] key = "JumpTop"  -> Above(e))
ScrollKey(key) ==
  /\ Presses /\ mode.scroll /\ ~mode.search
  /\ IF focus = "agent" THEN AgentKey(ScrollsEmulator(emulator, key))
     ELSE LogKey(Scrolls(line_log, key), Scrolls(Fetched, key))
  /\ UNCHANGED <<daemon, focus, mode, copied>>

EnterScrollMode ==
  /\ Presses /\ mode' = [mode EXCEPT !.scroll = TRUE]
  /\ AgentStays /\ LogStays /\ UNCHANGED <<daemon, focus, copied>>

\* Mutant: the emulator stays where it was scrolled to.
FollowsOnly == terminal' = [terminal EXCEPT !.follow = TRUE] /\ UNCHANGED emulator /\ LogStays
FollowsAgent == AgentKey(SetScrollback(emulator, 0))
\* The prefix and ], End, and Escape outside a search.
ExitScrollMode ==
  /\ Presses /\ mode' = [scroll |-> FALSE, search |-> FALSE, query |-> 0]
  /\ IF focus = "agent" THEN FollowsAgent ELSE LogKey(JumpBottom(line_log), JumpBottom(Fetched))
  /\ UNCHANGED <<daemon, focus, copied>>

BeginSearch ==
  /\ Presses /\ mode.scroll /\ ~mode.search /\ mode' = [scroll |-> TRUE, search |-> TRUE, query |-> 0]
  /\ AgentStays /\ LogStays /\ UNCHANGED <<daemon, focus, copied>>
EndSearch ==
  /\ Presses /\ mode.search /\ mode' = [mode EXCEPT !.search = FALSE]
  /\ AgentStays /\ LogStays /\ UNCHANGED <<daemon, focus, copied>>

\* The model searches its snapshot, then the cockpit the emulator's scrollback, and the
\* model the snapshot of the place that was found.
SearchAgent(t, query, direction) ==
  LET e == SearchScrollback(emulator, query, direction) IN
  /\ emulator' = IF e = None THEN emulator ELSE e
  /\ terminal' = IF e = None THEN t ELSE SearchLines(UpdateView(t, e), query)
  /\ LogStays
Searches(query) ==
  CASE query = 0 -> AgentStays /\ LogStays
    [] query # 0 /\ focus = "agent" -> SearchAgent(SearchLines(terminal, query), query, "first")
    [] OTHER -> LogKey(SearchLines(line_log, query), SearchLines(Fetched, query))
\* A letter of the word, or a backspace.
SearchInput(query) ==
  /\ Presses /\ mode.search /\ query \in {mode.query + 1, Minus(mode.query, 1)} \cap (0 .. Word)
  /\ mode' = [mode EXCEPT !.query = query] /\ Searches(query) /\ UNCHANGED <<daemon, focus, copied>>

NextOrPrevious(p, direction) == IF direction = "next" THEN NextMatch(p) ELSE PreviousMatch(p)
StepSearch(direction) ==
  /\ Presses /\ mode.scroll
  /\ CASE focus = "log" ->
            LogKey(NextOrPrevious(line_log, direction), NextOrPrevious(Fetched, direction))
       [] focus = "agent" /\ mode.query = 0 ->
            terminal' = NextOrPrevious(terminal, direction) /\ UNCHANGED emulator /\ LogStays
       [] OTHER -> SearchAgent(NextOrPrevious(terminal, direction), mode.query, direction)
  /\ UNCHANGED <<daemon, focus, mode, copied>>

\* A match beyond the lines there are is an empty line.
MatchedLine(p) == IF p.match \in DOMAIN p.lines THEN p.lines[p.match] ELSE Blank
CopySearchMatch ==
  LET p == IF focus = "agent" THEN terminal ELSE line_log IN
  /\ Presses /\ mode.scroll /\ p.match # 0
  /\ copied' = [from |-> focus, line |-> MatchedLine(p), query |-> p.query]
  /\ mode' = [mode EXCEPT !.search = FALSE]
  /\ AgentStays /\ LogStays /\ UNCHANGED <<daemon, focus>>

\* Tab after the prefix; a daemon chosen in the switcher.
SwitchFocus ==
  /\ Presses /\ daemon # None /\ focus' = IF focus = "agent" THEN "log" ELSE "agent"
  /\ IF focus = "agent" THEN Selects(daemon) ELSE UNCHANGED <<daemon, line_log>>
  /\ AgentStays /\ UNCHANGED <<logs, mode, copied>>
ChooseDaemon(d) ==
  /\ Presses /\ d \in listed /\ focus' = "log" /\ Selects(d)
  /\ AgentStays /\ UNCHANGED <<logs, mode, copied>>

-----------------------------------------------------------------------------
Next ==
  \/ \E has \in 0 .. Word : AgentPrints(has) \/ \E d \in Daemons : DaemonPrints(d, has)
  \/ \E d \in Daemons : DaemonAppears(d) \/ DaemonIsPurged(d) \/ ChooseDaemon(d)
  \/ RefreshSessions \/ FetchLog
  \/ \E key \in ScrollKeys : ScrollKey(key)
  \/ EnterScrollMode \/ ExitScrollMode \/ BeginSearch \/ EndSearch \/ SwitchFocus
  \/ \E query \in 0 .. Word : SearchInput(query)
  \/ \E direction \in {"next", "previous"} : StepSearch(direction)
  \/ CopySearchMatch

Spec == Init /\ [][Next]_vars

-----------------------------------------------------------------------------
\* What is shown is what it is called: the log under the selected daemon's name is that
\* daemon's as last fetched, once a refresh went through; a log that is followed shows its
\* last line; and the terminal is called live exactly when the emulator is at its end.
ShownAsLabelled ==
  /\ (fresh /\ daemon # None) =>
       /\ \A i \in DOMAIN line_log.lines : line_log.lines[i].of = daemon
       /\ line_log.lines = logs[daemon].lines
  /\ (line_log.follow /\ line_log.lines # <<>>) =>
       LastLines(VisibleLines(line_log, Rows), 1) = LastLines(line_log.lines, 1)
  /\ terminal.follow = (emulator.back = 0) /\ terminal.lines = Screen(emulator)

\* A line copied from a log contains what was searched for, whatever was fetched between
\* the search and the copy.
CopiedLineMatches ==
  (copied # None /\ copied.from = "log") => copied.line.has >= copied.query
=============================================================================
