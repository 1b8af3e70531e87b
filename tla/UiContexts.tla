------------------------------ MODULE UiContexts ------------------------------
(***************************************************************************)
(* The host's side of an interface: the context file of one ui id with its *)
(* handlers (ui.context.set, close), the doctor that closes stale          *)
(* contexts, and input.send, which routes a text to the session of a pane  *)
(* named in the context.  The interfaces are in Cockpit.                   *)
(***************************************************************************)
EXTENDS AppModel

CONSTANT Ids   \* the ids of panes

ASSUME NoId == None \notin Ids

VARIABLES
  world,    \* each session: its record and its worker
  owner,    \* who owns the input of each session: nobody, the cockpit, another client
  context,  \* the context file, or None
  aged,     \* the context was written at least STALE_UI_CONTEXT_AFTER ago
  doctor,   \* the doctor has judged a context stale and is about to remove the file
  route     \* the session an input.send was routed to, or None

hostVars == <<world, owner, context, aged, doctor, route>>

PaneContext ==
  [id : Ids, kind : {"agent", "daemon", "list", "output"}, session : Sessions \cup {None},
   stale : BOOLEAN, focused : BOOLEAN, live : BOOLEAN, readonly : BOOLEAN, overlay : BOOLEAN]
Context ==
  [panes : Seq(PaneContext),
   active : Ids \cup {None}, sel : Sessions \cup {None}, focused : Sessions \cup {None},
   kind : {"none", "agent", "daemon", "list", "output"},
   daemon : Sessions \cup {None}, agent : Sessions \cup {None}, managed : SUBSET Sessions]

HostTypeOK ==
  /\ world \in [Sessions -> {"unborn", "running", "ended", "gone"}]
  /\ owner \in [Sessions -> {"nobody", "cockpit", "rival"}]
  /\ context = None \/ context \in Context
  /\ {aged, doctor} \subseteq BOOLEAN /\ route \in Sessions \cup {None}

\* Written by an earlier version, which saved no panes.
Legacy(kind, s) ==
  [panes |-> <<>>, active |-> None, sel |-> None, focused |-> s, kind |-> kind,
   daemon |-> None, agent |-> None, managed |-> {}]

Running == {s \in Sessions : world[s] = "running"}
Listed == {s \in Sessions : world[s] \in {"running", "ended"}}

-----------------------------------------------------------------------------
\* The handlers.  The context is replaced whole, and its age with it.

SetContext(c) == context' = c /\ aged' = FALSE
CloseContext == context # None /\ context' = None /\ aged' = FALSE

CloseRequest == CloseContext /\ UNCHANGED <<world, owner, doctor, route>>

Grows == context # None /\ ~aged /\ aged' = TRUE /\ UNCHANGED <<world, owner, context, doctor, route>>

Referenced == ({context.daemon, context.sel, context.focused, context.agent} \cup context.managed) \ {None}

\* The doctor reads the context and the registry, and removes the file afterwards.
DoctorReads ==
  /\ context # None /\ aged /\ ~doctor /\ Referenced \cap Running = {}
  /\ doctor' = TRUE /\ UNCHANGED <<world, owner, context, aged, route>>
DoctorCloses ==
  /\ doctor /\ doctor' = FALSE /\ context' = None /\ aged' = FALSE
  /\ UNCHANGED <<world, owner, route>>

-----------------------------------------------------------------------------
\* input.send to a pane: the context is judged, and the text is sent afterwards.

Accepts(p, needFocus) ==
  /\ ~p.stale /\ p.kind = "agent" /\ p.live /\ ~p.readonly /\ ~p.overlay
  /\ needFocus => p.focused
  /\ p.session # None

RouteInput(id, needFocus) ==
  /\ context # None /\ route = None
  /\ \E i \in DOMAIN context.panes :
       /\ i = SelectInSeq(context.panes, LAMBDA p : p.id = id)
       /\ Accepts(context.panes[i], needFocus)
       /\ route' = context.panes[i].session
  /\ UNCHANGED <<world, owner, context, aged, doctor>>

\* The worker types it if the sender names the owner of the input, or nobody owns it;
\* otherwise, or when the session has ended, the request is refused.
SendRouted == route # None /\ route' = None /\ UNCHANGED <<world, owner, context, aged, doctor>>

-----------------------------------------------------------------------------
\* Other clients: they start, end and archive sessions and own the input of some.

Moves(s, from, to) == world[s] = from /\ world' = [world EXCEPT ![s] = to]

RivalAttaches(s) == world[s] = "running" /\ owner[s] = "nobody" /\ owner' = [owner EXCEPT ![s] = "rival"]
RivalLeaves(s) == owner[s] = "rival" /\ owner' = [owner EXCEPT ![s] = "nobody"]
=============================================================================
