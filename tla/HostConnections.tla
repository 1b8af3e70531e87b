---------------------------- MODULE HostConnections ----------------------------
(***************************************************************************)
(* The host's streaming connections: a connection's first streaming        *)
(* request makes it an attach (AttachProxy) or a follower of the session's *)
(* records (EventFollowers), and it stays that until it ends.              *)
(***************************************************************************)
EXTENDS EventFollowers, AttachProxy

\* Any connection may become either.
ASSUME ConnectionsAssumption == Followers = Clients

allVars == <<log, torn, session, flw, proxy, client, worker, pipe>>

TypeOK == FollowersTypeOK /\ ProxyTypeOK
Init == FollowersInit /\ ProxyInit

\* handle_connection and handle_streaming_request: the request decides what c becomes.
Unused(c) == flw[c].stage = "new" /\ proxy[c].stage = "none"

BecomesFollower(c) ==
  /\ Unused(c) /\ \E kind \in Kinds : Resolve(c, kind)
  /\ UNCHANGED proxyVars

\* Reduction: an attach reads no records, so it starts while the file is empty, and when
\* every connection is an attach nobody appends.
BecomesAttach(c) ==
  /\ Unused(c) /\ ProxyGoes(c, "opening")
  /\ ~session.over /\ log = <<>>
  /\ UNCHANGED <<client, worker, pipe, vars>>

Next ==
  \/ (\E c \in Followers : proxy[c].stage = "none") /\ SessionNext /\ UNCHANGED proxyVars
  \/ \E c \in Followers :
       \/ BecomesFollower(c) \/ BecomesAttach(c)
       \/ (FollowerStep(c) \/ ClientLeaves(c)) /\ UNCHANGED proxyVars
       \/ (HostStep(c) \/ WorkerStep(c) \/ ClientStep(c) \/ TypeLine(c) \/ ClientQuits(c))
            /\ UNCHANGED vars

Spec == Init /\ [][Next]_allVars

\* Each task and each client goes on while it can, and a worker reads what it is sent and
\* closes a stream whose input has ended.  The clock brings every heartbeat.
FairSpec ==
  /\ Spec
  /\ \A c \in Followers :
       /\ WF_allVars(FollowerStep(c) /\ UNCHANGED proxyVars)
       /\ SF_allVars(Heartbeat(c) /\ UNCHANGED proxyVars)
       /\ WF_allVars(HostStep(c) /\ UNCHANGED vars)
       /\ WF_allVars(ClientStep(c) /\ UNCHANGED vars)
       /\ WF_allVars(WorkerTakes(c) /\ UNCHANGED vars)
       /\ WF_allVars(proxy[c].shut /\ WorkerCloses(c) /\ UNCHANGED vars)
=============================================================================
