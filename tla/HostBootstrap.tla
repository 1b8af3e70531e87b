----------------------------- MODULE HostBootstrap -----------------------------
(***************************************************************************)
(* How a host comes to serve a state root: clients that find no host       *)
(* answering spawn one each, the hosts contend for the lock of host.lock,  *)
(* and the one that has it removes the socket an earlier host left behind, *)
(* reconciles the records and binds the socket anew.  Hosts are killed or  *)
(* stopped at any point; the kernel then releases the lock, the socket's   *)
(* path stays.                                                             *)
(***************************************************************************)
EXTENDS Naturals

CONSTANTS
  Hosts,    \* the host processes that are ever spawned
  None,     \* no host
  Clients,  \* the clients
  MaxStops  \* bound on the hosts that are killed or stopped

ASSUME BootstrapAssumption == None \notin Hosts /\ MaxStops \in Nat

VARIABLES
  host,    \* where each host is
  lock,    \* the host that holds the lock
  sock,    \* what is at the path of the control socket
  stops,   \* how many hosts were killed or stopped
  client   \* where each client is

bootVars == <<host, lock, sock, stops, client>>

HostStage == {"none", "starting", "locked", "remove", "cleared", "reconciled", "recorded",
              "serving", "closing", "gone"}
ClientStage == {"new", "spawn", "waiting", "ready", "asked", "failed"}

BootstrapTypeOK ==
  /\ host \in [Hosts -> HostStage]
  /\ lock \in Hosts \cup {None}
  /\ sock \in [kind : {"none", "socket", "file"}, by : Hosts \cup {None}]
  /\ stops \in 0 .. MaxStops
  /\ client \in [Clients -> ClientStage]

NoSocket == [kind |-> "none", by |-> None]
SocketOf(h) == [kind |-> "socket", by |-> h]

\* The path is free, has the socket of an earlier boot, or something that is no socket.
BootstrapInit ==
  /\ host = [h \in Hosts |-> "none"]
  /\ lock = None
  /\ sock \in {NoSocket, SocketOf(None), [kind |-> "file", by |-> None]}
  /\ stops = 0
  /\ client = [c \in Clients |-> "new"]

-----------------------------------------------------------------------------
\* A host: bootstrap_foreground, then serve_until_shutdown.

HostGoes(h, from, to) == host[h] = from /\ host' = [host EXCEPT ![h] = to]

\* The process ends: whatever lock it had is released, its socket's path stays.
Ends(h) ==
  /\ host' = [host EXCEPT ![h] = "gone"]
  /\ lock' = IF lock = h THEN None ELSE lock

\* Mutant: the socket is looked at before the lock is taken.
AcquireLockLater(h) ==
  /\ HostGoes(h, "starting", "locked") /\ UNCHANGED <<lock, sock, stops, client>>

\* HostLock::acquire does not wait.
AcquireLock(h) ==
  /\ host[h] = "starting" /\ UNCHANGED <<sock, stops, client>>
  /\ IF lock = None THEN HostGoes(h, "starting", "locked") /\ lock' = h ELSE Ends(h)

CheckSocket(h) ==
  /\ host[h] = "locked" /\ UNCHANGED <<sock, stops, client>>
  /\ CASE sock.kind = "none"   -> HostGoes(h, "locked", "cleared") /\ UNCHANGED lock
       [] sock.kind = "socket" -> HostGoes(h, "locked", "remove") /\ UNCHANGED lock
       [] OTHER                -> Ends(h)

\* Mutant: a socket of which nobody answers is left to bind to replace.
RemoveSocketNot(h) ==
  /\ HostGoes(h, "remove", "cleared") /\ UNCHANGED <<lock, sock, stops, client>>

RemoveSocket(h) ==
  /\ HostGoes(h, "remove", "cleared")
  /\ sock' = NoSocket
  /\ UNCHANGED <<lock, stops, client>>

\* reconcile_startup; what it does to the records is in DaemonStart.
FinishReconcile(h) ==
  HostGoes(h, "cleared", "reconciled") /\ UNCHANGED <<lock, sock, stops, client>>

RecordHost(h) ==
  HostGoes(h, "reconciled", "recorded") /\ UNCHANGED <<lock, sock, stops, client>>

\* bind fails on a path that exists.
Bind(h) ==
  /\ host[h] = "recorded" /\ UNCHANGED <<stops, client>>
  /\ IF sock.kind = "none"
     THEN HostGoes(h, "recorded", "serving") /\ sock' = SocketOf(h) /\ UNCHANGED lock
     ELSE Ends(h) /\ UNCHANGED sock

\* Ctrl-C while it serves: nobody is accepted any more, but the process, and with it the
\* lock, stays until the handlers that are running have returned.
CloseHost(h) ==
  /\ HostGoes(h, "serving", "closing")
  /\ stops < MaxStops /\ stops' = stops + 1
  /\ UNCHANGED <<lock, sock, client>>

ExitHost(h) == host[h] = "closing" /\ Ends(h) /\ UNCHANGED <<sock, stops, client>>

\* Any other end of the process: a signal, or an error of accept, which waits for nobody.
KillHost(h) ==
  /\ host[h] \notin {"none", "gone"} /\ Ends(h)
  /\ stops < MaxStops /\ stops' = stops + 1
  /\ UNCHANGED <<sock, client>>

-----------------------------------------------------------------------------
\* A client: SessionControlClient::ensure_host_ready.

ClientGoes(c, from, to) == client[c] = from /\ client' = [client EXCEPT ![c] = to]

\* A request reaches the host whose socket is at the path, if it still accepts.
Reached(h) == sock = SocketOf(h) /\ host[h] = "serving"
Served == \E h \in Hosts : Reached(h)

Probe(c) ==
  /\ ClientGoes(c, "new", IF Served THEN "ready" ELSE "spawn")
  /\ UNCHANGED <<host, lock, sock, stops>>

\* It spawns one host, once; without a host binary there is none.
SpawnHost(c) ==
  /\ ClientGoes(c, "spawn", "waiting")
  /\ \E h \in Hosts : HostGoes(h, "none", "starting")
  /\ UNCHANGED <<lock, sock, stops>>

SpawnFails(c) ==
  ClientGoes(c, "spawn", "failed") /\ UNCHANGED <<host, lock, sock, stops>>

Poll(c) ==
  Served /\ ClientGoes(c, "waiting", "ready") /\ UNCHANGED <<host, lock, sock, stops>>

\* HOST_READY_TIMEOUT
Deadline(c) ==
  ~Served /\ ClientGoes(c, "waiting", "failed") /\ UNCHANGED <<host, lock, sock, stops>>

HostBoots(h) ==
  AcquireLock(h) \/ CheckSocket(h) \/ RemoveSocket(h) \/ RecordHost(h) \/ Bind(h)

ClientStep(c) == Probe(c) \/ SpawnHost(c) \/ SpawnFails(c) \/ Poll(c) \/ Deadline(c)

-----------------------------------------------------------------------------
\* Properties.

PastLock == {"locked", "remove", "cleared", "reconciled", "recorded", "serving", "closing"}

\* One host at a time is past the lock, and while it serves the socket at the path is its
\* own: nobody has removed or replaced it, so every client reaches the host that serves.
OneHostServes ==
  /\ \A h \in Hosts : host[h] \in PastLock => lock = h
  /\ \A h \in Hosts : host[h] = "serving" => sock = SocketOf(h)

\* If nobody is killed or stopped after a host was spawned, a host serves in the end,
\* whatever socket the hosts before it left, unless it met one that was closing, or the path
\* is not a socket's.
SpawnLeadsToServer ==
  \A h \in Hosts, n \in 0 .. MaxStops :
    (host[h] = "starting" /\ stops = n /\ \A g \in Hosts : host[g] # "closing")
      ~> (Served \/ stops > n \/ sock.kind = "file")
=============================================================================
