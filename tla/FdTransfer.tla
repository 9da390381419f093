---------------------------- MODULE FdTransfer ----------------------------
(***************************************************************************)
(* HyComm/Common/FdTransfer: a descriptor travels from the daemon to a     *)
(* client as SCM_RIGHTS ancillary data over a one-shot UNIX stream socket. *)
(*                                                                         *)
(* The state is indexed by socket path.  `sock` is the listener bound to   *)
(* the path, `conn` the connection the daemon makes to it ("closed" at the *)
(* daemon's end, "reset" when the client's end went first), `inFlight` the *)
(* descriptor queued on that connection (a set of at most one).            *)
(***************************************************************************)
EXTENDS Ipc

\* An open file description, named by the interface it belongs to and by the
\* request it was created for: the client and the number of its call.
Descriptors == [name: Names, origin: Clients \X (0 .. MaxCalls)]

VARIABLES sock, conn, inFlight

udsVars == <<sock, conn, inFlight>>

UdsTypeOK ==
  /\ sock \in [Paths -> {"unbound", "listening", "closed"}]
  /\ conn \in [Paths -> {"none", "connected", "closed", "reset"}]
  /\ inFlight \in [Paths -> SUBSET Descriptors]

UdsInit ==
  /\ sock = [p \in Paths |-> "unbound"]
  /\ conn = [p \in Paths |-> "none"]
  /\ inFlight = [p \in Paths |-> {}]

\* Mutant: one socket path for all calls of a process.
SocketPathOfProcess(c, id) == <<c, 0>>

\* generate_unique_socket_path: process id and clock.  The clock is abstracted
\* to the number of the call in its process: the calls of one Session are
\* sequential, so a later call reads a later time.
SocketPath(c, id) == <<c, id>>

-----------------------------------------------------------------------------
\* create_listener: socket, bind and listen succeed.
CreateListener(p) ==
  /\ sock' = [sock EXCEPT ![p] = "listening"]
  /\ conn' = [conn EXCEPT ![p] = "none"]
  /\ UNCHANGED inFlight

\* The client's end of the connection is closed; a message still queued on it
\* is discarded with the descriptor it carries.
ClientHangup(p) ==
  /\ conn' = [conn EXCEPT ![p] = IF @ = "connected" THEN "reset" ELSE @]
  /\ inFlight' = [inFlight EXCEPT ![p] = {}]

\* Mutant: the path is unlinked and the listener stays open.
CleanupUnlinksOnly(p) ==
  /\ UNCHANGED sock
  /\ ClientHangup(p)

\* ~FdTransfer / cleanup: the listener is closed, with the connection nobody
\* accepted, and its path is unlinked.
Cleanup(p) ==
  /\ sock' = [sock EXCEPT ![p] = "closed"]
  /\ ClientHangup(p)

\* connect_and_send, first half: connect() succeeds against a live listener,
\* whether or not the client has reached accept().
Connect(p) ==
  /\ sock[p] = "listening"
  /\ conn' = [conn EXCEPT ![p] = "connected"]
  /\ UNCHANGED <<sock, inFlight>>

\* connect_and_send, second half: sendmsg() queues the descriptor and the
\* daemon closes its end.
SendDescriptor(p, fd) ==
  /\ conn[p] = "connected"
  /\ conn' = [conn EXCEPT ![p] = "closed"]
  /\ inFlight' = [inFlight EXCEPT ![p] = {fd}]
  /\ UNCHANGED sock

\* The daemon's end is closed without a message.
DaemonHangup(p) ==
  /\ conn' = [conn EXCEPT ![p] = IF @ = "connected" THEN "closed" ELSE @]
  /\ UNCHANGED <<sock, inFlight>>
=============================================================================
