-------------------------------- MODULE Ipc --------------------------------
(***************************************************************************)
(* The iceoryx2 services between a client Session and the daemon, as the   *)
(* code under src/ uses them: the request-response service                 *)
(* "HyCommDaemonServer" and the event service "HyCommDaemonEvent".         *)
(* iceoryx2 itself is outside the repository, so this module is external:  *)
(* it keeps only what Session.cpp and DaemonNode.cpp rely on.              *)
(*                                                                         *)
(* A request travels in `requests` until the server receives it.  The      *)
(* client holds a PendingResponse for one call (`pending`, 0 when none);   *)
(* `connected` is what is_connected() answers: true until the server drops *)
(* its ActiveRequest, and false when no server exists.  `inbox` is the     *)
(* response waiting to be received.  `event` is the daemon's listener with *)
(* its coalescing notification flag: a notification that finds no listener *)
(* is no error, and is lost.                                               *)
(***************************************************************************)
EXTENDS Naturals, Sequences

CONSTANTS
  Clients,    \* the client processes, each with one Session
  Names,      \* the interfaces that can be opened (serial device paths)
  MaxCalls,   \* bound: session calls made by one client process
  MaxStarts,  \* bound: times the daemon process is started
  Faults,     \* the environment faults that may happen, see FaultKinds
  NoRequest   \* the daemon holds no ActiveRequest

FaultKinds ==
  {"listener", "notify", "signal", "accept", "exit",      \* in a client
   "open", "configure", "connect", "sendmsg", "crash"}    \* in the daemon

Paths == Clients \X (0 .. MaxCalls)   \* UDS socket paths in /tmp

Ops == {"open", "config", "close"}

Requests ==
  [client: Clients, id: 0 .. MaxCalls, op: Ops, name: Names, path: Paths]

Refusals == {"AlreadyOpen", "InterfaceNotFound", "InvalidArguments", "FdTransferFailed"}

Replies == {"Success"} \cup Refusals

ASSUME ConstantsAssumption ==
  /\ MaxCalls \in Nat
  /\ MaxStarts \in Nat
  /\ Faults \subseteq FaultKinds
  /\ NoRequest \notin Requests

VARIABLES
  server,     \* "none": never started, "up", "dead": crashed, its ports not cleaned up
  requests,   \* requests sent and not yet received by the server
  event,      \* the daemon's listener: "absent", "quiet", or "notified"
  pending,    \* per client: id of the call its live PendingResponse belongs to
  connected,  \* per client: is_connected() of that PendingResponse
  inbox       \* per client: response sent and not yet received, or "none"

ipcVars == <<server, requests, event, pending, connected, inbox>>

IpcTypeOK ==
  /\ server \in {"none", "up", "dead"}
  /\ requests \in Seq(Requests)
  /\ event \in {"absent", "quiet", "notified"}
  /\ pending \in [Clients -> 0 .. MaxCalls]
  /\ connected \in [Clients -> BOOLEAN]
  /\ inbox \in [Clients -> Replies \cup {"none"}]

IpcInit ==
  /\ server = "none"
  /\ requests = <<>>
  /\ event = "absent"
  /\ pending = [c \in Clients |-> 0]
  /\ connected = [c \in Clients |-> FALSE]
  /\ inbox = [c \in Clients |-> "none"]

-----------------------------------------------------------------------------
\* iox2::send of a request: without a server it reaches nobody; a server that
\* died uncleaned may still look connected.
SendRequest(c, r) ==
  /\ requests' = IF server = "up" THEN Append(requests, r) ELSE requests
  /\ pending' = [pending EXCEPT ![c] = r.id]
  /\ inbox' = [inbox EXCEPT ![c] = "none"]
  /\ \E b \in BOOLEAN :
       /\ server = "up" => b
       /\ server = "none" => ~b
       /\ connected' = [connected EXCEPT ![c] = b]
  /\ UNCHANGED <<server, event>>

\* Notifier::notify: several notifications before a wake-up count as one.
NotifyListener == event' = IF event = "absent" THEN "absent" ELSE "notified"

\* The PendingResponse goes out of scope when the session call returns.
DropPending(c) ==
  /\ pending' = [pending EXCEPT ![c] = 0]
  /\ connected' = [connected EXCEPT ![c] = FALSE]
  /\ inbox' = [inbox EXCEPT ![c] = "none"]

\* The server answers an ActiveRequest; only the PendingResponse of that very
\* request receives it.
Deliver(r, reply) ==
  inbox' = IF pending[r.client] = r.id THEN [inbox EXCEPT ![r.client] = reply] ELSE inbox

\* The ActiveRequest goes out of scope in the server.
Disconnect(r) ==
  connected' = IF pending[r.client] = r.id
               THEN [connected EXCEPT ![r.client] = FALSE] ELSE connected
=============================================================================
