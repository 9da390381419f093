---------------------------- MODULE DaemonNode ----------------------------
(***************************************************************************)
(* The daemon process: DaemonNode::run drains the requests after each      *)
(* notification, InterfaceManager dispatches them, and the backend keeps   *)
(* the table of open devices.  One thread does all of it.  The backend     *)
(* here is SerialBackend, up to the terminal settings.                     *)
(*                                                                         *)
(* Where the daemon stands (`dpc`):                                        *)
(*   down     not running                                                  *)
(*   starting in the constructor: m_server exists, m_listener does not     *)
(*   wait     in blocking_wait_all                                         *)
(*   drain    before m_server.receive()                                    *)
(*   handle   a request was received, before the backend's lookup          *)
(*   connect, sendmsg   in FdTransfer::connect_and_send                    *)
(*   respond, drop      before iox2::send, before ~ActiveRequest           *)
(***************************************************************************)
EXTENDS FdTransfer

VARIABLES
  dpc,
  starts,     \* times the daemon was started
  active,     \* the ActiveRequest, or NoRequest
  reply,      \* what the handler returned for it
  registry,   \* m_open_devices: per name, the set of its (at most one) descriptor
  daemonFds   \* device descriptors open in the daemon process

daemonVars == <<dpc, starts, active, reply, registry, daemonFds>>

DaemonTypeOK ==
  /\ dpc \in {"down", "starting", "wait", "drain", "handle", "connect", "sendmsg", "respond",
             "drop"}
  /\ starts \in 0 .. MaxStarts
  /\ active \in Requests \cup {NoRequest}
  /\ reply \in Replies \cup {"none"}
  /\ registry \in [Names -> SUBSET Descriptors]
  /\ daemonFds \in SUBSET Descriptors

DaemonInit ==
  /\ dpc = "down"
  /\ starts = 0
  /\ active = NoRequest
  /\ reply = "none"
  /\ registry = [n \in Names |-> {}]
  /\ daemonFds = {}

NewDescriptor(r) == [name |-> r.name, origin |-> <<r.client, r.id>>]

-----------------------------------------------------------------------------
\* DaemonNode::DaemonNode creates the request-response server first.  Starting
\* the node also cleans up what a dead daemon left in shared memory.
Start ==
  /\ dpc = "down" /\ starts < MaxStarts
  /\ dpc' = "starting"
  /\ starts' = starts + 1
  /\ server' = "up"
  /\ UNCHANGED <<requests, event, pending, connected, inbox, udsVars,
                 active, reply, registry, daemonFds>>

\* The event listener comes second, and run() waits on it without a look at the
\* requests that came before it.
StartListening ==
  /\ dpc = "starting"
  /\ event' = "quiet"
  /\ dpc' = "wait"
  /\ UNCHANGED <<server, requests, pending, connected, inbox, udsVars,
                 starts, active, reply, registry, daemonFds>>

\* blocking_wait_all returns and its callback starts to drain.
Wake ==
  /\ dpc = "wait" /\ event = "notified"
  /\ event' = "quiet"
  /\ dpc' = "drain"
  /\ UNCHANGED <<server, requests, pending, connected, inbox, udsVars,
                 starts, active, reply, registry, daemonFds>>

ReceiveRequest ==
  /\ dpc = "drain" /\ requests # <<>>
  /\ active' = Head(requests)
  /\ requests' = Tail(requests)
  /\ dpc' = "handle"
  /\ UNCHANGED <<server, event, pending, connected, inbox, udsVars,
                 starts, reply, registry, daemonFds>>

DrainDone ==
  /\ dpc = "drain" /\ requests = <<>>
  /\ dpc' = "wait"
  /\ UNCHANGED <<ipcVars, udsVars, starts, active, reply, registry, daemonFds>>

\* The handler returns.
Answer(answer) ==
  /\ reply' = answer
  /\ dpc' = "respond"
  /\ UNCHANGED <<ipcVars, starts, active>>

\* Mutant: opening an open device is answered as a success.
OpenAlreadyOpenSucceeds ==
  /\ dpc = "handle" /\ active.op = "open" /\ registry[active.name] # {}
  /\ Answer("Success")
  /\ UNCHANGED <<udsVars, registry, daemonFds>>

\* handle_open: the lookup, open_serial_port and configure_serial_port.  On a
\* failure to configure the descriptor is closed before the return.
OpenAlreadyOpen ==
  /\ dpc = "handle" /\ active.op = "open" /\ registry[active.name] # {}
  /\ Answer("AlreadyOpen")
  /\ UNCHANGED <<udsVars, registry, daemonFds>>

OpenDeviceFails ==
  /\ dpc = "handle" /\ active.op = "open" /\ registry[active.name] = {}
  /\ \/ "open" \in Faults /\ Answer("InterfaceNotFound")
     \/ "configure" \in Faults /\ Answer("InvalidArguments")
  /\ UNCHANGED <<udsVars, registry, daemonFds>>

\* Mutant: the device enters the table before the transfer.
OpenDeviceRegisters ==
  /\ dpc = "handle" /\ active.op = "open" /\ registry[active.name] = {}
  /\ daemonFds' = daemonFds \cup {NewDescriptor(active)}
  /\ registry' = [registry EXCEPT ![active.name] = {NewDescriptor(active)}]
  /\ dpc' = "connect"
  /\ UNCHANGED <<ipcVars, udsVars, starts, active, reply>>

\* Mutant: the lookup is missing, a second open replaces the first.
OpenDeviceAgain ==
  /\ dpc = "handle" /\ active.op = "open"
  /\ daemonFds' = daemonFds \cup {NewDescriptor(active)}
  /\ dpc' = "connect"
  /\ UNCHANGED <<ipcVars, udsVars, starts, active, reply, registry>>

OpenDevice ==
  /\ dpc = "handle" /\ active.op = "open" /\ registry[active.name] = {}
  /\ daemonFds' = daemonFds \cup {NewDescriptor(active)}
  /\ dpc' = "connect"
  /\ UNCHANGED <<ipcVars, udsVars, starts, active, reply, registry>>

\* connect_and_send
ConnectClient ==
  /\ dpc = "connect"
  /\ Connect(active.path)
  /\ dpc' = "sendmsg"
  /\ UNCHANGED <<ipcVars, starts, active, reply, registry, daemonFds>>

\* Mutant: the descriptor stays open.
TransferFailsKeepsDescriptor ==
  /\ \/ dpc = "connect" /\ (sock[active.path] # "listening" \/ "connect" \in Faults)
     \/ dpc = "sendmsg" /\ (conn[active.path] = "reset" \/ "sendmsg" \in Faults)
  /\ DaemonHangup(active.path)
  /\ Answer("FdTransferFailed")
  /\ UNCHANGED <<registry, daemonFds>>

\* Mutant: the error of the socket call is answered as it is.
TransferFailsRaw ==
  /\ \/ dpc = "connect" /\ (sock[active.path] # "listening" \/ "connect" \in Faults)
     \/ dpc = "sendmsg" /\ (conn[active.path] = "reset" \/ "sendmsg" \in Faults)
  /\ DaemonHangup(active.path)
  /\ daemonFds' = daemonFds \ {NewDescriptor(active)}
  /\ Answer("MessageSendFailed")
  /\ UNCHANGED registry

\* The transfer fails, in socket, connect or sendmsg: the handler closes the
\* descriptor and registers nothing.
TransferFails ==
  /\ \/ dpc = "connect" /\ (sock[active.path] # "listening" \/ "connect" \in Faults)
     \/ dpc = "sendmsg" /\ (conn[active.path] = "reset" \/ "sendmsg" \in Faults)
  /\ DaemonHangup(active.path)
  /\ daemonFds' = daemonFds \ {NewDescriptor(active)}
  /\ Answer("FdTransferFailed")
  /\ UNCHANGED registry

\* The descriptor is on its way; the device is entered in the table.
TransferDescriptor ==
  /\ dpc = "sendmsg"
  /\ SendDescriptor(active.path, NewDescriptor(active))
  /\ registry' = [registry EXCEPT ![active.name] = {NewDescriptor(active)}]
  /\ Answer("Success")
  /\ UNCHANGED daemonFds

\* handle_config, handle_close: the device is not in the table.
ControlNotFound ==
  /\ dpc = "handle" /\ active.op # "open" /\ registry[active.name] = {}
  /\ Answer("InterfaceNotFound")
  /\ UNCHANGED <<udsVars, registry, daemonFds>>

\* handle_config: tcgetattr and tcsetattr on the open descriptor.
Config ==
  /\ dpc = "handle" /\ active.op = "config" /\ registry[active.name] # {}
  /\ \/ Answer("Success")
     \/ "configure" \in Faults /\ Answer("InvalidArguments")
  /\ UNCHANGED <<udsVars, registry, daemonFds>>

\* Mutant: the device is erased from the table and stays open.
CloseErasesOnly ==
  /\ dpc = "handle" /\ active.op = "close" /\ registry[active.name] # {}
  /\ registry' = [registry EXCEPT ![active.name] = {}]
  /\ Answer("Success")
  /\ UNCHANGED <<udsVars, daemonFds>>

\* handle_close: any client may close, the request does not say who opened.
Close ==
  /\ dpc = "handle" /\ active.op = "close" /\ registry[active.name] # {}
  /\ daemonFds' = daemonFds \ registry[active.name]
  /\ registry' = [registry EXCEPT ![active.name] = {}]
  /\ Answer("Success")
  /\ UNCHANGED udsVars

\* iox2::send(response)
Respond ==
  /\ dpc = "respond"
  /\ Deliver(active, reply)
  /\ dpc' = "drop"
  /\ UNCHANGED <<server, requests, event, pending, connected, udsVars,
                 starts, active, reply, registry, daemonFds>>

\* Mutant: one request is served per notification.
DropActiveWaits ==
  /\ dpc = "drop"
  /\ Disconnect(active)
  /\ active' = NoRequest
  /\ reply' = "none"
  /\ dpc' = "wait"
  /\ UNCHANGED <<server, requests, event, pending, inbox, udsVars,
                 starts, registry, daemonFds>>

\* The loop body ends: active_request goes out of scope.
DropActive ==
  /\ dpc = "drop"
  /\ Disconnect(active)
  /\ active' = NoRequest
  /\ reply' = "none"
  /\ dpc' = "drain"
  /\ UNCHANGED <<server, requests, event, pending, inbox, udsVars,
                 starts, registry, daemonFds>>

\* The process is gone: its table, its descriptors and the requests it had not
\* answered are lost.
Die ==
  /\ dpc' = "down"
  /\ server' = "dead"
  /\ requests' = <<>>
  /\ event' = "absent"
  /\ active' = NoRequest
  /\ reply' = "none"
  /\ registry' = [n \in Names |-> {}]
  /\ daemonFds' = {}
  /\ IF dpc = "sendmsg" THEN DaemonHangup(active.path) ELSE UNCHANGED udsVars
  /\ UNCHANGED <<starts, pending, connected, inbox>>

\* sendmsg() without MSG_NOSIGNAL on a connection whose other end is gone
\* raises SIGPIPE, which ends the daemon unless it was started with the signal
\* ignored (then TransferFails).
BrokenPipe ==
  /\ dpc = "sendmsg" /\ conn[active.path] = "reset"
  /\ Die

\* Any other signal, or a failed expect().
Crash ==
  /\ "crash" \in Faults /\ dpc # "down"
  /\ Die

\* iceoryx2 notices that the server of a pending request is gone.
LoseServer(c) ==
  /\ connected[c]
  /\ \A i \in DOMAIN requests : <<requests[i].client, requests[i].id>> # <<c, pending[c]>>
  /\ active # NoRequest => <<active.client, active.id>> # <<c, pending[c]>>
  /\ connected' = [connected EXCEPT ![c] = FALSE]
  /\ UNCHANGED <<server, requests, event, pending, inbox, udsVars, daemonVars>>

DaemonStep ==
  \/ StartListening \/ Wake \/ ReceiveRequest \/ DrainDone
  \/ OpenAlreadyOpen \/ OpenDeviceFails \/ OpenDevice
  \/ ConnectClient \/ TransferFails \/ TransferDescriptor \/ BrokenPipe
  \/ ControlNotFound \/ Config \/ Close
  \/ Respond \/ DropActive
=============================================================================
