------------------------------ MODULE Session ------------------------------
(***************************************************************************)
(* HyComm/Detail/Session: the client side of a call.  open_interface       *)
(* creates a UDS listener, starts accept_and_receive with std::async,      *)
(* sends the request, notifies the daemon and polls for the response;      *)
(* control_interface and close_interface are the same without the          *)
(* listener.  Manager::create_interface wraps the returned descriptor in a *)
(* handle, which alone can reconfigure and close, and which never closes   *)
(* the descriptor.                                                         *)
(*                                                                         *)
(* Where a client stands in a call (`pc`):                                 *)
(*   send, notify   before iox2::send, before m_notifier.notify()          *)
(*   poll, check    before pending_response.receive(), before              *)
(*                  is_connected()                                         *)
(*   get            in uds_fut.get()                                       *)
(*   unwind         an error is being returned, in ~future of uds_fut      *)
(***************************************************************************)
EXTENDS FdTransfer

CONSTANT LaunchPolicies   \* what std::async may choose: "async", "deferred"

ASSUME LaunchAssumption == LaunchPolicies \subseteq {"async", "deferred"}

VARIABLES
  pc,      \* per client: where it stands, "idle" between calls, "dead" after exit
  calls,   \* per client: calls begun
  call,    \* per client: the request of the call it is in, or NoRequest
  got,     \* per client: what receive() returned in the poll loop, or "none"
  result,  \* per client: how its latest call ended or is ending
  task,    \* per client: the accept_and_receive task behind uds_fut
  taskFd,  \* per client: the descriptor the task produced ({} is an error)
  held,    \* per client: descriptors open in the process
  owned,   \* per client: descriptors handed to an InterfaceHandle
  unheard  \* history: the clients in a call whose notification came while the
           \* daemon had its server and no listener yet

sessionVars == <<pc, calls, call, got, result, task, taskFd, held, owned, unheard>>

CallErrors ==
  {"ResourceCreationFailed", "ClientNotifyFailed", "ClientReceiveFailed", "InvalidFdReceived"}

SessionTypeOK ==
  /\ pc \in [Clients -> {"idle", "send", "notify", "poll", "check", "get", "unwind", "dead"}]
  /\ calls \in [Clients -> 0 .. MaxCalls]
  /\ call \in [Clients -> Requests \cup {NoRequest}]
  /\ got \in [Clients -> Replies \cup {"none"}]
  /\ result \in [Clients -> Replies \cup CallErrors \cup {"none"}]
  /\ task \in [Clients -> {"none", "deferred", "accept", "recv", "done"}]
  /\ taskFd \in [Clients -> SUBSET Descriptors]
  /\ held \in [Clients -> SUBSET Descriptors]
  /\ owned \in [Clients -> SUBSET Descriptors]
  /\ unheard \in SUBSET Clients

SessionInit ==
  /\ pc = [c \in Clients |-> "idle"]
  /\ calls = [c \in Clients |-> 0]
  /\ call = [c \in Clients |-> NoRequest]
  /\ got = [c \in Clients |-> "none"]
  /\ result = [c \in Clients |-> "none"]
  /\ task = [c \in Clients |-> "none"]
  /\ taskFd = [c \in Clients |-> {}]
  /\ held = [c \in Clients |-> {}]
  /\ owned = [c \in Clients |-> {}]
  /\ unheard = {}

Path(c) == call[c].path

NewRequest(c, op, n) ==
  [client |-> c, id |-> calls[c] + 1, op |-> op, name |-> n,
   path |-> SocketPath(c, calls[c] + 1)]

-----------------------------------------------------------------------------
BeginCall(c, op, n) ==
  /\ pc[c] = "idle" /\ calls[c] < MaxCalls
  /\ calls' = [calls EXCEPT ![c] = @ + 1]
  /\ call' = [call EXCEPT ![c] = NewRequest(c, op, n)]

\* open_interface, step 1: the listener exists and std::async has the task.
BeginOpen(c, n) ==
  /\ BeginCall(c, "open", n)
  /\ CreateListener(SocketPath(c, calls[c] + 1))
  /\ \E policy \in LaunchPolicies :
       task' = [task EXCEPT ![c] = IF policy = "async" THEN "accept" ELSE "deferred"]
  /\ pc' = [pc EXCEPT ![c] = "send"]
  /\ result' = [result EXCEPT ![c] = "none"]
  /\ UNCHANGED <<ipcVars, got, taskFd, held, owned, unheard>>

\* open_interface, step 1: create_listener failed, nothing was sent.
BeginOpenFails(c) ==
  /\ "listener" \in Faults
  /\ pc[c] = "idle" /\ calls[c] < MaxCalls
  /\ calls' = [calls EXCEPT ![c] = @ + 1]
  /\ result' = [result EXCEPT ![c] = "ResourceCreationFailed"]
  /\ UNCHANGED <<ipcVars, udsVars, pc, call, got, task, taskFd, held, owned, unheard>>

\* control_interface and close_interface, through a handle: reconfigure sends any
\* device path, and close then uses that one.
BeginControl(c, op, n) ==
  /\ owned[c] # {}
  /\ BeginCall(c, op, n)
  /\ pc' = [pc EXCEPT ![c] = "send"]
  /\ result' = [result EXCEPT ![c] = "none"]
  /\ UNCHANGED <<ipcVars, udsVars, got, task, taskFd, held, owned, unheard>>

Send(c) ==
  /\ pc[c] = "send"
  /\ SendRequest(c, call[c])
  /\ pc' = [pc EXCEPT ![c] = "notify"]
  /\ UNCHANGED <<udsVars, calls, call, got, result, task, taskFd, held, owned, unheard>>

Notify(c) ==
  /\ pc[c] = "notify"
  /\ NotifyListener
  /\ unheard' = IF server = "up" /\ event = "absent" THEN unheard \cup {c} ELSE unheard
  /\ pc' = [pc EXCEPT ![c] = "poll"]
  /\ UNCHANGED <<server, requests, pending, connected, inbox, udsVars,
                 calls, call, got, result, task, taskFd, held, owned>>

\* The locals of the call are destroyed: the pending response, then uds_fut
\* (with its FdTransfer, if it was never retrieved).
Finish(c, outcome) ==
  /\ pc' = [pc EXCEPT ![c] = "idle"]
  /\ result' = [result EXCEPT ![c] = outcome]
  /\ call' = [call EXCEPT ![c] = NoRequest]
  /\ got' = [got EXCEPT ![c] = "none"]
  /\ task' = [task EXCEPT ![c] = "none"]
  /\ taskFd' = [taskFd EXCEPT ![c] = {}]
  /\ unheard' = unheard \ {c}
  /\ IF task[c] # "none" THEN Cleanup(Path(c)) ELSE UNCHANGED udsVars

\* An error return.  The future of a running std::async task blocks in its
\* destructor until the task ends; a deferred task is just dropped.
Fail(c, error) ==
  /\ DropPending(c)
  /\ IF task[c] \in {"none", "deferred"}
     THEN Finish(c, error)
     ELSE /\ pc' = [pc EXCEPT ![c] = "unwind"]
          /\ result' = [result EXCEPT ![c] = error]
          /\ got' = [got EXCEPT ![c] = "none"]
          /\ UNCHANGED <<udsVars, call, task, taskFd, unheard>>
  /\ UNCHANGED <<server, requests, event, calls, held, owned>>

NotifyFails(c) ==
  /\ "notify" \in Faults /\ pc[c] = "notify"
  /\ Fail(c, "ClientNotifyFailed")

\* m_node.wait(Duration::zero()) fails only on a signal: it is no timeout.
WaitInterrupted(c) ==
  /\ "signal" \in Faults /\ pc[c] = "poll"
  /\ Fail(c, "ClientReceiveFailed")

\* The poll loop: receive() first ...
Poll(c) ==
  /\ pc[c] = "poll"
  /\ got' = [got EXCEPT ![c] = inbox[c]]
  /\ inbox' = [inbox EXCEPT ![c] = "none"]
  /\ pc' = [pc EXCEPT ![c] = "check"]
  /\ UNCHANGED <<server, requests, event, pending, connected, udsVars,
                 calls, call, result, task, taskFd, held, owned, unheard>>

\* ... then is_connected(), whatever was received ...
CheckDisconnected(c) ==
  /\ pc[c] = "check" /\ ~connected[c]
  /\ Fail(c, "ClientReceiveFailed")

\* ... and only then the response.
CheckNothing(c) ==
  /\ pc[c] = "check" /\ connected[c] /\ got[c] = "none"
  /\ pc' = [pc EXCEPT ![c] = "poll"]
  /\ UNCHANGED <<ipcVars, udsVars, calls, call, got, result, task, taskFd, held, owned, unheard>>

\* open_interface does not look at the payload of the response.
CheckOpen(c) ==
  /\ pc[c] = "check" /\ connected[c] /\ got[c] # "none" /\ call[c].op = "open"
  /\ pc' = [pc EXCEPT ![c] = "get"]
  /\ task' = [task EXCEPT ![c] = IF @ = "deferred" THEN "accept" ELSE @]
  /\ UNCHANGED <<ipcVars, udsVars, calls, call, got, result, taskFd, held, owned, unheard>>

CheckControl(c) ==
  /\ pc[c] = "check" /\ connected[c] /\ got[c] # "none" /\ call[c].op # "open"
  /\ DropPending(c)
  /\ Finish(c, got[c])
  /\ UNCHANGED <<server, requests, event, calls, held, owned>>

\* uds_fut.get() returns once the task has ended.
Get(c) ==
  /\ pc[c] = "get" /\ task[c] = "done"
  /\ DropPending(c)
  /\ Finish(c, IF taskFd[c] = {} THEN "InvalidFdReceived" ELSE "Success")
  /\ owned' = [owned EXCEPT ![c] = @ \cup taskFd[c]]
  /\ UNCHANGED <<server, requests, event, calls, held>>

\* ~future returns: a descriptor the task produced stays open in the process,
\* and nobody holds it.
Unwind(c) ==
  /\ pc[c] = "unwind" /\ task[c] = "done"
  /\ Finish(c, result[c])
  /\ UNCHANGED <<ipcVars, calls, held, owned>>

-----------------------------------------------------------------------------
\* accept_and_receive, in the thread of the task.
Accept(c) ==
  /\ task[c] = "accept" /\ conn[Path(c)] # "none"
  /\ task' = [task EXCEPT ![c] = "recv"]
  /\ UNCHANGED <<ipcVars, udsVars, pc, calls, call, got, result, taskFd, held, owned, unheard>>

\* Mutant: recvmsg is repeated until it returns a descriptor.
ReceiveUntilDescriptor(c) ==
  /\ task[c] = "recv" /\ conn[Path(c)] = "closed" /\ inFlight[Path(c)] # {}
  /\ taskFd' = [taskFd EXCEPT ![c] = inFlight[Path(c)]]
  /\ held' = [held EXCEPT ![c] = @ \cup inFlight[Path(c)]]
  /\ inFlight' = [inFlight EXCEPT ![Path(c)] = {}]
  /\ task' = [task EXCEPT ![c] = "done"]
  /\ UNCHANGED <<ipcVars, sock, conn, pc, calls, call, got, result, owned, unheard>>

\* recvmsg returns the message with its descriptor, or 0 bytes when the daemon
\* hung up without sending one.
Receive(c) ==
  /\ task[c] = "recv" /\ conn[Path(c)] = "closed"
  /\ taskFd' = [taskFd EXCEPT ![c] = inFlight[Path(c)]]
  /\ held' = [held EXCEPT ![c] = @ \cup inFlight[Path(c)]]
  /\ inFlight' = [inFlight EXCEPT ![Path(c)] = {}]
  /\ task' = [task EXCEPT ![c] = "done"]
  /\ UNCHANGED <<ipcVars, sock, conn, pc, calls, call, got, result, owned, unheard>>

\* accept() or recvmsg() fails; what was queued on the connection is discarded
\* with it.
AcceptFails(c) ==
  /\ "accept" \in Faults /\ task[c] \in {"accept", "recv"}
  /\ task' = [task EXCEPT ![c] = "done"]
  /\ IF task[c] = "recv" THEN ClientHangup(Path(c)) ELSE UNCHANGED <<conn, inFlight>>
  /\ UNCHANGED <<ipcVars, sock, pc, calls, call, got, result, taskFd, held, owned, unheard>>

\* The process ends, by a signal or by a failed expect(): the kernel closes
\* its descriptors and its listener.
ClientExit(c) ==
  /\ "exit" \in Faults /\ pc[c] # "dead"
  /\ pc' = [pc EXCEPT ![c] = "dead"]
  /\ DropPending(c)
  /\ call' = [call EXCEPT ![c] = NoRequest]
  /\ got' = [got EXCEPT ![c] = "none"]
  /\ task' = [task EXCEPT ![c] = "none"]
  /\ taskFd' = [taskFd EXCEPT ![c] = {}]
  /\ held' = [held EXCEPT ![c] = {}]
  /\ owned' = [owned EXCEPT ![c] = {}]
  /\ unheard' = unheard \ {c}
  /\ IF task[c] # "none" THEN Cleanup(Path(c)) ELSE UNCHANGED udsVars
  /\ UNCHANGED <<server, requests, event, calls, result>>

TaskStep(c) == Accept(c) \/ Receive(c)

CallStep(c) ==
  \/ Send(c) \/ Notify(c) \/ Poll(c)
  \/ CheckDisconnected(c) \/ CheckNothing(c) \/ CheckOpen(c) \/ CheckControl(c)
  \/ Get(c) \/ Unwind(c)

BeginStep(c) ==
  \/ BeginOpenFails(c)
  \/ \E n \in Names :
       BeginOpen(c, n) \/ \E op \in Ops \ {"open"} : BeginControl(c, op, n)

ClientFault(c) ==
  NotifyFails(c) \/ WaitInterrupted(c) \/ AcceptFails(c) \/ ClientExit(c)
=============================================================================
