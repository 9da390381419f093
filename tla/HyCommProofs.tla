--------------------------- MODULE HyCommProofs ---------------------------
(***************************************************************************)
(* Theorems about HyComm, for every set of clients and names, every bound  *)
(* on calls and starts, every set of faults and every launch policy.       *)
(***************************************************************************)
EXTENDS HyComm, TLAPS

\* A client in a call holds the request of that call; only an open call has a
\* task; the daemon holds an ActiveRequest from its receipt to its drop.
CallShape ==
  /\ \A c \in Clients :
       InCall(c) =>
         /\ call[c] \in Requests
         /\ call[c].client = c /\ call[c].id = calls[c] /\ call[c].path = <<c, calls[c]>>
  /\ \A c \in Clients : task[c] # "none" => InCall(c)
  /\ dpc \in {"handle", "connect", "sendmsg", "respond", "drop"} => active \in Requests

TypeInv == TypeOK /\ CallShape

LEMMA NewRequestType ==
  ASSUME TypeOK, NEW c \in Clients, calls[c] < MaxCalls, NEW op \in Ops, NEW n \in Names
  PROVE  /\ NewRequest(c, op, n) \in Requests
         /\ SocketPath(c, calls[c] + 1) \in Paths
         /\ calls[c] + 1 \in 0 .. MaxCalls
BY ConstantsAssumption DEF TypeOK, SessionTypeOK, NewRequest, Requests, SocketPath, Paths

LEMMA TypeInit == Init => TypeInv
<1> SUFFICES ASSUME Init PROVE TypeInv
  OBVIOUS
<1> USE ConstantsAssumption DEF Init
<1>1. IpcTypeOK
  <2>1. requests \in Seq(Requests)
    BY DEF IpcInit
  <2>2. pending \in [Clients -> 0 .. MaxCalls]
    BY DEF IpcInit, ConstantsAssumption
  <2> QED BY <2>1, <2>2 DEF IpcInit, IpcTypeOK
<1>2. UdsTypeOK
  BY DEF UdsInit, UdsTypeOK
<1>3. SessionTypeOK
  BY DEF SessionInit, SessionTypeOK
<1>4. DaemonTypeOK
  BY DEF DaemonInit, DaemonTypeOK
<1>5. CallShape
  BY DEF SessionInit, DaemonInit, CallShape, InCall
<1> QED BY <1>1, <1>2, <1>3, <1>4, <1>5 DEF TypeInv, TypeOK

LEMMA CleanupType ==
  ASSUME UdsTypeOK, NEW p, Cleanup(p)
  PROVE  UdsTypeOK'
BY DEF UdsTypeOK, Cleanup, ClientHangup

\* The end of a call leaves the client between calls, with nothing of it left.
LEMMA FinishType ==
  ASSUME TypeInv, NEW c \in Clients, NEW outcome \in Replies \cup CallErrors \cup {"none"},
         Finish(c, outcome), UNCHANGED <<calls, held>>, UNCHANGED daemonVars,
         owned' \in [Clients -> SUBSET Descriptors]
  PROVE  UdsTypeOK' /\ SessionTypeOK' /\ DaemonTypeOK' /\ CallShape'
<1> USE DEF TypeInv, TypeOK
<1>1. UdsTypeOK'
  <2>1. CASE task[c] # "none"
    BY <2>1, CleanupType DEF Finish
  <2>2. CASE task[c] = "none"
    BY <2>2 DEF Finish, udsVars, UdsTypeOK
  <2> QED BY <2>1, <2>2
<1>2. SessionTypeOK'
  BY DEF SessionTypeOK, Finish
<1>3. DaemonTypeOK'
  BY DEF DaemonTypeOK, daemonVars
<1>4. CallShape'
  BY DEF CallShape, Finish, InCall, SessionTypeOK, daemonVars
<1> QED BY <1>1, <1>2, <1>3, <1>4

LEMMA DropPendingType ==
  ASSUME IpcTypeOK, NEW c \in Clients, DropPending(c), UNCHANGED <<server, requests, event>>
  PROVE  IpcTypeOK'
BY ConstantsAssumption DEF IpcTypeOK, DropPending

LEMMA FailType ==
  ASSUME TypeInv, NEW c \in Clients, NEW error \in CallErrors, Fail(c, error), InCall(c),
         UNCHANGED daemonVars
  PROVE  TypeInv'
<1> USE DEF TypeInv, TypeOK
<1>1. IpcTypeOK'
  BY DropPendingType DEF Fail
<1>2. CASE task[c] \in {"none", "deferred"}
  <2>1. Finish(c, error) /\ UNCHANGED <<calls, held, owned>>
    BY <1>2 DEF Fail
  <2>2. owned' \in [Clients -> SUBSET Descriptors]
    BY <2>1 DEF SessionTypeOK
  <2> QED BY <1>1, <2>1, <2>2, FinishType
<1>3. CASE task[c] \notin {"none", "deferred"}
  <2> USE <1>3 DEF Fail
  <2>1. UdsTypeOK'
    BY DEF UdsTypeOK, udsVars
  <2>2. SessionTypeOK'
    BY DEF SessionTypeOK
  <2>3. DaemonTypeOK'
    BY DEF DaemonTypeOK, daemonVars
  <2>4. CallShape'
    BY DEF CallShape, InCall, SessionTypeOK, daemonVars
  <2> QED BY <1>1, <2>1, <2>2, <2>3, <2>4
<1> QED BY <1>2, <1>3

LEMMA CallStepType ==
  ASSUME TypeInv, NEW c \in Clients, CallStep(c), UNCHANGED daemonVars
  PROVE  TypeInv'
<1> USE DEF TypeInv, TypeOK
<1>d. DaemonTypeOK'
  BY DEF DaemonTypeOK, daemonVars
<1>1. CASE Send(c)
  <2> USE <1>1 DEF Send, SendRequest
  <2>1. call[c] \in Requests /\ call[c].id \in 0 .. MaxCalls
    BY DEF CallShape, InCall, Requests
  <2>2. IpcTypeOK'
    BY <2>1 DEF IpcTypeOK
  <2>3. UdsTypeOK' /\ SessionTypeOK'
    BY DEF UdsTypeOK, udsVars, SessionTypeOK
  <2>4. CallShape'
    BY DEF CallShape, InCall, SessionTypeOK, daemonVars
  <2> QED BY <1>d, <2>2, <2>3, <2>4
<1>2. CASE Notify(c) \/ Poll(c) \/ CheckNothing(c) \/ CheckOpen(c)
  <2> USE <1>2 DEF Notify, NotifyListener, Poll, CheckNothing, CheckOpen, ipcVars
  <2>1. IpcTypeOK'
    BY DEF IpcTypeOK
  <2>2. UdsTypeOK'
    BY DEF UdsTypeOK, udsVars
  <2>3. SessionTypeOK'
    BY DEF SessionTypeOK, IpcTypeOK
  <2>4. CallShape'
    BY DEF CallShape, InCall, SessionTypeOK, daemonVars
  <2> QED BY <1>d, <2>1, <2>2, <2>3, <2>4
<1>3. CASE CheckDisconnected(c)
  BY <1>3, FailType DEF CheckDisconnected, CallErrors, InCall
<1>4. CASE CheckControl(c)
  <2>1. IpcTypeOK'
    BY <1>4, DropPendingType DEF CheckControl
  <2>2. got[c] \in Replies \cup CallErrors \cup {"none"}
    BY DEF SessionTypeOK
  <2>3. owned' \in [Clients -> SUBSET Descriptors]
    BY <1>4 DEF CheckControl, SessionTypeOK
  <2> QED BY <1>4, <2>1, <2>2, <2>3, FinishType DEF CheckControl
<1>5. CASE Get(c)
  <2>1. IpcTypeOK'
    BY <1>5, DropPendingType DEF Get
  <2>2. (IF taskFd[c] = {} THEN "InvalidFdReceived" ELSE "Success")
          \in Replies \cup CallErrors \cup {"none"}
    BY DEF Replies, CallErrors
  <2>3. owned' \in [Clients -> SUBSET Descriptors]
    BY <1>5 DEF Get, SessionTypeOK
  <2> QED BY <1>5, <2>1, <2>2, <2>3, FinishType DEF Get
<1>6. CASE Unwind(c)
  <2>1. IpcTypeOK'
    BY <1>6 DEF Unwind, ipcVars, IpcTypeOK
  <2>2. result[c] \in Replies \cup CallErrors \cup {"none"}
    BY DEF SessionTypeOK
  <2>3. owned' \in [Clients -> SUBSET Descriptors]
    BY <1>6 DEF Unwind, SessionTypeOK
  <2> QED BY <1>6, <2>1, <2>2, <2>3, FinishType DEF Unwind
<1> QED BY <1>1, <1>2, <1>3, <1>4, <1>5, <1>6 DEF CallStep

LEMMA BeginStepType ==
  ASSUME TypeInv, NEW c \in Clients, BeginStep(c), UNCHANGED daemonVars
  PROVE  TypeInv'
<1> USE DEF TypeInv, TypeOK
<1>d. DaemonTypeOK'
  BY DEF DaemonTypeOK, daemonVars
<1>i. IpcTypeOK'
  BY DEF IpcTypeOK, ipcVars, BeginStep, BeginOpen, BeginOpenFails, BeginControl
<1>1. CASE BeginOpenFails(c)
  <2> USE <1>1 DEF BeginOpenFails
  <2>1. UdsTypeOK'
    BY DEF UdsTypeOK, udsVars
  <2>2. SessionTypeOK'
    BY ConstantsAssumption DEF SessionTypeOK, CallErrors
  <2>3. CallShape'
    BY DEF CallShape, InCall, SessionTypeOK, daemonVars
  <2> QED BY <1>d, <1>i, <2>1, <2>2, <2>3
<1>2. ASSUME NEW n \in Names, BeginOpen(c, n)
      PROVE  TypeInv'
  <2> USE <1>2 DEF BeginOpen, BeginCall
  <2>1. /\ NewRequest(c, "open", n) \in Requests
        /\ calls[c] + 1 \in 0 .. MaxCalls
    BY NewRequestType DEF Ops
  <2>2. UdsTypeOK'
    BY DEF UdsTypeOK, CreateListener
  <2>3. SessionTypeOK'
    BY <2>1 DEF SessionTypeOK
  <2>4. CallShape'
    BY <2>1 DEF CallShape, InCall, SessionTypeOK, daemonVars, NewRequest, SocketPath
  <2> QED BY <1>d, <1>i, <2>2, <2>3, <2>4
<1>3. ASSUME NEW n \in Names, NEW op \in Ops \ {"open"}, BeginControl(c, op, n)
      PROVE  TypeInv'
  <2> USE <1>3 DEF BeginControl, BeginCall
  <2>1. /\ NewRequest(c, op, n) \in Requests
        /\ calls[c] + 1 \in 0 .. MaxCalls
    BY NewRequestType
  <2>2. UdsTypeOK'
    BY DEF UdsTypeOK, udsVars
  <2>3. SessionTypeOK'
    BY <2>1 DEF SessionTypeOK
  <2>4. CallShape'
    BY <2>1 DEF CallShape, InCall, SessionTypeOK, daemonVars, NewRequest, SocketPath
  <2> QED BY <1>d, <1>i, <2>2, <2>3, <2>4
<1> QED BY <1>1, <1>2, <1>3 DEF BeginStep

LEMMA TaskStepType ==
  ASSUME TypeInv, NEW c \in Clients, TaskStep(c), UNCHANGED daemonVars
  PROVE  TypeInv'
<1> USE DEF TypeInv, TypeOK, TaskStep, Accept, Receive, Path
<1>0. call[c] \in Requests /\ call[c].path \in Paths
  BY DEF CallShape, Requests
<1>1. IpcTypeOK'
  BY DEF IpcTypeOK, ipcVars
<1>2. UdsTypeOK'
  BY DEF UdsTypeOK, udsVars
<1>3. SessionTypeOK'
  BY <1>0 DEF SessionTypeOK, UdsTypeOK
<1>4. DaemonTypeOK'
  BY DEF DaemonTypeOK, daemonVars
<1>5. CallShape'
  BY DEF CallShape, InCall, SessionTypeOK, daemonVars
<1> QED BY <1>1, <1>2, <1>3, <1>4, <1>5

LEMMA ClientFaultType ==
  ASSUME TypeInv, NEW c \in Clients, ClientFault(c), UNCHANGED daemonVars
  PROVE  TypeInv'
<1> USE DEF TypeInv, TypeOK
<1>d. DaemonTypeOK'
  BY DEF DaemonTypeOK, daemonVars
<1>1. CASE NotifyFails(c) \/ WaitInterrupted(c)
  BY <1>1, FailType DEF NotifyFails, WaitInterrupted, CallErrors, InCall
<1>2. CASE AcceptFails(c)
  <2> USE <1>2 DEF AcceptFails
  <2>1. IpcTypeOK'
    BY DEF IpcTypeOK, ipcVars
  <2>2. UdsTypeOK'
    BY DEF UdsTypeOK, ClientHangup
  <2>3. SessionTypeOK' /\ CallShape'
    BY DEF SessionTypeOK, CallShape, InCall, daemonVars
  <2> QED BY <1>d, <2>1, <2>2, <2>3
<1>3. CASE ClientExit(c)
  <2> USE <1>3 DEF ClientExit
  <2>1. IpcTypeOK'
    BY DropPendingType
  <2>2. UdsTypeOK'
    BY CleanupType DEF UdsTypeOK, udsVars
  <2>3. SessionTypeOK'
    BY DEF SessionTypeOK
  <2>4. CallShape'
    BY DEF CallShape, InCall, SessionTypeOK, daemonVars
  <2> QED BY <1>d, <2>1, <2>2, <2>3, <2>4
<1> QED BY <1>1, <1>2, <1>3 DEF ClientFault

-----------------------------------------------------------------------------
LEMMA ActiveType ==
  ASSUME TypeInv, dpc \in {"handle", "connect", "sendmsg", "respond", "drop"}
  PROVE  /\ active \in Requests /\ active.name \in Names /\ active.path \in Paths
         /\ active.client \in Clients
         /\ NewDescriptor(active) \in Descriptors
BY DEF TypeInv, CallShape, Requests, NewDescriptor, Descriptors

LEMMA DieType ==
  ASSUME TypeInv, Die, UNCHANGED sessionVars
  PROVE  TypeInv'
<1> USE DEF TypeInv, TypeOK, Die
<1>0. requests' \in Seq(Requests)
  OBVIOUS
<1>1. IpcTypeOK'
  BY <1>0 DEF IpcTypeOK
<1>2. UdsTypeOK'
  BY DEF UdsTypeOK, udsVars, DaemonHangup
<1>3. SessionTypeOK' /\ CallShape'
  BY DEF SessionTypeOK, CallShape, InCall, sessionVars
<1>4. DaemonTypeOK'
  BY DEF DaemonTypeOK
<1> QED BY <1>1, <1>2, <1>3, <1>4

LEMMA DaemonStepType ==
  ASSUME TypeInv, DaemonStep, UNCHANGED sessionVars
  PROVE  TypeInv'
<1> USE DEF TypeInv, TypeOK
<1>s. SessionTypeOK'
  BY DEF SessionTypeOK, sessionVars
<1>c. (dpc' \in {"handle", "connect", "sendmsg", "respond", "drop"} => active' \in Requests)
        => CallShape'
  BY DEF CallShape, InCall, sessionVars
<1>1. CASE StartListening \/ Wake \/ DrainDone
  <2> USE <1>1 DEF StartListening, Wake, DrainDone, ipcVars, udsVars
  <2>1. IpcTypeOK' /\ UdsTypeOK' /\ DaemonTypeOK'
    BY DEF IpcTypeOK, UdsTypeOK, DaemonTypeOK
  <2> QED BY <1>s, <1>c, <2>1
<1>2. CASE ReceiveRequest
  <2> USE <1>2 DEF ReceiveRequest
  <2>1. Head(requests) \in Requests /\ Tail(requests) \in Seq(Requests)
    BY DEF IpcTypeOK
  <2>2. IpcTypeOK' /\ UdsTypeOK' /\ DaemonTypeOK'
    BY <2>1 DEF IpcTypeOK, UdsTypeOK, udsVars, DaemonTypeOK
  <2> QED BY <1>s, <1>c, <2>1, <2>2
<1>3. CASE OpenAlreadyOpen \/ OpenDeviceFails \/ ControlNotFound \/ Config
  <2> USE <1>3, ActiveType
      DEF OpenAlreadyOpen, OpenDeviceFails, ControlNotFound, Config, Answer
  <2>1. IpcTypeOK' /\ UdsTypeOK' /\ DaemonTypeOK'
    BY DEF IpcTypeOK, ipcVars, UdsTypeOK, udsVars, DaemonTypeOK, Replies, Refusals
  <2> QED BY <1>s, <1>c, <2>1
<1>4. CASE OpenDevice
  <2> USE <1>4, ActiveType DEF OpenDevice
  <2>1. IpcTypeOK' /\ UdsTypeOK' /\ DaemonTypeOK'
    BY DEF IpcTypeOK, ipcVars, UdsTypeOK, udsVars, DaemonTypeOK
  <2> QED BY <1>s, <1>c, <2>1
<1>5. CASE ConnectClient
  <2> USE <1>5, ActiveType DEF ConnectClient, Connect
  <2>1. IpcTypeOK' /\ UdsTypeOK' /\ DaemonTypeOK'
    BY DEF IpcTypeOK, ipcVars, UdsTypeOK, DaemonTypeOK
  <2> QED BY <1>s, <1>c, <2>1
<1>6. CASE TransferFails
  <2> USE <1>6, ActiveType DEF TransferFails, DaemonHangup, Answer
  <2>1. IpcTypeOK' /\ UdsTypeOK' /\ DaemonTypeOK'
    BY DEF IpcTypeOK, ipcVars, UdsTypeOK, DaemonTypeOK, Replies, Refusals
  <2> QED BY <1>s, <1>c, <2>1
<1>7. CASE TransferDescriptor
  <2> USE <1>7, ActiveType DEF TransferDescriptor, SendDescriptor, Answer
  <2>1. IpcTypeOK' /\ UdsTypeOK' /\ DaemonTypeOK'
    BY DEF IpcTypeOK, ipcVars, UdsTypeOK, DaemonTypeOK, Replies
  <2> QED BY <1>s, <1>c, <2>1
<1>8. CASE Close
  <2> USE <1>8, ActiveType DEF Close, Answer
  <2>1. IpcTypeOK' /\ UdsTypeOK' /\ DaemonTypeOK'
    BY DEF IpcTypeOK, ipcVars, UdsTypeOK, udsVars, DaemonTypeOK, Replies
  <2> QED BY <1>s, <1>c, <2>1
<1>9. CASE Respond \/ DropActive
  <2> USE <1>9, ActiveType DEF Respond, Deliver, DropActive, Disconnect
  <2>1. IpcTypeOK' /\ UdsTypeOK' /\ DaemonTypeOK'
    BY DEF IpcTypeOK, UdsTypeOK, udsVars, DaemonTypeOK
  <2> QED BY <1>s, <1>c, <2>1
<1>10. CASE BrokenPipe
  BY <1>10, DieType DEF BrokenPipe
<1> QED BY <1>1, <1>2, <1>3, <1>4, <1>5, <1>6, <1>7, <1>8, <1>9, <1>10 DEF DaemonStep

LEMMA TypeStep == TypeInv /\ [Next]_vars => TypeInv'
<1> SUFFICES ASSUME TypeInv, [Next]_vars PROVE TypeInv'
  OBVIOUS
<1>1. CASE \E c \in Clients : ClientStep(c)
  BY <1>1, CallStepType, TaskStepType, BeginStepType, ClientFaultType DEF ClientStep
<1>2. CASE ServerStep
  <2>1. CASE DaemonStep
    BY <1>2, <2>1, DaemonStepType DEF ServerStep
  <2>2. CASE Start
    <3>1. starts' \in 0 .. MaxStarts
      BY <2>2, ConstantsAssumption DEF Start, TypeInv, TypeOK, DaemonTypeOK, ConstantsAssumption
    <3> QED BY <1>2, <2>2, <3>1 DEF ServerStep, Start, TypeInv, TypeOK, CallShape, InCall,
          IpcTypeOK, UdsTypeOK, SessionTypeOK, DaemonTypeOK, udsVars, sessionVars
  <2>3. CASE Crash
    BY <1>2, <2>3, DieType DEF ServerStep, Crash
  <2>4. CASE \E c \in Clients : LoseServer(c)
    BY <1>2, <2>4 DEF ServerStep, LoseServer, TypeInv, TypeOK, CallShape, InCall, IpcTypeOK,
       UdsTypeOK, SessionTypeOK, DaemonTypeOK, udsVars, sessionVars, daemonVars
  <2> QED BY <1>2, <2>1, <2>2, <2>3, <2>4 DEF ServerStep
<1>3. CASE UNCHANGED vars
  BY <1>3 DEF vars, ipcVars, udsVars, sessionVars, daemonVars, TypeInv, TypeOK, CallShape,
     InCall, IpcTypeOK, UdsTypeOK, SessionTypeOK, DaemonTypeOK
<1> QED BY <1>1, <1>2, <1>3 DEF Next

LEMMA TypeInvariance == Spec => []TypeInv
BY TypeInit, TypeStep, PTL DEF Spec

\* Every variable of the processes, the services and the sockets has its type
\* in every reachable state.
THEOREM TypeCorrect == Spec => []TypeOK
<1>1. TypeInv => TypeOK
  BY DEF TypeInv
<1> QED BY <1>1, TypeInvariance, PTL
-----------------------------------------------------------------------------
\* Before the daemon has its listener no notification is heard.
EarlyInv ==
  \A c \in Clients :
    dpc = "starting" /\ pc[c] \in {"poll", "check"} /\ Queued(c, call[c].id) => c \in unheard

\* The daemon's server port exists while the daemon runs, and takes what is
\* queued on it with it; the listener comes later.
WakeInv ==
  /\ server = "up" <=> dpc # "down"
  /\ event = "absent" <=> dpc \in {"down", "starting"}
  /\ dpc = "down" => requests = <<>>
  /\ EarlyInv
  /\ NoLostWakeup

SafeWake == TypeInv /\ WakeInv

\* The queue after a send: what was there, and perhaps the new request.
LEMMA QueueAfterSend ==
  ASSUME requests \in Seq(Requests), NEW r \in Requests,
         requests' \in {requests, Append(requests, r)}
  PROVE  \A i \in DOMAIN requests' :
           \/ i \in DOMAIN requests /\ requests'[i] = requests[i]
           \/ i = Len(requests) + 1 /\ requests'[i] = r
<1>1. CASE requests' = requests
  BY <1>1
<1>2. CASE requests' = Append(requests, r)
  BY <1>2
<1> QED BY <1>1, <1>2

\* The queue after the server has received its first request.
LEMMA QueueAfterReceive ==
  ASSUME requests \in Seq(Requests), requests # <<>>
  PROVE  /\ 1 \in DOMAIN requests /\ Head(requests) = requests[1]
         /\ \A i \in DOMAIN Tail(requests) :
              i + 1 \in DOMAIN requests /\ Tail(requests)[i] = requests[i + 1]
OBVIOUS

LEMMA WakeClientStep ==
  ASSUME SafeWake, NEW c \in Clients, ClientStep(c)
  PROVE  WakeInv'
<1> USE DEF SafeWake, WakeInv, TypeInv, TypeOK
<1>0. UNCHANGED <<dpc, active>>
  BY DEF ClientStep, daemonVars
<1>1. CASE Send(c)
  <2> USE <1>1, <1>0 DEF Send, SendRequest
  <2>1. call[c] \in Requests /\ call[c].client = c
    BY DEF CallShape, InCall
  <2>2. server' = server /\ event' = event /\ (dpc = "down" => requests' = <<>>)
    OBVIOUS
  <2>3. NoLostWakeup' /\ EarlyInv'
    <3> SUFFICES ASSUME NEW d \in Clients, pc'[d] \in {"poll", "check"},
                        Queued(d, call[d].id)'
                 PROVE  /\ dpc = "wait" => event = "notified" \/ d \in unheard
                        /\ dpc = "starting" => d \in unheard
      BY DEF NoLostWakeup, EarlyInv
    <3>1. d # c /\ pc[d] \in {"poll", "check"} /\ call'[d] = call[d]
      BY DEF SessionTypeOK
    <3>2. requests' \in {requests, Append(requests, call[c])}
      OBVIOUS
    <3>3. PICK i \in DOMAIN requests' :
            requests'[i].client = d /\ requests'[i].id = call'[d].id
      BY DEF Queued
    <3>4. i \in DOMAIN requests /\ requests'[i] = requests[i]
      BY <2>1, <3>1, <3>2, <3>3, QueueAfterSend DEF IpcTypeOK
    <3>5. Queued(d, call[d].id)
      BY <3>1, <3>3, <3>4 DEF Queued
    <3> QED BY <3>1, <3>5 DEF NoLostWakeup, EarlyInv
  <2> QED BY <2>2, <2>3
<1>2. CASE Notify(c)
  <2> USE <1>2, <1>0 DEF Notify, NotifyListener
  <2>1. /\ UNCHANGED <<server, requests, call>>
        /\ event' = "absent" <=> event = "absent"
        /\ event = "notified" => event' = "notified"
        /\ unheard \subseteq unheard'
        /\ \A d \in Clients : d # c => pc'[d] = pc[d]
        /\ event = "absent" /\ server = "up" => c \in unheard'
        /\ event # "absent" => event' = "notified"
    BY DEF SessionTypeOK
  <2>2. EarlyInv'
    BY <2>1 DEF EarlyInv, Queued
  <2>3. NoLostWakeup'
    BY <2>1 DEF NoLostWakeup, Queued
  <2> QED BY <2>1, <2>2, <2>3
<1>3. ASSUME UNCHANGED <<server, requests, event>>,
             \A d \in Clients :
               pc'[d] \in {"poll", "check"} =>
                 /\ pc[d] \in {"poll", "check"} /\ call'[d] = call[d]
                 /\ d \in unheard => d \in unheard'
      PROVE  WakeInv'
  BY <1>3, <1>0 DEF EarlyInv, NoLostWakeup, Queued
<1>4. CASE Poll(c) \/ CheckNothing(c) \/ CheckOpen(c)
  BY <1>4, <1>3 DEF Poll, CheckNothing, CheckOpen, ipcVars, SessionTypeOK
<1>5. CASE CheckDisconnected(c) \/ NotifyFails(c) \/ WaitInterrupted(c)
  BY <1>5, <1>3
     DEF CheckDisconnected, NotifyFails, WaitInterrupted, Fail, Finish, SessionTypeOK
<1>6. CASE CheckControl(c) \/ Get(c) \/ Unwind(c)
  BY <1>6, <1>3 DEF CheckControl, Get, Unwind, Finish, ipcVars, SessionTypeOK
<1>7. CASE TaskStep(c) \/ AcceptFails(c)
  BY <1>7, <1>3 DEF TaskStep, Accept, Receive, AcceptFails, ipcVars
<1>8. CASE BeginStep(c)
  BY <1>8, <1>3
     DEF BeginStep, BeginOpen, BeginOpenFails, BeginControl, BeginCall, ipcVars, SessionTypeOK
<1>9. CASE ClientExit(c)
  BY <1>9, <1>3 DEF ClientExit, SessionTypeOK
<1> QED BY <1>1, <1>2, <1>4, <1>5, <1>6, <1>7, <1>8, <1>9
        DEF ClientStep, CallStep, ClientFault

LEMMA WakeServerStep ==
  ASSUME SafeWake, ServerStep
  PROVE  WakeInv'
<1> USE DEF SafeWake, WakeInv
<1>0. UNCHANGED <<pc, call, unheard>>
  BY DEF ServerStep, sessionVars
<1>1. CASE Start
  BY <1>1 DEF Start, EarlyInv, NoLostWakeup, Queued
<1>2. CASE DrainDone
  BY <1>2 DEF DrainDone, ipcVars, EarlyInv, NoLostWakeup, Queued
<1>3. CASE BrokenPipe \/ Crash
  BY <1>3 DEF BrokenPipe, Crash, Die, EarlyInv, NoLostWakeup
<1>7. CASE StartListening
  BY <1>0, <1>7 DEF StartListening, EarlyInv, NoLostWakeup, Queued
<1>4. ASSUME server' = server, dpc \notin {"down", "starting"},
             dpc' \notin {"down", "starting", "wait"},
             event' = event \/ event' = "quiet"
      PROVE  WakeInv'
  BY <1>4 DEF EarlyInv, NoLostWakeup
<1>5. CASE Wake \/ ReceiveRequest \/ OpenAlreadyOpen \/ OpenDeviceFails \/ OpenDevice
           \/ ConnectClient \/ TransferFails \/ TransferDescriptor \/ ControlNotFound
           \/ Config \/ Close \/ Respond \/ DropActive
  BY <1>5, <1>4
     DEF Wake, ReceiveRequest, OpenAlreadyOpen, OpenDeviceFails, OpenDevice, ConnectClient,
         TransferFails, TransferDescriptor, ControlNotFound, Config, Close, Answer, Respond,
         DropActive, ipcVars
<1>6. CASE \E c \in Clients : LoseServer(c)
  BY <1>6, <1>0 DEF LoseServer, daemonVars, EarlyInv, NoLostWakeup, Queued
<1> QED BY <1>1, <1>2, <1>3, <1>5, <1>6, <1>7 DEF ServerStep, DaemonStep

LEMMA SafeWakeInvariance == Spec => []SafeWake
<1>1. Init => SafeWake
  BY TypeInit DEF Init, IpcInit, DaemonInit, SafeWake, WakeInv, EarlyInv, NoLostWakeup
<1>2. SafeWake /\ [Next]_vars => SafeWake'
  <2> SUFFICES ASSUME SafeWake, [Next]_vars PROVE SafeWake'
    OBVIOUS
  <2>1. TypeInv'
    BY TypeStep DEF SafeWake
  <2>2. WakeInv'
    <3>1. CASE Next
      BY <3>1, WakeClientStep, WakeServerStep DEF Next
    <3>2. CASE UNCHANGED vars
      BY <3>2
         DEF vars, ipcVars, sessionVars, daemonVars, SafeWake, WakeInv, EarlyInv, NoLostWakeup,
             Queued
    <3> QED BY <3>1, <3>2
  <2> QED BY <2>1, <2>2 DEF SafeWake
<1> QED BY <1>1, <1>2, PTL DEF Spec

\* When the daemon blocks in blocking_wait_all and a client that has notified
\* still has its request in the queue, an event is waiting, unless that client's
\* notification fell between the creation of m_server and of m_listener: the
\* start, or a restart, is the only place where a wake-up is lost.
THEOREM WakeupsAreNotLost == Spec => []NoLostWakeup
<1>1. SafeWake => NoLostWakeup
  BY DEF SafeWake, WakeInv
<1> QED BY <1>1, SafeWakeInvariance, PTL

-----------------------------------------------------------------------------
\* The table files each descriptor under its own name, and the device being
\* opened is not in it yet.
DeviceInv ==
  /\ \A n \in Names : \A fd \in registry[n] : fd.name = n
  /\ dpc \in {"connect", "sendmsg"} => registry[active.name] = {}
  /\ DaemonHoldsOnlyItsDevices

SafeDevices == TypeInv /\ DeviceInv

LEMMA DeviceDaemonStep ==
  ASSUME SafeDevices, DaemonStep
  PROVE  DeviceInv'
<1> USE DEF SafeDevices, DeviceInv, DaemonHoldsOnlyItsDevices, TypeInv, TypeOK
<1>1. ASSUME dpc \notin {"connect", "sendmsg"}, dpc' \notin {"connect", "sendmsg"},
             UNCHANGED <<registry, daemonFds>>
      PROVE  DeviceInv'
  BY <1>1
<1>2. CASE StartListening \/ Wake \/ ReceiveRequest \/ DrainDone \/ OpenAlreadyOpen
           \/ OpenDeviceFails \/ ControlNotFound \/ Config \/ Respond \/ DropActive
  BY <1>2, <1>1
     DEF StartListening, Wake, ReceiveRequest, DrainDone, OpenAlreadyOpen, OpenDeviceFails, ControlNotFound,
         Config, Answer, Respond, DropActive
<1>3. CASE OpenDevice
  BY <1>3 DEF OpenDevice, NewDescriptor
<1>4. CASE ConnectClient
  BY <1>4 DEF ConnectClient, NewDescriptor
<1>5. CASE TransferFails
  <2> USE <1>5 DEF TransferFails, Answer
  <2>1. \A n \in Names : NewDescriptor(active) \notin registry[n]
    BY ActiveType DEF NewDescriptor
  <2> QED BY <2>1
<1>6. CASE TransferDescriptor
  <2> USE <1>6 DEF TransferDescriptor, Answer
  <2>1. /\ active.name \in Names /\ NewDescriptor(active).name = active.name
        /\ daemonFds = (UNION {registry[n] : n \in Names}) \cup {NewDescriptor(active)}
        /\ registry[active.name] = {}
    BY ActiveType DEF NewDescriptor
  <2>2. \A n \in Names : registry'[n] = IF n = active.name THEN {NewDescriptor(active)}
                                        ELSE registry[n]
    BY DEF DaemonTypeOK
  <2>3. \A n \in Names : \A fd \in registry'[n] : fd.name = n
    BY <2>1, <2>2
  <2>4. UNION {registry'[n] : n \in Names} = daemonFds
    BY <2>1, <2>2
  <2> QED BY <2>3, <2>4
<1>7. CASE Close
  <2> USE <1>7 DEF Close, Answer
  <2>1. active.name \in Names
    BY ActiveType
  <2>2. \A n \in Names : registry'[n] = IF n = active.name THEN {} ELSE registry[n]
    BY DEF DaemonTypeOK
  <2>3. UNION {registry'[n] : n \in Names} = (UNION {registry[n] : n \in Names})
                                               \ registry[active.name]
    BY <2>1, <2>2
  <2> QED BY <2>2, <2>3
<1>8. CASE BrokenPipe
  BY <1>8 DEF BrokenPipe, Die
<1> QED BY <1>2, <1>3, <1>4, <1>5, <1>6, <1>7, <1>8 DEF DaemonStep

LEMMA DeviceInit == Init => SafeDevices
BY TypeInit DEF Init, DaemonInit, SafeDevices, DeviceInv, DaemonHoldsOnlyItsDevices

LEMMA DeviceNext == SafeDevices /\ [Next]_vars => SafeDevices'
<1> SUFFICES ASSUME SafeDevices, [Next]_vars PROVE SafeDevices'
  OBVIOUS
<1>1. TypeInv'
  BY TypeStep DEF SafeDevices
<1>2. CASE UNCHANGED daemonVars
  BY <1>1, <1>2
     DEF daemonVars, SafeDevices, DeviceInv, DaemonHoldsOnlyItsDevices, NewDescriptor
<1>3. CASE DaemonStep
  BY <1>1, <1>3, DeviceDaemonStep DEF SafeDevices
<1>4. CASE Start
  BY <1>1, <1>4
     DEF Start, SafeDevices, DeviceInv, DaemonHoldsOnlyItsDevices, NewDescriptor
<1>5. CASE Crash
  BY <1>1, <1>5 DEF Crash, Die, SafeDevices, DeviceInv, DaemonHoldsOnlyItsDevices
<1> QED BY <1>2, <1>3, <1>4, <1>5
        DEF Next, ClientStep, ServerStep, LoseServer, vars, daemonVars

\* The daemon leaks no device descriptor and closes none that its table still
\* lists: on every path of handle_open and handle_close what is open in the
\* process is the table, and during an open the device being opened.
THEOREM DaemonDescriptorsAreAccounted == Spec => []DaemonHoldsOnlyItsDevices
<1>1. SafeDevices => DaemonHoldsOnlyItsDevices
  BY DEF SafeDevices, DeviceInv
<1> QED BY <1>1, DeviceInit, DeviceNext, PTL DEF Spec
=============================================================================
