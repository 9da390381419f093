------------------------------ MODULE HyComm ------------------------------
(***************************************************************************)
(* The system: client processes (Session) and the daemon (DaemonNode),     *)
(* joined by the iceoryx2 services (Ipc) and the descriptor sockets        *)
(* (FdTransfer).  Every step of one process interleaves with every step of *)
(* the others, and the task of std::async with its own process.            *)
(***************************************************************************)
EXTENDS Session, DaemonNode

vars == <<ipcVars, udsVars, sessionVars, daemonVars>>

Init == IpcInit /\ UdsInit /\ SessionInit /\ DaemonInit

ClientStep(c) ==
  /\ CallStep(c) \/ TaskStep(c) \/ BeginStep(c) \/ ClientFault(c)
  /\ UNCHANGED daemonVars

ServerStep ==
  /\ Start \/ DaemonStep \/ Crash \/ \E c \in Clients : LoseServer(c)
  /\ UNCHANGED sessionVars

Next == (\E c \in Clients : ClientStep(c)) \/ ServerStep

Spec == Init /\ [][Next]_vars

\* A client thread in a call and its std::async thread are scheduled; nothing
\* obliges a program to make a call.
ClientFairness ==
  \A c \in Clients :
    /\ WF_vars(CallStep(c) /\ UNCHANGED daemonVars)
    /\ WF_vars(TaskStep(c) /\ UNCHANGED daemonVars)

\* The daemon is started and its only thread is scheduled.
DaemonFairness ==
  /\ WF_vars(Start /\ UNCHANGED sessionVars)
  /\ WF_vars(DaemonStep /\ UNCHANGED sessionVars)

FairSpec == Spec /\ ClientFairness /\ DaemonFairness

\* The daemon may stop at any point: what a client can rely on by itself.
ClientFairSpec == Spec /\ ClientFairness

-----------------------------------------------------------------------------
\* Every variable has its type.
TypeOK == IpcTypeOK /\ UdsTypeOK /\ SessionTypeOK /\ DaemonTypeOK

InCall(c) == pc[c] \notin {"idle", "dead"}

Queued(c, id) == \E i \in DOMAIN requests : requests[i].client = c /\ requests[i].id = id

\* The daemon never sleeps on the request of a client that polls for its
\* answer: Session sends before it notifies, and DaemonNode::run drains the
\* server after the notification is consumed.  Only a notification that fell
\* between the creation of m_server and of m_listener may be missing, see
\* NotifiedDaemonIsAwake; the next one that is heard makes up for it.
NoLostWakeup ==
  \A c \in Clients :
    dpc = "wait" /\ pc[c] \in {"poll", "check"} /\ Queued(c, call[c].id) =>
      event = "notified" \/ c \in unheard

\* What accept_and_receive produces belongs to the open_interface that started
\* it: never the descriptor of an abandoned call, of another interface or of
\* another process, although the daemon serves abandoned requests too.
DescriptorIsForThisCall ==
  \A c \in Clients : \A fd \in taskFd[c] :
    fd.origin = <<c, call[c].id>> /\ fd.name = call[c].name

\* After a response that says Success, uds_fut.get() finds the daemon's
\* connection complete: the backend transfers before it answers, and an answer
\* reaches only the call it is for.
GetDoesNotBlock ==
  \A c \in Clients : pc[c] = "get" /\ got[c] = "Success" => conn[Path(c)] = "closed"

\* A device descriptor is open in the daemon exactly while its device is in the
\* table or its open is in progress: no path of handle_open leaks one, and
\* handle_close closes what it removes.
DaemonHoldsOnlyItsDevices ==
  daemonFds =
    (UNION {registry[n] : n \in Names}) \cup
      (IF dpc \in {"connect", "sendmsg"} THEN {NewDescriptor(active)} ELSE {})

\* A listener exists exactly while the task of its open call does: every way
\* out of open_interface closes it and unlinks its path.
ListenerLivesWithItsTask ==
  \A c \in Clients, i \in 0 .. MaxCalls :
    sock[<<c, i>>] = "listening" <=> task[c] # "none" /\ Path(c) = <<c, i>>

\* A device in the daemon's table is not lost: unless its process is gone, the
\* client it was opened for is still in that call or has its descriptor open.
RegisteredDeviceReachedItsClient ==
  \A n \in Names : \A fd \in registry[n] : \A c \in Clients :
    fd.origin[1] = c /\ pc[c] # "dead" /\ ~(InCall(c) /\ <<c, call[c].id>> = fd.origin) =>
      fd \in held[c]

-----------------------------------------------------------------------------
\* A call leaves its poll loop, whatever the daemon had to refuse, unless its
\* notification came before the daemon's listener.
CallsAreAnswered ==
  \A c \in Clients :
    pc[c] \in {"send", "notify", "poll", "check"} ~>
      pc[c] \in {"get", "unwind", "idle"} \/ c \in unheard

\* An open call whose connection the daemon has finished with returns.
TransferredOpenReturns ==
  \A c \in Clients :
    (InCall(c) /\ call[c].op = "open" /\ conn[Path(c)] = "closed") ~> pc[c] = "idle"

-----------------------------------------------------------------------------
\* The refinement mapping.  A request is decided by the daemon's step into
\* `respond`; the decision is then the reply being sent, the response waiting
\* in the client's inbox, or what receive() has returned.  A call's number is
\* spent when it has left the line that sends.
Spent ==
  {t \in Clients \X (1 .. MaxCalls) :
     t[2] < calls[t[1]] \/ (t[2] = calls[t[1]] /\ pc[t[1]] # "send")}

Waiting ==
  {requests[i] : i \in DOMAIN requests} \cup
    {r \in {active} : dpc \in {"handle", "connect", "sendmsg"}}

Verdicts ==
  {<<r, reply>> : r \in {q \in {active} : dpc = "respond"}} \cup
    {<<call[c], inbox[c]>> : c \in {d \in Clients : inbox[d] # "none"}} \cup
    {<<call[c], got[c]>> : c \in {d \in Clients : got[d] # "none"}}

Offered == UNION ({inFlight[p] : p \in Paths} \cup {taskFd[c] : c \in Clients})

Service == INSTANCE DeviceService
  WITH table <- registry, spent <- Spent, waiting <- Waiting, verdicts <- Verdicts,
       offered <- Offered

\* Every behaviour of the processes is one of the device service: no request is
\* decided twice, no call returns another call's decision or descriptor.
ImplementsService == Service!Spec

-----------------------------------------------------------------------------
\* Session.cpp:56, "Step 4: Notify Daemon": once the step is done, a daemon that
\* has the request does not sleep without a notification.
NotifiedDaemonIsAwake ==
  \A c \in Clients :
    dpc = "wait" /\ pc[c] \in {"poll", "check"} /\ Queued(c, call[c].id) => event = "notified"

\* Session.cpp:76, "Response received successfully, return the uds_fut result":
\* an open call that received its response returns.
OpenReturnsAfterResponse == \A c \in Clients : pc[c] = "get" ~> pc[c] = "idle"

\* Session.cpp:71, "Failed to receive message from server": that error is
\* returned only when no response was received.
ReceivedResponseIsReturned ==
  [][\A c \in Clients :
       pc[c] = "check" /\ got[c] # "none" => result'[c] # "ClientReceiveFailed"]_vars
=============================================================================
