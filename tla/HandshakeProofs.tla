-------------------------- MODULE HandshakeProofs --------------------------
(***************************************************************************)
(* The open handshake: which descriptor reaches which call, and when       *)
(* uds_fut.get() can be relied on.  The argument follows a request: it is  *)
(* sent once by its call, served once by the daemon, and its socket path   *)
(* is connected by that service alone; so a response and a descriptor find *)
(* either the call they are for or nobody.                                 *)
(***************************************************************************)
EXTENDS HyCommProofs

Sent(c) == pc[c] \in {"notify", "poll", "check", "get", "unwind"}

Waits(c) == pc[c] \in {"notify", "poll", "check", "get"}

\* A request the daemon may still serve was sent by a call: by the one its
\* client is in now, or by one that is over.
Issued(r) ==
  /\ r.path = <<r.client, r.id>> /\ r.id \in 1 .. calls[r.client]
  /\ InCall(r.client) /\ r.id = calls[r.client] => r = call[r.client] /\ Sent(r.client)

\* Every request is served once, and its socket path is untouched before.
RequestsInv ==
  /\ \A c \in Clients : InCall(c) => calls[c] > 0
  /\ \A i \in DOMAIN requests : Issued(requests[i]) /\ conn[requests[i].path] = "none"
  /\ \A i, j \in DOMAIN requests : requests[i].path = requests[j].path => i = j
  /\ dpc \in {"handle", "connect", "sendmsg", "respond", "drop"} =>
       /\ Issued(active)
       /\ \A i \in DOMAIN requests : requests[i].path # active.path
       /\ dpc \in {"handle", "connect"} => conn[active.path] = "none"

\* The socket path of a call that has not been made or sent yet is unused.
PathsInv ==
  \A c \in Clients : \A i \in 0 .. MaxCalls :
    i > calls[c] \/ (i = calls[c] /\ pc[c] = "send") => conn[<<c, i>>] = "none"

\* An open that succeeded has been transferred.
Transferred(r, answer) ==
  r.op = "open" /\ answer = "Success" => conn[r.path] = "closed"

AnswersInv ==
  /\ dpc = "respond" => Transferred(active, reply)
  /\ \A c \in Clients :
       /\ pending[c] # 0 => pending[c] = calls[c] /\ Waits(c)
       /\ pc[c] = "get" => call[c].op = "open"
       /\ inbox[c] # "none" => Waits(c) /\ Transferred(call[c], inbox[c])
       /\ got[c] # "none" => Waits(c) /\ Transferred(call[c], got[c])

\* A descriptor travels on the path of the request it was opened for.
TransferInv ==
  /\ \A p \in Paths : \A fd \in inFlight[p] :
       /\ fd.origin = p /\ conn[p] # "none"
       /\ \A c \in Clients : InCall(c) /\ Path(c) = p => fd.name = call[c].name
  /\ \A c \in Clients : taskFd[c] # {} => InCall(c)
  /\ DescriptorIsForThisCall

SafeHandshake == TypeInv /\ RequestsInv /\ PathsInv /\ AnswersInv /\ TransferInv

LEMMA HandshakeInit == Init => SafeHandshake
<1> SUFFICES ASSUME Init PROVE SafeHandshake
  OBVIOUS
<1> USE DEF Init, IpcInit, UdsInit, SessionInit, DaemonInit
<1>1. RequestsInv
  BY DEF RequestsInv, InCall
<1>2. PathsInv
  BY DEF PathsInv, Paths
<1>3. AnswersInv /\ TransferInv
  BY DEF AnswersInv, TransferInv, DescriptorIsForThisCall
<1> QED BY <1>1, <1>2, <1>3, TypeInit DEF SafeHandshake

-----------------------------------------------------------------------------
\* What a client's step does to the calls: it begins one, goes on with one, or
\* ends one; the other clients and the daemon are not touched.
Others(c) ==
  /\ \A d \in Clients \ {c} :
       /\ pc'[d] = pc[d] /\ calls'[d] = calls[d] /\ call'[d] = call[d]
       /\ pending'[d] = pending[d] /\ inbox'[d] = inbox[d] /\ got'[d] = got[d]
       /\ taskFd'[d] = taskFd[d]
  /\ UNCHANGED daemonVars

Begins(c) ==
  /\ pc[c] = "idle" /\ pc'[c] \in {"idle", "send"} /\ calls'[c] = calls[c] + 1
  /\ UNCHANGED <<requests, pending, inbox, got, taskFd, inFlight>>
  /\ \A p \in Paths : conn'[p] = conn[p] \/ (p = <<c, calls[c] + 1>> /\ conn'[p] = "none")

GoesOn(c) ==
  /\ InCall(c) /\ InCall(c)' /\ (pc'[c] = "send" <=> pc[c] = "send")
  /\ calls'[c] = calls[c] /\ call'[c] = call[c]
  /\ \A p \in Paths : conn'[p] = conn[p] \/ (conn[p] = "connected" /\ conn'[p] = "reset")
  /\ \A p \in Paths : inFlight'[p] \subseteq inFlight[p]

Ends(c) ==
  /\ ~InCall(c)' /\ calls'[c] = calls[c]
  /\ pending'[c] = 0 /\ inbox'[c] = "none" /\ got'[c] = "none" /\ taskFd'[c] = {}
  /\ UNCHANGED requests
  /\ \A p \in Paths : conn'[p] = conn[p] \/ (conn[p] = "connected" /\ conn'[p] = "reset")
  /\ \A p \in Paths : inFlight'[p] \subseteq inFlight[p]

LEMMA OthersUntouched ==
  ASSUME TypeInv, NEW c \in Clients, ClientStep(c)
  PROVE  Others(c)
<1> USE DEF TypeInv, TypeOK, IpcTypeOK, SessionTypeOK, Others, ipcVars, udsVars
<1>1. UNCHANGED daemonVars
  BY DEF ClientStep
<1>2. CASE CallStep(c)
  BY <1>1, <1>2
     DEF CallStep, Send, SendRequest, Notify, Poll, CheckDisconnected, CheckNothing,
         CheckOpen, CheckControl, Get, Unwind, Fail, Finish, DropPending
<1>3. CASE TaskStep(c)
  BY <1>1, <1>3 DEF TaskStep, Accept, Receive
<1>4. CASE BeginStep(c)
  BY <1>1, <1>4 DEF BeginStep, BeginOpen, BeginOpenFails, BeginControl, BeginCall
<1>5. CASE ClientFault(c)
  BY <1>1, <1>5
     DEF ClientFault, NotifyFails, WaitInterrupted, AcceptFails, ClientExit, Fail, Finish,
         DropPending
<1> QED BY <1>2, <1>3, <1>4, <1>5 DEF ClientStep

LEMMA BeginBegins ==
  ASSUME TypeInv, NEW c \in Clients, BeginStep(c)
  PROVE  Begins(c)
BY DEF TypeInv, TypeOK, UdsTypeOK, SessionTypeOK, Begins, BeginStep, BeginOpen,
       BeginOpenFails, BeginControl, BeginCall, CreateListener, SocketPath, ipcVars, udsVars

LEMMA CleanupEffect ==
  ASSUME UdsTypeOK, NEW p, Cleanup(p) \/ ClientHangup(p) \/ UNCHANGED <<conn, inFlight>>
  PROVE  /\ \A q \in Paths : conn'[q] = conn[q] \/ (conn[q] = "connected" /\ conn'[q] = "reset")
         /\ \A q \in Paths : inFlight'[q] \subseteq inFlight[q]
BY DEF UdsTypeOK, Cleanup, ClientHangup

LEMMA FinishEnds ==
  ASSUME SafeHandshake, NEW c \in Clients, NEW outcome, Finish(c, outcome),
         UNCHANGED <<calls, requests>>, DropPending(c) \/ (pc[c] = "unwind" /\ UNCHANGED ipcVars)
  PROVE  Ends(c)
<1> USE DEF SafeHandshake, TypeInv, TypeOK
<1>1. pending'[c] = 0 /\ inbox'[c] = "none"
  BY DEF DropPending, IpcTypeOK, ipcVars, AnswersInv, Waits
<1>2. got'[c] = "none" /\ taskFd'[c] = {} /\ ~InCall(c)'
  BY DEF Finish, SessionTypeOK, InCall
<1>3. Cleanup(Path(c)) \/ UNCHANGED <<conn, inFlight>>
  BY DEF Finish, udsVars
<1> QED BY <1>1, <1>2, <1>3, CleanupEffect DEF Ends

LEMMA FailEndsOrGoesOn ==
  ASSUME SafeHandshake, NEW c \in Clients, NEW error, Fail(c, error), Sent(c)
  PROVE  Ends(c) \/ (GoesOn(c) /\ UNCHANGED <<requests, taskFd>>
                      /\ pending'[c] = 0 /\ inbox'[c] = "none" /\ got'[c] = "none")
<1> USE DEF SafeHandshake, TypeInv, TypeOK
<1>1. CASE Finish(c, error)
  BY <1>1, FinishEnds DEF Fail
<1>2. CASE ~Finish(c, error)
  <2> USE <1>2 DEF Fail
  <2>1. InCall(c) /\ InCall(c)' /\ pc[c] # "send" /\ pc'[c] # "send" /\ got'[c] = "none"
    BY DEF Sent, InCall, SessionTypeOK
  <2>2. pending'[c] = 0 /\ inbox'[c] = "none"
    BY DEF DropPending, IpcTypeOK
  <2> QED BY <2>1, <2>2 DEF GoesOn, udsVars
<1> QED BY <1>1, <1>2

LEMMA ExitEnds ==
  ASSUME SafeHandshake, NEW c \in Clients, ClientExit(c)
  PROVE  Ends(c)
<1> USE DEF SafeHandshake, TypeInv, TypeOK, ClientExit
<1>1. pending'[c] = 0 /\ inbox'[c] = "none"
  BY DEF DropPending, IpcTypeOK
<1>2. got'[c] = "none" /\ taskFd'[c] = {} /\ ~InCall(c)'
  BY DEF SessionTypeOK, InCall
<1>3. Cleanup(Path(c)) \/ UNCHANGED <<conn, inFlight>>
  BY DEF udsVars
<1> QED BY <1>1, <1>2, <1>3, CleanupEffect DEF Ends

\* A call that goes on may move an answer from its inbox to the caller, or a
\* descriptor from its connection to the task.
Answers(c) ==
  /\ pending'[c] \in {pending[c], 0}
  /\ inbox'[c] \in {inbox[c], "none"}
  /\ got'[c] \in {got[c], inbox[c], "none"}
  /\ pending'[c] # 0 \/ inbox'[c] # "none" \/ got'[c] # "none" => Waits(c) /\ Waits(c)'
  /\ pc'[c] = "get" => call[c].op = "open"
  /\ taskFd'[c] \in {taskFd[c], inFlight[Path(c)]}
  /\ taskFd'[c] # taskFd[c] => Path(c) \in Paths
  /\ UNCHANGED requests

LEMMA StepsOfAClient ==
  ASSUME SafeHandshake, NEW c \in Clients, ClientStep(c), ~Send(c)
  PROVE  Begins(c) \/ Ends(c) \/ (GoesOn(c) /\ Answers(c))
<1> USE DEF SafeHandshake, TypeInv, TypeOK
<1>1. CASE BeginStep(c)
  BY <1>1, BeginBegins
<1>2. CASE CheckDisconnected(c) \/ NotifyFails(c) \/ WaitInterrupted(c)
  <2>1. PICK error : Fail(c, error)
    BY <1>2 DEF CheckDisconnected, NotifyFails, WaitInterrupted
  <2>2. Sent(c)
    BY <1>2 DEF CheckDisconnected, NotifyFails, WaitInterrupted, Sent
  <2>3. pc'[c] # "get"
    BY <2>1 DEF Fail, Finish, SessionTypeOK
  <2> QED BY <2>1, <2>2, <2>3, FailEndsOrGoesOn DEF Answers
<1>3. CASE CheckControl(c)
  BY <1>3, FinishEnds DEF CheckControl
<1>4. CASE Get(c)
  BY <1>4, FinishEnds DEF Get
<1>5. CASE Unwind(c)
  BY <1>5, FinishEnds DEF Unwind, ipcVars
<1>6. CASE ClientExit(c)
  BY <1>6, ExitEnds
<1>7. CASE Notify(c) \/ Poll(c) \/ CheckNothing(c) \/ CheckOpen(c)
  <2> USE <1>7 DEF Notify, Poll, CheckNothing, CheckOpen, ipcVars, udsVars
  <2>1. GoesOn(c)
    BY DEF GoesOn, InCall, SessionTypeOK
  <2>2. Answers(c)
    BY DEF Answers, Waits, SessionTypeOK, IpcTypeOK, AnswersInv
  <2> QED BY <2>1, <2>2
<1>8. CASE TaskStep(c) \/ AcceptFails(c)
  <2> USE <1>8 DEF TaskStep, Accept, Receive, AcceptFails, ipcVars
  <2>1. InCall(c) /\ Path(c) \in Paths
    BY DEF CallShape, Requests, Path, SessionTypeOK
  <2>2. ClientHangup(Path(c)) \/ UNCHANGED <<conn, inFlight>>
          \/ (conn' = conn /\ inFlight' = [inFlight EXCEPT ![Path(c)] = {}])
    BY DEF udsVars
  <2>3. /\ \A q \in Paths : conn'[q] = conn[q] \/ (conn[q] = "connected" /\ conn'[q] = "reset")
        /\ \A q \in Paths : inFlight'[q] \subseteq inFlight[q]
    BY <2>2, CleanupEffect DEF UdsTypeOK
  <2>4. GoesOn(c)
    BY <2>1, <2>3 DEF GoesOn, InCall
  <2>5. Answers(c)
    BY <2>1 DEF Answers, SessionTypeOK, AnswersInv, Waits
  <2> QED BY <2>4, <2>5
<1> QED BY <1>1, <1>2, <1>3, <1>4, <1>5, <1>6, <1>7, <1>8
        DEF ClientStep, CallStep, ClientFault

\* Issued and Transferred after a step, of a request that is the same before it.
IssuedNext(r) ==
  /\ r.path = <<r.client, r.id>> /\ r.id \in 1 .. calls'[r.client]
  /\ pc'[r.client] \notin {"idle", "dead"} /\ r.id = calls'[r.client] =>
       /\ r = call'[r.client]
       /\ pc'[r.client] \in {"notify", "poll", "check", "get", "unwind"}

TransferredNext(r, answer) ==
  r.op = "open" /\ answer = "Success" => conn'[r.path] = "closed"

\* A request of a call stays one, whichever client steps.
LEMMA IssuedStays ==
  ASSUME SafeHandshake, TypeInv', NEW c \in Clients, Others(c), NEW r \in Requests, Issued(r),
         Begins(c) \/ Ends(c) \/ GoesOn(c)
  PROVE  IssuedNext(r) /\ r.path \in Paths /\ r.path # <<c, calls[c] + 1>>
<1> USE DEF SafeHandshake, TypeInv, TypeOK, SessionTypeOK
<1>1. /\ r.client \in Clients /\ r.id \in 1 .. calls[r.client] /\ r.path = <<r.client, r.id>>
      /\ r.path \in Paths
  BY DEF Issued, Requests
<1>2. r.path # <<c, calls[c] + 1>>
  BY <1>1
<1>3. CASE r.client # c
  BY <1>1, <1>2, <1>3 DEF Issued, IssuedNext, Others, InCall, Sent
<1>4. CASE r.client = c /\ Begins(c)
  BY <1>1, <1>2, <1>4 DEF Issued, IssuedNext, Begins
<1>5. CASE r.client = c /\ Ends(c)
  BY <1>1, <1>2, <1>5 DEF Issued, IssuedNext, Ends, InCall
<1>6. CASE r.client = c /\ GoesOn(c)
  BY <1>1, <1>2, <1>6 DEF Issued, IssuedNext, GoesOn, InCall, Sent
<1> QED BY <1>3, <1>4, <1>5, <1>6

\* A client's step connects nothing, and leaves a finished connection alone.
LEMMA ConnStays ==
  ASSUME NEW c \in Clients, Begins(c) \/ Ends(c) \/ GoesOn(c), NEW p \in Paths
  PROVE  /\ conn[p] = "none" => conn'[p] = "none"
         /\ p # <<c, calls[c] + 1>> /\ conn[p] = "closed" => conn'[p] = "closed"
         /\ p # <<c, calls[c] + 1>> /\ conn[p] # "none" => conn'[p] # "none"
BY DEF Begins, Ends, GoesOn

LEMMA RequestsClientStep ==
  ASSUME SafeHandshake, TypeInv', NEW c \in Clients, Others(c), UNCHANGED requests,
         Begins(c) \/ Ends(c) \/ GoesOn(c)
  PROVE  RequestsInv' /\ PathsInv'
<1> USE DEF SafeHandshake, TypeInv, TypeOK, SessionTypeOK, IpcTypeOK
<1>1. \A i \in DOMAIN requests :
        requests[i] \in Requests /\ Issued(requests[i]) /\ conn[requests[i].path] = "none"
  BY DEF RequestsInv
<1>2. \A i \in DOMAIN requests : IssuedNext(requests[i]) /\ conn'[requests[i].path] = "none"
  BY <1>1, IssuedStays, ConnStays
<1>3. ASSUME dpc \in {"handle", "connect", "sendmsg", "respond", "drop"}
      PROVE  IssuedNext(active) /\ (dpc \in {"handle", "connect"} => conn'[active.path] = "none")
  <2>1. Issued(active) /\ active \in Requests
    BY <1>3, ActiveType DEF RequestsInv
  <2>2. IssuedNext(active) /\ active.path \in Paths
    BY <2>1, IssuedStays
  <2> QED BY <1>3, <2>2, ConnStays DEF RequestsInv
<1>4. ASSUME NEW d \in Clients, InCall(d)'
      PROVE  calls'[d] > 0
  <2>1. CASE d # c
    BY <1>4, <2>1 DEF RequestsInv, Others, InCall
  <2>2. CASE d = c
    BY <1>4, <2>2 DEF RequestsInv, Begins, Ends, GoesOn, InCall
  <2> QED BY <2>1, <2>2
<1>5. RequestsInv'
  BY <1>2, <1>3, <1>4
     DEF RequestsInv, Others, daemonVars, Issued, IssuedNext, InCall, Sent
<1>6. PathsInv'
  <2> SUFFICES ASSUME NEW d \in Clients, NEW i \in 0 .. MaxCalls,
                      i > calls'[d] \/ (i = calls'[d] /\ pc'[d] = "send")
               PROVE  conn'[<<d, i>>] = "none"
    BY DEF PathsInv
  <2>1. <<d, i>> \in Paths
    BY DEF Paths
  <2>2. i > calls[d] \/ (i = calls[d] /\ pc[d] = "send")
    <3>1. CASE d # c
      BY <3>1 DEF Others
    <3>2. CASE d = c /\ Begins(c)
      BY <3>2 DEF Begins
    <3>3. CASE d = c /\ ~Begins(c)
      BY <3>3 DEF Ends, GoesOn, InCall
    <3> QED BY <3>1, <3>2, <3>3
  <2> QED BY <2>1, <2>2, ConnStays DEF PathsInv
<1> QED BY <1>5, <1>6

LEMMA AnswersClientStep ==
  ASSUME SafeHandshake, TypeInv', NEW c \in Clients, Others(c),
         Begins(c) \/ Ends(c) \/ (GoesOn(c) /\ Answers(c))
  PROVE  AnswersInv'
<1> USE DEF SafeHandshake, TypeInv, TypeOK, SessionTypeOK
<1>1. dpc = "respond" => TransferredNext(active, reply)
  <2>1. dpc = "respond" => active.path \in Paths /\ active.path # <<c, calls[c] + 1>>
    BY ActiveType, IssuedStays DEF RequestsInv
  <2> QED BY <2>1, ConnStays DEF AnswersInv, Transferred, TransferredNext
<1>2. ASSUME NEW d \in Clients, InCall(d), d = c => GoesOn(c),
             NEW answer, Transferred(call[d], answer)
      PROVE  call'[d] = call[d] /\ TransferredNext(call[d], answer)
  <2>1. call'[d] = call[d] /\ call[d].path = <<d, calls[d]>>
    BY <1>2 DEF Others, GoesOn, CallShape
  <2>2. call[d].path \in Paths /\ call[d].path # <<c, calls[c] + 1>>
    BY <2>1 DEF Paths
  <2> QED BY <1>2, <2>1, <2>2, ConnStays DEF Transferred, TransferredNext
<1>3. ASSUME NEW d \in Clients
      PROVE  /\ pending'[d] # 0 => pending'[d] = calls'[d] /\ Waits(d)'
             /\ pc'[d] = "get" => call'[d].op = "open"
             /\ inbox'[d] # "none" => Waits(d)' /\ TransferredNext(call'[d], inbox'[d])
             /\ got'[d] # "none" => Waits(d)' /\ TransferredNext(call'[d], got'[d])
  <2>1. CASE d # c
    BY <1>2, <2>1 DEF Others, AnswersInv, Waits, InCall
  <2>2. CASE d = c /\ Begins(c)
    BY <2>2 DEF Begins, AnswersInv, Waits
  <2>3. CASE d = c /\ Ends(c)
    BY <2>3 DEF Ends, InCall
  <2>4. CASE d = c /\ GoesOn(c) /\ Answers(c)
    BY <1>2, <2>4 DEF GoesOn, Answers, AnswersInv
  <2> QED BY <2>1, <2>2, <2>3, <2>4
<1> QED BY <1>1, <1>3 DEF AnswersInv, Transferred, TransferredNext, Others, daemonVars

LEMMA TransferClientStep ==
  ASSUME SafeHandshake, TypeInv', NEW c \in Clients, Others(c),
         Begins(c) \/ Ends(c) \/ (GoesOn(c) /\ Answers(c))
  PROVE  TransferInv'
<1> USE DEF SafeHandshake, TypeInv, TypeOK, SessionTypeOK
<1>1. ASSUME NEW p \in Paths, NEW fd \in inFlight'[p]
      PROVE  /\ fd.origin = p /\ conn'[p] # "none"
             /\ \A d \in Clients : InCall(d)' /\ call'[d].path = p => fd.name = call'[d].name
  <2>1. fd \in inFlight[p]
    BY <1>1 DEF Begins, Ends, GoesOn
  <2>2. fd.origin = p /\ conn[p] # "none"
    BY <2>1 DEF TransferInv
  <2>3. p # <<c, calls[c] + 1>>
    BY <2>2 DEF PathsInv, Paths
  <2>4. conn'[p] # "none"
    BY <2>2, <2>3, ConnStays
  <2>5. ASSUME NEW d \in Clients, InCall(d)', call'[d].path = p
        PROVE  fd.name = call'[d].name
    <3>1. CASE d # c
      BY <2>1, <2>5, <3>1 DEF TransferInv, Others, InCall, Path
    <3>2. CASE d = c /\ Begins(c)
      <4>1. call'[c].path = <<c, calls'[c]>> /\ calls'[c] = calls[c] + 1
        BY <2>5, <3>2 DEF CallShape, Begins, InCall
      <4> QED BY <2>3, <2>5, <3>2, <4>1
    <3>3. CASE d = c /\ Ends(c)
      BY <2>5, <3>3 DEF Ends
    <3>4. CASE d = c /\ GoesOn(c)
      BY <2>1, <2>5, <3>4 DEF TransferInv, GoesOn, Path
    <3> QED BY <3>1, <3>2, <3>3, <3>4
  <2> QED BY <2>2, <2>4, <2>5
<1>2. ASSUME NEW d \in Clients, NEW fd \in taskFd'[d]
      PROVE  InCall(d)' /\ fd.origin = <<d, call'[d].id>> /\ fd.name = call'[d].name
  <2>1. CASE d # c
    BY <1>2, <2>1 DEF Others, TransferInv, DescriptorIsForThisCall, InCall
  <2>2. CASE d = c /\ Begins(c)
    BY <1>2, <2>2 DEF Begins, TransferInv, InCall
  <2>3. CASE d = c /\ Ends(c)
    BY <1>2, <2>3 DEF Ends
  <2>4. CASE d = c /\ GoesOn(c) /\ Answers(c)
    <3>1. fd \in taskFd[c] \/ (fd \in inFlight[Path(c)] /\ Path(c) \in Paths)
      BY <1>2, <2>4 DEF Answers
    <3>2. fd.origin = <<c, call[c].id>> /\ fd.name = call[c].name
      BY <2>4, <3>1 DEF TransferInv, DescriptorIsForThisCall, GoesOn, Path, CallShape
    <3> QED BY <2>4, <3>2 DEF GoesOn
  <2> QED BY <2>1, <2>2, <2>3, <2>4
<1> QED BY <1>1, <1>2 DEF TransferInv, DescriptorIsForThisCall, Path

LEMMA SendStep ==
  ASSUME SafeHandshake, TypeInv', NEW c \in Clients, Others(c), Send(c)
  PROVE  RequestsInv' /\ PathsInv' /\ AnswersInv' /\ TransferInv'
<1> USE DEF SafeHandshake, TypeInv, TypeOK, SessionTypeOK, IpcTypeOK, Send, SendRequest
<1>0. /\ pc[c] = "send" /\ pc' = [pc EXCEPT ![c] = "notify"]
      /\ UNCHANGED <<calls, call, got, taskFd, conn, inFlight, dpc, active, reply>>
      /\ call[c] \in Requests /\ call[c].path = <<c, calls[c]>> /\ call[c].path \in Paths
      /\ call[c].client = c /\ call[c].id = calls[c] /\ calls[c] \in 1 .. calls[c]
  <2>1. InCall(c)
    BY DEF InCall
  <2>2. /\ call[c] \in Requests /\ call[c].path = <<c, calls[c]>>
        /\ call[c].client = c /\ call[c].id = calls[c] /\ calls[c] > 0
    BY <2>1 DEF CallShape, RequestsInv
  <2>3. call[c].path \in Paths
    BY <2>2 DEF Requests
  <2>4. calls[c] \in 1 .. calls[c]
    BY <2>2
  <2> QED BY <2>2, <2>3, <2>4 DEF udsVars, Others, daemonVars
<1>1. conn[call[c].path] = "none"
  BY <1>0 DEF PathsInv
<1>2. ASSUME NEW r \in Requests, Issued(r)
      PROVE  IssuedNext(r) /\ r.path # call[c].path
  BY <1>0, <1>2 DEF Issued, IssuedNext, InCall, Sent, Requests
<1>3. IssuedNext(call[c])
  BY <1>0 DEF IssuedNext
<1>4. requests' \in {requests, Append(requests, call[c])}
  OBVIOUS
<1>5. \A i \in DOMAIN requests' : IssuedNext(requests'[i]) /\ conn'[requests'[i].path] = "none"
  <2> SUFFICES ASSUME NEW i \in DOMAIN requests'
               PROVE  IssuedNext(requests'[i]) /\ conn'[requests'[i].path] = "none"
    OBVIOUS
  <2>1. CASE i \in DOMAIN requests /\ requests'[i] = requests[i]
    BY <1>0, <1>2, <2>1 DEF RequestsInv
  <2>2. CASE requests'[i] = call[c]
    BY <1>0, <1>1, <1>3, <2>2
  <2> QED BY <1>0, <1>4, <2>1, <2>2, QueueAfterSend
<1>6. \A i, j \in DOMAIN requests' : requests'[i].path = requests'[j].path => i = j
  <2>1. \A i \in DOMAIN requests : requests[i].path # call[c].path
    BY <1>2 DEF RequestsInv
  <2>2. \A i \in DOMAIN requests' :
          \/ i \in DOMAIN requests /\ requests'[i] = requests[i]
          \/ i = Len(requests) + 1 /\ requests'[i] = call[c]
    BY <1>0, <1>4, QueueAfterSend
  <2>3. \A i, j \in DOMAIN requests : requests[i].path = requests[j].path => i = j
    BY DEF RequestsInv
  <2> QED BY <2>1, <2>2, <2>3
<1>7. dpc \in {"handle", "connect", "sendmsg", "respond", "drop"} =>
        /\ IssuedNext(active)
        /\ \A i \in DOMAIN requests' : requests'[i].path # active.path
  <2> SUFFICES ASSUME dpc \in {"handle", "connect", "sendmsg", "respond", "drop"}
               PROVE  /\ IssuedNext(active)
                      /\ \A i \in DOMAIN requests' : requests'[i].path # active.path
    OBVIOUS
  <2>1. IssuedNext(active) /\ active.path # call[c].path
    BY <1>2, ActiveType DEF RequestsInv
  <2>2. \A i \in DOMAIN requests' :
          (i \in DOMAIN requests /\ requests'[i] = requests[i]) \/ requests'[i] = call[c]
    BY <1>0, <1>4, QueueAfterSend
  <2> QED BY <2>1, <2>2 DEF RequestsInv
<1>8. RequestsInv'
  BY <1>0, <1>5, <1>6, <1>7 DEF RequestsInv, Issued, IssuedNext, InCall, Sent
<1>9. PathsInv'
  BY <1>0 DEF PathsInv
<1>10. AnswersInv'
  BY <1>0 DEF AnswersInv, Waits, Transferred
<1>11. TransferInv'
  BY <1>0 DEF TransferInv, DescriptorIsForThisCall, InCall, Path
<1> QED BY <1>8, <1>9, <1>10, <1>11

LEMMA HandshakeClientStep ==
  ASSUME SafeHandshake, NEW c \in Clients, ClientStep(c)
  PROVE  SafeHandshake'
<1>1. TypeInv' /\ Others(c)
  BY TypeStep, OthersUntouched DEF SafeHandshake, Next
<1>2. CASE Send(c)
  BY <1>1, <1>2, SendStep DEF SafeHandshake
<1>3. CASE Begins(c) \/ Ends(c) \/ (GoesOn(c) /\ Answers(c))
  <2>1. UNCHANGED requests
    BY <1>3 DEF Begins, Ends, Answers
  <2> QED BY <1>1, <1>3, <2>1, RequestsClientStep, AnswersClientStep, TransferClientStep
          DEF SafeHandshake
<1> QED BY <1>2, <1>3, StepsOfAClient

-----------------------------------------------------------------------------
LEMMA HandshakeDaemonStep ==
  ASSUME SafeHandshake, TypeInv', ServerStep
  PROVE  RequestsInv' /\ PathsInv' /\ AnswersInv' /\ TransferInv'
<1> USE DEF SafeHandshake, TypeInv, TypeOK, IpcTypeOK, UdsTypeOK
<1>0. UNCHANGED <<pc, calls, call, got, taskFd>>
  BY DEF ServerStep, sessionVars
<1> USE <1>0
<1>1. CASE Start \/ StartListening \/ Wake \/ DrainDone \/ \E c \in Clients : LoseServer(c)
  <2> USE <1>1 DEF Start, StartListening, Wake, DrainDone, LoseServer, ipcVars, udsVars, daemonVars
  <2>1. /\ UNCHANGED <<requests, conn, inFlight, pending, inbox, active, reply>>
        /\ dpc' = dpc \/ dpc' \in {"starting", "wait", "drain"}
    OBVIOUS
  <2> QED BY <2>1 DEF RequestsInv, Issued, InCall, Sent, PathsInv, AnswersInv, Waits,
                      Transferred, TransferInv, DescriptorIsForThisCall, Path
<1>2. CASE ReceiveRequest
  <2> USE <1>2 DEF ReceiveRequest
  <2>1. /\ 1 \in DOMAIN requests /\ active' = requests[1]
        /\ \A i \in DOMAIN requests' :
             i + 1 \in DOMAIN requests /\ i \in Nat \ {0} /\ requests'[i] = requests[i + 1]
    BY QueueAfterReceive
  <2>2. /\ \A i \in DOMAIN requests' : Issued(requests'[i]) /\ conn[requests'[i].path] = "none"
        /\ \A i, j \in DOMAIN requests' : requests'[i].path = requests'[j].path => i = j
        /\ Issued(active') /\ conn[active'.path] = "none"
        /\ \A i \in DOMAIN requests' : requests'[i].path # active'.path
    BY <2>1 DEF RequestsInv
  <2>3. RequestsInv'
    BY <2>2 DEF RequestsInv, Issued, InCall, Sent, udsVars
  <2> QED BY <2>3 DEF PathsInv, AnswersInv, Waits, Transferred, TransferInv,
                      DescriptorIsForThisCall, InCall, Path, udsVars
<1>3. CASE OpenAlreadyOpen \/ OpenDeviceFails \/ OpenDevice \/ ControlNotFound \/ Config \/ Close
  <2> USE <1>3 DEF OpenAlreadyOpen, OpenDeviceFails, OpenDevice, ControlNotFound, Config,
                   Close, Answer, ipcVars, udsVars
  <2>1. /\ UNCHANGED <<requests, conn, inFlight, pending, inbox, active>>
        /\ dpc = "handle" /\ dpc' \in {"connect", "respond"}
        /\ dpc' = "respond" => active.op # "open" \/ reply' # "Success"
    OBVIOUS
  <2> QED BY <2>1 DEF RequestsInv, Issued, InCall, Sent, PathsInv, AnswersInv, Waits,
                      Transferred, TransferInv, DescriptorIsForThisCall, Path
<1>4. CASE ConnectClient
  <2> USE <1>4 DEF ConnectClient, Connect, ipcVars
  <2>1. /\ active \in Requests /\ active.path \in Paths /\ Issued(active)
        /\ conn[active.path] = "none"
        /\ conn' = [conn EXCEPT ![active.path] = "connected"]
        /\ UNCHANGED <<requests, inFlight, pending, inbox, active>>
        /\ dpc = "connect" /\ dpc' = "sendmsg"
    BY ActiveType DEF RequestsInv
  <2>2. RequestsInv'
    BY <2>1 DEF RequestsInv, Issued, InCall, Sent
  <2>3. PathsInv'
    <3> SUFFICES ASSUME NEW c \in Clients, NEW i \in 0 .. MaxCalls,
                        i > calls[c] \/ (i = calls[c] /\ pc[c] = "send")
                 PROVE  conn'[<<c, i>>] = "none"
      BY DEF PathsInv
    <3>1. conn[<<c, i>>] = "none" /\ <<c, i>> \in Paths
      BY DEF PathsInv, Paths
    <3>2. active.path # <<c, i>>
      BY <2>1 DEF Issued, InCall, Sent, SessionTypeOK
    <3> QED BY <2>1, <3>1, <3>2 DEF UdsTypeOK
  <2>4. AnswersInv'
    BY <2>1 DEF AnswersInv, Waits, Transferred
  <2>5. TransferInv'
    BY <2>1 DEF TransferInv, DescriptorIsForThisCall, InCall, Path
  <2> QED BY <2>2, <2>3, <2>4, <2>5
<1>5. ASSUME UNCHANGED <<inFlight, pending, inbox>>,
             \A p \in Paths : conn'[p] = conn[p] \/ (conn[p] = "connected" /\ conn'[p] = "closed")
      PROVE  PathsInv' /\ TransferInv' /\ ((dpc' = "respond" => Transferred(active, reply)')
                                             => AnswersInv')
  <2>1. PathsInv'
    BY <1>5 DEF PathsInv, Paths
  <2>2. TransferInv'
    BY <1>5 DEF TransferInv, DescriptorIsForThisCall, InCall, Path
  <2>3. ASSUME NEW c \in Clients, InCall(c), NEW answer, Transferred(call[c], answer)
        PROVE  TransferredNext(call[c], answer)
    BY <1>5, <2>3 DEF Transferred, TransferredNext, CallShape, Requests
  <2>4. (dpc' = "respond" => Transferred(active, reply)') => AnswersInv'
    BY <1>5, <2>3 DEF AnswersInv, Waits, InCall, Transferred, TransferredNext
  <2> QED BY <2>1, <2>2, <2>4
<1>6. CASE TransferFails
  <2> USE <1>6 DEF TransferFails, DaemonHangup, Answer, ipcVars
  <2>1. /\ active \in Requests /\ active.path \in Paths
        /\ UNCHANGED <<requests, active>>
        /\ dpc \in {"connect", "sendmsg"} /\ dpc' = "respond" /\ reply' # "Success"
    BY ActiveType
  <2>2. RequestsInv'
    BY <2>1 DEF RequestsInv, Issued, InCall, Sent, Requests
  <2> QED BY <1>5, <2>1, <2>2 DEF Transferred
<1>7. CASE TransferDescriptor
  <2> USE <1>7 DEF TransferDescriptor, SendDescriptor, Answer, ipcVars
  <2>1. /\ active \in Requests /\ active.path \in Paths /\ Issued(active)
        /\ conn[active.path] = "connected"
        /\ conn' = [conn EXCEPT ![active.path] = "closed"]
        /\ inFlight' = [inFlight EXCEPT ![active.path] = {NewDescriptor(active)}]
        /\ UNCHANGED <<requests, pending, inbox, active>>
        /\ dpc = "sendmsg" /\ dpc' = "respond"
    BY ActiveType DEF RequestsInv
  <2>2. RequestsInv'
    BY <2>1 DEF RequestsInv, Issued, InCall, Sent, Requests
  <2>3. PathsInv'
    BY <2>1 DEF PathsInv, Paths
  <2>4. AnswersInv'
    <3>1. ASSUME NEW c \in Clients, InCall(c), NEW answer, Transferred(call[c], answer)
          PROVE  TransferredNext(call[c], answer)
      BY <2>1, <3>1 DEF Transferred, TransferredNext, CallShape, Requests
    <3> QED BY <2>1, <3>1 DEF AnswersInv, Waits, InCall, Transferred, TransferredNext
  <2>5. TransferInv'
    <3>1. ASSUME NEW c \in Clients, InCall(c), call[c].path = active.path
          PROVE  call[c] = active
      BY <2>1, <3>1 DEF Issued, CallShape, Requests
    <3>2. NewDescriptor(active).origin = active.path /\ NewDescriptor(active).name = active.name
      BY <2>1 DEF NewDescriptor, Issued
    <3>3. ASSUME NEW q \in Paths, NEW fd \in inFlight'[q]
          PROVE  /\ fd.origin = q /\ conn'[q] # "none"
                 /\ \A c \in Clients : InCall(c) /\ call[c].path = q => fd.name = call[c].name
      <4>1. CASE q = active.path
        BY <2>1, <3>1, <3>2, <3>3, <4>1
      <4>2. CASE q # active.path
        BY <2>1, <3>3, <4>2 DEF TransferInv, Path
      <4> QED BY <4>1, <4>2
    <3> QED BY <3>3 DEF TransferInv, DescriptorIsForThisCall, InCall, Path
  <2> QED BY <2>2, <2>3, <2>4, <2>5
<1>8. CASE Respond
  <2> USE <1>8 DEF Respond, Deliver, udsVars
  <2>1. /\ active \in Requests /\ active.client \in Clients /\ Issued(active)
        /\ UNCHANGED <<requests, pending, conn, inFlight, active, reply>>
        /\ dpc = "respond" /\ dpc' = "drop" /\ Transferred(active, reply)
    BY ActiveType DEF RequestsInv, AnswersInv
  <2>2. RequestsInv' /\ PathsInv' /\ TransferInv'
    BY <2>1 DEF RequestsInv, Issued, InCall, Sent, PathsInv, TransferInv,
                DescriptorIsForThisCall, Path
  <2>3. pending[active.client] = active.id => Waits(active.client) /\ call[active.client] = active
    BY <2>1 DEF AnswersInv, Issued, Waits, InCall, SessionTypeOK
  <2>4. AnswersInv'
    BY <2>1, <2>3 DEF AnswersInv, Waits, Transferred
  <2> QED BY <2>2, <2>4
<1>9. CASE DropActive
  <2> USE <1>9 DEF DropActive, udsVars
  <2>1. UNCHANGED <<requests, pending, inbox, conn, inFlight>> /\ dpc' = "drain"
    OBVIOUS
  <2> QED BY <2>1 DEF RequestsInv, Issued, InCall, Sent, PathsInv, AnswersInv, Waits,
                      Transferred, TransferInv, DescriptorIsForThisCall, Path
<1>10. CASE BrokenPipe \/ Crash
  <2> USE <1>10 DEF BrokenPipe, Crash, Die, DaemonHangup, udsVars
  <2>1. RequestsInv'
    BY DEF RequestsInv, InCall
  <2> QED BY <1>5, <2>1
<1> QED BY <1>1, <1>2, <1>3, <1>4, <1>6, <1>7, <1>8, <1>9, <1>10 DEF ServerStep, DaemonStep

LEMMA HandshakeNext == SafeHandshake /\ [Next]_vars => SafeHandshake'
<1> SUFFICES ASSUME SafeHandshake, [Next]_vars PROVE SafeHandshake'
  OBVIOUS
<1>1. TypeInv'
  BY TypeStep DEF SafeHandshake
<1>2. CASE Next
  BY <1>1, <1>2, HandshakeClientStep, HandshakeDaemonStep DEF Next, SafeHandshake
<1>3. CASE UNCHANGED vars
  BY <1>1, <1>3 DEF vars, ipcVars, udsVars, sessionVars, daemonVars, SafeHandshake,
     RequestsInv, Issued, InCall, Sent, PathsInv, AnswersInv, Waits, Transferred,
     TransferInv, DescriptorIsForThisCall, Path
<1> QED BY <1>2, <1>3

LEMMA HandshakeInvariance == Spec => []SafeHandshake
BY HandshakeInit, HandshakeNext, PTL DEF Spec

\* uds_fut.get() after a response that says Success finds the connection of the
\* daemon complete, whatever was abandoned, refused or restarted before.
THEOREM SuccessDoesNotBlock == Spec => []GetDoesNotBlock
<1>1. SafeHandshake => GetDoesNotBlock
  BY DEF SafeHandshake, AnswersInv, Transferred, GetDoesNotBlock, Path
<1> QED BY <1>1, HandshakeInvariance, PTL

\* The descriptor a task receives is the one opened for the request of its own
\* call, never that of another call, interface or process.
THEOREM DescriptorsReachTheirCall == Spec => []DescriptorIsForThisCall
<1>1. SafeHandshake => DescriptorIsForThisCall
  BY DEF SafeHandshake, TransferInv
<1> QED BY <1>1, HandshakeInvariance, PTL

-----------------------------------------------------------------------------
\* The listener and the task of a call come and go together.
SafeListener == SafeHandshake /\ ListenerLivesWithItsTask

OtherTasks(c) == \A d \in Clients \ {c} : task'[d] = task[d] /\ call'[d] = call[d]

TaskStarts(c) ==
  /\ task[c] = "none" /\ task'[c] # "none"
  /\ call'[c].op = "open" /\ call'[c].path = <<c, calls[c] + 1>>
  /\ calls[c] + 1 \in 0 .. MaxCalls
  /\ sock' = [sock EXCEPT ![<<c, calls[c] + 1>>] = "listening"]

TaskStays(c) ==
  /\ task'[c] # "none" <=> task[c] # "none"
  /\ task[c] # "none" => call'[c] = call[c]
  /\ UNCHANGED sock

TaskEnds(c) ==
  /\ task[c] # "none" /\ task'[c] = "none"
  /\ sock' = [sock EXCEPT ![Path(c)] = "closed"]

LEMMA FinishTask ==
  ASSUME SafeHandshake, NEW c \in Clients, NEW outcome, Finish(c, outcome)
  PROVE  OtherTasks(c) /\ (TaskStays(c) \/ TaskEnds(c))
BY DEF SafeHandshake, TypeInv, TypeOK, SessionTypeOK, OtherTasks, TaskStays, TaskEnds,
       Finish, Cleanup, udsVars

LEMMA FailTask ==
  ASSUME SafeHandshake, NEW c \in Clients, NEW error, Fail(c, error)
  PROVE  OtherTasks(c) /\ (TaskStays(c) \/ TaskEnds(c))
BY FinishTask DEF Fail, OtherTasks, TaskStays, udsVars

LEMMA TasksOfAClient ==
  ASSUME SafeHandshake, NEW c \in Clients, ClientStep(c)
  PROVE  OtherTasks(c) /\ (TaskStarts(c) \/ TaskStays(c) \/ TaskEnds(c))
<1> USE DEF SafeHandshake, TypeInv, TypeOK, SessionTypeOK
<1>1. CASE Send(c) \/ Notify(c) \/ Poll(c) \/ CheckNothing(c) \/ CheckOpen(c)
  BY <1>1 DEF Send, Notify, Poll, CheckNothing, CheckOpen, OtherTasks, TaskStays, udsVars
<1>2. CASE CheckDisconnected(c) \/ NotifyFails(c) \/ WaitInterrupted(c)
  BY <1>2, FailTask DEF CheckDisconnected, NotifyFails, WaitInterrupted
<1>3. CASE CheckControl(c) \/ Get(c) \/ Unwind(c)
  BY <1>3, FinishTask DEF CheckControl, Get, Unwind
<1>4. CASE TaskStep(c) \/ AcceptFails(c)
  BY <1>4 DEF TaskStep, Accept, Receive, AcceptFails, OtherTasks, TaskStays, udsVars
<1>5. CASE ClientExit(c)
  BY <1>5 DEF ClientExit, Cleanup, OtherTasks, TaskStays, TaskEnds, udsVars
<1>6. CASE BeginStep(c)
  <2>1. CASE BeginOpenFails(c)
    BY <2>1 DEF BeginOpenFails, OtherTasks, TaskStays, udsVars
  <2>2. ASSUME NEW n \in Names, BeginOpen(c, n)
        PROVE  OtherTasks(c) /\ TaskStarts(c)
    <3> USE <2>2 DEF BeginOpen, BeginCall
    <3>1. calls[c] + 1 \in 0 .. MaxCalls
      BY NewRequestType DEF Ops
    <3>2. task[c] = "none" /\ task'[c] # "none"
      BY DEF CallShape, InCall
    <3> QED BY <3>1, <3>2 DEF OtherTasks, TaskStarts, NewRequest, SocketPath, CreateListener
  <2>3. ASSUME NEW n \in Names, NEW op \in Ops \ {"open"}, BeginControl(c, op, n)
        PROVE  OtherTasks(c) /\ TaskStays(c)
    BY <2>3 DEF BeginControl, BeginCall, CallShape, InCall, OtherTasks, TaskStays, udsVars
  <2> QED BY <1>6, <2>1, <2>2, <2>3 DEF BeginStep
<1> QED BY <1>1, <1>2, <1>3, <1>4, <1>5, <1>6 DEF ClientStep, CallStep, ClientFault

LEMMA ListenerClientStep ==
  ASSUME SafeListener, NEW c \in Clients, ClientStep(c)
  PROVE  ListenerLivesWithItsTask'
<1> USE DEF SafeListener, SafeHandshake, TypeInv, TypeOK, SessionTypeOK, UdsTypeOK
<1>0. OtherTasks(c) /\ (TaskStarts(c) \/ TaskStays(c) \/ TaskEnds(c))
  BY TasksOfAClient
<1> SUFFICES ASSUME NEW d \in Clients, NEW i \in 0 .. MaxCalls
             PROVE  sock'[<<d, i>>] = "listening" <=>
                      task'[d] # "none" /\ call'[d].path = <<d, i>>
  BY DEF ListenerLivesWithItsTask, Path
<1>1. /\ sock[<<d, i>>] = "listening" <=> task[d] # "none" /\ call[d].path = <<d, i>>
      /\ <<d, i>> \in Paths
      /\ task[c] # "none" => call[c].path = <<c, calls[c]>> /\ calls[c] \in 0 .. MaxCalls
  BY DEF ListenerLivesWithItsTask, Path, Paths, CallShape
<1>2. CASE TaskStays(c)
  BY <1>0, <1>1, <1>2 DEF OtherTasks, TaskStays
<1>3. CASE TaskEnds(c)
  BY <1>0, <1>1, <1>3 DEF OtherTasks, TaskEnds, Path
<1>4. CASE TaskStarts(c)
  BY <1>0, <1>1, <1>4 DEF OtherTasks, TaskStarts
<1> QED BY <1>0, <1>2, <1>3, <1>4

\* The daemon connects to listeners and leaves them as they are.
LEMMA ServerLeavesListeners ==
  ASSUME ServerStep
  PROVE  UNCHANGED <<sock, sessionVars>>
BY DEF ServerStep, Start, StartListening, DaemonStep, Wake, ReceiveRequest, DrainDone, OpenAlreadyOpen,
       OpenDeviceFails, OpenDevice, ConnectClient, Connect, TransferFails, DaemonHangup,
       TransferDescriptor, SendDescriptor, BrokenPipe, Die, ControlNotFound, Config, Close,
       Respond, DropActive, Crash, LoseServer, Answer, udsVars

LEMMA ListenerInit == Init => SafeListener
<1> SUFFICES ASSUME Init PROVE SafeListener
  OBVIOUS
<1>1. ListenerLivesWithItsTask
  BY DEF Init, UdsInit, SessionInit, ListenerLivesWithItsTask, Paths
<1> QED BY <1>1, HandshakeInit DEF SafeListener

LEMMA ListenerNext == SafeListener /\ [Next]_vars => SafeListener'
<1> SUFFICES ASSUME SafeListener, [Next]_vars PROVE SafeListener'
  OBVIOUS
<1>1. SafeHandshake'
  BY HandshakeNext DEF SafeListener
<1>2. CASE \E c \in Clients : ClientStep(c)
  BY <1>1, <1>2, ListenerClientStep DEF SafeListener
<1>3. CASE UNCHANGED <<sock, sessionVars>>
  BY <1>1, <1>3 DEF sessionVars, SafeListener, ListenerLivesWithItsTask, Path
<1> QED BY <1>2, <1>3, ServerLeavesListeners DEF Next, vars, udsVars

LEMMA SafeListenerInvariance == Spec => []SafeListener
BY ListenerInit, ListenerNext, PTL DEF Spec

\* A listening socket and its path exist exactly while the task of its open call
\* does: every return of open_interface closes the one and unlinks the other.
THEOREM ListenersLiveWithTheirTasks == Spec => []ListenerLivesWithItsTask
<1>1. SafeListener => ListenerLivesWithItsTask
  BY DEF SafeListener
<1> QED BY <1>1, SafeListenerInvariance, PTL

-----------------------------------------------------------------------------
\* From the table to the client.  A connection that is open has a task at its
\* other end; once the daemon has finished with it, the descriptor waits there
\* until the task takes it.
TasksInv ==
  \A c \in Clients :
    /\ task[c] # "deferred"
    /\ task[c] # "none" => call[c].op = "open"
    /\ task[c] \in {"recv", "done"} => conn[Path(c)] # "none"
    /\ task[c] = "done" => conn[Path(c)] = "closed"

ConnectionsInv ==
  /\ \A p \in Paths : conn[p] \in {"none", "connected"} => inFlight[p] = {}
  /\ \A c \in Clients : \A i \in 0 .. MaxCalls :
       conn[<<c, i>>] = "connected" => task[c] \in {"accept", "recv"} /\ Path(c) = <<c, i>>

\* The client has the descriptor, or its task is about to take it.
Reaches(fd, c) ==
  \/ fd \in held[c]
  \/ task[c] \in {"accept", "recv"} /\ fd.origin = Path(c) /\ fd \in inFlight[Path(c)]

RegisteredInv ==
  \A n \in Names : \A fd \in registry[n] : \A c \in Clients :
    fd.origin[1] = c /\ pc[c] # "dead" => Reaches(fd, c)

SafeHandover == SafeListener /\ TasksInv /\ ConnectionsInv /\ RegisteredInv

LEMMA HandoverInit == Init => SafeHandover
<1> SUFFICES ASSUME Init PROVE SafeHandover
  OBVIOUS
<1>1. TasksInv /\ ConnectionsInv /\ RegisteredInv
  BY DEF Init, UdsInit, SessionInit, DaemonInit, TasksInv, ConnectionsInv, RegisteredInv, Paths
<1> QED BY <1>1, ListenerInit DEF SafeHandover

\* What a client's step does to its connection, when accept() does not fail and
\* std::async starts its thread.
OtherHolders(c) ==
  /\ pc[c] # "dead"
  /\ \A d \in Clients \ {c} :
       pc'[d] = pc[d] /\ task'[d] = task[d] /\ call'[d] = call[d] /\ held'[d] = held[d]

Opens(c) ==
  /\ task[c] = "none" /\ task'[c] = "accept"
  /\ call'[c].op = "open" /\ call'[c].path = <<c, calls[c] + 1>> /\ <<c, calls[c] + 1>> \in Paths
  /\ CreateListener(<<c, calls[c] + 1>>)
  /\ UNCHANGED held

Proceeds(c) ==
  /\ task'[c] = task[c]
  /\ task[c] # "none" => call'[c] = call[c]
  /\ UNCHANGED <<udsVars, held>>

Leaves(c) ==
  /\ task'[c] = "none"
  /\ IF task[c] # "none" THEN Cleanup(Path(c)) ELSE UNCHANGED udsVars
  /\ pc'[c] = "dead" \/ (task[c] \in {"none", "done"} /\ UNCHANGED held)

LEMMA FailLeaves ==
  ASSUME SafeHandshake, TasksInv, NEW c \in Clients, NEW error, Fail(c, error), pc[c] # "dead"
  PROVE  OtherHolders(c) /\ (Proceeds(c) \/ Leaves(c))
BY DEF SafeHandshake, TypeInv, TypeOK, SessionTypeOK, TasksInv, OtherHolders, Proceeds, Leaves,
       Fail, Finish

LEMMA HoldersStep ==
  ASSUME "accept" \notin Faults, "deferred" \notin LaunchPolicies,
         SafeHandshake, TasksInv, NEW c \in Clients, ClientStep(c)
  PROVE  /\ OtherHolders(c)
         /\ Opens(c) \/ Proceeds(c) \/ TaskStep(c) \/ Leaves(c)
<1> USE DEF SafeHandshake, TypeInv, TypeOK, SessionTypeOK
<1>1. CASE Send(c) \/ Notify(c) \/ Poll(c) \/ CheckNothing(c) \/ CheckOpen(c)
  BY <1>1
     DEF Send, Notify, Poll, CheckNothing, CheckOpen, OtherHolders, Proceeds, TasksInv, udsVars
<1>2. CASE CheckDisconnected(c) \/ NotifyFails(c) \/ WaitInterrupted(c)
  BY <1>2, FailLeaves DEF CheckDisconnected, NotifyFails, WaitInterrupted
<1>3. CASE CheckControl(c) \/ Get(c) \/ Unwind(c)
  BY <1>3 DEF CheckControl, Get, Unwind, Finish, TasksInv, OtherHolders, Leaves
<1>4. CASE TaskStep(c)
  BY <1>4 DEF TaskStep, Accept, Receive, OtherHolders, CallShape, InCall
<1>5. CASE ClientExit(c)
  BY <1>5 DEF ClientExit, OtherHolders, Leaves
<1>6. CASE BeginStep(c)
  <2>1. CASE BeginOpenFails(c)
    BY <2>1 DEF BeginOpenFails, OtherHolders, Proceeds
  <2>2. ASSUME NEW n \in Names, BeginOpen(c, n)
        PROVE  OtherHolders(c) /\ Opens(c)
    <3> USE <2>2 DEF BeginOpen, BeginCall
    <3>1. <<c, calls[c] + 1>> \in Paths
      BY NewRequestType DEF Ops, SocketPath
    <3>2. task[c] = "none" /\ task'[c] = "accept"
      BY LaunchAssumption DEF CallShape, InCall
    <3> QED BY <3>1, <3>2 DEF OtherHolders, Opens, NewRequest, SocketPath
  <2>3. ASSUME NEW n \in Names, NEW op \in Ops \ {"open"}, BeginControl(c, op, n)
        PROVE  OtherHolders(c) /\ Proceeds(c)
    BY <2>3 DEF BeginControl, BeginCall, CallShape, InCall, OtherHolders, Proceeds
  <2> QED BY <1>6, <2>1, <2>2, <2>3 DEF BeginStep
<1> QED BY <1>1, <1>2, <1>3, <1>4, <1>5, <1>6 DEF ClientStep, CallStep, ClientFault, AcceptFails

LEMMA HandoverClientStep ==
  ASSUME "accept" \notin Faults, "deferred" \notin LaunchPolicies,
         SafeHandover, NEW c \in Clients, ClientStep(c)
  PROVE  TasksInv' /\ ConnectionsInv' /\ RegisteredInv'
<1> USE DEF SafeHandover, SafeListener, SafeHandshake, TypeInv, TypeOK, SessionTypeOK, UdsTypeOK
<1>0. /\ OtherHolders(c)
      /\ Opens(c) \/ Proceeds(c) \/ TaskStep(c) \/ Leaves(c)
  BY HoldersStep
<1>r. UNCHANGED registry
  BY DEF ClientStep, daemonVars
<1>p. \A d \in Clients : task[d] # "none" =>
        call[d].path = <<d, calls[d]>> /\ Path(d) \in Paths /\ Path(d)[1] = d
  <2> SUFFICES ASSUME NEW d \in Clients, task[d] # "none"
               PROVE  call[d].path = <<d, calls[d]>> /\ Path(d) \in Paths /\ Path(d)[1] = d
    OBVIOUS
  <2>1. call[d] \in Requests /\ call[d].path = <<d, calls[d]>>
    BY DEF CallShape
  <2> QED BY <2>1 DEF Path, Requests
\* The paths of the other clients are left alone.
<1>q. \A p \in Paths : p[1] # c => conn'[p] = conn[p] /\ inFlight'[p] = inFlight[p]
  <2>1. CASE Opens(c)
    BY <2>1 DEF Opens, CreateListener
  <2>2. CASE Proceeds(c)
    BY <2>2 DEF Proceeds, udsVars
  <2>3. CASE TaskStep(c)
    BY <1>p, <2>3 DEF TaskStep, Accept, Receive, udsVars
  <2>4. CASE Leaves(c)
    BY <1>p, <2>4 DEF Leaves, Cleanup, ClientHangup, udsVars
  <2> QED BY <1>0, <2>1, <2>2, <2>3, <2>4
<1>1. TasksInv'
  <2> SUFFICES ASSUME NEW d \in Clients
               PROVE  /\ task'[d] # "deferred"
                      /\ task'[d] # "none" => call'[d].op = "open"
                      /\ task'[d] \in {"recv", "done"} => conn'[call'[d].path] # "none"
                      /\ task'[d] = "done" => conn'[call'[d].path] = "closed"
    BY DEF TasksInv, Path
  <2>1. CASE d # c
    BY <1>0, <1>p, <1>q, <2>1 DEF OtherHolders, TasksInv, Path
  <2>2. CASE d = c /\ (Opens(c) \/ Leaves(c))
    BY <2>2 DEF Opens, Leaves
  <2>3. CASE d = c /\ Proceeds(c)
    BY <2>3 DEF Proceeds, udsVars, TasksInv, Path
  <2>4. CASE d = c /\ TaskStep(c)
    BY <2>4 DEF TaskStep, Accept, Receive, udsVars, TasksInv, Path
  <2> QED BY <1>0, <2>1, <2>2, <2>3, <2>4
<1>2. ASSUME NEW p \in Paths, conn'[p] \in {"none", "connected"}
      PROVE  inFlight'[p] = {}
  <2>1. CASE Opens(c)
    <3>1. conn[<<c, calls[c] + 1>>] = "none"
      BY <2>1 DEF Opens, Paths, PathsInv
    <3> QED BY <1>2, <2>1, <3>1 DEF Opens, CreateListener, ConnectionsInv
  <2>2. CASE Proceeds(c)
    BY <1>2, <2>2 DEF Proceeds, udsVars, ConnectionsInv
  <2>3. CASE TaskStep(c)
    BY <1>2, <2>3 DEF TaskStep, Accept, Receive, udsVars, ConnectionsInv
  <2>4. CASE Leaves(c)
    BY <1>2, <2>4 DEF Leaves, Cleanup, ClientHangup, udsVars, ConnectionsInv
  <2> QED BY <1>0, <2>1, <2>2, <2>3, <2>4
<1>3. ASSUME NEW d \in Clients, NEW i \in 0 .. MaxCalls, conn'[<<d, i>>] = "connected"
      PROVE  task'[d] \in {"accept", "recv"} /\ call'[d].path = <<d, i>>
  <2>0. <<d, i>> \in Paths /\ <<d, i>>[1] = d
    BY DEF Paths
  <2>1. CASE d # c
    <3>1. conn[<<d, i>>] = "connected"
      BY <1>3, <1>q, <2>0, <2>1
    <3> QED BY <1>0, <2>1, <3>1 DEF OtherHolders, ConnectionsInv, Path
  <2>2. conn[<<d, i>>] = "connected"
    <3>1. CASE Opens(c)
      BY <1>3, <2>0, <3>1 DEF Opens, CreateListener
    <3>2. CASE Proceeds(c) \/ TaskStep(c)
      BY <1>3, <3>2 DEF Proceeds, TaskStep, Accept, Receive, udsVars
    <3>3. CASE Leaves(c)
      BY <1>3, <2>0, <3>3 DEF Leaves, Cleanup, ClientHangup, udsVars
    <3> QED BY <1>0, <3>1, <3>2, <3>3
  <2>3. task[d] \in {"accept", "recv"} /\ call[d].path = <<d, i>>
    BY <2>2 DEF ConnectionsInv, Path
  <2>4. CASE d = c /\ Opens(c)
    BY <2>3, <2>4 DEF Opens
  <2>5. CASE d = c /\ Proceeds(c)
    BY <2>3, <2>5 DEF Proceeds
  <2>6. CASE d = c /\ TaskStep(c)
    BY <2>2, <2>3, <2>6 DEF TaskStep, Accept, Receive, Path
  <2>7. CASE d = c /\ Leaves(c)
    BY <1>3, <2>0, <2>2, <2>3, <2>7 DEF Leaves, Cleanup, ClientHangup, Path
  <2> QED BY <1>0, <2>1, <2>4, <2>5, <2>6, <2>7
<1>4. ASSUME NEW n \in Names, NEW fd \in registry[n], NEW d \in Clients,
             fd.origin[1] = d, pc'[d] # "dead"
      PROVE  \/ fd \in held'[d]
             \/ /\ task'[d] \in {"accept", "recv"} /\ fd.origin = call'[d].path
                /\ fd \in inFlight'[call'[d].path]
  <2>1. \/ fd \in held[d]
        \/ /\ task[d] \in {"accept", "recv"} /\ fd.origin = call[d].path
           /\ fd \in inFlight[call[d].path]
    <3>1. pc[d] # "dead"
      BY <1>0, <1>4 DEF OtherHolders
    <3> QED BY <1>4, <3>1 DEF RegisteredInv, Reaches, Path
  <2>2. CASE d # c
    BY <1>0, <1>p, <1>q, <2>1, <2>2 DEF OtherHolders, Path
  <2>3. CASE d = c /\ Opens(c)
    BY <2>1, <2>3 DEF Opens
  <2>4. CASE d = c /\ Proceeds(c)
    BY <2>1, <2>4 DEF Proceeds, udsVars
  <2>5. CASE d = c /\ TaskStep(c)
    BY <2>1, <2>5 DEF TaskStep, Accept, Receive, udsVars, Path
  <2>6. CASE d = c /\ Leaves(c)
    BY <1>4, <2>1, <2>6 DEF Leaves
  <2> QED BY <1>0, <2>2, <2>3, <2>4, <2>5, <2>6
<1>5. ConnectionsInv'
  BY <1>2, <1>3 DEF ConnectionsInv, Path
<1>6. RegisteredInv'
  BY <1>4, <1>r DEF RegisteredInv, Reaches, Path
<1> QED BY <1>1, <1>5, <1>6

LEMMA HandoverServerStep ==
  ASSUME SafeHandover, TypeInv', ServerStep
  PROVE  TasksInv' /\ ConnectionsInv' /\ RegisteredInv'
<1> USE DEF SafeHandover, SafeListener, SafeHandshake, TypeInv, TypeOK, UdsTypeOK, DaemonTypeOK
<1>0. UNCHANGED <<sock, pc, call, task, held>>
  BY ServerLeavesListeners DEF sessionVars
<1> USE <1>0
\* What the daemon may do to a connection without a descriptor.
<1>1. ASSUME \A n \in Names : registry'[n] \subseteq registry[n], UNCHANGED inFlight,
             \A p \in Paths : conn'[p] = conn[p] \/ (conn[p] = "connected" /\ conn'[p] = "closed")
      PROVE  TasksInv' /\ ConnectionsInv' /\ RegisteredInv'
  <2>1. \A c \in Clients : task[c] # "none" => Path(c) \in Paths
    BY DEF CallShape, Requests, Path
  <2>2. TasksInv'
    BY <1>1, <2>1 DEF TasksInv, Path
  <2>3. ConnectionsInv'
    BY <1>1 DEF ConnectionsInv, Path, Paths
  <2>4. RegisteredInv'
    BY <1>1 DEF RegisteredInv, Reaches, Path
  <2> QED BY <2>2, <2>3, <2>4
<1>2. CASE UNCHANGED <<udsVars, registry>>
  BY <1>1, <1>2 DEF udsVars
<1>3. CASE ConnectClient
  <2> USE <1>3 DEF ConnectClient, Connect
  <2>1. /\ active.path \in Paths /\ Issued(active) /\ sock[active.path] = "listening"
        /\ conn[active.path] = "none" /\ conn' = [conn EXCEPT ![active.path] = "connected"]
        /\ active.client \in Clients /\ active.path = <<active.client, active.id>>
        /\ active.id \in 0 .. MaxCalls
    BY ActiveType DEF RequestsInv, Issued, Requests
  <2>2. task[active.client] # "none" /\ Path(active.client) = active.path
    BY <2>1 DEF ListenerLivesWithItsTask
  <2>3. task[active.client] = "accept"
    BY <2>1, <2>2 DEF TasksInv, SessionTypeOK
  <2>4. \A c \in Clients : task[c] # "none" => Path(c) \in Paths
    BY DEF CallShape, Requests, Path
  <2>5. TasksInv'
    <3>1. \A c \in Clients : task[c] = "done" => Path(c) # active.path
      BY <2>1 DEF TasksInv
    <3> QED BY <2>1, <2>4, <3>1 DEF TasksInv, Path
  <2>6. ConnectionsInv'
    <3>1. \A p \in Paths : conn'[p] \in {"none", "connected"} => inFlight[p] = {}
      BY <2>1 DEF ConnectionsInv
    <3>2. ASSUME NEW c \in Clients, NEW i \in 0 .. MaxCalls, conn'[<<c, i>>] = "connected"
          PROVE  task[c] \in {"accept", "recv"} /\ Path(c) = <<c, i>>
      <4>1. <<c, i>> \in Paths
        BY DEF Paths
      <4>2. CASE <<c, i>> = active.path
        BY <2>1, <2>2, <2>3, <4>2
      <4>3. CASE <<c, i>> # active.path
        BY <2>1, <3>2, <4>1, <4>3 DEF ConnectionsInv
      <4> QED BY <4>2, <4>3
    <3> QED BY <3>1, <3>2 DEF ConnectionsInv, Path, ConnectClient, Connect
  <2>7. RegisteredInv'
    BY DEF RegisteredInv, Reaches, Path
  <2> QED BY <2>5, <2>6, <2>7
<1>4. CASE TransferFails
  BY <1>1, <1>4 DEF TransferFails, DaemonHangup
<1>5. CASE TransferDescriptor
  <2> USE <1>5 DEF TransferDescriptor, SendDescriptor
  <2>1. /\ active \in Requests /\ active.path \in Paths /\ active.name \in Names
        /\ conn[active.path] = "connected" /\ conn' = [conn EXCEPT ![active.path] = "closed"]
        /\ inFlight[active.path] = {}
        /\ inFlight' = [inFlight EXCEPT ![active.path] = {NewDescriptor(active)}]
        /\ registry' = [registry EXCEPT ![active.name] = {NewDescriptor(active)}]
    BY ActiveType DEF ConnectionsInv
  <2>2. /\ active.path = <<active.client, active.id>> /\ active.client \in Clients
        /\ active.id \in 0 .. MaxCalls
        /\ NewDescriptor(active).origin = active.path
    BY <2>1 DEF RequestsInv, Issued, Requests, NewDescriptor
  <2>3. task[active.client] \in {"accept", "recv"} /\ Path(active.client) = active.path
    BY <2>1, <2>2 DEF ConnectionsInv
  <2>4. \A c \in Clients : task[c] # "none" => Path(c) \in Paths
    BY DEF CallShape, Requests, Path
  <2>5. TasksInv'
    BY <2>1, <2>4 DEF TasksInv, Path
  <2>6. ConnectionsInv'
    BY <2>1 DEF ConnectionsInv, Path, Paths
  <2>7. ASSUME NEW n \in Names, NEW fd \in registry'[n], NEW c \in Clients,
               fd.origin[1] = c, pc[c] # "dead"
        PROVE  \/ fd \in held[c]
               \/ /\ task[c] \in {"accept", "recv"} /\ fd.origin = Path(c)
                  /\ fd \in inFlight'[Path(c)]
    <3>1. CASE fd = NewDescriptor(active)
      <4>1. c = active.client
        BY <2>2, <2>7, <3>1
      <4> QED BY <2>1, <2>2, <2>3, <3>1, <4>1
    <3>2. CASE fd \in registry[n]
      <4>1. Reaches(fd, c)
        BY <2>7, <3>2 DEF RegisteredInv
      <4>2. fd \in inFlight[Path(c)] => Path(c) # active.path
        BY <2>1
      <4> QED BY <2>1, <2>4, <4>1, <4>2 DEF Reaches
    <3> QED BY <2>1, <2>7, <3>1, <3>2
  <2>8. RegisteredInv'
    BY <2>7 DEF RegisteredInv, Reaches, Path
  <2> QED BY <2>5, <2>6, <2>8
<1>6. CASE Close
  BY <1>1, <1>6 DEF Close, udsVars
<1>7. CASE BrokenPipe \/ Crash
  BY <1>1, <1>7 DEF BrokenPipe, Crash, Die, DaemonHangup, udsVars
<1>8. CASE Start \/ StartListening \/ Wake \/ ReceiveRequest \/ DrainDone \/ OpenAlreadyOpen \/ OpenDeviceFails
           \/ OpenDevice \/ ControlNotFound \/ Config \/ Respond \/ DropActive
           \/ \E c \in Clients : LoseServer(c)
  BY <1>2, <1>8
     DEF Start, StartListening, Wake, ReceiveRequest, DrainDone, OpenAlreadyOpen, OpenDeviceFails, OpenDevice,
         ControlNotFound, Config, Answer, Respond, DropActive, LoseServer, daemonVars
<1> QED BY <1>3, <1>4, <1>5, <1>6, <1>7, <1>8 DEF ServerStep, DaemonStep

\* A device in the daemon's table is not lost: when accept() and recvmsg() do not
\* fail and std::async starts its thread, the client it was opened for is still
\* in that call or has the descriptor open, whatever else fails or crashes.
THEOREM RegisteredDevicesReachTheirClients ==
  ASSUME "accept" \notin Faults, "deferred" \notin LaunchPolicies
  PROVE  Spec => []RegisteredDeviceReachedItsClient
<1>1. SafeHandover /\ [Next]_vars => SafeHandover'
  <2> SUFFICES ASSUME SafeHandover, [Next]_vars PROVE SafeHandover'
    OBVIOUS
  <2>1. SafeListener' /\ TypeInv'
    BY ListenerNext, TypeStep DEF SafeHandover, SafeListener, SafeHandshake
  <2>2. CASE \E c \in Clients : ClientStep(c)
    BY <2>1, <2>2, HandoverClientStep DEF SafeHandover
  <2>3. CASE ServerStep
    BY <2>1, <2>3, HandoverServerStep DEF SafeHandover
  <2>4. CASE UNCHANGED vars
    BY <2>1, <2>4 DEF vars, udsVars, sessionVars, daemonVars, SafeHandover, TasksInv,
       ConnectionsInv, RegisteredInv, Reaches, Path
  <2> QED BY <2>2, <2>3, <2>4 DEF Next
<1>2. SafeHandover => RegisteredDeviceReachedItsClient
  <2> SUFFICES ASSUME SafeHandover, NEW n \in Names, NEW fd \in registry[n], NEW c \in Clients,
                      fd.origin[1] = c, pc[c] # "dead", fd \notin held[c]
               PROVE  InCall(c) /\ <<c, call[c].id>> = fd.origin
    BY DEF RegisteredDeviceReachedItsClient
  <2>1. task[c] # "none" /\ fd.origin = Path(c)
    BY DEF SafeHandover, RegisteredInv, Reaches
  <2> QED BY <2>1 DEF SafeHandover, SafeListener, SafeHandshake, TypeInv, CallShape, Path
<1> QED BY <1>1, <1>2, HandoverInit, PTL DEF Spec
=============================================================================
