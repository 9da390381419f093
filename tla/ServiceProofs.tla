--------------------------- MODULE ServiceProofs ---------------------------
(***************************************************************************)
(* The processes implement DeviceService.  Every step of a process is one  *)
(* of the service or changes nothing of it.  Two things carry the          *)
(* simulation: a decision is in one place at a time, so the call that      *)
(* returns with it leaves no second one behind; and where there is a       *)
(* descriptor for a call, its request was decided with Success.            *)
(***************************************************************************)
EXTENDS HandshakeProofs

\* What the steps of open_interface and handle_open start from.
OpensInv ==
  /\ dpc \in {"connect", "sendmsg"} => active.op = "open"
  /\ \A p \in Paths : conn[p] \in {"none", "connected"} => inFlight[p] = {}
  /\ \A c \in Clients :
       /\ task[c] # "none" => call[c].op = "open"
       /\ taskFd[c] # {} => task[c] = "done" /\ conn[Path(c)] = "closed"
       /\ pc[c] = "get" => got[c] # "none"

\* The decision of a call's request is in one place.
DecisionsInv ==
  \A c \in Clients : inbox[c] # "none" \/ got[c] # "none" =>
    /\ call[c] \notin Waiting
    /\ dpc = "respond" => active # call[c]
    /\ inbox[c] = "none" \/ got[c] = "none"

\* A descriptor on its way to a call says how its request was decided.
SuccessInv ==
  \A c \in Clients : InCall(c) /\ (taskFd[c] # {} \/ inFlight[Path(c)] # {}) =>
    /\ call[c] \notin Waiting
    /\ inbox[c] \in {"none", "Success"} /\ got[c] \in {"none", "Success"}
    /\ dpc = "respond" /\ active = call[c] => reply = "Success"

ServiceInv == SafeHandshake /\ SafeDevices /\ OpensInv /\ DecisionsInv /\ SuccessInv

LEMMA ServiceInit == Init => ServiceInv /\ Service!Init
<1> SUFFICES ASSUME Init PROVE ServiceInv /\ Service!Init
  OBVIOUS
<1> USE DEF Init, IpcInit, UdsInit, SessionInit, DaemonInit
<1>1. SafeHandshake /\ SafeDevices
  BY HandshakeInit, DeviceInit
<1>2. OpensInv /\ DecisionsInv /\ SuccessInv
  BY DEF OpensInv, DecisionsInv, SuccessInv, InCall
<1>3. Waiting = {} /\ Verdicts = {} /\ Offered = {}
  BY DEF Waiting, Verdicts, Offered
<1>4. Spent = {}
  BY ConstantsAssumption DEF Spent
<1> QED BY <1>1, <1>2, <1>3, <1>4 DEF ServiceInv, Service!Init

-----------------------------------------------------------------------------
\* The mapped state, element by element.
IsVerdict(r, v) ==
  \/ dpc = "respond" /\ r = active /\ v = reply
  \/ \E c \in Clients : r = call[c] /\ v \in {inbox[c], got[c]} /\ v # "none"

IsVerdictNext(r, v) ==
  \/ dpc' = "respond" /\ r = active' /\ v = reply'
  \/ \E c \in Clients : r = call'[c] /\ v \in {inbox'[c], got'[c]} /\ v # "none"

Offers(fd) == (\E p \in Paths : fd \in inFlight[p]) \/ (\E c \in Clients : fd \in taskFd[c])

LEMMA VerdictsRead ==
  /\ \A v \in Verdicts : \E r, answer : v = <<r, answer>> /\ IsVerdict(r, answer)
  /\ \A r, answer : IsVerdict(r, answer) => <<r, answer>> \in Verdicts
  /\ \A v \in Verdicts' : \E r, answer : v = <<r, answer>> /\ IsVerdictNext(r, answer)
  /\ \A r, answer : IsVerdictNext(r, answer) => <<r, answer>> \in Verdicts'
BY DEF Verdicts, IsVerdict, IsVerdictNext

LEMMA OfferedRead ==
  /\ \A fd : fd \in Offered <=> Offers(fd)
  /\ \A fd : fd \in Offered' <=> Offers(fd)'
BY DEF Offered, Offers

\* A client that goes on or leaves takes decisions and descriptors away only.
LEMMA ClientKeeps ==
  ASSUME ServiceInv, NEW c \in Clients, ClientStep(c), ~Send(c)
  PROVE  /\ Waiting' = Waiting
         /\ Verdicts' \subseteq Verdicts
         /\ Offered' \subseteq Offered
<1> USE DEF ServiceInv, SafeHandshake, TypeInv, TypeOK, SessionTypeOK
<1>0. /\ Others(c)
      /\ Begins(c) \/ Ends(c) \/ (GoesOn(c) /\ Answers(c))
  BY OthersUntouched, StepsOfAClient
<1>1. Waiting' = Waiting
  BY <1>0 DEF Waiting, Others, daemonVars, Begins, Ends, Answers
<1>2. ASSUME NEW r, NEW v, IsVerdictNext(r, v)
      PROVE  IsVerdict(r, v)
  <2>1. CASE dpc' = "respond" /\ r = active' /\ v = reply'
    BY <1>0, <2>1 DEF IsVerdict, Others, daemonVars
  <2>2. ASSUME NEW d \in Clients, r = call'[d], v \in {inbox'[d], got'[d]}, v # "none"
        PROVE  r = call[d] /\ v \in {inbox[d], got[d]}
    <3>1. CASE d # c
      BY <1>0, <2>2, <3>1 DEF Others
    <3>2. CASE d = c /\ Begins(c)
      BY <2>2, <3>2 DEF Begins, AnswersInv, Waits
    <3>3. CASE d = c /\ Ends(c)
      BY <2>2, <3>3 DEF Ends
    <3>4. CASE d = c /\ GoesOn(c) /\ Answers(c)
      BY <2>2, <3>4 DEF GoesOn, Answers
    <3> QED BY <1>0, <3>1, <3>2, <3>3, <3>4
  <2> QED BY <1>2, <2>1, <2>2 DEF IsVerdict, IsVerdictNext
<1>3. ASSUME NEW fd, Offers(fd)'
      PROVE  Offers(fd)
  <2>1. ASSUME NEW p \in Paths, fd \in inFlight'[p]
        PROVE  fd \in inFlight[p]
    BY <1>0, <2>1 DEF Begins, Ends, GoesOn
  <2>2. ASSUME NEW d \in Clients, fd \in taskFd'[d]
        PROVE  Offers(fd)
    <3>1. CASE taskFd'[d] \in {taskFd[d], {}}
      BY <2>2, <3>1 DEF Offers
    <3>2. CASE d = c /\ GoesOn(c) /\ Answers(c)
      BY <2>2, <3>2 DEF Answers, Offers
    <3> QED BY <1>0, <3>1, <3>2 DEF Others, Begins, Ends
  <2> QED BY <1>3, <2>1, <2>2 DEF Offers
<1> QED BY <1>1, <1>2, <1>3, VerdictsRead, OfferedRead

-----------------------------------------------------------------------------
\* A call's number is spent by its send, or by its end before that.
LEMMA CallsSpend ==
  ASSUME ServiceInv, NEW c \in Clients, ClientStep(c)
  PROVE  /\ Service!Spends(c)
         /\ Send(c) \/ ClientExit(c) \/ BeginOpenFails(c) \/ Spent' = Spent
<1> USE DEF ServiceInv, SafeHandshake, TypeInv, TypeOK, SessionTypeOK
<1> DEFINE Number(t) == t \in Clients \X (1 .. MaxCalls)
           Used(t) == t[2] < calls[t[1]] \/ (t[2] = calls[t[1]] /\ pc[t[1]] # "send")
           UsedNext(t) == t[2] < calls'[t[1]] \/ (t[2] = calls'[t[1]] /\ pc'[t[1]] # "send")
<1>1. \A t : (t \in Spent <=> Number(t) /\ Used(t)) /\ (t \in Spent' <=> Number(t) /\ UsedNext(t))
  BY DEF Spent
<1>2. \A d \in Clients \ {c} : pc'[d] = pc[d] /\ calls'[d] = calls[d]
  BY OthersUntouched DEF Others
<1>3. ASSUME NEW t, Number(t), t[1] # c
      PROVE  Used(t) <=> UsedNext(t)
  BY <1>2, <1>3
<1>4. CASE calls'[c] = calls[c] /\ pc'[c] # "send" /\ (pc[c] # "send" \/ Send(c) \/ ClientExit(c))
  <2>1. \A t : Number(t) /\ t[1] = c => (Used(t) => UsedNext(t))
    BY <1>4
  <2>2. pc[c] # "send" => \A t : Number(t) /\ t[1] = c => (UsedNext(t) => Used(t))
    BY <1>4
  <2> QED BY <1>1, <1>3, <1>4, <2>1, <2>2 DEF Service!Spends
<1>5. CASE calls'[c] = calls[c] + 1 /\ pc[c] # "send" /\ (pc'[c] = "send" \/ BeginOpenFails(c))
  <2>0. calls[c] \in Nat
    BY ConstantsAssumption
  <2>1. \A t : Number(t) /\ t[1] = c => (Used(t) => UsedNext(t))
    BY <1>5, <2>0
  <2>2. pc'[c] = "send" => \A t : Number(t) /\ t[1] = c => (UsedNext(t) => Used(t))
    BY <1>5, <2>0
  <2> QED BY <1>1, <1>3, <1>5, <2>1, <2>2 DEF Service!Spends
<1>6. CASE Send(c) \/ ClientExit(c) \/ Notify(c) \/ Poll(c) \/ CheckNothing(c) \/ CheckOpen(c)
  BY <1>4, <1>6 DEF Send, ClientExit, Notify, Poll, CheckNothing, CheckOpen
<1>7. CASE CheckDisconnected(c) \/ NotifyFails(c) \/ WaitInterrupted(c)
  BY <1>4, <1>7 DEF CheckDisconnected, NotifyFails, WaitInterrupted, Fail, Finish
<1>8. CASE CheckControl(c) \/ Get(c) \/ Unwind(c)
  BY <1>4, <1>8 DEF CheckControl, Get, Unwind, Finish
<1>9. CASE TaskStep(c) \/ AcceptFails(c)
  <2>1. UNCHANGED <<calls, pc>>
    BY <1>9 DEF TaskStep, Accept, Receive, AcceptFails
  <2>2. Spent' = Spent
    BY <2>1 DEF Spent
  <2> QED BY <2>2 DEF Service!Spends
<1>10. CASE BeginStep(c)
  BY <1>5, <1>10 DEF BeginStep, BeginOpenFails, BeginOpen, BeginControl, BeginCall
<1> QED BY <1>6, <1>7, <1>8, <1>9, <1>10 DEF ClientStep, CallStep, ClientFault

LEMMA SendIssues ==
  ASSUME ServiceInv, NEW c \in Clients, ClientStep(c), Send(c)
  PROVE  (Service!Issue(call[c]) /\ call[c] \in Requests) \/ Service!Unsent(c)
<1> USE DEF ServiceInv, SafeHandshake, TypeInv, TypeOK, SessionTypeOK, IpcTypeOK, Send, SendRequest
<1>0. /\ call[c] \in Requests /\ call[c].client = c /\ call[c].id = calls[c]
      /\ InCall(c) /\ ~Sent(c)
  BY DEF CallShape, InCall, Sent
<1>d. UNCHANGED <<registry, daemonVars>>
  BY DEF ClientStep, daemonVars
<1>1. /\ <<c, call[c].id>> \notin Spent
      /\ Spent' = Spent \cup {<<c, call[c].id>>}
  <2>1. call[c].id \in 1 .. MaxCalls
    BY <1>0, ConstantsAssumption DEF Requests, RequestsInv
  <2>2. pc[c] = "send" /\ pc' = [pc EXCEPT ![c] = "notify"] /\ calls' = calls
    OBVIOUS
  <2>3. <<c, call[c].id>> \in Clients \X (1 .. MaxCalls)
    BY <2>1
  <2>4. ASSUME NEW t \in Clients \X (1 .. MaxCalls)
        PROVE  t \in Spent' <=> t \in Spent \/ t = <<c, call[c].id>>
    BY <1>0, <2>2 DEF Spent
  <2> QED BY <1>0, <2>2, <2>3, <2>4 DEF Spent
<1>2. Verdicts' = Verdicts
  <2>1. inbox[c] = "none"
    BY DEF AnswersInv, Waits
  <2>2. inbox' = inbox
    BY <2>1
  <2> QED BY <1>d, <2>2 DEF Verdicts, daemonVars
<1>3. UNCHANGED <<registry, owned, result, Offered>>
  BY <1>d DEF daemonVars, Offered, udsVars
<1>4. CASE server = "up"
  <2>1. requests' = Append(requests, call[c])
    BY <1>4
  <2>2. {requests'[i] : i \in DOMAIN requests'} = {requests[i] : i \in DOMAIN requests} \cup {call[c]}
    <3>1. \A i \in DOMAIN requests' :
            (i \in DOMAIN requests /\ requests'[i] = requests[i]) \/ requests'[i] = call[c]
      BY <1>0, <2>1, QueueAfterSend
    <3>2. \A i \in DOMAIN requests : i \in DOMAIN requests' /\ requests'[i] = requests[i]
      BY <1>0, <2>1
    <3>3. Len(requests) + 1 \in DOMAIN requests' /\ requests'[Len(requests) + 1] = call[c]
      BY <1>0, <2>1
    <3> QED BY <3>1, <3>2, <3>3
  <2>3. Waiting' = Waiting \cup {call[c]}
    BY <1>d, <2>2 DEF Waiting, daemonVars
  <2> QED BY <1>0, <1>1, <1>2, <1>3, <2>3 DEF Service!Issue
<1>5. CASE server # "up"
  <2>1. Waiting' = Waiting
    BY <1>d, <1>5 DEF Waiting, daemonVars
  <2> QED BY <1>2, <1>3, <2>1, CallsSpend DEF Service!Unsent
<1> QED BY <1>4, <1>5

\* A call that finishes with a decision takes that one from the verdicts.
LEMMA FinishTakes ==
  ASSUME ServiceInv, NEW c \in Clients, ClientStep(c), InCall(c), got[c] # "none",
         ~InCall(c)', inbox'[c] = "none", got'[c] = "none"
  PROVE  /\ <<call[c], got[c]>> \in Verdicts
         /\ Verdicts' = Verdicts \ {<<call[c], got[c]>>}
<1> USE DEF ServiceInv, SafeHandshake, TypeInv
<1>0. Others(c) /\ ~Send(c)
  BY OthersUntouched DEF Send, InCall, TypeOK, SessionTypeOK
<1>1. <<call[c], got[c]>> \in Verdicts
  BY VerdictsRead DEF IsVerdict
<1>2. <<call[c], got[c]>> \notin Verdicts'
  <2>1. dpc' = dpc /\ active' = active /\ (dpc = "respond" => active # call[c])
    BY <1>0 DEF DecisionsInv, Others, daemonVars
  <2>2. ASSUME NEW d \in Clients \ {c}, call'[d] = call[c], inbox'[d] # "none" \/ got'[d] # "none"
        PROVE  FALSE
    <3>1. call[d] = call[c] /\ InCall(d)
      BY <1>0, <2>2 DEF Others, AnswersInv, Waits, InCall
    <3> QED BY <3>1 DEF CallShape
  <2>3. ~IsVerdictNext(call[c], got[c])
    BY <2>1, <2>2 DEF IsVerdictNext
  <2>4. ASSUME <<call[c], got[c]>> \in Verdicts'
        PROVE  IsVerdictNext(call[c], got[c])
    <3>1. PICK r, answer : <<call[c], got[c]>> = <<r, answer>> /\ IsVerdictNext(r, answer)
      BY <2>4, VerdictsRead
    <3> QED BY <3>1
  <2> QED BY <2>3, <2>4
<1>3. ASSUME NEW v \in Verdicts, v # <<call[c], got[c]>>
      PROVE  v \in Verdicts'
  <2>1. PICK r, answer : v = <<r, answer>> /\ IsVerdict(r, answer)
    BY VerdictsRead
  <2>2. CASE dpc = "respond" /\ r = active /\ answer = reply
    BY <1>0, <2>1, <2>2, VerdictsRead DEF Others, daemonVars, IsVerdictNext
  <2>3. ASSUME NEW d \in Clients, r = call[d], answer \in {inbox[d], got[d]}, answer # "none"
        PROVE  IsVerdictNext(r, answer)
    <3>1. CASE d = c
      BY <1>3, <2>1, <2>3, <3>1 DEF DecisionsInv
    <3>2. CASE d # c
      BY <1>0, <2>3, <3>2 DEF Others, IsVerdictNext
    <3> QED BY <3>1, <3>2
  <2> QED BY <2>1, <2>2, <2>3, VerdictsRead DEF IsVerdict
<1>4. Verdicts' \subseteq Verdicts
  BY <1>0, ClientKeeps
<1> QED BY <1>1, <1>2, <1>3, <1>4

LEMMA ControlReturns ==
  ASSUME ServiceInv, NEW c \in Clients, ClientStep(c), CheckControl(c)
  PROVE  call[c] \in Requests /\ Service!ReturnControl(call[c])
<1> USE DEF ServiceInv, SafeHandshake, TypeInv, TypeOK, SessionTypeOK, IpcTypeOK
<1>1. /\ call[c] \in Requests /\ call[c].client = c /\ call[c].op # "open"
      /\ InCall(c) /\ got[c] # "none" /\ ~Send(c)
  BY DEF CheckControl, CallShape, InCall, Send
<1>2. ~InCall(c)' /\ inbox'[c] = "none" /\ got'[c] = "none"
  BY DEF CheckControl, DropPending, Finish, InCall
<1>3. task[c] = "none" /\ taskFd[c] = {}
  BY <1>1 DEF OpensInv
<1>4. UNCHANGED <<registry, owned>> /\ result' = [result EXCEPT ![c] = got[c]]
  BY DEF CheckControl, Finish, ClientStep, daemonVars
<1>5. Offered' = Offered
  <2>1. inFlight' = inFlight /\ taskFd' = taskFd
    BY <1>3 DEF CheckControl, Finish, udsVars
  <2> QED BY <2>1 DEF Offered
<1>6. Waiting' = Waiting
  BY <1>1, ClientKeeps
<1>7. <<call[c], got[c]>> \in Verdicts /\ Verdicts' = Verdicts \ {<<call[c], got[c]>>}
  BY <1>1, <1>2, FinishTakes
<1>8. got[c] \in {verdict[2] : verdict \in {w \in Verdicts : w[1] = call[c]}}
  <2>1. PICK verdict : verdict = <<call[c], got[c]>>
    OBVIOUS
  <2>2. verdict[1] = call[c] /\ verdict[2] = got[c]
    BY <2>1
  <2>3. verdict \in {w \in Verdicts : w[1] = call[c]}
    BY <1>7, <2>1, <2>2
  <2> HIDE <2>1
  <2> QED BY <2>2, <2>3
<1>9. Spent' = Spent
  <2>1. pc[c] = "check" /\ pc'[c] = "idle"
    BY DEF CheckControl, Finish
  <2>2. ~ClientExit(c) /\ ~BeginOpenFails(c)
    BY <2>1 DEF ClientExit, BeginOpenFails
  <2> QED BY <1>1, <2>2, CallsSpend
<1> QED BY <1>1, <1>4, <1>5, <1>6, <1>7, <1>8, <1>9 DEF Service!ReturnControl

\* What is on the way to a call is the descriptor its own request created.
LEMMA OnlyItsDevice ==
  ASSUME ServiceInv, NEW c \in Clients, InCall(c)
  PROVE  /\ \A fd \in taskFd[c] \cup inFlight[Path(c)] : fd = Service!Device(call[c])
         /\ \A p \in Paths : Service!Device(call[c]) \in inFlight[p] => p = Path(c)
         /\ \A d \in Clients : Service!Device(call[c]) \in taskFd[d] => d = c
<1> USE DEF ServiceInv, SafeHandshake, TypeInv, TypeOK, SessionTypeOK, UdsTypeOK
<1>1. /\ call[c] \in Requests /\ call[c].client = c /\ Path(c) \in Paths
      /\ Path(c) = <<c, call[c].id>>
  BY DEF CallShape, Requests, Path
<1>2. ASSUME NEW fd \in taskFd[c] \cup inFlight[Path(c)]
      PROVE  fd = Service!Device(call[c])
  <2>1. fd \in Descriptors
    BY <1>1
  <2>2. fd.name = call[c].name /\ fd.origin = <<c, call[c].id>>
    BY <1>1 DEF TransferInv, DescriptorIsForThisCall
  <2> QED BY <1>1, <2>1, <2>2 DEF Descriptors, Service!Device
<1>3. ASSUME NEW p \in Paths, Service!Device(call[c]) \in inFlight[p]
      PROVE  p = Path(c)
  BY <1>1, <1>3 DEF TransferInv, Service!Device
<1>4. ASSUME NEW d \in Clients, Service!Device(call[c]) \in taskFd[d]
      PROVE  d = c
  <2>1. Service!Device(call[c]).origin = <<d, call[d].id>>
    BY <1>4 DEF TransferInv, DescriptorIsForThisCall
  <2> QED BY <1>1, <2>1 DEF Service!Device
<1> QED BY <1>2, <1>3, <1>4

LEMMA GetReturns ==
  ASSUME ServiceInv, NEW c \in Clients, ClientStep(c), Get(c)
  PROVE  Service!GiveUp(c) \/ (call[c] \in Requests /\ Service!ReturnOpen(call[c]))
<1> USE DEF ServiceInv, SafeHandshake, TypeInv, TypeOK, SessionTypeOK, IpcTypeOK
<1>1. /\ call[c] \in Requests /\ call[c].client = c /\ Path(c) \in Paths
      /\ InCall(c) /\ got[c] # "none" /\ ~Send(c)
  BY DEF Get, CallShape, InCall, Send, OpensInv, Requests, Path
<1>2. ~InCall(c)' /\ inbox'[c] = "none" /\ got'[c] = "none"
  BY DEF Get, DropPending, Finish, InCall
<1>3. UNCHANGED registry
  BY DEF ClientStep, daemonVars
<1>4. /\ Waiting' = Waiting /\ Verdicts' \subseteq Verdicts /\ Offered' \subseteq Offered
  BY <1>1, ClientKeeps
<1>5. CASE taskFd[c] = {}
  <2>1. result' = [result EXCEPT ![c] = "InvalidFdReceived"]
    BY <1>5 DEF Get, Finish
  <2>2. owned' = owned
    BY <1>5 DEF Get
  <2> QED BY <1>3, <1>4, <2>1, <2>2, CallsSpend DEF Service!GiveUp, CallErrors
<1>6. CASE taskFd[c] # {}
  <2>1. got[c] = "Success"
    BY <1>1, <1>6 DEF SuccessInv
  <2>2. taskFd[c] = {Service!Device(call[c])}
    BY <1>1, <1>6, OnlyItsDevice
  <2>3. result' = [result EXCEPT ![c] = "Success"]
    BY <1>6 DEF Get, Finish
  <2>4. owned' = [owned EXCEPT ![c] = @ \cup {Service!Device(call[c])}]
    BY <2>2 DEF Get
  <2>5. Service!Device(call[c]) \in Offered
    BY <2>2, OfferedRead DEF Offers
  <2>6. Offered' = Offered \ {Service!Device(call[c])}
    <3>1. /\ taskFd' = [taskFd EXCEPT ![c] = {}]
          /\ inFlight' = [inFlight EXCEPT ![Path(c)] = {}]
      BY DEF Get, Finish, Cleanup, ClientHangup
    <3>2. ASSUME NEW fd, Offers(fd), fd # Service!Device(call[c])
          PROVE  fd \in Offered'
      <4>1. CASE \E p \in Paths : fd \in inFlight[p]
        BY <1>1, <3>1, <3>2, <4>1, OnlyItsDevice, OfferedRead DEF Offers, UdsTypeOK
      <4>2. CASE \E d \in Clients : fd \in taskFd[d]
        BY <1>1, <3>1, <3>2, <4>2, OnlyItsDevice, OfferedRead DEF Offers
      <4> QED BY <3>2, <4>1, <4>2 DEF Offers
    <3>3. Service!Device(call[c]) \notin Offered'
      <4>1. \A p \in Paths : Service!Device(call[c]) \notin inFlight'[p]
        BY <1>1, <3>1, OnlyItsDevice DEF UdsTypeOK
      <4>2. \A d \in Clients : Service!Device(call[c]) \notin taskFd'[d]
        BY <1>1, <3>1, OnlyItsDevice
      <4> QED BY <4>1, <4>2 DEF Offered
    <3> QED BY <1>4, <3>2, <3>3, OfferedRead
  <2>7. <<call[c], got[c]>> \in Verdicts /\ Verdicts' = Verdicts \ {<<call[c], got[c]>>}
    BY <1>1, <1>2, FinishTakes
  <2>8. Spent' = Spent
    BY <1>1, CallsSpend DEF Get, Finish, ClientExit, BeginOpenFails, InCall
  <2> QED BY <1>1, <1>3, <1>4, <2>1, <2>3, <2>4, <2>5, <2>6, <2>7, <2>8 DEF Service!ReturnOpen
<1> QED BY <1>5, <1>6

LEMMA ClientSimulates ==
  ASSUME ServiceInv, NEW c \in Clients, ClientStep(c)
  PROVE  [Service!Next]_(Service!serviceVars)
<1> USE DEF ServiceInv, SafeHandshake, TypeInv, TypeOK, SessionTypeOK
<1>d. UNCHANGED <<registry, daemonVars>>
  BY DEF ClientStep, daemonVars
<1>1. CASE Send(c)
  BY <1>1, SendIssues DEF Service!Next
<1>2. CASE CheckControl(c)
  BY <1>2, ControlReturns DEF Service!Next
<1>3. CASE Get(c)
  BY <1>3, GetReturns DEF Service!Next
<1>4. ASSUME ~Send(c)
      PROVE  /\ Waiting' = Waiting /\ Verdicts' \subseteq Verdicts /\ Offered' \subseteq Offered
  BY <1>4, ClientKeeps
<1>5. CASE CheckDisconnected(c) \/ NotifyFails(c) \/ WaitInterrupted(c)
  <2>1. PICK error \in CallErrors : Fail(c, error)
    BY <1>5 DEF CheckDisconnected, NotifyFails, WaitInterrupted, CallErrors
  <2>2. result' = [result EXCEPT ![c] = error] /\ owned' = owned
    BY <2>1 DEF Fail, Finish
  <2>3. ~Send(c)
    BY <1>5 DEF CheckDisconnected, NotifyFails, WaitInterrupted, Send
  <2>4. Service!GiveUp(c)
    BY <1>4, <1>d, <2>2, <2>3, CallsSpend DEF Service!GiveUp
  <2> QED BY <2>4 DEF Service!Next
<1>6. CASE ClientExit(c)
  <2>1. owned' = [owned EXCEPT ![c] = {}] /\ result' = result
    BY <1>6 DEF ClientExit
  <2>2. CASE ~Send(c)
    <3>1. Service!ClientGone(c)
      BY <1>4, <1>d, <2>1, <2>2, CallsSpend DEF Service!ClientGone
    <3> QED BY <3>1 DEF Service!Next
  <2> QED BY <1>1, <2>2
<1>7. CASE BeginStep(c)
  <2>1. pc[c] = "idle" /\ ~Send(c)
    BY <1>7 DEF BeginStep, BeginOpenFails, BeginOpen, BeginControl, BeginCall, Send
  <2>2. CASE BeginOpenFails(c)
    <3>1. result' = [result EXCEPT ![c] = "ResourceCreationFailed"] /\ owned' = owned
      BY <2>2 DEF BeginOpenFails
    <3>2. Service!GiveUp(c)
      BY <1>4, <1>d, <2>1, <3>1, CallsSpend DEF Service!GiveUp, CallErrors
    <3> QED BY <3>2 DEF Service!Next
  <2>3. CASE \E n \in Names : BeginOpen(c, n) \/ \E op \in Ops \ {"open"} : BeginControl(c, op, n)
    <3>1. /\ result' = [result EXCEPT ![c] = "none"]
          /\ UNCHANGED <<owned, inbox, got, inFlight, taskFd>>
          /\ \A d \in Clients \ {c} : call'[d] = call[d]
      BY <2>3 DEF BeginOpen, BeginControl, BeginCall, CreateListener, ipcVars, udsVars
    <3>2. inbox[c] = "none" /\ got[c] = "none"
      BY <2>1 DEF AnswersInv, Waits
    <3>3. \A r, v : IsVerdict(r, v) => IsVerdictNext(r, v)
      BY <1>d, <3>1, <3>2 DEF IsVerdict, IsVerdictNext, daemonVars
    <3>4. Verdicts \subseteq Verdicts'
      BY <3>3, VerdictsRead
    <3>5. Offered' = Offered
      BY <3>1 DEF Offered
    <3>6. Spent' = Spent
      <4>1. pc'[c] = "send"
        BY <2>3 DEF BeginOpen, BeginControl
      <4> QED BY <2>1, <4>1, CallsSpend DEF ClientExit, BeginOpenFails
    <3>7. Service!Begin(c)
      BY <1>4, <1>d, <2>1, <3>1, <3>4, <3>5, <3>6 DEF Service!Begin
    <3> QED BY <3>7 DEF Service!Next
  <2> QED BY <1>7, <2>2, <2>3 DEF BeginStep
<1>8. CASE Notify(c) \/ Poll(c) \/ CheckNothing(c) \/ CheckOpen(c) \/ Unwind(c) \/ TaskStep(c)
           \/ AcceptFails(c)
  <2>1. UNCHANGED <<result, owned>>
    BY <1>8 DEF Notify, Poll, CheckNothing, CheckOpen, Unwind, Finish, TaskStep, Accept, Receive,
                AcceptFails
  <2>2. CASE ~Send(c)
    <3>1. CASE Spent' = Spent
      <4>1. Service!Discard
        BY <1>4, <1>d, <2>1, <2>2, <3>1 DEF Service!Discard
      <4> QED BY <4>1 DEF Service!Next
    <3>2. CASE ClientExit(c) \/ BeginOpenFails(c)
      BY <1>6, <1>7, <3>2 DEF BeginStep
    <3> QED BY <2>2, <3>1, <3>2, CallsSpend DEF Service!Next
  <2> QED BY <1>1, <2>2
<1> QED BY <1>1, <1>2, <1>3, <1>5, <1>6, <1>7, <1>8 DEF ClientStep, CallStep, ClientFault

-----------------------------------------------------------------------------
\* The daemon decides the request at hand, which is nowhere else.
LEMMA AnswerDecides ==
  ASSUME ServiceInv, NEW v, Answer(v), UNCHANGED sessionVars,
         dpc \in {"handle", "connect", "sendmsg"}, v # "none"
  PROVE  Service!Decided(active, v)
<1> USE DEF Answer, ipcVars, sessionVars
<1>1. \A i \in DOMAIN requests : requests[i] # active
  BY DEF ServiceInv, SafeHandshake, RequestsInv
<1>2. active \in Waiting /\ Waiting' = Waiting \ {active}
  BY <1>1 DEF Waiting
<1>3. \A r, answer : IsVerdictNext(r, answer) <=> IsVerdict(r, answer) \/ (r = active /\ answer = v)
  BY DEF IsVerdict, IsVerdictNext
<1>4. Verdicts' = Verdicts \cup {<<active, v>>}
  BY <1>3, VerdictsRead
<1>5. Spent' = Spent
  BY DEF Spent
<1> QED BY <1>2, <1>4, <1>5 DEF Service!Decided

LEMMA Refuses ==
  ASSUME ServiceInv, ServerStep,
         OpenAlreadyOpen \/ OpenDeviceFails \/ TransferFails \/ ControlNotFound
  PROVE  active \in Requests /\ Service!Refuse(active)
<1> USE DEF ServiceInv, OpensInv
<1>1. UNCHANGED sessionVars
  BY DEF ServerStep
<1>2. UNCHANGED <<registry, Offered>>
  BY <1>1 DEF OpenAlreadyOpen, OpenDeviceFails, TransferFails, ControlNotFound, DaemonHangup,
              udsVars, sessionVars, Offered
<1>3. dpc \in {"handle", "connect", "sendmsg"} /\ active \in Requests
  BY ActiveType
     DEF OpenAlreadyOpen, OpenDeviceFails, TransferFails, ControlNotFound, SafeHandshake
<1>4. \A v : Answer(v) /\ v # "none" => Service!Decided(active, v)
  BY <1>1, <1>3, AnswerDecides
<1>5. CASE OpenAlreadyOpen
  BY <1>2, <1>3, <1>4, <1>5 DEF OpenAlreadyOpen, Service!Refuse
<1>6. CASE OpenDeviceFails
  BY <1>2, <1>3, <1>4, <1>6 DEF OpenDeviceFails, Service!Refuse
<1>7. CASE TransferFails
  <2>1. active.op = "open" /\ registry[active.name] = {}
    BY <1>7 DEF TransferFails, SafeDevices, DeviceInv
  <2> QED BY <1>2, <1>3, <1>4, <1>7, <2>1 DEF TransferFails, Service!Refuse
<1>8. CASE ControlNotFound
  BY <1>2, <1>3, <1>4, <1>8 DEF ControlNotFound, Service!Refuse
<1> QED BY <1>5, <1>6, <1>7, <1>8

LEMMA ControlDecides ==
  ASSUME ServiceInv, ServerStep, Config \/ Close
  PROVE  active \in Requests /\ Service!Decide(active)
<1> USE DEF ServiceInv
<1>1. UNCHANGED sessionVars
  BY DEF ServerStep
<1>2. UNCHANGED Offered
  BY <1>1 DEF Config, Close, udsVars, sessionVars, Offered
<1>3. dpc = "handle" /\ active \in Requests
  BY ActiveType DEF Config, Close, SafeHandshake
<1>4. \A v : Answer(v) /\ v # "none" => Service!Decided(active, v)
  BY <1>1, <1>3, AnswerDecides
<1>5. CASE Config
  <2>1. registry' = registry /\ active.op = "config" /\ registry[active.name] # {}
    BY <1>5 DEF Config
  <2>2. CASE Answer("Success")
    <3>1. Service!Decided(active, "Success")
      BY <1>4, <2>2
    <3> QED BY <1>2, <1>3, <2>1, <3>1 DEF Service!Config, Service!Decide
  <2>3. CASE Answer("InvalidArguments")
    <3>1. Service!Decided(active, "InvalidArguments")
      BY <1>4, <2>3
    <3> QED BY <1>2, <1>3, <2>1, <3>1 DEF Service!Refuse, Service!Decide
  <2> QED BY <1>3, <1>5, <2>2, <2>3 DEF Config
<1>6. CASE Close
  BY <1>2, <1>3, <1>4, <1>6 DEF Close, Service!Close, Service!Decide
<1> QED BY <1>5, <1>6

LEMMA TransferOpens ==
  ASSUME ServiceInv, ServerStep, TransferDescriptor
  PROVE  active \in Requests /\ Service!Open(active)
<1> USE DEF ServiceInv, SafeHandshake, TypeInv, TypeOK, TransferDescriptor, SendDescriptor
<1>1. UNCHANGED sessionVars
  BY DEF ServerStep
<1>2. active \in Requests /\ active.path \in Paths
  BY ActiveType
<1>3. Service!Decided(active, "Success")
  BY <1>1, AnswerDecides
<1>4. active.op = "open" /\ registry[active.name] = {}
  BY DEF OpensInv, SafeDevices, DeviceInv
<1>5. NewDescriptor(active) = Service!Device(active)
  BY DEF NewDescriptor, Service!Device
<1>6. inFlight[active.path] = {}
  BY <1>2 DEF OpensInv
<1>7. Offered' = Offered \cup {Service!Device(active)}
  <2>1. \A fd : Offers(fd)' <=> Offers(fd) \/ fd = Service!Device(active)
    BY <1>1, <1>2, <1>5, <1>6 DEF Offers, UdsTypeOK, sessionVars
  <2> QED BY <2>1, OfferedRead
<1> QED BY <1>2, <1>3, <1>4, <1>5, <1>7 DEF Service!Open

\* The pending response that takes an answer is that of the request.
LEMMA PendingIsActive ==
  ASSUME ServiceInv, dpc = "respond", pending[active.client] = active.id
  PROVE  call[active.client] = active
<1> USE DEF ServiceInv, SafeHandshake, TypeInv, TypeOK, SessionTypeOK
<1>1. active \in Requests /\ active.client \in Clients /\ Issued(active)
  BY ActiveType DEF RequestsInv
<1>2. active.id # 0 /\ calls[active.client] \in 0 .. MaxCalls
  BY <1>1 DEF Issued
<1>3. active.id = calls[active.client] /\ InCall(active.client)
  BY <1>1, <1>2 DEF AnswersInv, Waits, InCall
<1> QED BY <1>1, <1>3 DEF Issued

LEMMA RespondDelivers ==
  ASSUME ServiceInv, ServerStep, Respond
  PROVE  Service!Discard
<1> USE DEF ServiceInv, SafeHandshake, TypeInv, TypeOK, SessionTypeOK, IpcTypeOK, Respond, Deliver
<1>1. UNCHANGED sessionVars /\ UNCHANGED <<registry, owned, result>>
  BY DEF ServerStep, sessionVars
<1>2. Waiting' = Waiting /\ Offered' = Offered
  BY <1>1 DEF Waiting, Offered, sessionVars, udsVars
<1>3. active \in Requests /\ active.client \in Clients /\ Issued(active)
  BY ActiveType DEF RequestsInv
<1>4. pending[active.client] = active.id => call[active.client] = active
  BY PendingIsActive
<1>5. ASSUME NEW r, NEW v, IsVerdictNext(r, v)
      PROVE  IsVerdict(r, v)
  <2>1. PICK d \in Clients : r = call[d] /\ v \in {inbox'[d], got[d]} /\ v # "none"
    BY <1>1, <1>5 DEF IsVerdictNext, sessionVars
  <2>2. CASE v \in {inbox[d], got[d]}
    BY <2>1, <2>2 DEF IsVerdict
  <2>3. CASE v \notin {inbox[d], got[d]}
    BY <1>3, <1>4, <2>1, <2>3 DEF IsVerdict
  <2> QED BY <2>2, <2>3
<1>6. Verdicts' \subseteq Verdicts
  BY <1>5, VerdictsRead
<1>7. Spent' = Spent
  BY <1>1 DEF Spent, sessionVars
<1> QED BY <1>1, <1>2, <1>6, <1>7 DEF Service!Discard

LEMMA DeathLoses ==
  ASSUME ServiceInv, ServerStep, BrokenPipe \/ Crash
  PROVE  Service!ServiceLost
<1> USE DEF BrokenPipe, Crash, Die
<1>1. UNCHANGED sessionVars
  BY DEF ServerStep
<1>2. Waiting' = {}
  BY DEF Waiting
<1>3. \A r, v : IsVerdictNext(r, v) => IsVerdict(r, v)
  BY <1>1 DEF IsVerdict, IsVerdictNext, sessionVars
<1>4. Verdicts' \subseteq Verdicts
  BY <1>3, VerdictsRead
<1>5. Offered' = Offered
  BY <1>1 DEF Offered, sessionVars, udsVars, DaemonHangup
<1>6. Spent' = Spent
  BY <1>1 DEF Spent, sessionVars
<1> QED BY <1>1, <1>2, <1>4, <1>5, <1>6 DEF Service!ServiceLost, sessionVars

\* Receiving takes one request out of the queue.
LEMMA QueueSplit ==
  ASSUME requests \in Seq(Requests), requests # <<>>
  PROVE  {requests[i] : i \in DOMAIN requests} =
           {Tail(requests)[i] : i \in DOMAIN Tail(requests)} \cup {Head(requests)}
<1>1. /\ 1 \in DOMAIN requests /\ Head(requests) = requests[1]
      /\ \A i \in DOMAIN Tail(requests) :
           i + 1 \in DOMAIN requests /\ Tail(requests)[i] = requests[i + 1]
  BY QueueAfterReceive
<1>2. \A i \in DOMAIN requests : i # 1 =>
        i - 1 \in DOMAIN Tail(requests) /\ requests[i] = Tail(requests)[i - 1]
  OBVIOUS
<1> QED BY <1>1, <1>2

LEMMA ServerSimulates ==
  ASSUME ServiceInv, ServerStep
  PROVE  [Service!Next]_(Service!serviceVars)
<1> USE DEF ServiceInv, SafeHandshake, TypeInv, TypeOK, IpcTypeOK
<1>1. UNCHANGED sessionVars /\ UNCHANGED <<owned, result>>
  BY DEF ServerStep, sessionVars
<1>2. CASE Start \/ StartListening \/ Wake \/ DrainDone \/ ReceiveRequest \/ OpenDevice
           \/ ConnectClient \/ DropActive \/ \E c \in Clients : LoseServer(c)
  <2> USE <1>2 DEF Start, StartListening, Wake, DrainDone, ReceiveRequest, OpenDevice,
                   ConnectClient, Connect, DropActive, LoseServer, ipcVars, udsVars, daemonVars
  <2>1. \/ UNCHANGED <<registry, inFlight, inbox>> /\ dpc # "respond" /\ dpc' # "respond"
        \/ UNCHANGED <<registry, inFlight, inbox, requests, dpc, active, reply>>
    OBVIOUS
  <2>2. UNCHANGED <<Verdicts, Offered>>
    BY <1>1, <2>1 DEF Verdicts, Offered, sessionVars
  <2>3. Waiting' = Waiting
    <3>1. CASE ReceiveRequest
      <4>3. {requests[i] : i \in DOMAIN requests} =
              {requests'[i] : i \in DOMAIN requests'} \cup {active'}
        BY <3>1, QueueSplit
      <4>4. dpc = "drain" /\ dpc' = "handle"
        BY <3>1
      <4> QED BY <4>3, <4>4 DEF Waiting
    <3>2. CASE ~ReceiveRequest
      BY <3>2 DEF Waiting
    <3> QED BY <3>1, <3>2
  <2>4. Spent' = Spent
    BY <1>1 DEF Spent, sessionVars
  <2> QED BY <1>1, <2>1, <2>2, <2>3, <2>4 DEF Service!serviceVars
<1>3. CASE OpenAlreadyOpen \/ OpenDeviceFails \/ TransferFails \/ ControlNotFound
  BY <1>3, Refuses DEF Service!Next, Service!Decide
<1>4. CASE Config \/ Close
  BY <1>4, ControlDecides DEF Service!Next
<1>5. CASE TransferDescriptor
  BY <1>5, TransferOpens DEF Service!Next, Service!Decide
<1>6. CASE Respond
  BY <1>6, RespondDelivers DEF Service!Next
<1>7. CASE BrokenPipe \/ Crash
  BY <1>7, DeathLoses DEF Service!Next
<1> QED BY <1>2, <1>3, <1>4, <1>5, <1>6, <1>7 DEF ServerStep, DaemonStep

-----------------------------------------------------------------------------
\* The invariant, over the steps of a client.  A step leaves the task with no
\* descriptor, with the one it had, or with the one that was on its connection.
LEMMA StepsOfATask ==
  ASSUME ServiceInv, NEW c \in Clients, ClientStep(c)
  PROVE  /\ \/ taskFd'[c] = {}
            \/ taskFd'[c] = taskFd[c] /\ task'[c] = "done"
            \/ taskFd'[c] = inFlight[Path(c)] /\ task'[c] = "done" /\ conn[Path(c)] = "closed"
         /\ pc'[c] = "get" => got'[c] # "none"
         /\ inbox'[c] = "none" \/ got'[c] \in {got[c], "none"}
<1> USE DEF ServiceInv, SafeHandshake, TypeInv, TypeOK, SessionTypeOK, IpcTypeOK, OpensInv
<1>1. CASE Send(c) \/ Notify(c) \/ Poll(c) \/ CheckNothing(c) \/ CheckOpen(c)
  BY <1>1 DEF Send, SendRequest, Notify, Poll, CheckNothing, CheckOpen, ipcVars
<1>2. ASSUME NEW error, Fail(c, error), pc[c] # "get"
      PROVE  /\ taskFd'[c] = {} \/ (taskFd'[c] = taskFd[c] /\ task'[c] = "done")
             /\ pc'[c] # "get" /\ inbox'[c] = "none"
  BY <1>2 DEF Fail, Finish, DropPending
<1>3. CASE CheckDisconnected(c) \/ NotifyFails(c) \/ WaitInterrupted(c)
  BY <1>2, <1>3 DEF CheckDisconnected, NotifyFails, WaitInterrupted
<1>4. CASE CheckControl(c) \/ Get(c) \/ Unwind(c)
  BY <1>4 DEF CheckControl, Get, Unwind, Finish
<1>5. CASE TaskStep(c) \/ AcceptFails(c)
  BY <1>5 DEF TaskStep, Accept, Receive, AcceptFails, ipcVars
<1>6. CASE ClientExit(c)
  BY <1>6 DEF ClientExit
<1>7. CASE BeginStep(c)
  <2>1. taskFd[c] = {}
    BY <1>7 DEF BeginStep, BeginOpen, BeginOpenFails, BeginControl, BeginCall, TransferInv, InCall
  <2> QED BY <1>7, <2>1 DEF BeginStep, BeginOpen, BeginOpenFails, BeginControl, BeginCall, ipcVars
<1> QED BY <1>1, <1>3, <1>4, <1>5, <1>6, <1>7 DEF ClientStep, CallStep, ClientFault

\* A send only adds its own request to those that wait.
LEMMA SendKeeps ==
  ASSUME ServiceInv, NEW c \in Clients, ClientStep(c), Send(c)
  PROVE  /\ Waiting' \subseteq Waiting \cup {call[c]}
         /\ UNCHANGED <<calls, call, got, task, taskFd, conn, inFlight, inbox>>
         /\ got[c] = "none" /\ inbox[c] = "none" /\ conn[Path(c)] = "none"
<1> USE DEF ServiceInv, SafeHandshake, TypeInv, TypeOK, SessionTypeOK, IpcTypeOK, Send
<1>1. got[c] = "none" /\ inbox[c] = "none"
  BY DEF AnswersInv, Waits
<1>2. UNCHANGED <<calls, call, got, task, taskFd, conn, inFlight, inbox>>
  BY <1>1 DEF SendRequest, udsVars
<1>3. Waiting' \subseteq Waiting \cup {call[c]}
  BY SendIssues DEF Service!Issue, Service!Unsent
<1>4. conn[Path(c)] = "none"
  <2>1. pc[c] = "send" /\ call[c].path = <<c, calls[c]>> /\ calls[c] \in 0 .. MaxCalls
    BY DEF CallShape, InCall
  <2> QED BY <2>1 DEF PathsInv, Path
<1> QED BY <1>1, <1>2, <1>3, <1>4

LEMMA OpensClientStep ==
  ASSUME ServiceInv, NEW c \in Clients, ClientStep(c)
  PROVE  OpensInv'
<1> USE DEF ServiceInv, SafeHandshake, TypeInv, TypeOK, SessionTypeOK
<1>0. Others(c) /\ OtherTasks(c) /\ UNCHANGED <<dpc, active>>
  BY OthersUntouched, TasksOfAClient DEF ClientStep, daemonVars
<1>1. CASE Send(c)
  <2>1. UNCHANGED <<call, got, task, taskFd, conn, inFlight>>
    BY <1>1, SendKeeps DEF ClientStep
  <2>2. \A d \in Clients : pc'[d] = "get" => pc[d] = "get"
    BY <1>1 DEF Send
  <2> QED BY <1>0, <2>1, <2>2 DEF OpensInv, Path
<1>2. CASE ~Send(c)
  <2>0. Begins(c) \/ Ends(c) \/ (GoesOn(c) /\ Answers(c))
    BY <1>2, StepsOfAClient
  <2>1. ASSUME NEW p \in Paths, conn'[p] \in {"none", "connected"}
        PROVE  inFlight'[p] = {}
    <3>1. inFlight'[p] \subseteq inFlight[p]
      BY <2>0 DEF Begins, Ends, GoesOn
    <3>2. conn[p] \in {"none", "connected"}
      <4>1. CASE p = <<c, calls[c] + 1>>
        BY <4>1 DEF PathsInv, Paths
      <4>2. CASE p # <<c, calls[c] + 1>>
        BY <2>0, <2>1, <4>2 DEF Begins, Ends, GoesOn
      <4> QED BY <4>1, <4>2
    <3> QED BY <3>1, <3>2 DEF OpensInv
  <2>2. ASSUME NEW d \in Clients, task'[d] # "none"
        PROVE  call'[d].op = "open"
    <3>1. CASE d # c
      BY <1>0, <2>2, <3>1 DEF OpensInv, OtherTasks
    <3>2. CASE d = c
      <4>1. TaskStarts(c) \/ TaskStays(c)
        BY <2>2, <3>2, TasksOfAClient DEF TaskEnds
      <4> QED BY <2>2, <3>2, <4>1 DEF OpensInv, TaskStarts, TaskStays
    <3> QED BY <3>1, <3>2
  <2>3. ASSUME NEW d \in Clients, taskFd'[d] # {}
        PROVE  task'[d] = "done" /\ conn'[call'[d].path] = "closed"
    <3>1. CASE taskFd[d] # {} /\ call'[d] = call[d]
      <4>1. InCall(d) /\ task[d] = "done" /\ conn[Path(d)] = "closed"
        BY <3>1 DEF TransferInv, OpensInv
      <4>2. Path(d) \in Paths /\ Path(d) # <<c, calls[c] + 1>>
        BY <4>1 DEF CallShape, Path, Requests
      <4>3. conn'[Path(d)] = "closed"
        BY <2>0, <4>1, <4>2, ConnStays
      <4>4. task'[d] = "done"
        BY <1>0, <2>3, <4>1, StepsOfATask DEF OtherTasks
      <4> QED BY <3>1, <4>3, <4>4 DEF Path
    <3>2. CASE d # c
      BY <1>0, <2>3, <3>1, <3>2 DEF Others
    <3>3. CASE d = c /\ taskFd[d] = {}
      <4>1. /\ taskFd'[c] = inFlight[Path(c)] /\ task'[c] = "done"
            /\ conn[Path(c)] = "closed"
        BY <2>3, <3>3, StepsOfATask
      <4>2. GoesOn(c)
        BY <2>0, <2>3, <3>3 DEF Begins, Ends
      <4>3. Path(c) \in Paths /\ Path(c) # <<c, calls[c] + 1>>
        BY <4>2 DEF GoesOn, CallShape, Path, Requests
      <4>4. conn'[Path(c)] = "closed"
        BY <2>0, <4>1, <4>3, ConnStays
      <4> QED BY <3>3, <4>1, <4>2, <4>4 DEF GoesOn, Path
    <3>4. CASE d = c /\ taskFd[d] # {}
      BY <2>0, <2>3, <3>1, <3>4 DEF Begins, Ends, GoesOn, TransferInv, InCall
    <3> QED BY <3>2, <3>3, <3>4
  <2>4. ASSUME NEW d \in Clients, pc'[d] = "get"
        PROVE  got'[d] # "none"
    BY <1>0, <2>4, StepsOfATask DEF Others, OpensInv
  <2> QED BY <1>0, <2>1, <2>2, <2>3, <2>4 DEF OpensInv, Path
<1> QED BY <1>1, <1>2

LEMMA DecisionsClientStep ==
  ASSUME ServiceInv, NEW c \in Clients, ClientStep(c)
  PROVE  DecisionsInv'
<1> USE DEF ServiceInv, SafeHandshake, TypeInv, TypeOK, SessionTypeOK
<1> SUFFICES ASSUME NEW d \in Clients, inbox'[d] # "none" \/ got'[d] # "none"
             PROVE  /\ call'[d] \notin Waiting'
                    /\ dpc' = "respond" => active' # call'[d]
                    /\ inbox'[d] = "none" \/ got'[d] = "none"
  BY DEF DecisionsInv
<1>0. Others(c) /\ UNCHANGED <<dpc, active>>
  BY OthersUntouched DEF ClientStep, daemonVars
<1>1. CASE Send(c)
  <2>1. /\ UNCHANGED <<call, got, inbox>> /\ Waiting' \subseteq Waiting \cup {call[c]}
        /\ got[c] = "none" /\ inbox[c] = "none"
    BY <1>1, SendKeeps DEF ClientStep
  <2>2. InCall(c) /\ InCall(d) /\ d # c
    BY <1>1, <2>1 DEF Send, InCall, AnswersInv, Waits
  <2>3. call[d] # call[c]
    BY <2>2 DEF CallShape
  <2> QED BY <1>0, <2>1, <2>3 DEF DecisionsInv
<1>2. CASE ~Send(c)
  <2>1. Waiting' = Waiting /\ (Begins(c) \/ Ends(c) \/ (GoesOn(c) /\ Answers(c)))
    BY <1>2, ClientKeeps, StepsOfAClient
  <2>2. CASE d # c
    BY <1>0, <2>1, <2>2 DEF Others, DecisionsInv
  <2>3. CASE d = c
    <3>1. GoesOn(c) /\ Answers(c)
      BY <2>1, <2>3 DEF Begins, Ends, AnswersInv, Waits
    <3>2. call'[c] = call[c] /\ (inbox[c] # "none" \/ got[c] # "none")
      BY <2>3, <3>1 DEF GoesOn, Answers
    <3>3. inbox'[c] = "none" \/ got'[c] = "none"
      BY <3>1, <3>2, StepsOfATask DEF Answers, DecisionsInv
    <3> QED BY <1>0, <2>1, <2>3, <3>2, <3>3 DEF DecisionsInv
  <2> QED BY <2>2, <2>3
<1> QED BY <1>1, <1>2

LEMMA SuccessClientStep ==
  ASSUME ServiceInv, NEW c \in Clients, ClientStep(c)
  PROVE  SuccessInv'
<1> USE DEF ServiceInv, SafeHandshake, TypeInv, TypeOK, SessionTypeOK
<1> SUFFICES ASSUME NEW d \in Clients, InCall(d)',
                    taskFd'[d] # {} \/ inFlight'[call'[d].path] # {}
             PROVE  /\ call'[d] \notin Waiting'
                    /\ inbox'[d] \in {"none", "Success"} /\ got'[d] \in {"none", "Success"}
                    /\ dpc' = "respond" /\ active' = call'[d] => reply' = "Success"
  BY DEF SuccessInv, Path
<1>0. Others(c) /\ UNCHANGED <<dpc, active, reply>>
  BY OthersUntouched DEF ClientStep, daemonVars
<1>1. CASE Send(c)
  <2>1. /\ UNCHANGED <<call, got, inbox, taskFd, inFlight>>
        /\ Waiting' \subseteq Waiting \cup {call[c]} /\ conn[Path(c)] = "none"
    BY <1>1, SendKeeps DEF ClientStep
  <2>2. InCall(c) /\ InCall(d)
    BY <1>0, <1>1 DEF Send, InCall, Others
  <2>3. d # c
    BY <2>1, <2>2 DEF OpensInv, Path, CallShape, Requests
  <2>4. call[d] # call[c]
    BY <2>2, <2>3 DEF CallShape
  <2> QED BY <1>0, <2>1, <2>2, <2>4 DEF SuccessInv, Path
<1>2. CASE ~Send(c)
  <2>1. Waiting' = Waiting /\ (Begins(c) \/ Ends(c) \/ (GoesOn(c) /\ Answers(c)))
    BY <1>2, ClientKeeps, StepsOfAClient
  <2>2. \A p \in Paths : inFlight'[p] \subseteq inFlight[p]
    BY <2>1 DEF Begins, Ends, GoesOn
  <2>3. call'[d].path \in Paths
    BY TypeStep DEF Next, CallShape, Requests
  <2>4. CASE d # c
    <3>1. /\ call'[d] = call[d] /\ InCall(d) /\ inbox'[d] = inbox[d] /\ got'[d] = got[d]
          /\ taskFd'[d] = taskFd[d]
      BY <1>0, <2>4 DEF Others, InCall
    <3>2. taskFd[d] # {} \/ inFlight[Path(d)] # {}
      BY <2>2, <2>3, <3>1 DEF Path
    <3> QED BY <1>0, <2>1, <3>1, <3>2 DEF SuccessInv
  <2>5. CASE d = c /\ Begins(c)
    <3>1. taskFd'[c] = {}
      BY <2>5 DEF Begins, TransferInv, InCall
    <3>2. call'[c].path = <<c, calls[c] + 1>> /\ <<c, calls[c] + 1>> \in Paths
      <4>1. call'[c].path = <<c, calls'[c]>>
        BY <2>5, TypeStep DEF Next, CallShape
      <4>2. calls'[c] = calls[c] + 1
        BY <2>5 DEF Begins
      <4> QED BY <2>3, <2>5, <4>1, <4>2
    <3>3. inFlight[<<c, calls[c] + 1>>] = {}
      BY <3>2 DEF PathsInv, Paths, OpensInv
    <3> QED BY <2>2, <2>5, <3>1, <3>2, <3>3
  <2>6. CASE d = c /\ Ends(c)
    BY <2>6 DEF Ends
  <2>7. CASE d = c /\ GoesOn(c) /\ Answers(c)
    <3>1. /\ call'[c] = call[c] /\ InCall(c) /\ call[c].path \in Paths
          /\ taskFd[c] # {} \/ inFlight[Path(c)] # {}
      BY <2>2, <2>3, <2>7 DEF GoesOn, Answers, Path
    <3> QED BY <1>0, <2>1, <2>7, <3>1 DEF SuccessInv, Answers
  <2> QED BY <2>1, <2>4, <2>5, <2>6, <2>7
<1> QED BY <1>1, <1>2

-----------------------------------------------------------------------------
\* The invariant, over the steps of the daemon: it waits, decides or responds.
LEMMA OpensServerStep ==
  ASSUME ServiceInv, ServerStep
  PROVE  OpensInv'
<1> USE DEF ServiceInv, SafeHandshake, TypeInv, TypeOK, UdsTypeOK
<1>0. UNCHANGED <<pc, call, got, task, taskFd>>
  BY DEF ServerStep, sessionVars
<1> USE <1>0
<1>1. ASSUME UNCHANGED <<conn, inFlight>>,
             dpc' \in {"connect", "sendmsg"} => active'.op = "open"
      PROVE  OpensInv'
  BY <1>1 DEF OpensInv, Path
<1>2. CASE Start \/ StartListening \/ Wake \/ ReceiveRequest \/ DrainDone \/ OpenAlreadyOpen \/ OpenDeviceFails
           \/ OpenDevice \/ ControlNotFound \/ Config \/ Close \/ Respond \/ DropActive
           \/ \E c \in Clients : LoseServer(c)
  BY <1>1, <1>2
     DEF Start, StartListening, Wake, ReceiveRequest, DrainDone, OpenAlreadyOpen, OpenDeviceFails, OpenDevice,
         ControlNotFound, Config, Close, Answer, Respond, DropActive, LoseServer, daemonVars,
         udsVars, OpensInv
<1>3. CASE ConnectClient
  <2> USE <1>3 DEF ConnectClient, Connect
  <2>1. /\ active.path \in Paths /\ conn[active.path] = "none" /\ active.op = "open"
        /\ conn' = [conn EXCEPT ![active.path] = "connected"]
        /\ UNCHANGED <<active, inFlight>>
    BY ActiveType DEF RequestsInv, OpensInv
  <2>2. \A c \in Clients : taskFd[c] # {} => conn'[Path(c)] = "closed"
    <3> SUFFICES ASSUME NEW c \in Clients, taskFd[c] # {} PROVE conn'[Path(c)] = "closed"
      OBVIOUS
    <3>1. InCall(c) /\ conn[Path(c)] = "closed"
      BY DEF TransferInv, OpensInv
    <3>2. Path(c) \in Paths
      BY <3>1 DEF CallShape, Requests, Path
    <3> QED BY <2>1, <3>1, <3>2
  <2>3. \A p \in Paths : conn'[p] \in {"none", "connected"} => inFlight[p] = {}
    BY <2>1 DEF OpensInv
  <2> QED BY <2>1, <2>2, <2>3 DEF OpensInv, Path
<1>4. ASSUME dpc' \notin {"connect", "sendmsg"}, \A p \in Paths : conn[p] # "connected" =>
               conn'[p] = conn[p] /\ inFlight'[p] = inFlight[p],
             \A p \in Paths : conn[p] = "connected" =>
               conn'[p] = "closed" \/ (conn'[p] = conn[p] /\ inFlight'[p] = inFlight[p])
      PROVE  OpensInv'
  <2>1. \A p \in Paths : conn'[p] \in {"none", "connected"} => inFlight'[p] = {}
    BY <1>4 DEF OpensInv
  <2>2. \A c \in Clients : taskFd[c] # {} => conn'[Path(c)] = "closed"
    <3> SUFFICES ASSUME NEW c \in Clients, taskFd[c] # {} PROVE conn'[Path(c)] = "closed"
      OBVIOUS
    <3>1. InCall(c) /\ conn[Path(c)] = "closed"
      BY DEF TransferInv, OpensInv
    <3>2. Path(c) \in Paths
      BY <3>1 DEF CallShape, Requests, Path
    <3> QED BY <1>4, <3>1, <3>2
  <2> QED BY <1>4, <2>1, <2>2 DEF OpensInv, Path
<1>5. CASE TransferFails
  BY <1>4, <1>5 DEF TransferFails, DaemonHangup, Answer
<1>6. CASE TransferDescriptor
  BY <1>4, <1>6 DEF TransferDescriptor, SendDescriptor, Answer
<1>7. CASE BrokenPipe \/ Crash
  BY <1>4, <1>7 DEF BrokenPipe, Crash, Die, DaemonHangup, udsVars
<1> QED BY <1>2, <1>3, <1>5, <1>6, <1>7 DEF ServerStep, DaemonStep

\* Nothing new waits, and a decision is of a request that waited.
NothingNewWaits ==
  /\ Waiting' \subseteq Waiting
  /\ \/ dpc' # "respond"
     \/ UNCHANGED <<dpc, active, reply>>
     \/ active' = active /\ active \in Waiting

LEMMA ServerWaits ==
  ASSUME ServiceInv, ServerStep
  PROVE  /\ NothingNewWaits
         /\ inbox' = inbox \/ Respond
         /\ inFlight' = inFlight \/ TransferDescriptor
<1> USE DEF ServiceInv, SafeHandshake, TypeInv, TypeOK, IpcTypeOK
<1>1. inbox' = inbox \/ Respond
  BY DEF ServerStep, DaemonStep, Start, StartListening, Wake, ReceiveRequest, DrainDone, OpenAlreadyOpen,
         OpenDeviceFails, OpenDevice, ConnectClient, TransferFails, TransferDescriptor,
         ControlNotFound, Config, Close, DropActive, BrokenPipe, Crash, Die, LoseServer, Answer,
         ipcVars
<1>2. inFlight' = inFlight \/ TransferDescriptor
  BY DEF ServerStep, DaemonStep, Start, StartListening, Wake, ReceiveRequest, DrainDone, OpenAlreadyOpen,
         OpenDeviceFails, OpenDevice, ConnectClient, Connect, TransferFails, DaemonHangup,
         ControlNotFound, Config, Close, Respond, DropActive, BrokenPipe, Crash, Die, LoseServer,
         udsVars
<1>3. CASE OpenAlreadyOpen \/ OpenDeviceFails \/ TransferFails \/ TransferDescriptor
           \/ ControlNotFound \/ Config \/ Close
  <2>1. PICK v : Answer(v)
    BY <1>3 DEF OpenAlreadyOpen, OpenDeviceFails, TransferFails, TransferDescriptor,
                ControlNotFound, Config, Close
  <2>2. dpc \in {"handle", "connect", "sendmsg"}
    BY <1>3 DEF OpenAlreadyOpen, OpenDeviceFails, TransferFails, TransferDescriptor,
                ControlNotFound, Config, Close
  <2>3. NothingNewWaits
    BY <2>1, <2>2 DEF Answer, ipcVars, Waiting, NothingNewWaits
  <2> QED BY <1>1, <1>2, <2>3
<1>4. CASE ReceiveRequest
  <2>1. \A i \in DOMAIN requests' : i + 1 \in DOMAIN requests /\ requests'[i] = requests[i + 1]
    BY <1>4, QueueAfterReceive DEF ReceiveRequest
  <2>2. 1 \in DOMAIN requests /\ active' = requests[1] /\ dpc = "drain" /\ dpc' = "handle"
    BY <1>4, QueueAfterReceive DEF ReceiveRequest
  <2>3. NothingNewWaits
    BY <2>1, <2>2 DEF Waiting, NothingNewWaits
  <2> QED BY <1>1, <1>2, <2>3
<1>5. CASE BrokenPipe \/ Crash
  BY <1>1, <1>2, <1>5 DEF BrokenPipe, Crash, Die, Waiting, NothingNewWaits
<1>6. CASE Start \/ StartListening \/ Wake \/ DrainDone \/ OpenDevice \/ ConnectClient \/ Respond \/ DropActive
           \/ \E c \in Clients : LoseServer(c)
  BY <1>1, <1>2, <1>6 DEF Start, StartListening, Wake, DrainDone, OpenDevice, ConnectClient, Respond, DropActive,
     LoseServer, ipcVars, daemonVars, Waiting, NothingNewWaits
<1> QED BY <1>3, <1>4, <1>5, <1>6 DEF ServerStep, DaemonStep

LEMMA DecisionsServerStep ==
  ASSUME ServiceInv, ServerStep
  PROVE  DecisionsInv'
<1> USE DEF ServiceInv, SafeHandshake, TypeInv, TypeOK, IpcTypeOK
<1>0. UNCHANGED <<call, got>> /\ NothingNewWaits
  BY ServerWaits DEF ServerStep, sessionVars
<1>1. CASE inbox' = inbox
  BY <1>0, <1>1 DEF DecisionsInv, NothingNewWaits
<1>2. CASE Respond
  <2> USE <1>2 DEF Respond, Deliver
  <2>1. /\ active \in Requests /\ active.client \in Clients
        /\ \A i \in DOMAIN requests : requests[i] # active
    BY ActiveType DEF RequestsInv
  <2>2. active \notin Waiting
    BY <2>1 DEF Waiting
  <2>3. ASSUME NEW d \in Clients, inbox'[d] # inbox[d]
        PROVE  call[d] = active
    BY <2>1, <2>3, PendingIsActive
  <2> QED BY <1>0, <2>2, <2>3 DEF DecisionsInv, NothingNewWaits
<1> QED BY <1>1, <1>2, ServerWaits

LEMMA SuccessServerStep ==
  ASSUME ServiceInv, ServerStep
  PROVE  SuccessInv'
<1> USE DEF ServiceInv, SafeHandshake, TypeInv, TypeOK, IpcTypeOK, UdsTypeOK
<1>0. UNCHANGED <<pc, call, got, taskFd>> /\ NothingNewWaits
  BY ServerWaits DEF ServerStep, sessionVars
<1>1. CASE inbox' = inbox /\ inFlight' = inFlight
  BY <1>0, <1>1 DEF SuccessInv, NothingNewWaits, InCall, Path
<1>2. CASE Respond
  <2> USE <1>2 DEF Respond, Deliver
  <2>1. active \in Requests /\ active.client \in Clients /\ inFlight' = inFlight
    BY ActiveType DEF udsVars
  <2>2. ASSUME NEW d \in Clients, inbox'[d] # inbox[d]
        PROVE  call[d] = active /\ inbox'[d] = reply
    BY <2>1, <2>2, PendingIsActive
  <2> QED BY <1>0, <2>1, <2>2 DEF SuccessInv, NothingNewWaits, InCall, Path
<1>3. CASE TransferDescriptor
  <2> USE <1>3 DEF TransferDescriptor, SendDescriptor, Answer, ipcVars
  <2>1. /\ active \in Requests /\ active.path \in Paths /\ Issued(active)
        /\ \A i \in DOMAIN requests : requests[i] # active
    BY ActiveType DEF RequestsInv
  <2>2. active \in Waiting /\ active \notin Waiting'
    BY <2>1 DEF Waiting
  <2>3. SUFFICES ASSUME NEW d \in Clients, InCall(d), taskFd[d] # {} \/ inFlight'[Path(d)] # {}
                 PROVE  /\ call[d] \notin Waiting'
                        /\ inbox[d] \in {"none", "Success"} /\ got[d] \in {"none", "Success"}
    BY <1>0 DEF SuccessInv, InCall, Path
  <2>4. CASE taskFd[d] # {} \/ inFlight[Path(d)] # {}
    BY <1>0, <2>3, <2>4 DEF SuccessInv, NothingNewWaits
  <2>5. CASE inFlight'[Path(d)] # inFlight[Path(d)]
    <3>1. Path(d) = active.path
      BY <2>5
    <3>2. call[d] = active
      BY <2>1, <2>3, <3>1 DEF CallShape, Issued, Path, Requests
    <3>3. inbox[d] = "none" /\ got[d] = "none"
      BY <2>2, <3>2 DEF DecisionsInv
    <3> QED BY <2>2, <3>2, <3>3
  <2> QED BY <2>3, <2>4, <2>5
<1> QED BY <1>1, <1>2, <1>3, ServerWaits DEF Respond, udsVars

-----------------------------------------------------------------------------
LEMMA ServiceNext == ServiceInv /\ [Next]_vars => ServiceInv'
<1> SUFFICES ASSUME ServiceInv, [Next]_vars PROVE ServiceInv'
  OBVIOUS
<1>1. SafeHandshake' /\ SafeDevices'
  BY HandshakeNext, DeviceNext DEF ServiceInv
<1>2. CASE \E c \in Clients : ClientStep(c)
  BY <1>1, <1>2, OpensClientStep, DecisionsClientStep, SuccessClientStep DEF ServiceInv
<1>3. CASE ServerStep
  BY <1>1, <1>3, OpensServerStep, DecisionsServerStep, SuccessServerStep DEF ServiceInv
<1>4. CASE UNCHANGED vars
  BY <1>1, <1>4 DEF vars, ipcVars, udsVars, sessionVars, daemonVars, ServiceInv, OpensInv,
     DecisionsInv, SuccessInv, InCall, Path, Waiting
<1> QED BY <1>2, <1>3, <1>4 DEF Next

\* Every behaviour of the clients and the daemon is one of DeviceService, with
\* the table, the requests, the decisions and the descriptors of the mapping:
\* no request is decided twice or against the table, no call returns another
\* call's decision or descriptor, whatever fails, crashes or restarts.
THEOREM ProcessesImplementService == Spec => ImplementsService
<1>1. ServiceInv /\ [Next]_vars => [Service!Next]_(Service!serviceVars)
  <2> SUFFICES ASSUME ServiceInv, [Next]_vars PROVE [Service!Next]_(Service!serviceVars)
    OBVIOUS
  <2>1. CASE \E c \in Clients : ClientStep(c)
    BY <2>1, ClientSimulates
  <2>2. CASE ServerStep
    BY <2>2, ServerSimulates
  <2>3. CASE UNCHANGED vars
    BY <2>3 DEF vars, ipcVars, udsVars, sessionVars, daemonVars, Service!serviceVars, Spent,
       Waiting, Verdicts, Offered
  <2> QED BY <2>1, <2>2, <2>3 DEF Next
<1> QED BY <1>1, ServiceInit, ServiceNext, PTL DEF Spec, ImplementsService, Service!Spec
=============================================================================
