---------------------------- MODULE HandleProofs ----------------------------
(***************************************************************************)
(* The handles, and the daemon's table.                                    *)
(*                                                                         *)
(* The handle's states and its reads: a client is in at most one call of   *)
(* the service, and the state of its handle says which; a handle reads     *)
(* unless it is Closed, so open() refuses every handle in Error, and       *)
(* nothing else changes one.                                               *)
(*                                                                         *)
(* The table follows a request of a name that nothing has disturbed: while *)
(* it is undecided its call waits for it, so a close that is decided is    *)
(* the one of the handle whose device the table has, and it succeeds; and  *)
(* a device enters the table for an open call that still waits for it.     *)
(***************************************************************************)
EXTENDS InterfaceHandle, TLAPS

\* The state a handle keeps while the daemon is asked for `op`.
StateDuring(op) ==
  IF op = "open" THEN "none" ELSE IF op = "close" THEN "Closing" ELSE "Open"

CallsMatchStates ==
  \A c \in Clients : \A r \in calling[c] : handle[c].state = StateDuring(r.op)

HandleInv == TypeOK /\ CallsMatchStates /\ ReadsUntilClosed

\* A step that leaves the clients alone keeps the invariant if it keeps the types.
LEMMA ClientsUntouched ==
  ASSUME HandleInv, TypeOK', UNCHANGED <<handle, calling>>
  PROVE  HandleInv'
BY DEF HandleInv, CallsMatchStates, ReadsUntilClosed, Live

LEMMA HandleInvInit == Init => HandleInv
<1> SUFFICES ASSUME Init PROVE HandleInv
  OBVIOUS
<1>1. waiting = {}
  BY DEF Init, Service!Init
<1>2. TypeOK
  BY <1>1, HandleAssumption DEF Init, TypeOK
<1> QED BY <1>2 DEF Init, HandleInv, CallsMatchStates, ReadsUntilClosed, Live

\* What a client's record looks like in each state.
LEMMA HandleShape ==
  ASSUME TypeOK, NEW c \in Clients
  PROVE  /\ handle[c] = NoHandle \/ handle[c] \in Handles
         /\ handle[c].state = "none" <=> handle[c] = NoHandle
BY DEF TypeOK, Handles, NoHandle, InterfaceStates

-----------------------------------------------------------------------------
LEMMA CallMade ==
  ASSUME HandleInv, NEW c \in Clients, NEW op \in {"open", "config", "close"},
         NEW config \in Configs, calling[c] = {}, Call(c, op, config)
  PROVE  /\ calling' \in [Clients -> SUBSET Requests] /\ calls' \in [Clients -> 0 .. MaxCalls]
         /\ waiting' \subseteq Requests /\ faults' \in 0 .. MaxFaults
         /\ \A d \in Clients : d # c => calling'[d] = calling[d]
         /\ \A r \in calling'[c] : r.op = op
<1> DEFINE r == [client |-> c, id |-> calls[c] + 1, op |-> op,
                 name |-> config.path, config |-> config]
<1>1. calls[c] \in 0 .. MaxCalls /\ calls[c] < MaxCalls
  BY DEF HandleInv, TypeOK, Call
<1>2. r \in Requests /\ calls[c] + 1 \in 0 .. MaxCalls
  BY <1>1, HandleAssumption DEF Requests
<1>3. /\ waiting' = waiting \cup {r} /\ calling' = [calling EXCEPT ![c] = {r}]
      /\ calls' = [calls EXCEPT ![c] = @ + 1] /\ faults' = faults
  BY DEF Call, Service!Issue
<1>4. r.op = op
  OBVIOUS
<1> HIDE DEF r
<1> QED BY <1>2, <1>3, <1>4 DEF HandleInv, TypeOK

LEMMA CreateInterfaceStep ==
  ASSUME HandleInv, NEW c \in Clients, NEW config \in Configs, CreateInterface(c, config)
  PROVE  HandleInv'
<1>1. /\ handle[c].state = "none" /\ calling[c] = {} /\ Call(c, "open", config)
      /\ handle' = handle /\ disturbed' = disturbed
  BY DEF CreateInterface, Idle
<1> QED BY <1>1, CallMade DEF HandleInv, TypeOK, CallsMatchStates, ReadsUntilClosed, Live, StateDuring

LEMMA CloseStep ==
  ASSUME HandleInv, NEW c \in Clients, Close(c)
  PROVE  HandleInv'
<1>1. /\ handle[c].state = "Open" /\ calling[c] = {} /\ Call(c, "close", handle[c].config)
      /\ handle' = [handle EXCEPT ![c].state = "Closing"] /\ disturbed' = disturbed
  BY DEF Close, Idle
<1>2. handle[c] \in Handles /\ handle[c].config \in Configs
  BY <1>1, HandleShape DEF HandleInv, Handles, NoHandle
<1>3. handle' \in [Clients -> Handles \cup {NoHandle}]
  BY <1>1, <1>2 DEF HandleInv, TypeOK, Handles, InterfaceStates
<1> QED BY <1>1, <1>2, <1>3, CallMade
        DEF HandleInv, TypeOK, CallsMatchStates, ReadsUntilClosed, Live, StateDuring, NoHandle, Handles

LEMMA ReconfigureStep ==
  ASSUME HandleInv, NEW c \in Clients, NEW config \in Configs, Reconfigure(c, config)
  PROVE  HandleInv'
<1>1. /\ handle[c].state = "Open" /\ calling[c] = {} /\ Call(c, "config", config)
      /\ handle' = handle
      /\ disturbed' \subseteq disturbed \cup {config.path, handle[c].config.path}
  BY DEF Reconfigure, Idle
<1>2. handle[c] \in Handles /\ handle[c].config \in Configs
  BY <1>1, HandleShape DEF HandleInv, Handles, NoHandle
<1>3. disturbed' \subseteq Names
  BY <1>1, <1>2, HandleAssumption DEF HandleInv, TypeOK
<1> QED BY <1>1, <1>3, CallMade
        DEF HandleInv, TypeOK, CallsMatchStates, ReadsUntilClosed, Live, StateDuring

LEMMA OpenStep ==
  ASSUME HandleInv, NEW c \in Clients, Open(c)
  PROVE  HandleInv'
<1>1. /\ calling[c] = {} /\ handle[c].state \in {"Closed", "Error"}
      /\ handle' = [handle EXCEPT ![c].state = IF OpenRefused(handle[c]) THEN "Error" ELSE "Open",
                                  ![c].reading = TRUE]
      /\ disturbed' \subseteq disturbed \cup {handle[c].config.path}
      /\ UNCHANGED <<serviceVars, line, calling, calls, faults>>
  BY DEF Open, Idle
<1>2. handle[c] \in Handles /\ handle[c].config \in Configs
  BY <1>1, HandleShape DEF HandleInv, Handles, NoHandle
<1>3. handle'[c] \in Handles /\ handle'[c].reading /\ handle'[c].state \in {"Open", "Error"}
  BY <1>1, <1>2 DEF Handles, InterfaceStates, HandleInv, TypeOK
<1>4. TypeOK'
  BY <1>1, <1>2, <1>3, HandleAssumption DEF HandleInv, TypeOK, serviceVars
<1>5. \A d \in Clients : d # c => handle'[d] = handle[d]
  BY <1>1 DEF HandleInv, TypeOK
<1>6. CallsMatchStates'
  BY <1>1, <1>5 DEF HandleInv, CallsMatchStates
<1>7. ReadsUntilClosed'
  BY <1>3, <1>5 DEF HandleInv, ReadsUntilClosed, Live
<1> QED BY <1>4, <1>6, <1>7 DEF HandleInv

-----------------------------------------------------------------------------
\* A client whose call is over has no call, and its handle is one that reads
\* unless it is Closed: the rest follows.
LEMMA CallOver ==
  ASSUME HandleInv, NEW c \in Clients, calling' = [calling EXCEPT ![c] = {}],
         NEW h \in Handles \cup {NoHandle}, handle' = [handle EXCEPT ![c] = h],
         h # NoHandle => (h.reading <=> h.state # "Closed"),
         waiting' \subseteq Requests, calls' = calls, faults' \in 0 .. MaxFaults,
         disturbed' \subseteq Names
  PROVE  HandleInv'
BY DEF HandleInv, TypeOK, CallsMatchStates, ReadsUntilClosed, Live

LEMMA CreateReturnsStep ==
  ASSUME HandleInv, NEW c \in Clients, CreateReturns(c)
  PROVE  HandleInv'
<1>1. PICK r \in calling[c] : Service!ReturnOpen(r) /\ handle' = [handle EXCEPT ![c] = NewHandle(r)]
  BY DEF CreateReturns
<1>2. /\ calling' = [calling EXCEPT ![c] = {}] /\ calls' = calls /\ faults' = faults
      /\ disturbed' = disturbed /\ waiting' = waiting
  BY <1>1 DEF CreateReturns, Service!ReturnOpen
<1>3. r \in Requests
  BY <1>1 DEF HandleInv, TypeOK
<1>4. Service!Device(r) \in Devices
  BY <1>3 DEF Service!Device, Devices, Requests
<1>5. NewHandle(r) \in Handles
  BY <1>3, <1>4 DEF NewHandle, Handles, InterfaceStates, Requests
<1>6. NewHandle(r).reading <=> NewHandle(r).state # "Closed"
  BY DEF NewHandle
<1> QED BY <1>1, <1>2, <1>5, <1>6, CallOver DEF HandleInv, TypeOK

LEMMA AnsweredFacts ==
  ASSUME HandleInv, NEW c \in Clients, NEW op, Answered(c, op)
  PROVE  /\ calling' = [calling EXCEPT ![c] = {}] /\ calls' = calls /\ faults' = faults
         /\ disturbed' = disturbed /\ waiting' = waiting
         /\ handle[c].state = StateDuring(op)
<1>1. PICK r \in calling[c] : r.op = op /\ Service!ReturnControl(r)
  BY DEF Answered
<1> QED BY <1>1 DEF Answered, Service!ReturnControl, HandleInv, CallsMatchStates

LEMMA CloseReturnsStep ==
  ASSUME HandleInv, NEW c \in Clients, CloseReturns(c)
  PROVE  HandleInv'
<1> DEFINE h == IF result'[c] = "Success" THEN Closed(handle[c]) ELSE CloseFailed(handle[c])
<1>1. Answered(c, "close") /\ handle' = [handle EXCEPT ![c] = h]
  BY DEF CloseReturns
<1>2. handle[c].state = "Closing"
  BY <1>1, AnsweredFacts DEF StateDuring
<1>3. handle[c] \in Handles /\ handle[c] # NoHandle
  BY <1>2, HandleShape DEF HandleInv, NoHandle
<1>4. handle[c].reading
  BY <1>2, <1>3 DEF HandleInv, ReadsUntilClosed, Live
<1>5. Closed(handle[c]) \in Handles /\ CloseFailed(handle[c]) \in Handles
  BY <1>3 DEF Closed, CloseFailed, Handles, InterfaceStates
<1>6. /\ Closed(handle[c]).reading = FALSE /\ Closed(handle[c]).state = "Closed"
      /\ CloseFailed(handle[c]).reading /\ CloseFailed(handle[c]).state = "Error"
  BY <1>3, <1>4 DEF Closed, CloseFailed, Handles
<1>7. h \in Handles /\ (h.reading <=> h.state # "Closed")
  BY <1>5, <1>6
<1> HIDE DEF h
<1> QED BY <1>1, <1>7, AnsweredFacts, CallOver DEF HandleInv, TypeOK

LEMMA ReconfigureReturnsStep ==
  ASSUME HandleInv, NEW c \in Clients, ReconfigureReturns(c)
  PROVE  HandleInv'
<1>1. PICK r \in calling[c] :
        /\ Answered(c, "config")
        /\ handle' = [handle EXCEPT ![c].config = IF result'[c] = "Success" THEN r.config ELSE @]
  BY DEF ReconfigureReturns
<1> DEFINE h == [handle[c] EXCEPT !.config = IF result'[c] = "Success" THEN r.config ELSE @]
<1>2. handle[c].state = "Open"
  BY <1>1, AnsweredFacts DEF StateDuring
<1>3. handle[c] \in Handles /\ handle[c] # NoHandle
  BY <1>2, HandleShape DEF HandleInv, NoHandle
<1>4. handle[c].reading
  BY <1>2, <1>3 DEF HandleInv, ReadsUntilClosed, Live
<1>5. r \in Requests /\ r.config \in Configs
  BY <1>1 DEF HandleInv, TypeOK, Requests
<1>6. h \in Handles /\ h.reading /\ h.state = "Open"
  BY <1>2, <1>3, <1>4, <1>5 DEF Handles
<1>7. handle' = [handle EXCEPT ![c] = h]
  BY <1>1
<1>8. h.reading <=> h.state # "Closed"
  BY <1>6
<1>9. /\ calling' = [calling EXCEPT ![c] = {}] /\ calls' = calls /\ faults' = faults
      /\ disturbed' = disturbed /\ waiting' = waiting
  BY <1>1, AnsweredFacts
<1> HIDE DEF h
<1> QED BY <1>6, <1>7, <1>8, <1>9, CallOver DEF HandleInv, TypeOK

LEMMA FaultFacts == ASSUME HandleInv, Fault PROVE faults' \in 0 .. MaxFaults
BY HandleAssumption DEF HandleInv, TypeOK, Fault

LEMMA GiveUpStep ==
  ASSUME HandleInv, NEW c \in Clients, GiveUp(c)
  PROVE  HandleInv'
<1> DEFINE h == IF handle[c].state = "Closing" THEN CloseFailed(handle[c]) ELSE handle[c]
<1>1. /\ Fault /\ calling' = [calling EXCEPT ![c] = {}] /\ calls' = calls /\ waiting' = waiting
      /\ handle' = [handle EXCEPT ![c] = h] /\ disturbed' = disturbed \cup Abandoned(c)
  BY DEF GiveUp, Service!GiveUp
<1>2. handle[c].state = "Closing" => handle[c] \in Handles /\ handle[c].reading
  BY HandleShape DEF HandleInv, NoHandle, ReadsUntilClosed, Live
<1>3. handle[c].state = "Closing" =>
        /\ CloseFailed(handle[c]) \in Handles
        /\ CloseFailed(handle[c]).reading /\ CloseFailed(handle[c]).state = "Error"
  BY <1>2 DEF CloseFailed, Handles, InterfaceStates
<1>4. handle[c] \in Handles \cup {NoHandle}
  BY HandleShape DEF HandleInv
<1>5. handle[c] # NoHandle => (handle[c].reading <=> handle[c].state # "Closed")
  BY DEF HandleInv, ReadsUntilClosed, Live
<1>6. h \in Handles \cup {NoHandle} /\ (h # NoHandle => (h.reading <=> h.state # "Closed"))
  BY <1>3, <1>4, <1>5
<1>7. disturbed' \subseteq Names
  BY <1>1 DEF Abandoned, HandleInv, TypeOK, Requests
<1> HIDE DEF h
<1> QED BY <1>1, <1>6, <1>7, FaultFacts, CallOver DEF HandleInv, TypeOK

LEMMA ExitStep ==
  ASSUME HandleInv, NEW c \in Clients, Exit(c)
  PROVE  HandleInv'
<1>1. /\ Fault /\ calling' = [calling EXCEPT ![c] = {}] /\ calls' = calls /\ waiting' = waiting
      /\ handle' = [handle EXCEPT ![c] = NoHandle]
      /\ disturbed' = disturbed \cup Abandoned(c) \cup
           (IF handle[c] = NoHandle THEN {} ELSE {device.name : device \in handle[c].fd})
  BY DEF Exit, Service!ClientGone
<1>2. Abandoned(c) \subseteq Names
  BY DEF Abandoned, HandleInv, TypeOK, Requests
<1>3. handle[c] # NoHandle => {device.name : device \in handle[c].fd} \subseteq Names
  BY HandleShape DEF HandleInv, Handles, Devices
<1>4. disturbed' \subseteq Names
  BY <1>1, <1>2, <1>3 DEF HandleInv, TypeOK
<1> QED BY <1>1, <1>4, FaultFacts, CallOver DEF HandleInv, TypeOK

LEMMA RestartStep == ASSUME HandleInv, Restart PROVE HandleInv'
<1>1. /\ Fault /\ waiting' = {} /\ disturbed' = Names /\ UNCHANGED <<handle, calling, calls>>
  BY DEF Restart, Service!ServiceLost, clientVars
<1> QED BY <1>1, FaultFacts, ClientsUntouched DEF HandleInv, TypeOK

LEMMA ServeStep ==
  ASSUME HandleInv, NEW r \in waiting, ServeOpen(r) \/ ServeConfig(r) \/ ServeClose(r)
  PROVE  HandleInv'
<1>1. UNCHANGED <<handle, calling, calls, faults, disturbed>>
  BY DEF ServeOpen, ServeConfig, ServeClose, clientVars
<1>2. waiting' \subseteq waiting
  BY DEF ServeOpen, ServeConfig, ServeClose, Service!Open, Service!Config, Service!Close,
         Service!Refuse, Service!Decided
<1> QED BY <1>1, <1>2, ClientsUntouched DEF HandleInv, TypeOK

LEMMA HandleInvStep == HandleInv /\ [Next]_vars => HandleInv'
<1> SUFFICES ASSUME HandleInv, [Next]_vars PROVE HandleInv'
  OBVIOUS
<1>1. CASE ServiceStep
  BY <1>1, RestartStep, ServeStep DEF ServiceStep
<1>2. ASSUME NEW c \in Clients, ClientStep(c) PROVE HandleInv'
  BY <1>2, CreateInterfaceStep, ReconfigureStep, CreateReturnsStep, OpenStep, CloseStep,
     CloseReturnsStep, ReconfigureReturnsStep, GiveUpStep, ExitStep DEF ClientStep
<1>3. CASE UNCHANGED vars
  BY <1>3, ClientsUntouched DEF vars, serviceVars, clientVars, HandleInv, TypeOK
<1> QED BY <1>1, <1>2, <1>3 DEF Next

LEMMA HandleInvHolds == Spec => []HandleInv
BY HandleInvInit, HandleInvStep, PTL DEF Spec

\* Every variable of the handles keeps its type, whatever the configurations.
THEOREM HandleTypeCorrect == Spec => []TypeOK
BY HandleInvHolds, PTL DEF HandleInv

\* InterfaceHandle::close and open: a handle reads exactly until a close()
\* that succeeds, so also after one that failed.
THEOREM ReadsStopOnlyByClose == Spec => []ReadsUntilClosed
BY HandleInvHolds, PTL DEF HandleInv

-----------------------------------------------------------------------------
ErrorKept ==
  \A c \in Clients :
    Live(c) /\ handle[c].state = "Error" => handle'[c] = NoHandle \/ handle'[c] = handle[c]

LEMMA ErrorKeptByStep == HandleInv /\ [Next]_vars => ErrorKept
<1> SUFFICES ASSUME HandleInv, [Next]_vars, NEW c \in Clients, Live(c), handle[c].state = "Error"
             PROVE  handle'[c] = NoHandle \/ handle'[c] = handle[c]
  BY DEF ErrorKept
<1>1. calling[c] = {}
  BY DEF HandleInv, CallsMatchStates, StateDuring
<1>2. handle[c] \in Handles /\ handle[c].reading
  BY HandleShape DEF HandleInv, ReadsUntilClosed, Live
<1>3. ASSUME NEW d \in Clients, ClientStep(d), d # c PROVE handle'[c] = handle[c]
  BY <1>3 DEF ClientStep, CreateInterface, Reconfigure, CreateReturns, Open, Close, CloseReturns,
     ReconfigureReturns, GiveUp, Exit, HandleInv, TypeOK
<1>4. CASE ClientStep(c)
  <2>1. CASE Open(c)
    BY <1>2, <2>1 DEF Open, OpenRefused, HandleInv, TypeOK, Handles
  <2>2. CASE Exit(c)
    BY <2>2 DEF Exit, HandleInv, TypeOK
  <2>3. ~Close(c) /\ ~CreateReturns(c) /\ ~CloseReturns(c) /\ ~ReconfigureReturns(c) /\ ~GiveUp(c)
    BY <1>1 DEF Close, Idle, CreateReturns, CloseReturns, ReconfigureReturns, Answered, GiveUp
  <2>4. \A config \in Configs : ~CreateInterface(c, config) /\ ~Reconfigure(c, config)
    BY DEF CreateInterface, Reconfigure, Idle
  <2> QED BY <1>4, <2>1, <2>2, <2>3, <2>4 DEF ClientStep
<1>5. CASE ServiceStep
  BY <1>5 DEF ServiceStep, Restart, ServeOpen, ServeConfig, ServeClose, clientVars
<1>6. CASE UNCHANGED vars
  BY <1>6 DEF vars, clientVars
<1> QED BY <1>3, <1>4, <1>5, <1>6 DEF Next

\* InterfaceHandle: no call brings a handle out of Error.
THEOREM ErrorsAreForEver == Spec => ErrorIsForEver
BY HandleInvHolds, ErrorKeptByStep, PTL DEF Spec, ErrorIsForEver, ErrorKept

-----------------------------------------------------------------------------
\* The daemon's table.

\* Each client makes one call at a time, each with a request of its own; a
\* request is undecided, decided once, or neither.
RequestsInv ==
  /\ \A c \in Clients : \A r \in calling[c] :
       r.client = c /\ r.id = calls[c] /\ r.name = r.config.path /\ calling[c] = {r}
  /\ \A r \in waiting : r.id <= calls[r.client]
  /\ \A v \in verdicts :
       v[1] \in Requests /\ v[1].id <= calls[v[1].client] /\ v[1] \notin waiting
  /\ \A v, w \in verdicts : v[1] = w[1] => v[2] = w[2]

\* An undecided request has its call, and a call is about its handle's device.
CallsInv ==
  /\ \A r \in waiting : r \in calling[r.client] \/ r.name \in disturbed
  /\ \A c \in Clients : \A r \in calling[c] :
       r.op # "open" =>
         r.name = handle[c].config.path \/ {r.name, handle[c].config.path} \subseteq disturbed

\* Devices are under their own names.
DevicesInv ==
  /\ table \in [Names -> SUBSET Devices]
  /\ \A n \in Names : \A device \in table[n] : device.name = n
  /\ \A c \in Clients : Live(c) =>
       \E device \in Devices :
         /\ handle[c].fd = {device} /\ device.origin[1] = c
         /\ device.name = handle[c].config.path
              \/ {device.name, handle[c].config.path} \subseteq disturbed

\* The device of a handle is in the table until its close is decided.
Holds(c) == ~handle[c].closed /\ table[handle[c].config.path] = handle[c].fd

HeldInv ==
  \A c \in Clients : Live(c) /\ handle[c].config.path \notin disturbed =>
    /\ handle[c].state # "Error"
    /\ handle[c].state = "Open" => Holds(c)
    /\ handle[c].state = "Closed" /\ ~handle[c].closed => Holds(c)
    /\ handle[c].state = "Closing" =>
         /\ ~handle[c].closed
         /\ \A r \in calling[c] :
              /\ r \in waiting => Holds(c)
              /\ \A v \in verdicts : v[1] = r => v[2] = "Success"

\* A successful open is in the table before its call returns.
OpenedInv ==
  \A c \in Clients : \A r \in calling[c] :
    r.op = "open" /\ r.name \notin disturbed /\ <<r, "Success">> \in verdicts =>
      table[r.name] = {Service!Device(r)}

\* A device in the table has its handle or its open call.
TakenInv ==
  \A n \in Names \ disturbed : \A device \in table[n] : \E c \in Clients :
    \/ Live(c) /\ handle[c].fd = {device} /\ handle[c].config.path = n
    \/ \E r \in calling[c] : r.op = "open" /\ Service!Device(r) = device

ResultsInv == DOMAIN result = Clients

NamesInv == CallsInv /\ DevicesInv /\ HeldInv /\ OpenedInv /\ TakenInv

TableInv == HandleInv /\ ResultsInv /\ RequestsInv /\ NamesInv

-----------------------------------------------------------------------------
LEMMA TableInvInit == Init => TableInv
<1> SUFFICES ASSUME Init PROVE TableInv
  OBVIOUS
<1>1. /\ table = [n \in Names |-> {}] /\ waiting = {} /\ verdicts = {}
      /\ handle = [c \in Clients |-> NoHandle] /\ calling = [c \in Clients |-> {}]
  BY DEF Init, Service!Init
<1>2. RequestsInv /\ NamesInv
  BY <1>1 DEF RequestsInv, NamesInv, CallsInv, DevicesInv, HeldInv, OpenedInv, TakenInv, Live
<1>3. ResultsInv
  BY DEF ResultsInv, Init, Service!Init
<1> QED BY <1>2, <1>3, HandleInvInit DEF TableInv

LEMMA ResultsInvStep == ResultsInv /\ [Next]_vars => ResultsInv'
<1> SUFFICES ASSUME ResultsInv, [Next]_vars PROVE ResultsInv'
  OBVIOUS
<1>1. CASE ServiceStep
  BY <1>1 DEF ResultsInv, ServiceStep, Restart, ServeOpen, ServeConfig, ServeClose,
     Service!ServiceLost, Service!Open, Service!Config, Service!Close, Service!Refuse, Service!Decided
<1>2. ASSUME NEW c \in Clients, ClientStep(c) PROVE ResultsInv'
  BY <1>2 DEF ResultsInv, ClientStep, CreateInterface, Reconfigure, CreateReturns, Open, Close,
     CloseReturns, ReconfigureReturns, Answered, GiveUp, Exit, Call, serviceVars, Service!Issue,
     Service!ReturnOpen, Service!ReturnControl, Service!GiveUp, Service!ClientGone
<1>3. CASE UNCHANGED vars
  BY <1>3 DEF ResultsInv, vars, serviceVars
<1> QED BY <1>1, <1>2, <1>3 DEF Next

LEMMA LiveShape ==
  ASSUME TypeOK, NEW c \in Clients, Live(c)
  PROVE  /\ handle[c] \in Handles /\ handle[c].state \in InterfaceStates
         /\ handle[c].config \in Configs /\ handle[c].config.path \in Names
BY HandleShape, HandleAssumption DEF Live, Handles

LEMMA NotLive ==
  ASSUME TypeOK, NEW c \in Clients
  PROVE  ~Live(c) <=> handle[c].state = "none"
BY HandleShape DEF Live

\* A new request is one nobody has heard of.
LEMMA CallEffect ==
  ASSUME TableInv, NEW c \in Clients, NEW op \in {"open", "config", "close"},
         NEW config \in Configs, calling[c] = {}, Call(c, op, config)
  PROVE  /\ RequestsInv'
         /\ \E r \in Requests :
              /\ r.client = c /\ r.op = op /\ r.name = config.path /\ r.config = config
              /\ waiting' = waiting \cup {r} /\ calling' = [calling EXCEPT ![c] = {r}]
              /\ \A v \in verdicts : v[1] # r
              /\ UNCHANGED <<table, verdicts>>
<1> DEFINE r == [client |-> c, id |-> calls[c] + 1, op |-> op,
                 name |-> config.path, config |-> config]
<1>1. calls \in [Clients -> 0 .. MaxCalls] /\ calls[c] < MaxCalls /\ waiting \subseteq Requests
      /\ calling \in [Clients -> SUBSET Requests]
  BY DEF TableInv, HandleInv, TypeOK, Call
<1>2. r \in Requests
  BY <1>1, HandleAssumption DEF Requests
<1>3. /\ waiting' = waiting \cup {r} /\ calling' = [calling EXCEPT ![c] = {r}]
      /\ calls' = [calls EXCEPT ![c] = @ + 1] /\ UNCHANGED <<table, verdicts>>
  BY DEF Call, Service!Issue
<1>4. r.client = c /\ r.id = calls[c] + 1 /\ r.op = op /\ r.name = config.path /\ r.config = config
  OBVIOUS
<1> HIDE DEF r
<1>5. \A v \in verdicts : v[1] # r
  BY <1>1, <1>2, <1>4 DEF TableInv, RequestsInv, Requests
<1>6. \A d \in Clients : calls[d] \in Nat /\ calls'[d] \in Nat /\ calls[d] <= calls'[d]
  BY <1>1, <1>3
<1>7. \A d \in Clients : \A q \in calling'[d] :
        q.client = d /\ q.id = calls'[d] /\ q.name = q.config.path /\ calling'[d] = {q}
  BY <1>1, <1>3, <1>4 DEF TableInv, RequestsInv
<1>8. \A q \in waiting' : q.id <= calls'[q.client]
  BY <1>1, <1>2, <1>3, <1>4, <1>6 DEF TableInv, RequestsInv, Requests
<1>9. \A v \in verdicts' : v[1] \in Requests /\ v[1].id <= calls'[v[1].client] /\ v[1] \notin waiting'
  BY <1>1, <1>3, <1>5, <1>6 DEF TableInv, RequestsInv, Requests
<1>10. \A v, w \in verdicts' : v[1] = w[1] => v[2] = w[2]
  BY <1>3 DEF TableInv, RequestsInv
<1>11. RequestsInv'
  BY <1>7, <1>8, <1>9, <1>10 DEF RequestsInv
<1> QED BY <1>2, <1>3, <1>4, <1>5, <1>11

LEMMA TableCreateInterface ==
  ASSUME TableInv, NEW c \in Clients, NEW config \in Configs, CreateInterface(c, config)
  PROVE  RequestsInv' /\ NamesInv'
<1>1. /\ handle[c].state = "none" /\ calling[c] = {} /\ Call(c, "open", config)
      /\ handle' = handle /\ disturbed' = disturbed
  BY DEF CreateInterface, Idle
<1>2. RequestsInv' /\ TypeOK /\ ~Live(c)
  BY <1>1, CallEffect, NotLive DEF TableInv, HandleInv
<1>3. PICK r \in Requests :
        /\ r.client = c /\ r.op = "open" /\ r.name = config.path
        /\ waiting' = waiting \cup {r} /\ calling' = [calling EXCEPT ![c] = {r}]
        /\ \A v \in verdicts : v[1] # r
        /\ UNCHANGED <<table, verdicts>>
  BY <1>1, CallEffect
<1>4. calling'[c] = {r} /\ \A d \in Clients : d # c => calling'[d] = calling[d]
  BY <1>2, <1>3 DEF TypeOK
<1>5. CallsInv'
  BY <1>1, <1>3, <1>4 DEF TableInv, NamesInv, CallsInv
<1>6. DevicesInv'
  BY <1>1, <1>3 DEF TableInv, NamesInv, DevicesInv, Live
<1>7. HeldInv'
  BY <1>1, <1>2, <1>3, <1>4 DEF TableInv, NamesInv, HeldInv, Holds, Live, RequestsInv
<1>8. OpenedInv'
  BY <1>1, <1>3, <1>4 DEF TableInv, NamesInv, OpenedInv
<1>9. TakenInv'
  BY <1>1, <1>3, <1>4 DEF TableInv, NamesInv, TakenInv, Live
<1> QED BY <1>2, <1>5, <1>6, <1>7, <1>8, <1>9 DEF NamesInv

\* Nothing is taken from a handle or a call: what the table has stays accounted for.
LEMMA TakenKept ==
  ASSUME TakenInv, table' = table, disturbed \subseteq disturbed',
         \A d \in Clients : Live(d) => /\ Live(d)' /\ handle'[d].fd = handle[d].fd
                                       /\ handle'[d].config = handle[d].config,
         \A d \in Clients : calling[d] \subseteq calling'[d]
  PROVE  TakenInv'
<1> SUFFICES ASSUME NEW n \in Names \ disturbed', NEW device \in table[n]
             PROVE  \E d \in Clients :
                      \/ Live(d)' /\ handle'[d].fd = {device} /\ handle'[d].config.path = n
                      \/ \E q \in calling'[d] : q.op = "open" /\ Service!Device(q) = device
  BY DEF TakenInv
<1>1. PICK d \in Clients :
        \/ Live(d) /\ handle[d].fd = {device} /\ handle[d].config.path = n
        \/ \E q \in calling[d] : q.op = "open" /\ Service!Device(q) = device
  BY DEF TakenInv
<1> QED BY <1>1

LEMMA TableClose ==
  ASSUME TableInv, NEW c \in Clients, Close(c)
  PROVE  RequestsInv' /\ NamesInv'
<1>1. /\ handle[c].state = "Open" /\ calling[c] = {} /\ Call(c, "close", handle[c].config)
      /\ handle' = [handle EXCEPT ![c].state = "Closing"] /\ disturbed' = disturbed
  BY DEF Close, Idle
<1>2. TypeOK /\ Live(c) /\ handle[c] \in Handles /\ handle[c].config \in Configs
  BY <1>1, NotLive, LiveShape DEF TableInv, HandleInv
<1>3. RequestsInv'
  BY <1>1, <1>2, CallEffect
<1>4. PICK r \in Requests :
        /\ r.client = c /\ r.op = "close" /\ r.name = handle[c].config.path
        /\ waiting' = waiting \cup {r} /\ calling' = [calling EXCEPT ![c] = {r}]
        /\ \A v \in verdicts : v[1] # r
        /\ UNCHANGED <<table, verdicts>>
  BY <1>1, <1>2, CallEffect
<1>5. calling'[c] = {r} /\ \A d \in Clients : d # c => calling'[d] = calling[d]
  BY <1>2, <1>4 DEF TypeOK
<1>6. /\ handle'[c].state = "Closing" /\ handle'[c].config = handle[c].config
      /\ handle'[c].fd = handle[c].fd /\ handle'[c].closed = handle[c].closed
      /\ \A d \in Clients : d # c => handle'[d] = handle[d]
  BY <1>1, <1>2 DEF TypeOK, Handles
<1>7. CallsInv'
  BY <1>1, <1>4, <1>5, <1>6 DEF TableInv, NamesInv, CallsInv
<1>8. DevicesInv'
  BY <1>1, <1>2, <1>4, <1>6 DEF TableInv, NamesInv, DevicesInv, Live
<1>9. HeldInv'
  <2> SUFFICES ASSUME NEW d \in Clients, Live(d)', handle'[d].config.path \notin disturbed'
               PROVE  /\ handle'[d].state # "Error"
                      /\ handle'[d].state = "Open" => Holds(d)'
                      /\ handle'[d].state = "Closed" /\ ~handle'[d].closed => Holds(d)'
                      /\ handle'[d].state = "Closing" =>
                           /\ ~handle'[d].closed
                           /\ \A q \in calling'[d] :
                                /\ q \in waiting' => Holds(d)'
                                /\ \A v \in verdicts' : v[1] = q => v[2] = "Success"
    BY DEF HeldInv
  <2>1. CASE d = c
    BY <1>1, <1>2, <1>4, <1>5, <1>6, <2>1 DEF TableInv, NamesInv, HeldInv, Holds
  <2>2. CASE d # c
    BY <1>1, <1>4, <1>5, <1>6, <2>2 DEF TableInv, NamesInv, HeldInv, Holds, Live, RequestsInv
  <2> QED BY <2>1, <2>2
<1>10. OpenedInv'
  BY <1>1, <1>4, <1>5 DEF TableInv, NamesInv, OpenedInv
<1>11. \A d \in Clients : Live(d) => Live(d)' /\ handle'[d].fd = handle[d].fd
                                           /\ handle'[d].config = handle[d].config
  BY <1>6 DEF Live, NoHandle
<1>12. \A d \in Clients : calling[d] \subseteq calling'[d]
  BY <1>1, <1>5
<1>13. TakenInv'
  BY <1>1, <1>4, <1>11, <1>12, TakenKept DEF TableInv, NamesInv
<1> QED BY <1>3, <1>13, <1>7, <1>8, <1>9, <1>10, <1>11 DEF NamesInv

LEMMA TableReconfigure ==
  ASSUME TableInv, NEW c \in Clients, NEW config \in Configs, Reconfigure(c, config)
  PROVE  RequestsInv' /\ NamesInv'
<1>1. /\ handle[c].state = "Open" /\ calling[c] = {} /\ Call(c, "config", config)
      /\ handle' = handle /\ disturbed \subseteq disturbed'
      /\ config.path = handle[c].config.path
           \/ {config.path, handle[c].config.path} \subseteq disturbed'
  BY DEF Reconfigure, Idle
<1>2. RequestsInv' /\ TypeOK
  BY <1>1, CallEffect DEF TableInv, HandleInv
<1>3. PICK r \in Requests :
        /\ r.client = c /\ r.op = "config" /\ r.name = config.path
        /\ waiting' = waiting \cup {r} /\ calling' = [calling EXCEPT ![c] = {r}]
        /\ \A v \in verdicts : v[1] # r
        /\ UNCHANGED <<table, verdicts>>
  BY <1>1, CallEffect
<1>4. calling'[c] = {r} /\ \A d \in Clients : d # c => calling'[d] = calling[d]
  BY <1>2, <1>3 DEF TypeOK
<1>5. CallsInv'
  BY <1>1, <1>3, <1>4 DEF TableInv, NamesInv, CallsInv
<1>6. DevicesInv'
  BY <1>1, <1>3 DEF TableInv, NamesInv, DevicesInv, Live
<1>7. HeldInv'
  BY <1>1, <1>3, <1>4 DEF TableInv, NamesInv, HeldInv, Holds, Live, RequestsInv
<1>8. OpenedInv'
  BY <1>1, <1>3, <1>4 DEF TableInv, NamesInv, OpenedInv
<1>9. TakenInv'
  BY <1>1, <1>3, <1>4 DEF TableInv, NamesInv, TakenInv, Live
<1> QED BY <1>2, <1>5, <1>6, <1>7, <1>8, <1>9 DEF NamesInv

LEMMA TableOpen ==
  ASSUME TableInv, NEW c \in Clients, Open(c)
  PROVE  RequestsInv' /\ NamesInv'
<1>1. /\ handle[c].state \in {"Closed", "Error"} /\ calling[c] = {}
      /\ handle' = [handle EXCEPT ![c].state = IF OpenRefused(handle[c]) THEN "Error" ELSE "Open",
                                  ![c].reading = TRUE]
      /\ disturbed' = disturbed \cup (IF handle[c].closed THEN {handle[c].config.path} ELSE {})
      /\ UNCHANGED <<table, waiting, verdicts, calling, calls>>
  BY DEF Open, Idle, serviceVars
<1>2. TypeOK /\ Live(c) /\ handle[c] \in Handles
  BY <1>1, NotLive, LiveShape DEF TableInv, HandleInv
<1>3. handle[c].state = "Closed" => ~OpenRefused(handle[c])
  BY <1>2 DEF OpenRefused, TableInv, HandleInv, ReadsUntilClosed
<1>4. /\ handle'[c].state = (IF OpenRefused(handle[c]) THEN "Error" ELSE "Open")
      /\ handle'[c].config = handle[c].config
      /\ handle'[c].fd = handle[c].fd /\ handle'[c].closed = handle[c].closed
      /\ \A d \in Clients : d # c => handle'[d] = handle[d]
  BY <1>1, <1>2 DEF TypeOK, Handles
<1>5. \A d \in Clients : /\ Live(d)' <=> Live(d)
                         /\ handle'[d].fd = handle[d].fd /\ handle'[d].config = handle[d].config
                         /\ handle'[d].closed = handle[d].closed
  BY <1>2, <1>4 DEF Live, NoHandle
<1>6. /\ UNCHANGED <<table, waiting, verdicts, calling, calls>> /\ disturbed \subseteq disturbed'
      /\ handle[c].closed => handle[c].config.path \in disturbed'
  BY <1>1
<1>7. RequestsInv'
  BY <1>6 DEF TableInv, RequestsInv
<1>8. CallsInv'
  BY <1>5, <1>6 DEF TableInv, NamesInv, CallsInv
<1>9. DevicesInv'
  <2>1. ASSUME NEW d \in Clients, Live(d)'
        PROVE  \E device \in Devices :
                 /\ handle'[d].fd = {device} /\ device.origin[1] = d
                 /\ device.name = handle'[d].config.path
                      \/ {device.name, handle'[d].config.path} \subseteq disturbed'
    <3>1. PICK device \in Devices :
            /\ handle[d].fd = {device} /\ device.origin[1] = d
            /\ device.name = handle[d].config.path
                 \/ {device.name, handle[d].config.path} \subseteq disturbed
      BY <1>5, <2>1 DEF TableInv, NamesInv, DevicesInv
    <3> QED BY <1>5, <1>6, <3>1
  <2> QED BY <1>6, <2>1 DEF TableInv, NamesInv, DevicesInv
<1>10. HeldInv'
  <2> SUFFICES ASSUME NEW d \in Clients, Live(d)', handle'[d].config.path \notin disturbed'
               PROVE  /\ handle'[d].state # "Error"
                      /\ handle'[d].state = "Open" => Holds(d)'
                      /\ handle'[d].state = "Closed" /\ ~handle'[d].closed => Holds(d)'
                      /\ handle'[d].state = "Closing" =>
                           /\ ~handle'[d].closed
                           /\ \A q \in calling'[d] :
                                /\ q \in waiting' => Holds(d)'
                                /\ \A v \in verdicts' : v[1] = q => v[2] = "Success"
    BY DEF HeldInv
  <2>1. Live(d) /\ handle[d].config.path \notin disturbed /\ (Holds(d) => Holds(d)')
    BY <1>5, <1>6 DEF Holds
  <2>2. CASE d = c
    <3>1. handle[c].state = "Closed" /\ ~handle[c].closed
      BY <1>1, <1>5, <1>6, <2>1, <2>2 DEF TableInv, NamesInv, HeldInv
    <3>2. handle'[c].state = "Open" /\ Holds(c)
      BY <1>3, <1>4, <2>1, <2>2, <3>1 DEF TableInv, NamesInv, HeldInv
    <3> QED BY <2>1, <2>2, <3>2
  <2>3. CASE d # c
    BY <1>4, <1>6, <2>1, <2>3 DEF TableInv, NamesInv, HeldInv
  <2> QED BY <2>2, <2>3
<1>11. OpenedInv'
  BY <1>6 DEF TableInv, NamesInv, OpenedInv
<1>12. TakenInv'
  BY <1>5, <1>6, TakenKept DEF TableInv, NamesInv
<1> QED BY <1>7, <1>8, <1>9, <1>10, <1>11, <1>12 DEF NamesInv

-----------------------------------------------------------------------------
\* When a call is over, its answer has been taken or forgotten, and what it
\* leaves undecided is on a disturbed name.
LEMMA RequestsAfterCall ==
  ASSUME TableInv, NEW c \in Clients, calling' = [calling EXCEPT ![c] = {}],
         waiting' = waiting, verdicts' \subseteq verdicts, calls' = calls
  PROVE  RequestsInv'
<1>1. calling'[c] = {} /\ \A d \in Clients : d # c => calling'[d] = calling[d]
  BY DEF TableInv, HandleInv, TypeOK
<1> QED BY <1>1 DEF TableInv, RequestsInv

LEMMA TableCreateReturns ==
  ASSUME TableInv, NEW c \in Clients, CreateReturns(c)
  PROVE  RequestsInv' /\ NamesInv'
<1>1. PICK r \in calling[c] :
        r.op = "open" /\ Service!ReturnOpen(r) /\ handle' = [handle EXCEPT ![c] = NewHandle(r)]
  BY DEF CreateReturns
<1>2. /\ calling' = [calling EXCEPT ![c] = {}] /\ UNCHANGED <<table, waiting, calls, disturbed>>
      /\ <<r, "Success">> \in verdicts /\ verdicts' \subseteq verdicts
  BY <1>1 DEF CreateReturns, Service!ReturnOpen
<1>3. TypeOK /\ r \in Requests /\ r.client = c /\ r.name = r.config.path /\ calling[c] = {r}
  BY <1>1, <1>2 DEF TableInv, HandleInv, TypeOK, RequestsInv
<1>4. r \notin waiting
  BY <1>2 DEF TableInv, RequestsInv
<1>5. calling'[c] = {} /\ \A d \in Clients : d # c => calling'[d] = calling[d]
  BY <1>2, <1>3 DEF TypeOK
<1>6. /\ handle'[c].state = "Closed" /\ handle'[c].config = r.config /\ ~handle'[c].closed
      /\ handle'[c].fd = {Service!Device(r)}
      /\ \A d \in Clients : d # c => handle'[d] = handle[d]
  BY <1>1, <1>3 DEF TypeOK, NewHandle
<1>7. ~Live(c) /\ Live(c)'
  BY <1>1, <1>3, <1>6, NotLive DEF TableInv, HandleInv, CallsMatchStates, StateDuring, Live, NoHandle
<1>8. /\ Service!Device(r) \in Devices /\ Service!Device(r).origin[1] = c
      /\ Service!Device(r).name = r.config.path
  BY <1>3 DEF Service!Device, Devices, Requests
<1>9. r.name \notin disturbed => table[r.name] = {Service!Device(r)}
  BY <1>1, <1>2 DEF TableInv, NamesInv, OpenedInv
<1>10. RequestsInv'
  BY <1>2, RequestsAfterCall
<1>11. CallsInv'
  BY <1>2, <1>3, <1>4, <1>5, <1>6 DEF TableInv, NamesInv, CallsInv
<1>12. DevicesInv'
  BY <1>2, <1>6, <1>8 DEF TableInv, NamesInv, DevicesInv, Live
<1>13. HeldInv'
  <2>1. ASSUME NEW d \in Clients, d # c, Live(d)', handle'[d].config.path \notin disturbed'
        PROVE  /\ handle'[d].state # "Error"
               /\ handle'[d].state = "Open" => Holds(d)'
               /\ handle'[d].state = "Closed" /\ ~handle'[d].closed => Holds(d)'
               /\ handle'[d].state = "Closing" =>
                    /\ ~handle'[d].closed
                    /\ \A q \in calling'[d] :
                         /\ q \in waiting' => Holds(d)'
                         /\ \A v \in verdicts' : v[1] = q => v[2] = "Success"
    BY <1>2, <1>5, <1>6, <2>1 DEF TableInv, NamesInv, HeldInv, Holds, Live
  <2>2. handle'[c].config.path \notin disturbed' => Holds(c)'
    BY <1>2, <1>3, <1>6, <1>9 DEF Holds
  <2> QED BY <1>6, <2>1, <2>2 DEF HeldInv
<1>14. OpenedInv'
  BY <1>2, <1>5 DEF TableInv, NamesInv, OpenedInv
<1>15. TakenInv'
  <2> SUFFICES ASSUME NEW n \in Names \ disturbed, NEW device \in table[n]
               PROVE  \E d \in Clients :
                        \/ Live(d)' /\ handle'[d].fd = {device} /\ handle'[d].config.path = n
                        \/ \E q \in calling'[d] : q.op = "open" /\ Service!Device(q) = device
    BY <1>2 DEF TakenInv
  <2>1. PICK d \in Clients :
          \/ Live(d) /\ handle[d].fd = {device} /\ handle[d].config.path = n
          \/ \E q \in calling[d] : q.op = "open" /\ Service!Device(q) = device
    BY DEF TableInv, NamesInv, TakenInv
  <2>2. CASE d # c
    BY <1>5, <1>6, <2>1, <2>2 DEF Live
  <2>3. CASE d = c
    <3>1. Service!Device(r) = device
      BY <1>3, <1>7, <2>1, <2>3
    <3>2. n = r.config.path
      BY <1>8, <3>1 DEF TableInv, NamesInv, DevicesInv
    <3> QED BY <1>6, <1>7, <3>1, <3>2
  <2> QED BY <2>2, <2>3
<1> QED BY <1>10, <1>11, <1>12, <1>13, <1>14, <1>15 DEF NamesInv

\* A configure or close call takes the one decision of its request.
LEMMA AnswerEffect ==
  ASSUME TableInv, NEW c \in Clients, NEW op, Answered(c, op)
  PROVE  \E r \in calling[c] :
           /\ r.op = op /\ op # "open" /\ r \in Requests /\ calling[c] = {r} /\ r \notin waiting
           /\ \E v \in verdicts : v[1] = r /\ v[2] = result'[c]
           /\ calling' = [calling EXCEPT ![c] = {}] /\ verdicts' \subseteq verdicts
           /\ UNCHANGED <<table, waiting, calls, disturbed>>
<1>1. PICK r \in calling[c] : r.op = op /\ Service!ReturnControl(r)
  BY DEF Answered
<1>2. r \in Requests /\ r.client = c /\ calling[c] = {r}
  BY <1>1 DEF TableInv, HandleInv, TypeOK, RequestsInv
<1>3. PICK w \in verdicts : /\ w[1] = r /\ result' = [result EXCEPT ![r.client] = w[2]]
                            /\ verdicts' = verdicts \ {<<r, w[2]>>}
  BY <1>1 DEF Service!ReturnControl
<1>4. result'[c] = w[2]
  BY <1>2, <1>3 DEF TableInv, ResultsInv
<1>5. r \notin waiting
  BY <1>3 DEF TableInv, RequestsInv
<1>6. UNCHANGED <<table, waiting, calls, disturbed>> /\ op # "open"
      /\ calling' = [calling EXCEPT ![c] = {}]
  BY <1>1 DEF Answered, Service!ReturnControl
<1> QED BY <1>1, <1>2, <1>3, <1>4, <1>5, <1>6

LEMMA TableCloseReturns ==
  ASSUME TableInv, NEW c \in Clients, CloseReturns(c)
  PROVE  RequestsInv' /\ NamesInv'
<1>1. /\ Answered(c, "close")
      /\ handle' = [handle EXCEPT ![c] =
           IF result'[c] = "Success" THEN Closed(@) ELSE CloseFailed(@)]
  BY DEF CloseReturns
<1>2. PICK r \in calling[c] :
        /\ r.op = "close" /\ calling[c] = {r} /\ r \notin waiting
        /\ \E v \in verdicts : v[1] = r /\ v[2] = result'[c]
        /\ calling' = [calling EXCEPT ![c] = {}] /\ verdicts' \subseteq verdicts
        /\ UNCHANGED <<table, waiting, calls, disturbed>>
  BY <1>1, AnswerEffect
<1>3. handle[c].state = "Closing"
  BY <1>2 DEF TableInv, HandleInv, CallsMatchStates, StateDuring
<1>4. TypeOK /\ Live(c) /\ handle[c] \in Handles
  BY <1>3, NotLive, LiveShape DEF TableInv, HandleInv
<1>5. calling'[c] = {} /\ \A d \in Clients : d # c => calling'[d] = calling[d]
  BY <1>2, <1>4 DEF TypeOK
<1>6. /\ handle'[c].config = handle[c].config /\ handle'[c].fd = handle[c].fd
      /\ result'[c] = "Success" => handle'[c].state = "Closed" /\ handle'[c].closed
      /\ result'[c] # "Success" => handle'[c].state = "Error"
      /\ \A d \in Clients : d # c => handle'[d] = handle[d]
  BY <1>1, <1>4 DEF TypeOK, Closed, CloseFailed, Handles
<1>7. handle[c].config.path \notin disturbed => result'[c] = "Success"
  BY <1>2, <1>3, <1>4 DEF TableInv, NamesInv, HeldInv
<1>8. \A d \in Clients : /\ Live(d)' <=> Live(d)
                         /\ handle'[d].fd = handle[d].fd /\ handle'[d].config = handle[d].config
  BY <1>4, <1>6 DEF Live, NoHandle
<1>9. RequestsInv'
  BY <1>2, RequestsAfterCall
<1>10. CallsInv'
  BY <1>2, <1>5, <1>8 DEF TableInv, NamesInv, CallsInv
<1>11. DevicesInv'
  BY <1>2, <1>8 DEF TableInv, NamesInv, DevicesInv
<1>12. HeldInv'
  BY <1>2, <1>5, <1>6, <1>7, <1>8 DEF TableInv, NamesInv, HeldInv, Holds
<1>13. OpenedInv'
  BY <1>2, <1>5 DEF TableInv, NamesInv, OpenedInv
<1>14. TakenInv'
  <2> SUFFICES ASSUME NEW n \in Names \ disturbed, NEW device \in table[n]
               PROVE  \E d \in Clients :
                        \/ Live(d)' /\ handle'[d].fd = {device} /\ handle'[d].config.path = n
                        \/ \E q \in calling'[d] : q.op = "open" /\ Service!Device(q) = device
    BY <1>2 DEF TakenInv
  <2>1. PICK d \in Clients :
          \/ Live(d) /\ handle[d].fd = {device} /\ handle[d].config.path = n
          \/ \E q \in calling[d] : q.op = "open" /\ Service!Device(q) = device
    BY DEF TableInv, NamesInv, TakenInv
  <2> QED BY <1>2, <1>5, <1>8, <2>1
<1> QED BY <1>9, <1>10, <1>11, <1>12, <1>13, <1>14 DEF NamesInv

LEMMA TableReconfigureReturns ==
  ASSUME TableInv, NEW c \in Clients, ReconfigureReturns(c)
  PROVE  RequestsInv' /\ NamesInv'
<1>1. PICK q \in calling[c] :
        /\ Answered(c, "config")
        /\ handle' = [handle EXCEPT ![c].config = IF result'[c] = "Success" THEN q.config ELSE @]
  BY DEF ReconfigureReturns
<1>2. PICK r \in calling[c] :
        /\ r.op = "config" /\ calling[c] = {r} /\ r \notin waiting
        /\ calling' = [calling EXCEPT ![c] = {}] /\ verdicts' \subseteq verdicts
        /\ UNCHANGED <<table, waiting, calls, disturbed>>
  BY <1>1, AnswerEffect
<1>3. handle[c].state = "Open" /\ q = r /\ r.name = r.config.path
  BY <1>2 DEF TableInv, HandleInv, CallsMatchStates, StateDuring, RequestsInv
<1>4. TypeOK /\ Live(c) /\ handle[c] \in Handles
  BY <1>3, NotLive, LiveShape DEF TableInv, HandleInv
<1>5. calling'[c] = {} /\ \A d \in Clients : d # c => calling'[d] = calling[d]
  BY <1>2, <1>4 DEF TypeOK
<1>6. /\ handle'[c].state = "Open" /\ handle'[c].fd = handle[c].fd
      /\ handle'[c].closed = handle[c].closed
      /\ handle'[c].config \in {handle[c].config, r.config}
      /\ \A d \in Clients : d # c => handle'[d] = handle[d]
  BY <1>1, <1>3, <1>4 DEF TypeOK, Handles
<1>7. r.name = handle[c].config.path \/ {r.name, handle[c].config.path} \subseteq disturbed
  BY <1>2 DEF TableInv, NamesInv, CallsInv
<1>8. handle'[c].config.path = handle[c].config.path
        \/ {handle'[c].config.path, handle[c].config.path} \subseteq disturbed
  BY <1>3, <1>6, <1>7
<1>9. Live(c)'
  BY <1>6 DEF Live, NoHandle
<1>10. RequestsInv'
  BY <1>2, RequestsAfterCall
<1>11. CallsInv'
  BY <1>2, <1>5, <1>6 DEF TableInv, NamesInv, CallsInv
<1>12. DevicesInv'
  <2>1. PICK device \in Devices :
          /\ handle[c].fd = {device} /\ device.origin[1] = c
          /\ device.name = handle[c].config.path
               \/ {device.name, handle[c].config.path} \subseteq disturbed
    BY <1>4 DEF TableInv, NamesInv, DevicesInv
  <2>2. /\ handle'[c].fd = {device} /\ device.origin[1] = c
        /\ device.name = handle'[c].config.path
             \/ {device.name, handle'[c].config.path} \subseteq disturbed
    BY <1>6, <1>8, <2>1
  <2> QED BY <1>2, <1>6, <2>2 DEF TableInv, NamesInv, DevicesInv, Live
<1>13. HeldInv'
  <2>1. handle'[c].config.path \notin disturbed => Holds(c)'
    BY <1>2, <1>3, <1>4, <1>6, <1>8 DEF TableInv, NamesInv, HeldInv, Holds
  <2>2. ASSUME NEW d \in Clients, d # c, Live(d)', handle'[d].config.path \notin disturbed'
        PROVE  /\ handle'[d].state # "Error"
               /\ handle'[d].state = "Open" => Holds(d)'
               /\ handle'[d].state = "Closed" /\ ~handle'[d].closed => Holds(d)'
               /\ handle'[d].state = "Closing" =>
                    /\ ~handle'[d].closed
                    /\ \A p \in calling'[d] :
                         /\ p \in waiting' => Holds(d)'
                         /\ \A v \in verdicts' : v[1] = p => v[2] = "Success"
    BY <1>2, <1>5, <1>6, <2>2 DEF TableInv, NamesInv, HeldInv, Holds, Live
  <2> QED BY <1>2, <1>6, <2>1, <2>2 DEF HeldInv
<1>14. OpenedInv'
  BY <1>2, <1>5 DEF TableInv, NamesInv, OpenedInv
<1>15. TakenInv'
  <2> SUFFICES ASSUME NEW n \in Names \ disturbed, NEW device \in table[n]
               PROVE  \E d \in Clients :
                        \/ Live(d)' /\ handle'[d].fd = {device} /\ handle'[d].config.path = n
                        \/ \E p \in calling'[d] : p.op = "open" /\ Service!Device(p) = device
    BY <1>2 DEF TakenInv
  <2>1. PICK d \in Clients :
          \/ Live(d) /\ handle[d].fd = {device} /\ handle[d].config.path = n
          \/ \E p \in calling[d] : p.op = "open" /\ Service!Device(p) = device
    BY DEF TableInv, NamesInv, TakenInv
  <2>2. CASE d = c
    BY <1>2, <1>6, <1>8, <1>9, <2>1, <2>2
  <2>3. CASE d # c
    BY <1>5, <1>6, <2>1, <2>3 DEF Live
  <2> QED BY <2>2, <2>3
<1> QED BY <1>10, <1>11, <1>12, <1>13, <1>14, <1>15 DEF NamesInv

-----------------------------------------------------------------------------
\* A client is left without a call and perhaps without its handle; the names it
\* leaves unsettled are disturbed.
LEMMA CallDropped ==
  ASSUME TableInv, NEW c \in Clients,
         calling' = [calling EXCEPT ![c] = {}], UNCHANGED <<table, waiting, calls>>,
         verdicts' \subseteq verdicts, disturbed \subseteq disturbed', Abandoned(c) \subseteq disturbed',
         \A d \in Clients : d # c => handle'[d] = handle[d],
         \/ Live(c)' /\ Live(c) /\ handle'[c].fd = handle[c].fd
             /\ handle'[c].config = handle[c].config /\ handle'[c].closed = handle[c].closed
             /\ \/ handle'[c].state = handle[c].state /\ handle[c].state # "Closing"
                \/ handle'[c].config.path \in disturbed'
         \/ ~Live(c)' /\ (Live(c) => {device.name : device \in handle[c].fd} \subseteq disturbed')
  PROVE  RequestsInv' /\ NamesInv'
<1>1. calling'[c] = {} /\ \A d \in Clients : d # c => calling'[d] = calling[d]
  BY DEF TableInv, HandleInv, TypeOK
<1>2. \A r \in calling[c] : r.name \in disturbed'
  BY DEF Abandoned
<1>3. RequestsInv'
  BY RequestsAfterCall
<1>4. CallsInv'
  <2>1. \A r \in waiting : r \in calling'[r.client] \/ r.name \in disturbed'
    BY <1>1, <1>2 DEF TableInv, NamesInv, CallsInv, HandleInv, TypeOK, Requests
  <2>2. \A d \in Clients : \A r \in calling'[d] :
          r.op # "open" =>
            r.name = handle'[d].config.path \/ {r.name, handle'[d].config.path} \subseteq disturbed'
    BY <1>1 DEF TableInv, NamesInv, CallsInv
  <2> QED BY <2>1, <2>2 DEF CallsInv
<1>5. DevicesInv'
  <2>1. \A d \in Clients : Live(d)' => Live(d) /\ handle'[d].fd = handle[d].fd
                                             /\ handle'[d].config = handle[d].config
    BY DEF Live
  <2>2. ASSUME NEW d \in Clients, Live(d)'
        PROVE  \E device \in Devices :
                 /\ handle'[d].fd = {device} /\ device.origin[1] = d
                 /\ device.name = handle'[d].config.path
                      \/ {device.name, handle'[d].config.path} \subseteq disturbed'
    <3>1. PICK device \in Devices :
            /\ handle[d].fd = {device} /\ device.origin[1] = d
            /\ device.name = handle[d].config.path
                 \/ {device.name, handle[d].config.path} \subseteq disturbed
      BY <2>1, <2>2 DEF TableInv, NamesInv, DevicesInv
    <3> QED BY <2>1, <2>2, <3>1
  <2> QED BY <2>2 DEF TableInv, NamesInv, DevicesInv
<1>6. HeldInv'
  <2>1. ASSUME NEW d \in Clients, d # c, Live(d)', handle'[d].config.path \notin disturbed'
        PROVE  /\ handle'[d].state # "Error"
               /\ handle'[d].state = "Open" => Holds(d)'
               /\ handle'[d].state = "Closed" /\ ~handle'[d].closed => Holds(d)'
               /\ handle'[d].state = "Closing" =>
                    /\ ~handle'[d].closed
                    /\ \A q \in calling'[d] :
                         /\ q \in waiting' => Holds(d)'
                         /\ \A v \in verdicts' : v[1] = q => v[2] = "Success"
    <3>1. Live(d) /\ handle[d].config.path \notin disturbed /\ (Holds(d) => Holds(d)')
      BY <2>1 DEF Live, Holds
    <3> QED BY <1>1, <2>1, <3>1 DEF TableInv, NamesInv, HeldInv
  <2>2. ASSUME Live(c)', handle'[c].config.path \notin disturbed'
        PROVE  /\ handle'[c].state # "Error" /\ handle'[c].state # "Closing"
               /\ handle'[c].state = "Open" => Holds(c)'
               /\ handle'[c].state = "Closed" /\ ~handle'[c].closed => Holds(c)'
    <3>1. Live(c) /\ handle[c].config.path \notin disturbed /\ (Holds(c) => Holds(c)')
      BY <2>2 DEF Holds
    <3>2. handle'[c].state = handle[c].state /\ handle[c].state # "Closing"
          /\ handle'[c].closed = handle[c].closed
      BY <2>2
    <3> QED BY <3>1, <3>2 DEF TableInv, NamesInv, HeldInv
  <2> QED BY <2>1, <2>2 DEF HeldInv
<1>7. OpenedInv'
  BY <1>1 DEF TableInv, NamesInv, OpenedInv
<1>8. TakenInv'
  <2> SUFFICES ASSUME NEW n \in Names \ disturbed', NEW device \in table'[n]
               PROVE  \E d \in Clients :
                        \/ Live(d)' /\ handle'[d].fd = {device} /\ handle'[d].config.path = n
                        \/ \E q \in calling'[d] : q.op = "open" /\ Service!Device(q) = device
    BY DEF TakenInv
  <2>1. PICK d \in Clients :
          \/ Live(d) /\ handle[d].fd = {device} /\ handle[d].config.path = n
          \/ \E q \in calling[d] : q.op = "open" /\ Service!Device(q) = device
    BY DEF TableInv, NamesInv, TakenInv
  <2>2. CASE d # c
    BY <1>1, <2>1, <2>2 DEF Live
  <2>3. CASE d = c
    <3>1. device.name = n
      BY DEF TableInv, NamesInv, DevicesInv
    <3>2. \A q \in calling[c] : Service!Device(q) # device
      BY <1>2, <3>1 DEF Service!Device
    <3>3. Live(c) /\ handle[c].fd = {device} /\ handle[c].config.path = n
      BY <2>1, <2>3, <3>2
    <3>4. Live(c)'
      BY <3>1, <3>3
    <3> QED BY <3>3, <3>4
  <2> QED BY <2>2, <2>3
<1> QED BY <1>3, <1>4, <1>5, <1>6, <1>7, <1>8 DEF NamesInv

LEMMA TableGiveUp ==
  ASSUME TableInv, NEW c \in Clients, GiveUp(c)
  PROVE  RequestsInv' /\ NamesInv'
<1>1. /\ calling' = [calling EXCEPT ![c] = {}] /\ UNCHANGED <<table, waiting, calls>>
      /\ disturbed' = disturbed \cup Abandoned(c) /\ verdicts' \subseteq verdicts
  BY DEF GiveUp, Service!GiveUp, Forget
<1>2. handle' = [handle EXCEPT ![c] = IF @.state = "Closing" THEN CloseFailed(@) ELSE @]
  BY DEF GiveUp
<1>3. TypeOK /\ \A d \in Clients : d # c => handle'[d] = handle[d]
  BY <1>2 DEF TableInv, HandleInv, TypeOK
<1>4. PICK r \in calling[c] : TRUE
  BY DEF GiveUp
<1>5. CASE ~Live(c)
  BY <1>1, <1>2, <1>3, <1>5, NotLive, CallDropped DEF TypeOK, Live, NoHandle
<1>6. CASE Live(c) /\ handle[c].state # "Closing"
  <2>1. handle'[c] = handle[c] /\ Live(c)'
    BY <1>2, <1>3, <1>6 DEF TypeOK, Live
  <2> QED BY <1>1, <1>3, <1>6, <2>1, CallDropped
<1>7. CASE Live(c) /\ handle[c].state = "Closing"
  <2>1. handle[c] \in Handles
    BY <1>3, <1>7, LiveShape
  <2>2. /\ handle'[c].fd = handle[c].fd /\ handle'[c].config = handle[c].config
        /\ handle'[c].closed = handle[c].closed /\ handle'[c].state = "Error"
    BY <1>2, <1>3, <1>7, <2>1 DEF TypeOK, CloseFailed, Handles
  <2>3. Live(c)'
    BY <2>2 DEF Live, NoHandle
  <2>4. r.op # "open" /\ r.name \in disturbed'
    BY <1>1, <1>4, <1>7 DEF TableInv, HandleInv, CallsMatchStates, StateDuring, Abandoned
  <2>5. handle[c].config.path \in disturbed'
    BY <1>1, <1>4, <2>4 DEF TableInv, NamesInv, CallsInv
  <2> QED BY <1>1, <1>3, <1>7, <2>2, <2>3, <2>5, CallDropped
<1> QED BY <1>5, <1>6, <1>7

LEMMA TableExit ==
  ASSUME TableInv, NEW c \in Clients, Exit(c)
  PROVE  RequestsInv' /\ NamesInv'
<1>1. /\ calling' = [calling EXCEPT ![c] = {}] /\ UNCHANGED <<table, waiting, calls>>
      /\ verdicts' \subseteq verdicts
      /\ handle' = [handle EXCEPT ![c] = NoHandle]
      /\ disturbed' = disturbed \cup Abandoned(c) \cup
           (IF handle[c] = NoHandle THEN {} ELSE {device.name : device \in handle[c].fd})
  BY DEF Exit, Service!ClientGone, Forget
<1>2. ~Live(c)' /\ \A d \in Clients : d # c => handle'[d] = handle[d]
  BY <1>1 DEF TableInv, HandleInv, TypeOK, Live
<1>3. Live(c) => {device.name : device \in handle[c].fd} \subseteq disturbed'
  BY <1>1 DEF Live
<1>4. disturbed \subseteq disturbed' /\ Abandoned(c) \subseteq disturbed'
  BY <1>1
<1> QED BY <1>1, <1>2, <1>3, <1>4, CallDropped

LEMMA TableRestart == ASSUME TableInv, Restart PROVE RequestsInv' /\ NamesInv'
<1>1. /\ table' = [n \in Names |-> {}] /\ waiting' = {} /\ disturbed' = Names
      /\ UNCHANGED <<verdicts, handle, calling, calls>>
  BY DEF Restart, Service!ServiceLost, clientVars
<1>2. TypeOK /\ disturbed \subseteq Names
  BY DEF TableInv, HandleInv, TypeOK
<1>3. \A c \in Clients : \A r \in calling[c] : r.name \in Names
  BY <1>2 DEF TypeOK, Requests
<1>4. \A c \in Clients : Live(c) => handle[c].config.path \in Names
  BY <1>2, LiveShape
<1>5. RequestsInv'
  BY <1>1 DEF TableInv, RequestsInv
<1>6. CallsInv'
  BY <1>1, <1>2 DEF TableInv, NamesInv, CallsInv
<1>7. DevicesInv'
  <2>1. \A c \in Clients : Live(c) =>
          \E device \in Devices :
            /\ handle[c].fd = {device} /\ device.origin[1] = c
            /\ device.name = handle[c].config.path
                 \/ {device.name, handle[c].config.path} \subseteq Names
    BY <1>2 DEF TableInv, NamesInv, DevicesInv
  <2> QED BY <1>1, <2>1 DEF DevicesInv, Live
<1>8. HeldInv' /\ OpenedInv' /\ TakenInv'
  BY <1>1, <1>3, <1>4 DEF HeldInv, OpenedInv, TakenInv, Live
<1> QED BY <1>5, <1>6, <1>7, <1>8 DEF NamesInv

-----------------------------------------------------------------------------
LEMMA RequestsDecided ==
  ASSUME TableInv, NEW r \in waiting, NEW v, waiting' = waiting \ {r},
         verdicts' = verdicts \cup {<<r, v>>}, UNCHANGED <<calling, calls>>
  PROVE  RequestsInv'
<1>1. r \in Requests
  BY DEF TableInv, HandleInv, TypeOK
<1> QED BY <1>1 DEF TableInv, RequestsInv

\* A decision that leaves the table as it is.
LEMMA TableKept ==
  ASSUME TableInv, NEW r \in waiting, NEW v, waiting' = waiting \ {r},
         verdicts' = verdicts \cup {<<r, v>>},
         UNCHANGED <<table, handle, calling, calls, disturbed>>,
         r.op = "open" => v # "Success",
         r.op = "close" => table[r.name] = {}
  PROVE  RequestsInv' /\ NamesInv'
<1>1. RequestsInv'
  BY RequestsDecided
<1>2. CallsInv'
  BY DEF TableInv, NamesInv, CallsInv
<1>3. DevicesInv'
  BY DEF TableInv, NamesInv, DevicesInv, Live
<1>4. HeldInv'
  <2> SUFFICES ASSUME NEW d \in Clients, Live(d), handle[d].config.path \notin disturbed,
                      handle[d].state = "Closing", NEW q \in calling[d],
                      NEW w \in verdicts', w[1] = q
               PROVE  w[2] = "Success"
    BY DEF TableInv, NamesInv, HeldInv, Holds, Live
  <2>1. CASE w \in verdicts
    BY <2>1 DEF TableInv, NamesInv, HeldInv
  <2>2. CASE q = r
    <3>1. r.op = "close"
      BY <2>2 DEF TableInv, HandleInv, TypeOK, CallsMatchStates, StateDuring, Requests
    <3>2. r.name = handle[d].config.path
      BY <2>2, <3>1 DEF TableInv, NamesInv, CallsInv
    <3>3. table[r.name] = handle[d].fd
      BY <2>2, <3>2 DEF TableInv, NamesInv, HeldInv, Holds
    <3>4. handle[d].fd # {}
      BY DEF TableInv, NamesInv, DevicesInv
    <3> QED BY <3>1, <3>3, <3>4
  <2> QED BY <2>1, <2>2
<1>5. OpenedInv'
  BY DEF TableInv, NamesInv, OpenedInv
<1>6. TakenInv'
  BY DEF TableInv, NamesInv, TakenInv, Live
<1> QED BY <1>1, <1>2, <1>3, <1>4, <1>5, <1>6 DEF NamesInv

\* A device comes into the table: no handle had one there, and the open call
\* waits for it.
LEMMA TableOpened ==
  ASSUME TableInv, NEW r \in waiting, Service!Open(r),
         UNCHANGED <<handle, calling, calls, disturbed>>
  PROVE  RequestsInv' /\ NamesInv'
<1>1. /\ r.op = "open" /\ table[r.name] = {} /\ waiting' = waiting \ {r}
      /\ verdicts' = verdicts \cup {<<r, "Success">>}
      /\ table' = [table EXCEPT ![r.name] = {Service!Device(r)}]
  BY DEF Service!Open, Service!Decided
<1>2. r \in Requests /\ r.name \in Names /\ table \in [Names -> SUBSET Devices]
  BY DEF TableInv, HandleInv, TypeOK, Requests, NamesInv, DevicesInv
<1>3. /\ table'[r.name] = {Service!Device(r)}
      /\ \A n \in Names : n # r.name => table'[n] = table[n]
  BY <1>1, <1>2
<1>4. Service!Device(r) \in Devices /\ Service!Device(r).name = r.name
  BY <1>2 DEF Service!Device, Devices, Requests
<1>5. \A d \in Clients : Live(d) => handle[d].fd # {} /\ handle[d].config.path \in Names
  BY LiveShape DEF TableInv, HandleInv, NamesInv, DevicesInv
<1>6. \A d \in Clients : Live(d) /\ Holds(d) => handle[d].config.path # r.name /\ Holds(d)'
  BY <1>1, <1>3, <1>5 DEF Holds
<1>7. RequestsInv'
  BY <1>1, RequestsDecided
<1>8. CallsInv'
  BY <1>1 DEF TableInv, NamesInv, CallsInv
<1>9. DevicesInv'
  <2>1. table' \in [Names -> SUBSET Devices]
    BY <1>1, <1>2, <1>4
  <2>2. \A n \in Names : \A device \in table'[n] : device.name = n
    BY <1>3, <1>4 DEF TableInv, NamesInv, DevicesInv
  <2> QED BY <2>1, <2>2 DEF TableInv, NamesInv, DevicesInv, Live
<1>10. HeldInv'
  <2> SUFFICES ASSUME NEW d \in Clients, Live(d), handle[d].config.path \notin disturbed
               PROVE  /\ handle[d].state # "Error"
                      /\ handle[d].state = "Open" => Holds(d)'
                      /\ handle[d].state = "Closed" /\ ~handle[d].closed => Holds(d)'
                      /\ handle[d].state = "Closing" =>
                           /\ ~handle[d].closed
                           /\ \A q \in calling[d] :
                                /\ q \in waiting' => Holds(d)'
                                /\ \A v \in verdicts' : v[1] = q => v[2] = "Success"
    BY DEF HeldInv, Live
  <2> QED BY <1>1, <1>6 DEF TableInv, NamesInv, HeldInv
<1>11. OpenedInv'
  <2> SUFFICES ASSUME NEW d \in Clients, NEW q \in calling[d], q.op = "open",
                      q.name \notin disturbed, <<q, "Success">> \in verdicts'
               PROVE  table'[q.name] = {Service!Device(q)}
    BY DEF OpenedInv
  <2>1. CASE q = r
    BY <1>3, <2>1
  <2>2. CASE q # r
    <3>1. table[q.name] = {Service!Device(q)}
      BY <1>1, <2>2 DEF TableInv, NamesInv, OpenedInv
    <3>2. q.name \in Names
      BY DEF TableInv, HandleInv, TypeOK, Requests
    <3> QED BY <1>1, <1>3, <3>1, <3>2
  <2> QED BY <2>1, <2>2
<1>12. TakenInv'
  <2> SUFFICES ASSUME NEW n \in Names \ disturbed, NEW device \in table'[n]
               PROVE  \E d \in Clients :
                        \/ Live(d) /\ handle[d].fd = {device} /\ handle[d].config.path = n
                        \/ \E q \in calling[d] : q.op = "open" /\ Service!Device(q) = device
    BY DEF TakenInv, Live
  <2>1. CASE n # r.name
    BY <1>3, <2>1 DEF TableInv, NamesInv, TakenInv
  <2>2. CASE n = r.name
    <3>1. r \in calling[r.client] /\ r.client \in Clients
      BY <1>2, <2>2 DEF TableInv, NamesInv, CallsInv, Requests
    <3> QED BY <1>1, <1>3, <2>2, <3>1
  <2> QED BY <2>1, <2>2
<1> QED BY <1>7, <1>8, <1>9, <1>10, <1>11, <1>12 DEF NamesInv

\* A close that is decided is the one of the handle whose device the table has.
LEMMA TableClosed ==
  ASSUME TableInv, NEW r \in waiting, Service!Close(r),
         UNCHANGED <<handle, calling, calls, disturbed>>
  PROVE  RequestsInv' /\ NamesInv'
<1>1. /\ r.op = "close" /\ waiting' = waiting \ {r}
      /\ verdicts' = verdicts \cup {<<r, "Success">>}
      /\ table' = [table EXCEPT ![r.name] = {}]
  BY DEF Service!Close, Service!Decided
<1>2. r \in Requests /\ r.name \in Names /\ r.client \in Clients
      /\ table \in [Names -> SUBSET Devices]
  BY DEF TableInv, HandleInv, TypeOK, Requests, NamesInv, DevicesInv
<1>3. table'[r.name] = {} /\ \A n \in Names : n # r.name => table'[n] = table[n]
  BY <1>1, <1>2
<1>4. ASSUME r.name \notin disturbed
      PROVE  /\ calling[r.client] = {r} /\ handle[r.client].state = "Closing"
             /\ Live(r.client) /\ table[r.name] = handle[r.client].fd
  <2>1. r \in calling[r.client]
    BY <1>4 DEF TableInv, NamesInv, CallsInv
  <2>2. calling[r.client] = {r} /\ handle[r.client].state = "Closing"
    BY <1>1, <1>2, <2>1 DEF TableInv, RequestsInv, HandleInv, CallsMatchStates, StateDuring
  <2>3. Live(r.client)
    BY <2>2 DEF Live, NoHandle
  <2>4. r.name = handle[r.client].config.path
    BY <1>1, <1>2, <1>4, <2>1 DEF TableInv, NamesInv, CallsInv
  <2> QED BY <1>2, <1>4, <2>1, <2>2, <2>3, <2>4 DEF TableInv, NamesInv, HeldInv, Holds
<1>5. ASSUME NEW d \in Clients, Live(d), Holds(d), handle[d].config.path \notin disturbed
      PROVE  handle[d].config.path = r.name => d = r.client
  <2>1. \A c \in Clients : Live(c) => \E device \in Devices :
                                        handle[c].fd = {device} /\ device.origin[1] = c
    BY DEF TableInv, NamesInv, DevicesInv
  <2> QED BY <1>2, <1>4, <1>5, <2>1 DEF Holds
<1>6. \A d \in Clients : Live(d) => handle[d].config.path \in Names
  BY LiveShape DEF TableInv, HandleInv
<1>7. RequestsInv'
  BY <1>1, RequestsDecided
<1>8. CallsInv'
  BY <1>1 DEF TableInv, NamesInv, CallsInv
<1>9. DevicesInv'
  <2>1. table' \in [Names -> SUBSET Devices]
    BY <1>1, <1>2
  <2>2. \A n \in Names : \A device \in table'[n] : device.name = n
    BY <1>3 DEF TableInv, NamesInv, DevicesInv
  <2> QED BY <2>1, <2>2 DEF TableInv, NamesInv, DevicesInv, Live
<1>10. HeldInv'
  <2> SUFFICES ASSUME NEW d \in Clients, Live(d), handle[d].config.path \notin disturbed
               PROVE  /\ handle[d].state # "Error"
                      /\ handle[d].state = "Open" => Holds(d)'
                      /\ handle[d].state = "Closed" /\ ~handle[d].closed => Holds(d)'
                      /\ handle[d].state = "Closing" =>
                           /\ ~handle[d].closed
                           /\ \A q \in calling[d] :
                                /\ q \in waiting' => Holds(d)'
                                /\ \A v \in verdicts' : v[1] = q => v[2] = "Success"
    BY DEF HeldInv, Live
  <2>1. Holds(d) /\ handle[d].config.path # r.name => Holds(d)'
    BY <1>3, <1>6 DEF Holds
  <2>2. CASE handle[d].config.path # r.name
    BY <1>1, <2>1, <2>2 DEF TableInv, NamesInv, HeldInv
  <2>3. CASE handle[d].config.path = r.name
    <3>1. calling[r.client] = {r} /\ handle[r.client].state = "Closing"
      BY <1>4, <2>3
    <3>2. Holds(d) => d = r.client
      BY <1>5, <2>3
    <3>3. /\ handle[d].state # "Error" /\ handle[d].state # "Open"
          /\ handle[d].state = "Closed" => handle[d].closed
          /\ handle[d].state = "Closing" => ~handle[d].closed
      BY <3>1, <3>2 DEF TableInv, NamesInv, HeldInv, Holds
    <3>4. ASSUME handle[d].state = "Closing", NEW q \in calling[d]
          PROVE  q \notin waiting' /\ \A v \in verdicts' : v[1] = q => v[2] = "Success"
      BY <1>1, <3>1, <3>2, <3>4 DEF TableInv, NamesInv, HeldInv
    <3> QED BY <3>3, <3>4
  <2> QED BY <2>2, <2>3
<1>11. OpenedInv'
  <2> SUFFICES ASSUME NEW d \in Clients, NEW q \in calling[d], q.op = "open",
                      q.name \notin disturbed, <<q, "Success">> \in verdicts'
               PROVE  table'[q.name] = {Service!Device(q)}
    BY DEF OpenedInv
  <2>1. table[q.name] = {Service!Device(q)} /\ q.name \in Names /\ q.client = d
    BY <1>1 DEF TableInv, NamesInv, OpenedInv, HandleInv, TypeOK, Requests, RequestsInv
  <2>2. Service!Device(q).origin[1] = d
    BY <2>1 DEF Service!Device
  <2>3. q.name # r.name
    <3> SUFFICES ASSUME q.name = r.name PROVE FALSE
      OBVIOUS
    <3>1. calling[r.client] = {r} /\ Live(r.client) /\ handle[r.client].fd = {Service!Device(q)}
      BY <1>4, <2>1
    <3>2. r.client = d
      BY <1>2, <2>2, <3>1 DEF TableInv, NamesInv, DevicesInv
    <3> QED BY <1>1, <3>1, <3>2
  <2> QED BY <1>3, <2>1, <2>3
<1>12. TakenInv'
  <2> SUFFICES ASSUME NEW n \in Names \ disturbed, NEW device \in table'[n]
               PROVE  \E d \in Clients :
                        \/ Live(d) /\ handle[d].fd = {device} /\ handle[d].config.path = n
                        \/ \E q \in calling[d] : q.op = "open" /\ Service!Device(q) = device
    BY DEF TakenInv, Live
  <2> QED BY <1>3 DEF TableInv, NamesInv, TakenInv
<1> QED BY <1>7, <1>8, <1>9, <1>10, <1>11, <1>12 DEF NamesInv

LEMMA TableServe ==
  ASSUME TableInv, NEW r \in waiting, ServeOpen(r) \/ ServeConfig(r) \/ ServeClose(r)
  PROVE  RequestsInv' /\ NamesInv'
<1>1. UNCHANGED <<handle, calling, calls, disturbed>>
  BY DEF ServeOpen, ServeConfig, ServeClose, clientVars
<1>2. CASE Service!Open(r)
  BY <1>1, <1>2, TableOpened
<1>3. CASE Service!Close(r)
  BY <1>1, <1>3, TableClosed
<1>4. CASE Service!Config(r)
  BY <1>1, <1>4, TableKept DEF Service!Config, Service!Decided
<1>5. CASE Service!Refuse(r)
  <2>1. PICK v : /\ waiting' = waiting \ {r} /\ verdicts' = verdicts \cup {<<r, v>>}
                 /\ v # "Success" /\ (r.op = "close" => table[r.name] = {})
    BY <1>5 DEF Service!Refuse, Service!Decided
  <2>2. table' = table
    BY <1>5 DEF Service!Refuse
  <2> QED BY <1>1, <2>1, <2>2, TableKept
<1> QED BY <1>2, <1>3, <1>4, <1>5 DEF ServeOpen, ServeConfig, ServeClose

LEMMA TableInvStep == TableInv /\ [Next]_vars => TableInv'
<1> SUFFICES ASSUME TableInv, [Next]_vars PROVE TableInv'
  OBVIOUS
<1>1. HandleInv' /\ ResultsInv'
  BY HandleInvStep, ResultsInvStep DEF TableInv
<1>2. CASE ServiceStep
  BY <1>1, <1>2, TableRestart, TableServe DEF TableInv, ServiceStep
<1>3. ASSUME NEW c \in Clients, ClientStep(c) PROVE TableInv'
  BY <1>1, <1>3, TableCreateInterface, TableReconfigure, TableCreateReturns, TableOpen, TableClose,
     TableCloseReturns, TableReconfigureReturns, TableGiveUp, TableExit DEF TableInv, ClientStep
<1>4. CASE UNCHANGED vars
  <2>1. UNCHANGED <<table, waiting, verdicts, handle, calling, calls, disturbed>>
    BY <1>4 DEF vars, serviceVars, clientVars
  <2>2. RequestsInv' /\ CallsInv' /\ DevicesInv'
    BY <2>1 DEF TableInv, NamesInv, RequestsInv, CallsInv, DevicesInv, Live
  <2>3. HeldInv' /\ OpenedInv' /\ TakenInv'
    BY <2>1 DEF TableInv, NamesInv, HeldInv, Holds, OpenedInv, TakenInv, Live
  <2> QED BY <1>1, <2>2, <2>3 DEF TableInv, NamesInv
<1> QED BY <1>2, <1>3, <1>4 DEF Next

LEMMA TableInvHolds == Spec => []TableInv
BY TableInvInit, TableInvStep, PTL DEF Spec

LEMMA TableInvAgrees == TableInv => TableAgreesWithHandles
<1> SUFFICES ASSUME TableInv, NEW n \in Names \ disturbed
             PROVE  /\ \A c \in Clients :
                         Live(c) /\ handle[c].state = "Open" /\ handle[c].config.path = n =>
                           table[n] = handle[c].fd
                    /\ \A device \in table[n] : \E c \in Clients :
                         \/ Live(c) /\ handle[c].fd = {device} /\ handle[c].config.path = n
                         \/ \E r \in calling[c] : Service!Device(r) = device
  BY DEF TableAgreesWithHandles
<1>1. ASSUME NEW c \in Clients, Live(c), handle[c].state = "Open", handle[c].config.path = n
      PROVE  table[n] = handle[c].fd
  BY <1>1 DEF TableInv, NamesInv, HeldInv, Holds
<1>2. ASSUME NEW device \in table[n]
      PROVE  \E c \in Clients :
               \/ Live(c) /\ handle[c].fd = {device} /\ handle[c].config.path = n
               \/ \E r \in calling[c] : Service!Device(r) = device
  BY <1>2 DEF TableInv, NamesInv, TakenInv
<1> QED BY <1>1, <1>2

\* InterfaceHandle and SerialBackend: on a name that no abandoned call, lost
\* client, restart, reopened handle or foreign reconfiguration has disturbed, an
\* open handle has its device in the daemon's table, and a device in the table
\* has its handle or an open call about to return it.
THEOREM TableAndHandlesAgree == Spec => []TableAgreesWithHandles
BY TableInvHolds, TableInvAgrees, PTL
=============================================================================
