-------------------------- MODULE InterfaceHandle --------------------------
(***************************************************************************)
(* The life of an open interface: the handles Manager::create_interface    *)
(* returns, over the device service (DeviceService, which HyComm is shown  *)
(* to implement) and the terminal settings of the devices.  A call that    *)
(* does not return with its answer may still be served later.              *)
(***************************************************************************)
EXTENDS SerialSettings

CONSTANTS
  Clients, Names, CallErrors,
  Configs,    \* SerialConfigs: [path, settings]
  PowerOn,    \* lines as the daemon may find them
  MaxCalls,   \* bound: calls of a client through the service
  MaxFaults   \* bound: calls given up, exits of clients, restarts of the daemon

ASSUME HandleAssumption ==
  /\ MaxCalls \in Nat /\ MaxFaults \in Nat
  /\ \A config \in Configs : config.path \in Names /\ Framing(config.settings) \in Framings
  /\ \A found \in PowerOn : IsLine(found)

VARIABLES
  table, spent, waiting, verdicts, offered, owned, result,  \* of DeviceService
  line,       \* per name: the terminal settings of the device
  handle,     \* per client: its InterfaceHandle and the interface under it
  calling,    \* per client: the request it waits for, a set of at most one
  calls,      \* per client: calls made
  faults,
  disturbed   \* history: names on which something broke the handle's picture

serviceVars == <<table, spent, waiting, verdicts, offered, owned, result>>

clientVars == <<handle, calling, calls>>

Requests ==
  [client : Clients, id : 1 .. MaxCalls, op : {"open", "config", "close"},
   name : Names, config : Configs]

Service == INSTANCE DeviceService

vars == <<serviceVars, line, clientVars, faults, disturbed>>

InterfaceStates == {"Closed", "Open", "Closing", "Error"}

NoHandle == [state |-> "none"]

\* `state` and `config` are the handle's, `fd` and `reading` (m_state is Open,
\* so the chain of reads goes on) the interface's.  History: `closed`, whether
\* close() has succeeded on it.
Devices == [name : Names, origin : Clients \X (1 .. MaxCalls)]

Handles ==
  [state : InterfaceStates, config : Configs, fd : SUBSET Devices, reading : BOOLEAN,
   closed : BOOLEAN]

TypeOK ==
  /\ handle \in [Clients -> Handles \cup {NoHandle}]
  /\ calling \in [Clients -> SUBSET Requests]
  /\ calls \in [Clients -> 0 .. MaxCalls]
  /\ waiting \subseteq Requests
  /\ faults \in 0 .. MaxFaults /\ disturbed \subseteq Names

Init ==
  /\ Service!Init
  /\ line \in [Names -> PowerOn]
  /\ handle = [c \in Clients |-> NoHandle]
  /\ calling = [c \in Clients |-> {}]
  /\ calls = [c \in Clients |-> 0]
  /\ faults = 0 /\ disturbed = {}

-----------------------------------------------------------------------------
Idle(c, state) == calling[c] = {} /\ handle[c].state = state

Call(c, op, config) ==
  LET r == [client |-> c, id |-> calls[c] + 1, op |-> op,
            name |-> config.path, config |-> config]
  IN /\ calls[c] < MaxCalls
     /\ Service!Issue(r)
     /\ calling' = [calling EXCEPT ![c] = {r}]
     /\ calls' = [calls EXCEPT ![c] = @ + 1]
     /\ UNCHANGED <<line, faults>>

\* A configure or close call comes back with the decision of its request.
Answered(c, op) ==
  /\ \E r \in calling[c] : r.op = op /\ Service!ReturnControl(r)
  /\ calling' = [calling EXCEPT ![c] = {}]
  /\ UNCHANGED <<line, calls, faults, disturbed>>

\* Manager::create_interface up to Session::open_interface.
CreateInterface(c, config) ==
  /\ Idle(c, "none")
  /\ Call(c, "open", config)
  /\ UNCHANGED <<handle, disturbed>>

\* Mutant: the handle is built in the state it takes during open().
NewHandleOpening(r) ==
  [state |-> "Opening", config |-> r.config, fd |-> {Service!Device(r)}, reading |-> FALSE,
   closed |-> FALSE]

NewHandle(r) ==
  [state |-> "Closed", config |-> r.config, fd |-> {Service!Device(r)}, reading |-> FALSE,
   closed |-> FALSE]

\* The descriptor is there: the interface and the handle are built.
CreateReturns(c) ==
  /\ \E r \in calling[c] :
       /\ r.op = "open" /\ Service!ReturnOpen(r)
       /\ handle' = [handle EXCEPT ![c] = NewHandle(r)]
  /\ calling' = [calling EXCEPT ![c] = {}]
  /\ UNCHANGED <<line, calls, faults, disturbed>>

\* Mutant: the interface is opened again whatever it does.
OpenRefusedNever(h) == FALSE

\* open_internal refuses only while the interface is reading; it asks nothing of
\* the daemon.
OpenRefused(h) == h.reading

\* InterfaceHandle::open
Open(c) ==
  /\ Idle(c, "Closed") \/ Idle(c, "Error")
  /\ handle' = [handle EXCEPT
       ![c].state = IF OpenRefused(handle[c]) THEN "Error" ELSE "Open",
       ![c].reading = TRUE]
  /\ disturbed' = disturbed \cup (IF handle[c].closed THEN {handle[c].config.path} ELSE {})
  /\ UNCHANGED <<serviceVars, line, calling, calls, faults>>

\* InterfaceHandle::close
Close(c) ==
  /\ Idle(c, "Open")
  /\ Call(c, "close", handle[c].config)
  /\ handle' = [handle EXCEPT ![c].state = "Closing"]
  /\ UNCHANGED disturbed

\* Mutant: the reads stop although the daemon has not agreed to close.
CloseFailedStopped(h) == [h EXCEPT !.state = "Error", !.reading = FALSE]

CloseFailed(h) == [h EXCEPT !.state = "Error"]

\* Mutant: the state is not taken back to Closed.
ClosedStaysOpen(h) == [h EXCEPT !.state = "Open", !.closed = TRUE]

\* close_internal lets the chain of reads end.
Closed(h) == [h EXCEPT !.state = "Closed", !.reading = FALSE, !.closed = TRUE]

CloseReturns(c) ==
  /\ Answered(c, "close")
  /\ handle' = [handle EXCEPT ![c] =
       IF result'[c] = "Success" THEN Closed(@) ELSE CloseFailed(@)]

\* InterfaceHandle::reconfigure.  The request names the device of the new
\* configuration, which need not be the one the handle was created for.
Reconfigure(c, config) ==
  /\ Idle(c, "Open")
  /\ Call(c, "config", config)
  /\ disturbed' = disturbed \cup
       (IF config.path = handle[c].config.path THEN {} ELSE {config.path, handle[c].config.path})
  /\ UNCHANGED handle

ReconfigureReturns(c) ==
  /\ \E r \in calling[c] :
       /\ Answered(c, "config")
       /\ handle' = [handle EXCEPT ![c].config = IF result'[c] = "Success" THEN r.config ELSE @]

-----------------------------------------------------------------------------
Fault == faults < MaxFaults /\ faults' = faults + 1

\* What was on its way to the client is dropped.
Forget(c) ==
  /\ verdicts' = {v \in verdicts : v[1].client # c}
  /\ offered' = {device \in offered : device.origin[1] # c}

Abandoned(c) == {r.name : r \in calling[c]}

\* The call returns an error of its own; the request stays with the daemon.
\* create_interface throws, close() leaves the handle in Error.
GiveUp(c) ==
  /\ Fault /\ calling[c] # {}
  /\ Forget(c) /\ UNCHANGED spent /\ Service!GiveUp(c)
  /\ handle' = [handle EXCEPT ![c] = IF @.state = "Closing" THEN CloseFailed(@) ELSE @]
  /\ calling' = [calling EXCEPT ![c] = {}]
  /\ disturbed' = disturbed \cup Abandoned(c)
  /\ UNCHANGED <<line, calls>>

\* The process ends, or drops the handle, which has no destructor of its own:
\* the daemon is not told.
Exit(c) ==
  /\ Fault /\ (calling[c] # {} \/ handle[c] # NoHandle)
  /\ Forget(c) /\ UNCHANGED spent /\ Service!ClientGone(c)
  /\ handle' = [handle EXCEPT ![c] = NoHandle]
  /\ calling' = [calling EXCEPT ![c] = {}]
  /\ disturbed' = disturbed \cup Abandoned(c) \cup
       (IF handle[c] = NoHandle THEN {} ELSE {device.name : device \in handle[c].fd})
  /\ UNCHANGED <<line, calls>>

Restart ==
  /\ Fault
  /\ UNCHANGED <<verdicts, offered>> /\ Service!ServiceLost
  /\ disturbed' = Names
  /\ UNCHANGED <<line, clientVars>>

-----------------------------------------------------------------------------
\* The daemon serves a request.  A refused open has set the line when the RTS
\* and DTR lines could not be raised or the descriptor could not be sent.
ServeOpen(r) ==
  /\ r.op = "open"
  /\ \/ Service!Open(r) /\ line' = [line EXCEPT ![r.name] = Configured(@, r.config.settings)]
     \/ /\ Service!Refuse(r)
        /\ \/ /\ <<r, "FdTransferFailed">> \notin verdicts'
              /\ UNCHANGED line
           \/ /\ \/ <<r, "FdTransferFailed">> \in verdicts'
                 \/ <<r, "InvalidArguments">> \in verdicts' /\ r.config.settings.rtsDtr
              /\ line' = [line EXCEPT ![r.name] = Configured(@, r.config.settings)]
  /\ UNCHANGED <<clientVars, faults, disturbed>>

ServeConfig(r) ==
  /\ r.op = "config"
  /\ \/ Service!Config(r)
        /\ line' = [line EXCEPT ![r.name] = Reconfigured(@, Framing(r.config.settings))]
     \/ Service!Refuse(r) /\ UNCHANGED line
  /\ UNCHANGED <<clientVars, faults, disturbed>>

ServeClose(r) ==
  /\ r.op = "close"
  /\ Service!Close(r) \/ Service!Refuse(r)
  /\ UNCHANGED <<line, clientVars, faults, disturbed>>

ClientStep(c) ==
  \/ \E config \in Configs : CreateInterface(c, config) \/ Reconfigure(c, config)
  \/ CreateReturns(c) \/ Open(c) \/ Close(c) \/ CloseReturns(c) \/ ReconfigureReturns(c)
  \/ GiveUp(c) \/ Exit(c)

ServiceStep == Restart \/ \E r \in waiting : ServeOpen(r) \/ ServeConfig(r) \/ ServeClose(r)

Next == ServiceStep \/ \E c \in Clients : ClientStep(c)

Spec == Init /\ [][Next]_vars

-----------------------------------------------------------------------------
Live(c) == handle[c] # NoHandle

\* The chain of reads runs from the first open() until a close() that succeeds:
\* a handle whose close failed goes on reading.
ReadsUntilClosed ==
  \A c \in Clients : Live(c) => (handle[c].reading <=> handle[c].state # "Closed")

\* Nothing brings a handle out of Error: open() fails because the interface
\* still reads, close() and reconfigure() because the handle is not open.
ErrorIsForEver ==
  [][\A c \in Clients :
       Live(c) /\ handle[c].state = "Error" => handle'[c] = NoHandle \/ handle'[c] = handle[c]]_vars

\* On a name nothing has disturbed, the daemon's table and the handles agree: an
\* open handle has its device in the table, and a device in the table has the
\* handle it was opened for or an open call about to return it.
TableAgreesWithHandles ==
  \A n \in Names \ disturbed :
    /\ \A c \in Clients :
         Live(c) /\ handle[c].state = "Open" /\ handle[c].config.path = n => table[n] = handle[c].fd
    /\ \A device \in table[n] : \E c \in Clients :
         \/ Live(c) /\ handle[c].fd = {device} /\ handle[c].config.path = n
         \/ \E r \in calling[c] : Service!Device(r) = device

\* On such a name the line of an open device is framed as its idle handle says,
\* however it was set before, and keeps the basic settings of the open.
LineFollowsHandle ==
  \A n \in Names \ disturbed : \A c \in Clients :
    Live(c) /\ calling[c] = {} /\ table[n] = handle[c].fd =>
      /\ Effective(line[n].flags) = Framing(handle[c].config.settings)
      /\ Basic(line[n].flags)
=============================================================================
