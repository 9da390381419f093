---------------------------- MODULE LineProofs ----------------------------
(***************************************************************************)
(* The settings of a device and its handle.  What the translation does to  *)
(* a line is settled first: reading the flags back gives the settings of   *)
(* the request.  Then the argument follows a configuration: once the       *)
(* daemon has decided it the line is set for the request and ahead of the  *)
(* handle, until the call returns and the handle takes it; the line of an  *)
(* open call is ready before there is a handle.                            *)
(***************************************************************************)
EXTENDS HandleProofs

-----------------------------------------------------------------------------
\* The terminal settings.  The two bits of CSIZE tell the four sizes apart.
LEMMA DataBitsRead ==
  ASSUME NEW bits \in 5 .. 8
  PROVE  (CHOOSE b \in 5 .. 8 : DataBitsToCflag(b) = DataBitsToCflag(bits)) = bits
<1>1. \A b \in 5 .. 8 : DataBitsToCflag(b) = DataBitsToCflag(bits) => b = bits
  <2>1. bits \in {5, 6, 7, 8} /\ \A b \in 5 .. 8 : b \in {5, 6, 7, 8}
    OBVIOUS
  <2>2. /\ DataBitsToCflag(5) = {} /\ DataBitsToCflag(6) = {"CSIZE_lo"}
        /\ DataBitsToCflag(7) = {"CSIZE_hi"} /\ DataBitsToCflag(8) = {"CSIZE_lo", "CSIZE_hi"}
    BY DEF DataBitsToCflag, CSIZE
  <2>3. /\ "CSIZE_lo" \notin DataBitsToCflag(5) /\ "CSIZE_hi" \notin DataBitsToCflag(5)
        /\ "CSIZE_lo" \in DataBitsToCflag(6) /\ "CSIZE_hi" \notin DataBitsToCflag(6)
        /\ "CSIZE_lo" \notin DataBitsToCflag(7) /\ "CSIZE_hi" \in DataBitsToCflag(7)
        /\ "CSIZE_lo" \in DataBitsToCflag(8) /\ "CSIZE_hi" \in DataBitsToCflag(8)
    BY <2>2
  <2> QED BY <2>1, <2>3
<1> QED BY <1>1

\* What Reframe leaves of each bit.
LEMMA ReframedBits ==
  ASSUME NEW flags, NEW f \in Framings
  PROVE  /\ Reframe(flags, f) \cap CSIZE = DataBitsToCflag(f.dataBits)
         /\ "CSTOPB" \in Reframe(flags, f) <=> f.stopBits = 2
         /\ "PARENB" \in Reframe(flags, f) <=> f.parity # "NONE"
         /\ f.parity # "NONE" => ("PARODD" \in Reframe(flags, f) <=> f.parity = "ODD")
         /\ "CRTSCTS" \in Reframe(flags, f) <=> f.flow = "RTS_CTS"
         /\ Reframe(flags, f) \cap XonXoff # {} <=> f.flow = "XON_XOFF"
         /\ \A bit \in {"CREAD", "CLOCAL", "ICANON", "ECHO", "ECHOE", "ISIG", "OPOST"} :
              bit \in Reframe(flags, f) <=> bit \in flags
<1> DEFINE sized == (flags \ CSIZE) \cup DataBitsToCflag(f.dataBits)
           stopped == (sized \ {"CSTOPB"}) \cup StopBitsToCflag(f.stopBits)
           paired == ApplyParity(stopped, f.parity)
<1>1. Reframe(flags, f) = ApplyFlowControl(paired, f.flow)
  BY DEF Reframe
<1>2. /\ f.dataBits \in 5 .. 8 /\ f.stopBits \in {1, 2} /\ f.parity \in {"NONE", "ODD", "EVEN"}
      /\ f.flow \in {"NONE", "RTS_CTS", "XON_XOFF"}
  BY DEF Framings
<1>3. DataBitsToCflag(f.dataBits) \subseteq CSIZE
  BY DEF DataBitsToCflag, CSIZE
<1>4. /\ \A bit \in CSIZE : bit \in stopped <=> bit \in DataBitsToCflag(f.dataBits)
      /\ "CSTOPB" \in stopped <=> f.stopBits = 2
      /\ \A bit : bit \notin CSIZE /\ bit # "CSTOPB" => (bit \in stopped <=> bit \in flags)
  BY <1>2, <1>3 DEF StopBitsToCflag, CSIZE
<1> HIDE DEF stopped, sized
<1>5. /\ "PARENB" \in paired <=> f.parity # "NONE"
      /\ f.parity # "NONE" => ("PARODD" \in paired <=> f.parity = "ODD")
      /\ \A bit : bit \notin {"PARENB", "PARODD"} => (bit \in paired <=> bit \in stopped)
  BY <1>2 DEF ApplyParity
<1> HIDE DEF paired
<1>6. /\ "CRTSCTS" \in Reframe(flags, f) <=> f.flow = "RTS_CTS"
      /\ \A bit \in XonXoff : bit \in Reframe(flags, f) <=> f.flow = "XON_XOFF"
      /\ \A bit : bit \notin XonXoff /\ bit # "CRTSCTS" =>
                    (bit \in Reframe(flags, f) <=> bit \in paired)
  BY <1>1, <1>2 DEF ApplyFlowControl, XonXoff
<1> HIDE <1>1
<1>7. "IXON" \in XonXoff
  BY DEF XonXoff
<1>8. \A bit \in CSIZE : bit \in Reframe(flags, f) <=> bit \in DataBitsToCflag(f.dataBits)
  BY <1>4, <1>5, <1>6 DEF CSIZE, XonXoff
<1>9. Reframe(flags, f) \cap CSIZE = DataBitsToCflag(f.dataBits)
  BY <1>3, <1>8
<1>10. /\ "CSTOPB" \in Reframe(flags, f) <=> f.stopBits = 2
       /\ "PARENB" \in Reframe(flags, f) <=> f.parity # "NONE"
       /\ f.parity # "NONE" => ("PARODD" \in Reframe(flags, f) <=> f.parity = "ODD")
  BY <1>4, <1>5, <1>6 DEF XonXoff
<1>11. \A bit \in {"CREAD", "CLOCAL", "ICANON", "ECHO", "ECHOE", "ISIG", "OPOST"} :
         bit \in Reframe(flags, f) <=> bit \in flags
  BY <1>4, <1>5, <1>6 DEF CSIZE, XonXoff
<1>12. Reframe(flags, f) \cap XonXoff # {} <=> f.flow = "XON_XOFF"
  BY <1>6, <1>7
<1> QED BY <1>6, <1>9, <1>10, <1>11, <1>12

\* handle_config and configure_serial_port: whatever the line was set to before,
\* it is framed as the request says, and what is not framing stays.
THEOREM FramingTakesEffect ==
  ASSUME NEW flags, NEW f \in Framings
  PROVE  /\ Effective(Reframe(flags, f)) = f
         /\ Basic(Reframe(flags, f)) <=> Basic(flags)
<1> DEFINE new == Reframe(flags, f)
<1>1. (CHOOSE b \in 5 .. 8 : DataBitsToCflag(b) = new \cap CSIZE) = f.dataBits
  BY ReframedBits, DataBitsRead DEF Framings
<1>2. (IF "CSTOPB" \in new THEN 2 ELSE 1) = f.stopBits
  BY ReframedBits DEF Framings
<1>3. (IF "PARENB" \notin new THEN "NONE" ELSE IF "PARODD" \in new THEN "ODD" ELSE "EVEN")
        = f.parity
  BY ReframedBits DEF Framings
<1>4. (IF "CRTSCTS" \in new THEN "RTS_CTS"
       ELSE IF new \cap XonXoff # {} THEN "XON_XOFF" ELSE "NONE") = f.flow
  BY ReframedBits DEF Framings
<1>5. f = [dataBits |-> f.dataBits, stopBits |-> f.stopBits, parity |-> f.parity,
           flow |-> f.flow]
  BY DEF Framings
<1>6. Basic(new) <=> Basic(flags)
  BY ReframedBits DEF Basic
<1> HIDE DEF new
<1>7. Effective(new) = f
  BY <1>1, <1>2, <1>3, <1>4, <1>5 DEF Effective
<1> QED BY <1>6, <1>7 DEF new

\* configure_serial_port: an open leaves a line as its request says, however it
\* was before.
THEOREM OpenTakesEffect ==
  ASSUME NEW l, NEW settings, Framing(settings) \in Framings
  PROVE  /\ IsLine(Configured(l, settings))
         /\ Effective(Configured(l, settings).flags) = Framing(settings)
         /\ Basic(Configured(l, settings).flags)
         /\ Configured(l, settings).speed = BaudToCflag(settings.baud)
<1> DEFINE old == Reframe(l.flags, Framing(settings))
           new == (old \cup {"CREAD", "CLOCAL"}) \ {"ICANON", "ECHO", "ECHOE", "ISIG", "OPOST"}
<1>1. Configured(l, settings) = [speed |-> BaudToCflag(settings.baud), flags |-> new]
  BY DEF Configured
<1>2. /\ new \cap CSIZE = old \cap CSIZE /\ new \cap XonXoff = old \cap XonXoff
      /\ "CSTOPB" \in new <=> "CSTOPB" \in old
      /\ "PARENB" \in new <=> "PARENB" \in old
      /\ "PARODD" \in new <=> "PARODD" \in old
      /\ "CRTSCTS" \in new <=> "CRTSCTS" \in old
  BY DEF CSIZE, XonXoff
<1>3. Basic(new)
  BY DEF Basic
<1>4. Effective(old) = Framing(settings)
  BY FramingTakesEffect
<1> HIDE DEF old, new
<1>5. Effective(new) = Effective(old)
  BY <1>2 DEF Effective
<1> QED BY <1>1, <1>3, <1>4, <1>5 DEF IsLine

\* handle_config: the speed and the basic settings of the line stay.
LEMMA ConfigTakesEffect ==
  ASSUME NEW l, IsLine(l), NEW f \in Framings
  PROVE  /\ IsLine(Reconfigured(l, f))
         /\ Effective(Reconfigured(l, f).flags) = f
         /\ Basic(Reconfigured(l, f).flags) <=> Basic(l.flags)
         /\ Reconfigured(l, f).speed = l.speed
<1> DEFINE speed == l.speed
           flags == l.flags
<1>1. l = [speed |-> speed, flags |-> flags]
  BY DEF IsLine
<1> HIDE DEF speed, flags
<1>2. Reconfigured(l, f) = [speed |-> speed, flags |-> Reframe(flags, f)]
  BY <1>1 DEF Reconfigured
<1>3. l.speed = speed /\ l.flags = flags
  BY <1>1
<1> QED BY <1>2, <1>3, FramingTakesEffect DEF IsLine

-----------------------------------------------------------------------------
\* The line of a name is as `settings` frames it.
Set(n, settings) ==
  /\ Effective(line[n].flags) = Framing(settings)
  /\ Basic(line[n].flags)

Succeeded(r, op) == r.op = op /\ <<r, "Success">> \in verdicts

\* While a configuration request is decided and not answered, the line is ahead
\* of the handle; the line of an open call is ready before its handle.
SetFor(n, c) ==
  /\ Live(c) /\ table[n] = handle[c].fd =>
       /\ \/ Set(n, handle[c].config.settings)
          \/ \E r \in calling[c] : Succeeded(r, "config")
       /\ \A r \in calling[c] :
            Succeeded(r, "config") => Set(n, r.config.settings)
  /\ \A r \in calling[c] :
       Succeeded(r, "open") /\ r.name = n => Set(n, r.config.settings)

LinesInv ==
  /\ \A v \in verdicts : v = <<v[1], v[2]>>
  /\ DOMAIN line = Names /\ \A n \in Names : IsLine(line[n])
  /\ \A n \in Names \ disturbed, c \in Clients : SetFor(n, c)

LineInv == TableInv /\ LinesInv

LEMMA LinesInit == Init => LinesInv
<1> SUFFICES ASSUME Init PROVE LinesInv
  OBVIOUS
<1>1. /\ line \in [Names -> PowerOn] /\ handle = [c \in Clients |-> NoHandle]
      /\ calling = [c \in Clients |-> {}]
  BY DEF Init
<1>2. DOMAIN line = Names /\ \A n \in Names : IsLine(line[n])
  BY <1>1, HandleAssumption
<1>3. \A n \in Names, c \in Clients : SetFor(n, c)
  BY <1>1 DEF SetFor, Live
<1>4. verdicts = {}
  BY DEF Init, Service!Init
<1> QED BY <1>2, <1>3, <1>4 DEF LinesInv

\* What a client does changes no line, and nothing another client knows.
LEMMA LinesOfClient ==
  ASSUME LineInv, NEW c \in Clients, UNCHANGED <<line, table>>, disturbed \subseteq disturbed',
         verdicts' \subseteq verdicts, \A v \in verdicts : v[1].client # c => v \in verdicts',
         \A d \in Clients : d # c => handle'[d] = handle[d] /\ calling'[d] = calling[d],
         \A n \in Names \ disturbed' : SetFor(n, c)'
  PROVE  LinesInv'
<1>1. ASSUME NEW n \in Names \ disturbed', NEW d \in Clients, d # c
      PROVE  SetFor(n, d)'
  <2>1. SetFor(n, d)
    BY DEF LineInv, LinesInv
  <2>2. \A r \in calling[d] : r.client = d
    BY DEF LineInv, TableInv, RequestsInv
  <2>3. \A op : \A r \in calling[d] : Succeeded(r, op)' <=> Succeeded(r, op)
    BY <1>1, <2>2 DEF Succeeded
  <2>4. \A settings : Set(n, settings)' <=> Set(n, settings)
    BY DEF Set
  <2>5. /\ Live(d)' <=> Live(d) /\ table'[n] = table[n]
        /\ handle'[d] = handle[d] /\ calling'[d] = calling[d]
    BY <1>1 DEF Live
  <2> QED BY <2>1, <2>3, <2>4, <2>5 DEF SetFor, Set
<1> QED BY <1>1 DEF LineInv, LinesInv

\* A call that has just been made is not answered: the line is as it was when
\* the client was idle.
LEMMA LinesOfCall ==
  ASSUME LineInv, NEW c \in Clients, NEW op \in {"open", "config", "close"},
         NEW config \in Configs, calling[c] = {}, Call(c, op, config),
         disturbed \subseteq disturbed',
         \A d \in Clients : d # c => handle'[d] = handle[d],
         Live(c)' => /\ Live(c) /\ handle'[c].fd = handle[c].fd
                     /\ handle'[c].config = handle[c].config
  PROVE  LinesInv'
<1>1. PICK r \in Requests :
        /\ calling' = [calling EXCEPT ![c] = {r}] /\ \A v \in verdicts : v[1] # r
        /\ UNCHANGED <<table, verdicts>>
  BY CallEffect DEF LineInv
<1>2. line' = line
  BY DEF Call
<1>3. calling'[c] = {r} /\ \A d \in Clients : d # c => calling'[d] = calling[d]
  BY <1>1 DEF LineInv, TableInv, HandleInv, TypeOK
<1>4. \A o : ~ Succeeded(r, o)'
  BY <1>1 DEF Succeeded
<1>5. ASSUME NEW n \in Names \ disturbed' PROVE SetFor(n, c)'
  <2>1. SetFor(n, c)
    BY DEF LineInv, LinesInv
  <2>2. Live(c)' /\ table'[n] = handle'[c].fd
          => Set(n, handle[c].config.settings)
    BY <1>1, <2>1 DEF SetFor
  <2> QED BY <1>2, <1>3, <1>4, <2>2 DEF SetFor, Set
<1> QED BY <1>1, <1>2, <1>3, <1>5, LinesOfClient

LEMMA LinesCalls ==
  ASSUME LineInv, NEW c \in Clients,
         \/ \E config \in Configs : CreateInterface(c, config) \/ Reconfigure(c, config)
         \/ Close(c)
  PROVE  LinesInv'
<1>1. TypeOK
  BY DEF LineInv, TableInv, HandleInv
<1>2. ASSUME NEW config \in Configs, CreateInterface(c, config) \/ Reconfigure(c, config)
      PROVE  LinesInv'
  <2>1. /\ calling[c] = {} /\ handle' = handle /\ disturbed \subseteq disturbed'
        /\ \E op \in {"open", "config", "close"} : Call(c, op, config)
    BY <1>2 DEF CreateInterface, Reconfigure, Idle
  <2> QED BY <2>1, LinesOfCall DEF Live
<1>3. CASE Close(c)
  <2>1. /\ calling[c] = {} /\ handle[c].state = "Open" /\ disturbed' = disturbed
        /\ Call(c, "close", handle[c].config)
        /\ handle' = [handle EXCEPT ![c].state = "Closing"]
    BY <1>3 DEF Close, Idle
  <2>2. Live(c) /\ handle[c] \in Handles /\ handle[c].config \in Configs
    BY <1>1, <2>1, NotLive, LiveShape
  <2>3. /\ \A d \in Clients : d # c => handle'[d] = handle[d]
        /\ handle'[c].fd = handle[c].fd /\ handle'[c].config = handle[c].config
    BY <1>1, <2>1, <2>2 DEF TypeOK, Handles
  <2> QED BY <2>1, <2>2, <2>3, LinesOfCall
<1> QED BY <1>2, <1>3

LEMMA LinesOpen ==
  ASSUME LineInv, NEW c \in Clients, Open(c)
  PROVE  LinesInv'
<1>1. /\ handle[c].state \in {"Closed", "Error"} /\ calling[c] = {}
      /\ handle' = [handle EXCEPT ![c].state = IF OpenRefused(handle[c]) THEN "Error" ELSE "Open",
                                  ![c].reading = TRUE]
      /\ disturbed \subseteq disturbed' /\ UNCHANGED <<table, verdicts, calling, line>>
  BY DEF Open, Idle, serviceVars
<1>2. TypeOK /\ Live(c) /\ handle[c] \in Handles
  BY <1>1, NotLive, LiveShape DEF LineInv, TableInv, HandleInv
<1>3. /\ handle'[c].config = handle[c].config /\ handle'[c].fd = handle[c].fd
      /\ \A d \in Clients : d # c => handle'[d] = handle[d]
  BY <1>1, <1>2 DEF TypeOK, Handles
<1>4. ASSUME NEW n \in Names \ disturbed' PROVE SetFor(n, c)'
  <2>1. SetFor(n, c)
    BY <1>1 DEF LineInv, LinesInv
  <2> QED BY <1>1, <1>2, <1>3, <2>1 DEF SetFor, Set
<1> QED BY <1>1, <1>3, <1>4, LinesOfClient

\* The name of the device a handle has is the one its configuration names, unless
\* both are disturbed.
LEMMA HandleName ==
  ASSUME LineInv, NEW c \in Clients, Live(c), NEW n \in Names \ disturbed,
         table[n] = handle[c].fd
  PROVE  /\ n = handle[c].config.path
         /\ \E device \in Devices : handle[c].fd = {device} /\ device.origin[1] = c
<1>1. PICK device \in Devices :
        /\ handle[c].fd = {device} /\ device.origin[1] = c
        /\ device.name = handle[c].config.path
             \/ {device.name, handle[c].config.path} \subseteq disturbed
  BY DEF LineInv, TableInv, NamesInv, DevicesInv
<1>2. device.name = n
  BY <1>1 DEF LineInv, TableInv, NamesInv, DevicesInv
<1> QED BY <1>1, <1>2

LEMMA LinesCreateReturns ==
  ASSUME LineInv, NEW c \in Clients, CreateReturns(c)
  PROVE  LinesInv'
<1>1. PICK r \in calling[c] :
        r.op = "open" /\ Service!ReturnOpen(r) /\ handle' = [handle EXCEPT ![c] = NewHandle(r)]
  BY DEF CreateReturns
<1>2. /\ calling' = [calling EXCEPT ![c] = {}] /\ UNCHANGED <<table, line, disturbed>>
      /\ verdicts' = verdicts \ {<<r, "Success">>} /\ Succeeded(r, "open")
  BY <1>1 DEF CreateReturns, Service!ReturnOpen, Succeeded
<1>3. TypeOK /\ r.client = c
  BY DEF LineInv, TableInv, HandleInv, RequestsInv
<1>4. /\ calling'[c] = {} /\ handle'[c] = NewHandle(r)
      /\ \A d \in Clients : d # c => calling'[d] = calling[d] /\ handle'[d] = handle[d]
  BY <1>1, <1>2, <1>3 DEF TypeOK
<1>5. /\ handle'[c].fd = {Service!Device(r)} /\ handle'[c].config = r.config
  BY <1>4 DEF NewHandle
<1>6. ASSUME NEW n \in Names \ disturbed' PROVE SetFor(n, c)'
  <2> SUFFICES ASSUME table[n] = {Service!Device(r)}
               PROVE  Set(n, r.config.settings)
    BY <1>2, <1>4, <1>5 DEF SetFor, Set
  <2>1. r.name = n
    <3>1. \A device \in table[n] : device.name = n
      BY DEF LineInv, TableInv, NamesInv, DevicesInv
    <3>2. Service!Device(r).name = r.name
      BY DEF Service!Device
    <3> QED BY <3>1, <3>2
  <2>2. SetFor(n, c)
    BY <1>2 DEF LineInv, LinesInv
  <2> QED BY <1>2, <2>1, <2>2 DEF SetFor
<1> QED BY <1>2, <1>3, <1>4, <1>6, LinesOfClient

LEMMA AnswerKeeps ==
  ASSUME LineInv, NEW c \in Clients, NEW op, Answered(c, op)
  PROVE  /\ UNCHANGED <<line, table, disturbed>> /\ verdicts' \subseteq verdicts
         /\ \A v \in verdicts : v[1].client # c => v \in verdicts'
<1>1. PICK r \in calling[c] : r.op = op /\ Service!ReturnControl(r)
  BY DEF Answered
<1>2. r.client = c
  BY DEF LineInv, TableInv, RequestsInv
<1>3. PICK v : verdicts' = verdicts \ {<<r, v>>}
  BY <1>1 DEF Service!ReturnControl
<1>4. UNCHANGED <<line, table, disturbed>>
  BY <1>1 DEF Answered, Service!ReturnControl
<1> QED BY <1>2, <1>3, <1>4

LEMMA LinesCloseReturns ==
  ASSUME LineInv, NEW c \in Clients, CloseReturns(c)
  PROVE  LinesInv'
<1>1. /\ Answered(c, "close")
      /\ handle' = [handle EXCEPT ![c] =
           IF result'[c] = "Success" THEN Closed(@) ELSE CloseFailed(@)]
  BY DEF CloseReturns
<1>2. PICK r \in calling[c] :
        r.op = "close" /\ calling[c] = {r} /\ calling' = [calling EXCEPT ![c] = {}]
  BY <1>1, AnswerEffect DEF LineInv
<1>3. handle[c].state = "Closing" /\ TypeOK
  BY <1>2 DEF LineInv, TableInv, HandleInv, CallsMatchStates, StateDuring
<1>4. Live(c) /\ handle[c] \in Handles
  BY <1>3, NotLive, LiveShape
<1>5. /\ handle'[c].config = handle[c].config /\ handle'[c].fd = handle[c].fd
      /\ calling'[c] = {}
      /\ \A d \in Clients : d # c => handle'[d] = handle[d] /\ calling'[d] = calling[d]
  BY <1>1, <1>2, <1>3, <1>4 DEF TypeOK, Closed, CloseFailed, Handles
<1>6. ASSUME NEW n \in Names \ disturbed' PROVE SetFor(n, c)'
  <2>1. SetFor(n, c) /\ line' = line /\ table' = table
    BY <1>1, AnswerKeeps DEF LineInv, LinesInv
  <2>2. \A q \in calling[c] : ~ Succeeded(q, "config")
    BY <1>2 DEF Succeeded
  <2> QED BY <1>4, <1>5, <2>1, <2>2 DEF SetFor, Set
<1> QED BY <1>1, <1>5, <1>6, AnswerKeeps, LinesOfClient

LEMMA LinesReconfigureReturns ==
  ASSUME LineInv, NEW c \in Clients, ReconfigureReturns(c)
  PROVE  LinesInv'
<1>1. PICK q \in calling[c] :
        /\ Answered(c, "config")
        /\ handle' = [handle EXCEPT ![c].config = IF result'[c] = "Success" THEN q.config ELSE @]
  BY DEF ReconfigureReturns
<1>2. PICK r \in calling[c] :
        /\ r.op = "config" /\ calling[c] = {r} /\ calling' = [calling EXCEPT ![c] = {}]
        /\ \E v \in verdicts : v[1] = r /\ v[2] = result'[c]
  BY <1>1, AnswerEffect DEF LineInv
<1>3. handle[c].state = "Open" /\ TypeOK /\ q = r
  BY <1>2 DEF LineInv, TableInv, HandleInv, CallsMatchStates, StateDuring
<1>4. Live(c) /\ handle[c] \in Handles
  BY <1>3, NotLive, LiveShape
<1>5. /\ handle'[c].config = IF result'[c] = "Success" THEN r.config ELSE handle[c].config
      /\ handle'[c].fd = handle[c].fd /\ calling'[c] = {}
      /\ \A d \in Clients : d # c => handle'[d] = handle[d] /\ calling'[d] = calling[d]
  BY <1>1, <1>2, <1>3, <1>4 DEF TypeOK, Handles
<1>6. Succeeded(r, "config") <=> result'[c] = "Success"
  <2>1. PICK v \in verdicts : v[1] = r /\ v[2] = result'[c] /\ v = <<v[1], v[2]>>
    BY <1>2 DEF LineInv, LinesInv
  <2>2. \A w \in verdicts : w[1] = r => w[2] = v[2]
    BY <2>1 DEF LineInv, TableInv, RequestsInv
  <2>3. <<r, "Success">> \in verdicts <=> result'[c] = "Success"
    BY <2>1, <2>2
  <2> QED BY <1>2, <2>3 DEF Succeeded
<1>7. ASSUME NEW n \in Names \ disturbed' PROVE SetFor(n, c)'
  <2>1. SetFor(n, c) /\ line' = line /\ table' = table
    BY <1>1, AnswerKeeps DEF LineInv, LinesInv
  <2>2. table[n] = handle[c].fd => Set(n, handle'[c].config.settings)
    BY <1>2, <1>4, <1>5, <1>6, <2>1 DEF SetFor
  <2> QED BY <1>5, <2>1, <2>2 DEF SetFor, Set
<1> QED BY <1>1, <1>5, <1>7, AnswerKeeps, LinesOfClient

\* A call that is given up disturbs the name it was about, so a line that is
\* ahead of its handle is on a disturbed name.
LEMMA LinesGiveUp ==
  ASSUME LineInv, NEW c \in Clients, GiveUp(c)
  PROVE  LinesInv'
<1>1. /\ calling' = [calling EXCEPT ![c] = {}] /\ UNCHANGED <<table, line>>
      /\ disturbed' = disturbed \cup Abandoned(c)
      /\ verdicts' = {v \in verdicts : v[1].client # c}
      /\ handle' = [handle EXCEPT ![c] = IF @.state = "Closing" THEN CloseFailed(@) ELSE @]
  BY DEF GiveUp, Service!GiveUp, Forget
<1>2. TypeOK
  BY DEF LineInv, TableInv, HandleInv
<1>3. /\ calling'[c] = {}
      /\ handle'[c] = IF handle[c].state = "Closing" THEN CloseFailed(handle[c]) ELSE handle[c]
      /\ \A d \in Clients : d # c => handle'[d] = handle[d] /\ calling'[d] = calling[d]
  BY <1>1, <1>2 DEF TypeOK
<1>4. Live(c)' => /\ Live(c) /\ handle'[c].fd = handle[c].fd
                  /\ handle'[c].config = handle[c].config
  BY <1>2, <1>3, LiveShape DEF Live, CloseFailed, Handles, NoHandle
<1>5. ASSUME NEW n \in Names \ disturbed' PROVE SetFor(n, c)'
  <2>1. SetFor(n, c)
    BY <1>1 DEF LineInv, LinesInv
  <2>2. ASSUME Live(c), table[n] = handle[c].fd, NEW r \in calling[c], Succeeded(r, "config")
        PROVE  FALSE
    <3>1. n = handle[c].config.path
      BY <1>1, <2>2, HandleName
    <3>2. r.name = n \/ n \in disturbed
      BY <2>2, <3>1 DEF Succeeded, LineInv, TableInv, NamesInv, CallsInv
    <3>3. r.name \in disturbed'
      BY <1>1 DEF Abandoned
    <3> QED BY <1>1, <3>2, <3>3
  <2> QED BY <1>1, <1>3, <1>4, <2>1, <2>2 DEF SetFor, Set
<1> QED BY <1>1, <1>3, <1>5, LinesOfClient

LEMMA LinesExit ==
  ASSUME LineInv, NEW c \in Clients, Exit(c)
  PROVE  LinesInv'
<1>1. /\ calling' = [calling EXCEPT ![c] = {}] /\ UNCHANGED <<table, line>>
      /\ disturbed \subseteq disturbed'
      /\ verdicts' = {v \in verdicts : v[1].client # c}
      /\ handle' = [handle EXCEPT ![c] = NoHandle]
  BY DEF Exit, Service!ClientGone, Forget
<1>2. /\ calling'[c] = {} /\ ~Live(c)'
      /\ \A d \in Clients : d # c => handle'[d] = handle[d] /\ calling'[d] = calling[d]
  BY <1>1 DEF LineInv, TableInv, HandleInv, TypeOK, Live
<1>3. \A n : SetFor(n, c)'
  BY <1>2 DEF SetFor
<1> QED BY <1>1, <1>2, <1>3, LinesOfClient

-----------------------------------------------------------------------------
\* A decision about one name leaves the lines of the others.
LEMMA LinesOfDecision ==
  ASSUME LineInv, NEW r \in waiting, NEW v, verdicts' = verdicts \cup {<<r, v>>},
         UNCHANGED <<handle, calling, disturbed>>, DOMAIN line' = Names,
         \A n \in Names \ {r.name} : line'[n] = line[n] /\ table'[n] = table[n],
         IsLine(line'[r.name]),
         r.name \notin disturbed => \A c \in Clients : SetFor(r.name, c)'
  PROVE  LinesInv'
<1>1. r.name \in Names
  BY DEF LineInv, TableInv, HandleInv, TypeOK, Requests
<1>2. ASSUME NEW n \in Names \ disturbed, NEW c \in Clients, n # r.name
      PROVE  SetFor(n, c)'
  <2>1. SetFor(n, c)
    BY DEF LineInv, LinesInv
  <2>2. /\ table'[n] = table[n] /\ handle'[c] = handle[c] /\ calling'[c] = calling[c]
        /\ Live(c)' <=> Live(c)
    BY <1>2 DEF Live
  <2>3. \A op : \A q \in calling[c] : q # r => (Succeeded(q, op)' <=> Succeeded(q, op))
    BY DEF Succeeded
  <2>4. \A op : Succeeded(r, op) => Succeeded(r, op)'
    BY DEF Succeeded
  <2>5. Live(c) /\ table[n] = handle[c].fd /\ r \in calling[c] => ~ Succeeded(r, "config")'
    <3> SUFFICES ASSUME Live(c), table[n] = handle[c].fd, r \in calling[c], r.op = "config"
                 PROVE  FALSE
      BY DEF Succeeded
    <3>1. n = handle[c].config.path
      BY HandleName
    <3>2. r.name = n \/ n \in disturbed
      BY <3>1 DEF LineInv, TableInv, NamesInv, CallsInv
    <3> QED BY <1>2, <3>2
  <2>6. Live(c) /\ table[n] = handle[c].fd =>
          \A q \in calling[c] : Succeeded(q, "config")' <=> Succeeded(q, "config")
    BY <2>3, <2>4, <2>5
  <2>7. ASSUME Live(c), table[n] = handle[c].fd
        PROVE  /\ \/ Set(n, handle[c].config.settings)
                  \/ \E q \in calling[c] : Succeeded(q, "config")'
               /\ \A q \in calling[c] :
                    Succeeded(q, "config")' => Set(n, q.config.settings)
    BY <2>1, <2>6, <2>7 DEF SetFor
  <2>8. \A q \in calling[c] : Succeeded(q, "open")' /\ q.name = n =>
          Set(n, q.config.settings)
    BY <1>2, <2>1, <2>3 DEF SetFor
  <2>9. line'[n] = line[n]
    BY <1>2
  <2> QED BY <2>2, <2>7, <2>8, <2>9 DEF SetFor, Set
<1>3. \A w \in verdicts' : w = <<w[1], w[2]>>
  BY DEF LineInv, LinesInv
<1>4. \A n \in Names : IsLine(line'[n])
  BY <1>1 DEF LineInv, LinesInv
<1> QED BY <1>2, <1>3, <1>4 DEF LinesInv

\* On an undisturbed name without an open device nobody relies on the line.
LEMMA NobodyRelies ==
  ASSUME LineInv, NEW n \in Names \ disturbed, NEW c \in Clients, table[n] = {}
  PROVE  /\ ~ (Live(c) /\ table[n] = handle[c].fd)
         /\ \A q \in calling[c] : q.name = n => ~ Succeeded(q, "open")
<1>1. Live(c) => handle[c].fd # {}
  BY DEF LineInv, TableInv, NamesInv, DevicesInv
<1>2. ASSUME NEW q \in calling[c], q.name = n, Succeeded(q, "open") PROVE FALSE
  <2>1. table[n] = {Service!Device(q)}
    BY <1>2 DEF Succeeded, LineInv, TableInv, NamesInv, OpenedInv
  <2> QED BY <2>1
<1> QED BY <1>1, <1>2

LEMMA LinesOpened ==
  ASSUME LineInv, NEW r \in waiting, Service!Open(r),
         line' = [line EXCEPT ![r.name] = Configured(@, r.config.settings)],
         UNCHANGED <<handle, calling, disturbed>>
  PROVE  LinesInv'
<1>1. /\ r.op = "open" /\ table[r.name] = {}
      /\ verdicts' = verdicts \cup {<<r, "Success">>}
      /\ table' = [table EXCEPT ![r.name] = {Service!Device(r)}]
  BY DEF Service!Open, Service!Decided
<1>2. /\ r \in Requests /\ r.name \in Names /\ r.client \in Clients /\ r.config \in Configs
      /\ table \in [Names -> SUBSET Devices] /\ DOMAIN line = Names
  BY DEF LineInv, LinesInv, TableInv, HandleInv, TypeOK, Requests, NamesInv, DevicesInv
<1>3. /\ table'[r.name] = {Service!Device(r)}
      /\ line'[r.name] = Configured(line[r.name], r.config.settings) /\ DOMAIN line' = Names
      /\ \A n \in Names \ {r.name} : line'[n] = line[n] /\ table'[n] = table[n]
  BY <1>1, <1>2
<1>4. /\ IsLine(line'[r.name])
      /\ Set(r.name, r.config.settings)'
  BY <1>2, <1>3, OpenTakesEffect, HandleAssumption DEF Set
<1>5. ASSUME r.name \notin disturbed, NEW c \in Clients
      PROVE  SetFor(r.name, c)'
  <2>1. r \in calling[r.client]
    BY <1>5 DEF LineInv, TableInv, NamesInv, CallsInv
  <2>2. ~ Live(r.client)
    <3>1. handle[r.client].state = "none"
      BY <1>1, <1>2, <2>1 DEF LineInv, TableInv, HandleInv, CallsMatchStates, StateDuring
    <3> QED BY <1>2, <3>1, NotLive DEF LineInv, TableInv, HandleInv
  <2>3. Live(c) => handle[c].fd # {Service!Device(r)}
    <3> SUFFICES ASSUME Live(c), handle[c].fd = {Service!Device(r)} PROVE FALSE
      OBVIOUS
    <3>1. PICK device \in Devices : handle[c].fd = {device} /\ device.origin[1] = c
      BY DEF LineInv, TableInv, NamesInv, DevicesInv
    <3>2. Service!Device(r).origin[1] = r.client
      BY DEF Service!Device
    <3> QED BY <2>2, <3>1, <3>2
  <2>4. \A q \in calling[c] : q.name = r.name /\ Succeeded(q, "open")' => q = r
    BY <1>1, <1>2, <1>5, NobodyRelies DEF Succeeded
  <2> QED BY <1>3, <1>4, <2>3, <2>4 DEF SetFor, Set, Live
<1> QED BY <1>1, <1>3, <1>4, <1>5, LinesOfDecision

\* A refusal: the line may have been set, where no device is open.
LEMMA LinesRefused ==
  ASSUME LineInv, NEW r \in waiting, Service!Refuse(r), UNCHANGED <<handle, calling, disturbed>>,
         \/ line' = line
         \/ /\ line' = [line EXCEPT ![r.name] = Configured(@, r.config.settings)]
            /\ r.op = "open"
            /\ \E v \in {"FdTransferFailed", "InvalidArguments"} : <<r, v>> \in verdicts'
  PROVE  LinesInv'
<1>1. PICK v : /\ verdicts' = verdicts \cup {<<r, v>>} /\ v # "Success"
               /\ r.op = "open" /\ v # "AlreadyOpen" => table[r.name] = {}
  BY DEF Service!Refuse, Service!Decided
<1>2. /\ r \in Requests /\ r.name \in Names /\ r.config \in Configs
      /\ DOMAIN line = Names /\ IsLine(line[r.name]) /\ table' = table
  BY DEF LineInv, LinesInv, TableInv, HandleInv, TypeOK, Requests, Service!Refuse
<1>3. \A q, op : Succeeded(q, op)' <=> Succeeded(q, op)
  BY <1>1 DEF Succeeded
<1>4. CASE line' = line
  <2>1. ASSUME r.name \notin disturbed, NEW c \in Clients PROVE SetFor(r.name, c)'
    <3>1. SetFor(r.name, c)
      BY <1>2, <2>1 DEF LineInv, LinesInv
    <3> QED BY <1>2, <1>3, <1>4, <3>1 DEF SetFor, Set, Live
  <2> QED BY <1>1, <1>2, <1>4, <2>1, LinesOfDecision
<1>5. CASE line' # line
  <2>1. /\ line' = [line EXCEPT ![r.name] = Configured(@, r.config.settings)] /\ r.op = "open"
        /\ \E w \in {"FdTransferFailed", "InvalidArguments"} : <<r, w>> \in verdicts'
    BY <1>5
  <2>2. /\ line'[r.name] = Configured(line[r.name], r.config.settings) /\ DOMAIN line' = Names
        /\ \A n \in Names \ {r.name} : line'[n] = line[n] /\ table'[n] = table[n]
    BY <1>2, <2>1
  <2>3. IsLine(line'[r.name])
    BY <1>2, <2>2, OpenTakesEffect, HandleAssumption
  <2>4. v # "AlreadyOpen"
    <3>1. \A w \in verdicts : w[1] # r
      BY DEF LineInv, TableInv, RequestsInv
    <3> QED BY <1>1, <2>1, <3>1
  <2>5. ASSUME r.name \notin disturbed, NEW c \in Clients PROVE SetFor(r.name, c)'
    <3>1. /\ ~ (Live(c) /\ table[r.name] = handle[c].fd)
          /\ \A q \in calling[c] : q.name = r.name => ~ Succeeded(q, "open")
      BY <1>1, <1>2, <2>1, <2>4, <2>5, NobodyRelies
    <3> QED BY <1>2, <1>3, <3>1 DEF SetFor, Live
  <2> QED BY <1>1, <2>2, <2>3, <2>5, LinesOfDecision
<1> QED BY <1>4, <1>5

\* A configuration that succeeds is of the open handle whose device the table has.
LEMMA LinesConfigured ==
  ASSUME LineInv, NEW r \in waiting, Service!Config(r),
         line' = [line EXCEPT ![r.name] = Reconfigured(@, Framing(r.config.settings))],
         UNCHANGED <<handle, calling, disturbed>>
  PROVE  LinesInv'
<1>1. /\ r.op = "config" /\ table' = table
      /\ verdicts' = verdicts \cup {<<r, "Success">>}
  BY DEF Service!Config, Service!Decided
<1>2. /\ r \in Requests /\ r.name \in Names /\ r.client \in Clients /\ r.config \in Configs
      /\ DOMAIN line = Names /\ IsLine(line[r.name])
  BY DEF LineInv, LinesInv, TableInv, HandleInv, TypeOK, Requests
<1>3. /\ line'[r.name] = Reconfigured(line[r.name], Framing(r.config.settings))
      /\ DOMAIN line' = Names
      /\ \A n \in Names \ {r.name} : line'[n] = line[n] /\ table'[n] = table[n]
  BY <1>1, <1>2
<1>4. /\ IsLine(line'[r.name])
      /\ Effective(line'[r.name].flags) = Framing(r.config.settings)
      /\ Basic(line'[r.name].flags) <=> Basic(line[r.name].flags)
  BY <1>2, <1>3, ConfigTakesEffect, HandleAssumption
<1>5. ASSUME r.name \notin disturbed, NEW c \in Clients
      PROVE  SetFor(r.name, c)'
  <2>1. r \in calling[r.client] /\ calling[r.client] = {r}
    BY <1>2, <1>5 DEF LineInv, TableInv, NamesInv, CallsInv, RequestsInv
  <2>2. handle[r.client].state = "Open" /\ Live(r.client)
    BY <1>1, <1>2, <2>1 DEF LineInv, TableInv, HandleInv, CallsMatchStates, StateDuring, Live,
           NoHandle
  <2>3. handle[r.client].config.path = r.name
    BY <1>1, <1>2, <1>5, <2>1 DEF LineInv, TableInv, NamesInv, CallsInv
  <2>4. table[r.name] = handle[r.client].fd
    BY <1>2, <1>5, <2>2, <2>3 DEF LineInv, TableInv, NamesInv, HeldInv, Holds
  <2>5. PICK device \in Devices : handle[r.client].fd = {device} /\ device.origin[1] = r.client
    BY <1>2, <1>5, <2>2, <2>4, HandleName
  <2>6. Live(c) /\ table[r.name] = handle[c].fd => c = r.client
    <3> SUFFICES ASSUME Live(c), table[r.name] = handle[c].fd PROVE c = r.client
      OBVIOUS
    <3>1. PICK other \in Devices : handle[c].fd = {other} /\ other.origin[1] = c
      BY <1>2, <1>5, HandleName
    <3> QED BY <2>4, <2>5, <3>1
  <2>7. ASSUME NEW q \in calling[c], q.name = r.name, Succeeded(q, "open")' PROVE FALSE
    <3>1. q.op = "open" /\ <<q, "Success">> \in verdicts /\ q.client = c
      BY <1>1, <2>7 DEF Succeeded, LineInv, TableInv, RequestsInv
    <3>2. table[r.name] = {Service!Device(q)}
      BY <1>5, <2>7, <3>1 DEF LineInv, TableInv, NamesInv, OpenedInv
    <3>3. Service!Device(q).origin[1] = c
      BY <3>1 DEF Service!Device
    <3>4. c = r.client
      BY <2>4, <2>5, <3>2, <3>3
    <3> QED BY <1>1, <2>1, <2>7, <3>1, <3>4
  <2>8. ~ Succeeded(r, "config")
    BY DEF Succeeded, LineInv, TableInv, RequestsInv
  <2>9. Basic(line[r.name].flags)
    <3>1. SetFor(r.name, r.client)
      BY <1>2, <1>5 DEF LineInv, LinesInv
    <3>2. Set(r.name, handle[r.client].config.settings)
      BY <2>1, <2>2, <2>4, <2>8, <3>1 DEF SetFor
    <3> QED BY <3>2 DEF Set
  <2>10. Succeeded(r, "config")'
    BY <1>1 DEF Succeeded
  <2>11. ASSUME Live(c), table[r.name] = handle[c].fd
         PROVE  /\ \E q \in calling[c] : Succeeded(q, "config")'
                /\ \A q \in calling[c] : /\ q = r
                                         /\ Basic(line'[r.name].flags)
    BY <1>4, <2>1, <2>6, <2>9, <2>10, <2>11
  <2> QED BY <1>1, <1>4, <2>7, <2>11 DEF SetFor, Set, Live
<1> QED BY <1>1, <1>3, <1>4, <1>5, LinesOfDecision

LEMMA LinesClosed ==
  ASSUME LineInv, NEW r \in waiting, Service!Close(r), line' = line,
         UNCHANGED <<handle, calling, disturbed>>
  PROVE  LinesInv'
<1>1. /\ r.op = "close" /\ verdicts' = verdicts \cup {<<r, "Success">>}
      /\ table' = [table EXCEPT ![r.name] = {}]
  BY DEF Service!Close, Service!Decided
<1>2. /\ r.name \in Names /\ table \in [Names -> SUBSET Devices]
      /\ DOMAIN line = Names /\ IsLine(line[r.name])
  BY DEF LineInv, LinesInv, TableInv, HandleInv, TypeOK, Requests, NamesInv, DevicesInv
<1>3. /\ table'[r.name] = {}
      /\ \A n \in Names \ {r.name} : line'[n] = line[n] /\ table'[n] = table[n]
  BY <1>1, <1>2
<1>4. ASSUME r.name \notin disturbed, NEW c \in Clients
      PROVE  SetFor(r.name, c)'
  <2>1. Live(c) => handle[c].fd # {}
    BY DEF LineInv, TableInv, NamesInv, DevicesInv
  <2>2. \A q \in calling[c] : Succeeded(q, "open")' => Succeeded(q, "open")
    BY <1>1 DEF Succeeded
  <2>3. SetFor(r.name, c)
    BY <1>2, <1>4 DEF LineInv, LinesInv
  <2> QED BY <1>3, <2>1, <2>2, <2>3 DEF SetFor, Set, Live
<1> QED BY <1>1, <1>2, <1>3, <1>4, LinesOfDecision

LEMMA LinesServe ==
  ASSUME LineInv, NEW r \in waiting, ServeOpen(r) \/ ServeConfig(r) \/ ServeClose(r)
  PROVE  LinesInv'
<1>1. UNCHANGED <<handle, calling, disturbed>>
  BY DEF ServeOpen, ServeConfig, ServeClose, clientVars
<1>2. CASE ServeOpen(r)
  <2>1. CASE Service!Open(r) /\ line' = [line EXCEPT ![r.name] = Configured(@, r.config.settings)]
    BY <1>1, <2>1, LinesOpened
  <2>2. ASSUME Service!Refuse(r),
               \/ line' = line
               \/ /\ \/ <<r, "FdTransferFailed">> \in verdicts'
                     \/ <<r, "InvalidArguments">> \in verdicts'
                  /\ line' = [line EXCEPT ![r.name] = Configured(@, r.config.settings)]
        PROVE  LinesInv'
    BY <1>1, <1>2, <2>2, LinesRefused DEF ServeOpen
  <2> QED BY <1>2, <2>1, <2>2 DEF ServeOpen
<1>3. CASE ServeConfig(r)
  BY <1>1, <1>3, LinesConfigured, LinesRefused DEF ServeConfig
<1>4. CASE ServeClose(r)
  BY <1>1, <1>4, LinesClosed, LinesRefused DEF ServeClose
<1> QED BY <1>2, <1>3, <1>4

LEMMA LineInvStep == LineInv /\ [Next]_vars => LineInv'
<1> SUFFICES ASSUME LineInv, [Next]_vars PROVE LineInv'
  OBVIOUS
<1>1. TableInv'
  BY TableInvStep DEF LineInv
<1>2. CASE Restart
  <2>1. disturbed' = Names /\ UNCHANGED line /\ verdicts' = verdicts
    BY <1>2 DEF Restart
  <2> QED BY <1>1, <2>1 DEF LineInv, LinesInv
<1>3. ASSUME NEW r \in waiting, ServeOpen(r) \/ ServeConfig(r) \/ ServeClose(r) PROVE LinesInv'
  BY <1>3, LinesServe
<1>4. ASSUME NEW c \in Clients, ClientStep(c) PROVE LinesInv'
  BY <1>4, LinesCalls, LinesOpen, LinesCreateReturns, LinesCloseReturns,
     LinesReconfigureReturns, LinesGiveUp, LinesExit DEF ClientStep
<1>5. CASE UNCHANGED vars
  <2>1. UNCHANGED <<line, table, verdicts, handle, calling, disturbed>>
    BY <1>5 DEF vars, serviceVars, clientVars
  <2>2. \A n \in Names \ disturbed, c \in Clients : SetFor(n, c)'
    BY <2>1 DEF LineInv, LinesInv, SetFor, Set, Succeeded, Live
  <2> QED BY <1>1, <2>1, <2>2 DEF LineInv, LinesInv
<1> QED BY <1>1, <1>2, <1>3, <1>4, <1>5 DEF Next, ServiceStep, LineInv

\* SerialBackend and InterfaceHandle: on a name nothing has disturbed, the line
\* of an open device is framed as its idle handle says and keeps the basic
\* settings of the open, whichever opens were refused and whatever was configured
\* before.
THEOREM LinesFollowTheirHandles == Spec => []LineFollowsHandle
<1>1. LineInv => LineFollowsHandle
  <2> SUFFICES ASSUME LineInv, NEW n \in Names \ disturbed, NEW c \in Clients, Live(c),
                      calling[c] = {}, table[n] = handle[c].fd
               PROVE  Set(n, handle[c].config.settings)
    BY DEF LineFollowsHandle, Set
  <2>1. SetFor(n, c)
    BY DEF LineInv, LinesInv
  <2> QED BY <2>1 DEF SetFor
<1>2. Init => LineInv
  BY TableInvInit, LinesInit DEF LineInv
<1> QED BY <1>1, <1>2, LineInvStep, PTL DEF Spec
=============================================================================
