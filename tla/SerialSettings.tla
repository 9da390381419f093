--------------------------- MODULE SerialSettings ---------------------------
(***************************************************************************)
(* How the daemon turns the settings of a request into terminal settings.  *)
(* A line is [speed, flags]: flags is the set of bits that are set in      *)
(* c_cflag, c_iflag, c_oflag and c_lflag, the two bits of CSIZE included.  *)
(***************************************************************************)
EXTENDS Naturals

\* SerialConfig: one record per combination that SerialBuilder's setters reach.
DefaultConfig ==
  [baud |-> 115200, dataBits |-> 8, stopBits |-> 1, parity |-> "NONE",
   flow |-> "NONE", rtsDtr |-> FALSE]

Built(settings) ==
  [field \in DOMAIN DefaultConfig |->
     IF field \in DOMAIN settings THEN settings[field] ELSE DefaultConfig[field]]

\* What make_config_request keeps of a configuration: neither the baud rate nor
\* rts_dtr_on is in a SerialConfigRequest.
Framing(config) ==
  [dataBits |-> config.dataBits, stopBits |-> config.stopBits,
   parity |-> config.parity, flow |-> config.flow]

\* What the enums of a request can say.
Framings ==
  [dataBits : 5 .. 8, stopBits : {1, 2}, parity : {"NONE", "ODD", "EVEN"},
   flow : {"NONE", "RTS_CTS", "XON_XOFF"}]

\* What tcgetattr may find: any speed and any flags.
IsLine(line) == line = [speed |-> line.speed, flags |-> line.flags]

-----------------------------------------------------------------------------
Bauds ==
  {110, 300, 600, 1200, 2400, 4800, 9600, 19200, 38400, 57600, 115200, 230400, 460800}

BaudToCflag(baud) == IF baud \in Bauds THEN baud ELSE 115200

CSIZE == {"CSIZE_lo", "CSIZE_hi"}

DataBitsToCflag(bits) ==
  CASE bits = 5 -> {}
    [] bits = 6 -> {"CSIZE_lo"}
    [] bits = 7 -> {"CSIZE_hi"}
    [] OTHER -> CSIZE

StopBitsToCflag(bits) == IF bits = 2 THEN {"CSTOPB"} ELSE {}

\* Mutant: EVEN leaves PARODD as an earlier ODD set it.
ApplyParityKeepsOdd(flags, parity) ==
  CASE parity = "NONE" -> flags \ {"PARENB"}
    [] parity = "ODD"  -> flags \cup {"PARENB", "PARODD"}
    [] parity = "EVEN" -> flags \cup {"PARENB"}

ApplyParity(flags, parity) ==
  CASE parity = "NONE" -> flags \ {"PARENB"}
    [] parity = "ODD"  -> flags \cup {"PARENB", "PARODD"}
    [] parity = "EVEN" -> (flags \cup {"PARENB"}) \ {"PARODD"}

XonXoff == {"IXON", "IXOFF", "IXANY"}

ApplyFlowControl(flags, flow) ==
  CASE flow = "NONE"     -> flags \ ({"CRTSCTS"} \cup XonXoff)
    [] flow = "RTS_CTS"  -> (flags \cup {"CRTSCTS"}) \ XonXoff
    [] flow = "XON_XOFF" -> (flags \ {"CRTSCTS"}) \cup XonXoff

\* handle_config between tcgetattr and tcsetattr; configure_serial_port does the
\* same before its own settings.
Reframe(flags, framing) ==
  LET sized   == (flags \ CSIZE) \cup DataBitsToCflag(framing.dataBits)
      stopped == (sized \ {"CSTOPB"}) \cup StopBitsToCflag(framing.stopBits)
  IN ApplyFlowControl(ApplyParity(stopped, framing.parity), framing.flow)

Reconfigured(line, framing) == [line EXCEPT !.flags = Reframe(@, framing)]

\* configure_serial_port
Configured(line, config) ==
  [speed |-> BaudToCflag(config.baud),
   flags |-> (Reframe(line.flags, Framing(config)) \cup {"CREAD", "CLOCAL"})
               \ {"ICANON", "ECHO", "ECHOE", "ISIG", "OPOST"}]

-----------------------------------------------------------------------------
\* What a line does, read back from its bits as the driver reads them.
Effective(flags) ==
  [dataBits |-> CHOOSE bits \in 5 .. 8 : DataBitsToCflag(bits) = flags \cap CSIZE,
   stopBits |-> IF "CSTOPB" \in flags THEN 2 ELSE 1,
   parity   |-> IF "PARENB" \notin flags THEN "NONE"
                ELSE IF "PARODD" \in flags THEN "ODD" ELSE "EVEN",
   flow     |-> IF "CRTSCTS" \in flags THEN "RTS_CTS"
                ELSE IF flags \cap XonXoff # {} THEN "XON_XOFF" ELSE "NONE"]

\* What configure_serial_port sees to: the receiver is on, what comes in is not
\* gathered into lines, echoed or taken for signals, what goes out is not changed.
Basic(flags) == {"CREAD", "CLOCAL"} \subseteq flags
                /\ {"ICANON", "ECHO", "ISIG", "OPOST"} \cap flags = {}
=============================================================================
