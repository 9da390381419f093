------------------------- MODULE MCInterfaceHandle -------------------------
(***************************************************************************)
(* An instance of InterfaceHandle for TLC.                                 *)
(***************************************************************************)
EXTENDS InterfaceHandle, TLC

CONSTANTS c1, c2, n1, n2

EvenXon == Built([baud |-> 9600, dataBits |-> 7, parity |-> "EVEN", flow |-> "XON_XOFF"])

\* No Bnnn constant has this rate.
OddRts ==
  Built([baud |-> 250000, dataBits |-> 6, stopBits |-> 2, parity |-> "ODD",
         flow |-> "RTS_CTS", rtsDtr |-> TRUE])

\* On each device every setting can change, in both directions.
MCConfigs ==
  {[path |-> n1, settings |-> EvenXon], [path |-> n1, settings |-> OddRts],
   [path |-> n2, settings |-> DefaultConfig], [path |-> n2, settings |-> OddRts]}

\* A line on which every bit is set that an open has to clear.
MCPowerOn ==
  {[speed |-> 9600,
    flags |-> CSIZE \cup XonXoff \cup
      {"CSTOPB", "PARENB", "PARODD", "CRTSCTS", "ICANON", "ECHO", "ECHOE", "ISIG", "OPOST"}]}

ClientSymmetry == Permutations({c1, c2})
=============================================================================
