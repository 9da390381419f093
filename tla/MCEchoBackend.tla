--------------------------- MODULE MCEchoBackend ---------------------------
(***************************************************************************)
(* Instances of EchoBackend for TLC.                                       *)
(***************************************************************************)
EXTENDS EchoBackend

CONSTANTS e1, e2
=============================================================================
