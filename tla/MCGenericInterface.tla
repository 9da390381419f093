------------------------ MODULE MCGenericInterface ------------------------
(***************************************************************************)
(* Instances of GenericInterface for TLC: one application thread beside    *)
(* the thread of run(), and one interface.                                 *)
(***************************************************************************)
EXTENDS GenericInterface

CONSTANTS app, loop, i1
=============================================================================
