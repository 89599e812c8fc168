------------------------- MODULE MCDeltaConnection -------------------------
(***************************************************************************)
(* Instantiation of DeltaConnection for TLC.                               *)
(***************************************************************************)
EXTENDS DeltaConnection
=============================================================================
