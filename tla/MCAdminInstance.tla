--------------------------- MODULE MCAdminInstance ---------------------------
(***************************************************************************)
(* Instantiation of AdminInstance for TLC: two instances whose addresses   *)
(* overlap as text (1.1.1.1 occurs in 1.1.1.10) and two concurrent         *)
(* requests.                                                               *)
(***************************************************************************)
EXTENDS AdminInstance, TLC

CONSTANTS ip1, ip10

MCTextWithin == {<<ip1, ip10>>}

\* Requests are interchangeable: no action singles out a handler.
HandlerSymmetry == Permutations(Handlers)
=============================================================================
