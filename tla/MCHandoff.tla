----------------------------- MODULE MCHandoff -----------------------------
(***************************************************************************)
(* Model checking of Handoff: with five connections the newest can         *)
(* overtake the dispatcher, be taken twice and be lost, each more than     *)
(* once in one behaviour.                                                  *)
(***************************************************************************)
EXTENDS Handoff

MCMaxConn == 5

=============================================================================
