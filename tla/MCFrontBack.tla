----------------------------- MODULE MCFrontBack -----------------------------
(***************************************************************************)
(* FrontBack for TLC.                                                      *)
(*                                                                         *)
(* Block numbers order the messages and liveness is checked, so no         *)
(* symmetry applies.                                                       *)
(***************************************************************************)
EXTENDS FrontBack
=============================================================================
