------------------------------ MODULE MCDtmain ------------------------------
(***************************************************************************)
(* Dtmain for TLC.                                                         *)
(***************************************************************************)
EXTENDS Dtmain

MCAvants == {1}
=============================================================================
