---------------------------- MODULE MCTaskControl ----------------------------
(***************************************************************************)
(* TaskControl for TLC: the two tasks of dtmain.cxx, the first of them the *)
(* DTavant.  No bound is needed, the state space is finite.                *)
(***************************************************************************)
EXTENDS TaskControl

MCAvants == {1}
=============================================================================
