------------------------- MODULE MCThreadController -------------------------
(* ThreadController for TLC: the configuration gives the objects as model  *)
(* values.                                                                 *)
EXTENDS ThreadController
=============================================================================
