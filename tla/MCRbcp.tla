------------------------------- MODULE MCRbcp -------------------------------
(* Rbcp for TLC: the configuration gives the lengths.                      *)
EXTENDS Rbcp
=============================================================================
