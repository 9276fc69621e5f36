----------------------------- MODULE MCPipeline -----------------------------
(***************************************************************************)
(* Pipeline for TLC.                                                       *)
(*                                                                         *)
(* Block numbers order the messages, so no symmetry applies.               *)
(***************************************************************************)
EXTENDS Pipeline
=============================================================================
