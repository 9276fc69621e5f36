----------------------------- MODULE MCTcpBuffer -----------------------------
(* TcpBuffer for TLC: the configurations give the lengths.                 *)
EXTENDS TcpBuffer

\* The line feeds of the stream.
MCDelims == {2}
=============================================================================
