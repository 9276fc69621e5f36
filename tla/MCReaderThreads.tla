--------------------------- MODULE MCReaderThreads ---------------------------
(* ReaderThreads for TLC: the configurations give the bounds.              *)
EXTENDS ReaderThreads
=============================================================================
