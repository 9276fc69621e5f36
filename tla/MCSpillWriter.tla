---------------------------- MODULE MCSpillWriter ----------------------------
(***************************************************************************)
(* SpillWriter for TLC: the configurations give the length of the stream   *)
(* and the lengths a block may have; Init chooses where the markers are,   *)
(* Receive where the blocks end.  A word has two bytes instead of four and *)
(* a marker of dtrearhul two instead of five, which is enough for the end  *)
(* of a block to divide it and for a block to be no multiple of a word.    *)
(***************************************************************************)
EXTENDS SpillWriter

MCCopies == Copy
MCBe == {"be"}

\* Blocks of any length, and of three whole words.
MCAnyBlock == 1..7
MCThreeWords == {6}
=============================================================================
