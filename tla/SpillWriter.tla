----------------------------- MODULE SpillWriter -----------------------------
(***************************************************************************)
(* How the recorders cut the detector's stream into files: the splitting   *)
(* loop that be.cxx, benb.cxx, thtdcreader.cxx, dtrear.cxx and             *)
(* dtrearhul.cxx each contain a copy of, and fctreader.cxx its own form    *)
(* of.  The stream arrives in blocks; every spill in it                    *)
(* ends with an end marker, after which the time is written, and after     *)
(* nspill markers the next file is opened.                                 *)
(*                                                                         *)
(* A position is a byte of the stream, counted from its beginning.  The    *)
(* marker is the word 0xffff5555, looked for in the words of the block, and *)
(* in dtrearhul.cxx the five bytes 40 00 00 ff ff, looked for at every     *)
(* byte.  Pointers into a block are positions, indices are in bytes, and a  *)
(* write is the interval of positions it copies.                           *)
(***************************************************************************)
EXTENDS Naturals, Sequences, FiniteSets

CONSTANTS
    Copies,         \* the copies of the loop that are looked at, see Copy
    WordLen,        \* sizeof(unsigned int)
    HulMarkLen,     \* bytes of an end marker in dtrearhul.cxx (5 there)
    NSpill,         \* nspill, the -s option
    StreamLen,      \* bound: length of the stream
    BlockLens       \* bound: the lengths a block may have

\* be.cxx, benb.cxx and thtdcreader.cxx have the same loop; "fct" is fctreader.cxx,
\* which goes through the block word by word and only once.
Copy == {"be", "fct", "dtrear", "dtrearhul"}

ASSUME CopiesAssumption == Copies \subseteq Copy
ASSUME SizesAssumption ==
    /\ WordLen \in Nat \ {0} /\ HulMarkLen \in Nat \ {0} /\ NSpill \in Nat \ {0}
    /\ StreamLen \in Nat /\ BlockLens \subseteq Nat

VARIABLES
    copy,           \* the program that writes (fixed)
    marks,          \* where the end markers of the stream begin (fixed)
    got,            \* end of the last block received
    cdata,          \* beginning of that block
    data,           \* the pointer to what has not been written of it
    data_size,      \* how much that is
    i,              \* the index of the for loop, relative to data
    is_spill_end,   \* a marker was found in this pass of the for loop
    pc,             \* "recv", or "scan" inside the loops
    spillcount,     \* markers found so far
    file,           \* number of the open file, 0 when none has been opened
    out,            \* history: the writes of stream data, in order
    whole           \* history: the markers that were Visible in their block

blockVars == <<copy, marks, got, cdata, whole>>
vars == <<blockVars, data, data_size, i, is_spill_end, pc, spillcount, file, out>>

Position == 0..StreamLen

\* The length of a marker, and how far apart the places are where one is looked for.
MarkLen == IF copy = "dtrearhul" THEN HulMarkLen ELSE WordLen
Stride == IF copy = "dtrearhul" THEN 1 ELSE WordLen

\* Nothing is written beyond a marker when it is found.
Plain == copy \in {"be", "fct"}

\* Markers do not overlap.  A detector with a marker word sends words.
IsMarkSet(M) ==
    /\ \A p \in M : p % Stride = 0 /\ p + MarkLen <= StreamLen
    /\ \A p, q \in M : p < q => p + MarkLen <= q

Init ==
    /\ copy \in Copies
    /\ marks \in SUBSET Position /\ IsMarkSet(marks)
    /\ whole = {}
    /\ got = 0 /\ cdata = 0 /\ data = 0 /\ data_size = 0 /\ i = 0
    /\ is_spill_end = FALSE
    /\ pc = "recv"
    /\ spillcount = 0
    /\ file = IF Plain THEN 1 ELSE 0      \* the two dtrear copies: see Receive
    /\ out = <<>>

\* A write of the positions from..to-1, with the time after them or not.
Write(f, from, to, stamped) ==
    [file |-> f, from |-> from, to |-> to, stamped |-> stamped]

\* The markers that can be found: complete in the block, and one of its words.
Visible ==
    {p \in marks : cdata <= p /\ p + MarkLen <= got /\ (p - cdata) % Stride = 0}

\* Mutant: the last index of the block is not looked at.
IsMarkShort(j) == data + j \in Visible /\ j + MarkLen < data_size

\* What the for loop finds at index j.
IsMark(j) == data + j \in Visible

(***************************************************************************)
(* A block arrives, or what the stream has left, which is nothing when it  *)
(* has ended; write_data() of the two dtrear copies opens the file when it *)
(* is called for the first time.  data_size > 0 enters the while loop.     *)
(* fctreader divides gcount() by the size of a word: its blocks are whole  *)
(* words, and what follows the last one of the stream is dropped.          *)
(***************************************************************************)
Receive ==
    /\ pc = "recv"
    /\ \E b \in BlockLens :
           LET n == IF got + b <= StreamLen THEN b ELSE StreamLen - got
           IN  /\ copy = "fct" => n % WordLen = 0
               /\ got' = got + n
               /\ data_size' = n
               /\ pc' = IF n > 0 THEN "scan" ELSE "recv"
    /\ cdata' = got
    /\ data' = got
    /\ i' = 0
    /\ is_spill_end' = FALSE
    /\ file' = IF file = 0 THEN 1 ELSE file
    /\ UNCHANGED <<copy, marks, spillcount, out>>
    /\ whole' = whole \union Visible'

\* dtrear.cxx writes as much as is left, but from the start of the block.
\* dtrearhul.cxx writes what is left, which the next pass writes again.
LeftoverWrite(f, left, from) ==
    IF left = 0 \/ Plain THEN <<>>
    ELSE CASE copy = "dtrear"    -> <<Write(f, cdata, cdata + left, FALSE)>>
           [] copy = "dtrearhul" -> <<Write(f, from, from + left, FALSE)>>

\* Mutant: a file is changed one marker late.
NextFileLate(count) == IF count % NSpill = 1 /\ count > 1 THEN file + 1 ELSE file

\* (spillcount % nspill) == 0 closes the file and opens the next one.
NextFile(count) == IF count % NSpill = 0 THEN file + 1 ELSE file

\* data moves behind the marker while i goes on from where it is: the first
\* indices of the rest are not looked at in this pass, except by fctreader.
IndexAfter(j) == IF copy = "fct" THEN 0 ELSE j + Stride

\* Mutant: the data up to the marker is written without the marker.
MatchCut ==
    /\ pc = "scan"
    /\ \E j \in i..data_size :
           /\ IsMark(j)
           /\ \A l \in i..(j - 1) : ~IsMark(l)
           /\ data' = data + j + MarkLen
           /\ data_size' = data_size - (j + MarkLen)
           /\ i' = IndexAfter(j)
    /\ spillcount' = spillcount + 1
    /\ file' = NextFile(spillcount')
    /\ out' = Append(out, Write(file, data, data' - MarkLen, TRUE))
                \o LeftoverWrite(file', data_size', data')
    /\ is_spill_end' = (copy # "fct")
    /\ UNCHANGED <<blockVars, pc>>

(***************************************************************************)
(* The for loop comes to a marker.  fctreader writes the words up to it    *)
(* one by one, which is one write here, and counts spills from 1, but      *)
(* before it increments.                                                   *)
(***************************************************************************)
Match ==
    /\ pc = "scan"
    /\ \E j \in i..data_size :
           /\ IsMark(j)
           /\ \A l \in i..(j - 1) : ~IsMark(l)
           /\ data' = data + j + MarkLen
           /\ data_size' = data_size - (j + MarkLen)
           /\ i' = IndexAfter(j)
    /\ spillcount' = spillcount + 1
    /\ file' = NextFile(spillcount')
    /\ out' = Append(out, Write(file, data, data', TRUE))
                \o LeftoverWrite(file', data_size', data')
    /\ is_spill_end' = (copy # "fct")
    /\ UNCHANGED <<blockVars, pc>>

NoMarkLeft == \A j \in i..data_size : ~IsMark(j)

\* Mutant: is_spill_end is not reset for the next pass.
PassEndsKeepsFlag ==
    /\ pc = "scan"
    /\ NoMarkLeft
    /\ is_spill_end
    /\ pc' = IF data_size > 0 THEN "scan" ELSE "recv"
    /\ i' = 0
    /\ UNCHANGED <<blockVars, data, data_size, is_spill_end, spillcount, file, out>>

\* The for loop ends after a marker: the while loop looks at the rest again.
PassEnds ==
    /\ pc = "scan"
    /\ NoMarkLeft
    /\ is_spill_end
    /\ pc' = IF data_size > 0 THEN "scan" ELSE "recv"
    /\ i' = 0
    /\ is_spill_end' = FALSE
    /\ UNCHANGED <<blockVars, data, data_size, spillcount, file, out>>

\* Mutant: the rest is written from the start of the block.
WriteRestFromStart ==
    /\ pc = "scan"
    /\ NoMarkLeft
    /\ ~is_spill_end
    /\ pc' = "recv"
    /\ out' = IF data_size = 0 THEN out
              ELSE Append(out, Write(file, cdata, cdata + data_size, FALSE))
    /\ UNCHANGED <<blockVars, data, data_size, i, is_spill_end, spillcount, file>>

\* It ends without one: the rest is written and the loop left.  Only fctreader
\* may come here with nothing to write.
WriteRest ==
    /\ pc = "scan"
    /\ NoMarkLeft
    /\ ~is_spill_end
    /\ pc' = "recv"
    /\ out' = IF data_size = 0 THEN out
              ELSE Append(out, Write(file, data, data + data_size, FALSE))
    /\ UNCHANGED <<blockVars, data, data_size, i, is_spill_end, spillcount, file>>

Scan == Match \/ PassEnds \/ WriteRest

Next == Receive \/ Scan

Spec == Init /\ [][Next]_vars

\* The loop itself keeps running; that more blocks arrive is not assumed.
FairSpec == Spec /\ WF_vars(Scan)

-----------------------------------------------------------------------------
(* Correctness *)

WriteRecord ==
    [file : Nat, from : Nat, to : Nat, stamped : BOOLEAN]

TypeOK ==
    /\ copy \in Copy
    /\ marks \subseteq Nat /\ whole \subseteq marks
    /\ got \in Nat /\ got <= StreamLen
    /\ cdata \in Nat /\ data \in Nat /\ data_size \in Nat /\ i \in Nat
    /\ is_spill_end \in BOOLEAN
    /\ pc \in {"recv", "scan"}
    /\ spillcount \in Nat
    /\ file \in Nat
    /\ out \in Seq(WriteRecord)

\* Where the n-th write has to begin: where the one before it ended.
Begin(n) == IF n = 1 THEN 0 ELSE out[n - 1].to

(***************************************************************************)
(* The files, read one after another without the times, are the stream:    *)
(* every write continues the one before it, across markers, files and      *)
(* blocks.  Nothing is lost, repeated or moved.  dummycheck.cxx:78-90      *)
(* expects this of the files of every program.                             *)
(***************************************************************************)
StreamKept == \A n \in 1..Len(out) : out[n].from = Begin(n)

\* The copies that write nothing beyond a marker keep the stream; of the other two
\* LeftoverWrite says what they write twice.
Contiguous == Plain => StreamKept

(***************************************************************************)
(* Between blocks no byte that was received is missing from the files: all *)
(* of it has been written, by every copy, the ones with a leftover write   *)
(* (dtrear.cxx:281-284, dtrearhul.cxx:315-318) too.                        *)
(***************************************************************************)
WrittenTo(limit) ==
    \A p \in 0..(limit - 1) :
        \E n \in 1..Len(out) : out[n].from <= p /\ p < out[n].to

AllWritten == pc = "recv" => WrittenTo(got)

\* The time follows the marker.
Stamped(p) == \E n \in 1..Len(out) : out[n].stamped /\ out[n].to = p + MarkLen

\* The marker lies inside a stamped write that continues one at least as long as the
\* spill it ends: the for loop went on behind it.
PassedOver(p) ==
    /\ copy # "fct"
    /\ \E n, m \in 1..Len(out) :
           /\ out[n].stamped /\ out[m].stamped
           /\ out[m].from = out[n].to
           /\ out[n].to <= p /\ p + MarkLen < out[m].to
           /\ (p - out[n].to) + MarkLen < (out[n].to - out[n].from) + Stride

(***************************************************************************)
(* Of the markers that are words of one block (in dtrearhul: bytes of one  *)
(* block), however many there are, the loop of be.cxx:104-141 overlooks    *)
(* only ends of spills that are no longer than the stamped spill before    *)
(* them and that a later marker of the block follows; fctreader.cxx:123    *)
(* overlooks none.                                                         *)
(***************************************************************************)
OnlyShortSpillsMissed ==
    pc = "recv" => \A p \in whole : Stamped(p) \/ PassedOver(p)

\* The stamps of file f, and the markers that are complete in it.
StampsIn(f) == {n \in 1..Len(out) : out[n].file = f /\ out[n].stamped}

MarksIn(f) ==
    {p \in whole : \E n \in 1..Len(out) :
        /\ out[n].file = f
        /\ out[n].from <= p /\ p + MarkLen <= out[n].to}

(***************************************************************************)
(* A closed file holds nspill spills: "The number of spills in a file"     *)
(* (be_printhelp.cxx:8), not one more or less.                             *)
(***************************************************************************)
FilesHoldNSpill ==
    Plain => \A f \in 1..(file - 1) : Cardinality(MarksIn(f)) = NSpill

(***************************************************************************)
(* What does hold of the closed files: each has the time nspill times, in  *)
(* every copy, and fctreader's have no marker besides (be.cxx:116,         *)
(* fctreader.cxx:136).                                                     *)
(***************************************************************************)
ClosedFiles ==
    \A f \in 1..(file - 1) :
        /\ Cardinality(StampsIn(f)) = NSpill
        /\ copy = "fct" => Cardinality(MarksIn(f)) = NSpill

(***************************************************************************)
(* The loop comes to the end of every block.                               *)
(***************************************************************************)
LoopEnds == pc = "scan" ~> pc = "recv"

-----------------------------------------------------------------------------
(* Why nothing is lost: the invariant SpillWriterProofs proves inductive   *)

\* data and data_size are the part of the block that is not written yet, and up to
\* it all is.
RestIsUnwritten ==
    /\ pc = "scan" => data + data_size = got /\ WrittenTo(data)
    /\ Plain => Begin(Len(out) + 1) = IF pc = "scan" THEN data ELSE got
    /\ AllWritten

IInv == TypeOK /\ Contiguous /\ RestIsUnwritten

-----------------------------------------------------------------------------
(* Why few markers are overlooked: the for loop goes on behind a marker    *)
(* from an index that counts from the one before it, and passes over the   *)
(* markers up to there; the next pass finds them, unless this pass finds   *)
(* one behind them.                                                        *)

\* The markers of earlier blocks lie before this one, and its own are Visible.
Divided ==
    /\ IsMarkSet(marks)
    /\ cdata <= got
    /\ Visible \subseteq whole
    /\ \A p \in whole : p + MarkLen <= cdata \/ p \in Visible

\* Inside the loops: what is behind data has been found or passed over, and an index
\* other than 0 comes from the stamped write that ends at data.
FoundBehind ==
    pc = "scan" =>
        /\ cdata <= data
        /\ \A p \in whole : p < data => /\ p + MarkLen <= data
                                        /\ Stamped(p) \/ PassedOver(p)
        /\ i > 0 =>
              /\ copy # "fct" /\ is_spill_end
              /\ \E n \in 1..Len(out) :
                     /\ out[n].stamped /\ out[n].to = data
                     /\ i + MarkLen = (data - out[n].from) + Stride

StampInv == Divided /\ FoundBehind /\ OnlyShortSpillsMissed

\* The stamps and, in fctreader, the markers in the open file are those since the
\* last change of files; nothing is in a later file.
CountInv ==
    /\ file = 0 => pc = "recv" /\ spillcount = 0 /\ out = <<>>
    /\ \A n \in 1..Len(out) : out[n].file <= file
    /\ Cardinality(StampsIn(file)) = spillcount % NSpill
    /\ copy = "fct" =>
           /\ \A n \in 1..Len(out) : out[n].to <= IF pc = "scan" THEN data ELSE got
           /\ Cardinality(MarksIn(file)) = spillcount % NSpill
    /\ ClosedFiles

=============================================================================
