---------------------------- MODULE BlockRecorder ----------------------------
(***************************************************************************)
(* What the data path of dtavant promises, without its threads, sockets    *)
(* and counters.  Blocks of the detector's stream are accepted one after   *)
(* another, each during some run of the reader; a block is then stored, or *)
(* given up.  Within a run blocks are stored in the order they were        *)
(* accepted, and no block is stored twice.                                 *)
(***************************************************************************)
EXTENDS Naturals, Sequences

VARIABLES
    accepted,   \* number of blocks accepted so far
    transit,    \* the blocks accepted and neither stored nor given up
    recorded    \* the blocks stored, in order

vars == <<accepted, transit, recorded>>

Block == [run : Nat, seg : Nat]

Init ==
    /\ accepted = 0
    /\ transit = {}
    /\ recorded = <<>>

\* The next block of the stream arrives, during some run.
Accept ==
    /\ accepted' = accepted + 1
    /\ \E b \in transit' :
           /\ b \in Block /\ b.seg = accepted + 1
           /\ transit' = transit \union {b}
    /\ UNCHANGED recorded

\* b is the oldest of its run among the blocks in S.
IsOldest(b, S) == \A c \in S : c.run = b.run => b.seg <= c.seg

Store ==
    \E b \in transit :
        /\ IsOldest(b, transit)
        /\ recorded' = Append(recorded, b)
        /\ transit' = transit \ {b}
        /\ UNCHANGED accepted

GiveUp ==
    /\ \E lost \in SUBSET transit : transit' = transit \ lost
    /\ UNCHANGED <<accepted, recorded>>

Next == Accept \/ Store \/ GiveUp

Spec == Init /\ [][Next]_vars

(***************************************************************************)
(* Blocks of one run are stored in the order they were accepted, and no    *)
(* block twice: what a reader of the files relies on within a run.         *)
(***************************************************************************)
InOrderOfRun ==
    \A i, j \in 1..Len(recorded) :
        i < j /\ recorded[i].run = recorded[j].run =>
            recorded[i].seg < recorded[j].seg

\* Every block in transit has a number of its own, beyond those stored of its run.
Numbered ==
    /\ \A b \in transit : b.seg <= accepted
    /\ \A b, c \in transit : b.seg = c.seg => b = c
    /\ \A i \in 1..Len(recorded) :
           /\ recorded[i].seg <= accepted
           /\ \A b \in transit :
                  recorded[i].run = b.run => recorded[i].seg < b.seg

IInv ==
    /\ accepted \in Nat /\ transit \subseteq Block /\ recorded \in Seq(Block)
    /\ Numbered
    /\ InOrderOfRun

=============================================================================
