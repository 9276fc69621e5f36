--------------------------- MODULE FrontBackProofs ---------------------------
(***************************************************************************)
(* Proofs about FrontBack, for any set of detectors and every bound.       *)
(*                                                                         *)
(* IInv is inductive.  Two facts carry it: the stages from a front end to  *)
(* the file keep the order of its blocks (Fifo), and what a front end that *)
(* is there has lost is older than all it still has (LostBefore), since a  *)
(* front end loses blocks only by ending and a back end only those that    *)
(* were handed over to it.                                                 *)
(***************************************************************************)
EXTENDS FrontBack, TLAPS

LEMMA InitIInv == Init => IInv
<1> SUFFICES ASSUME Init PROVE IInv
    OBVIOUS
<1>1. TypeOK
    BY DEF Init, TypeOK
<1>2. /\ Transit = {} /\ Written = {} /\ OfThisBack = {} /\ Arrived = {}
      /\ Buffers = {} /\ InHand = {}
    BY DEF Init, Transit, Written, OfThisBack, Arrived, Buffers, InHand
<1>3. OneRunEach /\ Numbered /\ BackHolds
    BY <1>2 DEF Init, OneRunEach, Numbered, BackHolds, Alive
<1>4. Fifo /\ LostBefore
    BY <1>2 DEF Init, Fifo, LostBefore, Before, Alive
<1>5. NoGap(OfThisBack) /\ NoGap(Arrived)
    BY <1>2 DEF NoGap
<1>6. QED
    BY <1>1, <1>3, <1>4, <1>5 DEF IInv

-----------------------------------------------------------------------------
(* Types *)

LEMMA FrontType ==
    ASSUME TypeOK, NEW f \in Fronts, FeStart(f) \/ FeStep(f) \/ FeTrouble(f)
    PROVE  TypeOK'
<1>1. CASE FeStart(f)
    BY <1>1 DEF TypeOK, FeStart, FeGoto, backVars
<1>2. CASE FeRead(f)
    BY <1>2 DEF TypeOK, FeRead, FeGoto, backVars, Block
<1>3. CASE FeSend(f)
    BY <1>3 DEF TypeOK, FeSend, FeGoto, backVars
<1>4. CASE FeLeaves(f)
    BY <1>4 DEF TypeOK, FeLeaves, FeGoto, backVars
<1>5. CASE FeReadFails(f)
    BY <1>5 DEF TypeOK, FeReadFails, FeGoto, Fault, backVars
<1>6. ASSUME FeDies(f)
      PROVE  /\ fe' \in [Fronts -> {"off", "read", "send", "linger"}]
             /\ buf' \in [Fronts -> SUBSET Block]
             /\ pipe' \subseteq Block /\ wire' \subseteq Block
             /\ lost' \subseteq Block
    BY <1>6 DEF TypeOK, FeDies, OfRun
<1>7. CASE FeAborts(f)
    BY <1>6, <1>7 DEF TypeOK, FeAborts, FeDies, Fault, backVars
<1>8. CASE FeKilled(f)
    BY <1>6, <1>8 DEF TypeOK, FeKilled, FeDies, Killed, backVars
<1>9. QED
    BY <1>1, <1>2, <1>3, <1>4, <1>5, <1>7, <1>8 DEF FeStep, FeTrouble

LEMMA BackType ==
    ASSUME TypeOK, HandOver \/ BackStart \/ BackStep \/ BackTrouble
    PROVE  TypeOK'
<1>1. CASE HandOver
    BY <1>1 DEF TypeOK, HandOver, Oldest, feVars, backVars
<1>2. CASE BackStart
    BY <1>2 DEF TypeOK, BackStart, feVars
<1>3. CASE BackRecv
    BY <1>3 DEF TypeOK, BackRecv, Oldest, feVars
<1>4. CASE BackRecvNothing
    BY <1>4 DEF TypeOK, BackRecvNothing, feVars
<1>5. CASE BackRecvFails
    BY <1>5 DEF TypeOK, BackRecvFails, Fault, feVars
<1>6. CASE BackWrite
    <2>1. PICK b \in held : recorded' = Append(recorded, b)
        BY <1>6 DEF BackWrite
    <2>2. recorded' \in Seq(Block) /\ Len(recorded') = Len(recorded) + 1
        BY <2>1 DEF TypeOK
    <2>3. QED
        BY <1>6, <2>2 DEF TypeOK, BackWrite, feVars
<1>7. ASSUME BackDies
      PROVE  /\ back' \in {"off"} /\ held' = {} /\ wire' = {}
             /\ lost' \subseteq Block
    BY <1>7 DEF TypeOK, BackDies, InHand
<1>8. CASE BackCrashes
    BY <1>7, <1>8 DEF TypeOK, BackCrashes, BackDies, feVars
<1>9. CASE BackKilled
    BY <1>7, <1>9 DEF TypeOK, BackKilled, BackDies, Killed, feVars
<1>10. QED
    BY <1>1, <1>2, <1>3, <1>4, <1>5, <1>6, <1>8, <1>9 DEF BackStep, BackTrouble

\* What the sets of the invariant have in them.
LEMMA PartsAreBlocks ==
    ASSUME TypeOK
    PROVE  /\ Transit \subseteq Block /\ Written \subseteq Block /\ lost \subseteq Block
           /\ OfThisBack \subseteq Written /\ Arrived \subseteq Block
<1>1. recorded \in Seq(Block) /\ Len(recorded) \in Nat /\ since \in Nat
    BY DEF TypeOK
<1>2. Written \subseteq Block /\ OfThisBack \subseteq Written
    BY <1>1 DEF Written, OfThisBack
<1>3. Transit \subseteq Block /\ lost \subseteq Block
    BY DEF TypeOK, Transit, Buffers, InHand
<1>4. QED
    BY <1>2, <1>3 DEF Arrived, Transit

-----------------------------------------------------------------------------
(* Steps of the front ends *)

\* The sets of the invariant that no front end touches.
LEMMA FrontFrame ==
    ASSUME UNCHANGED backVars
    PROVE  /\ Written' = Written /\ OfThisBack' = OfThisBack
           /\ InHand' = InHand
BY DEF backVars, Written, OfThisBack, InHand

LEMMA FeStartIInv ==
    ASSUME IInv, NEW f \in Fronts, FeStart(f)
    PROVE  IInv' /\ Transit' = Transit
<1>1. TypeOK /\ TypeOK'
    BY FrontType DEF IInv
<1>2. /\ Written' = Written /\ OfThisBack' = OfThisBack /\ InHand' = InHand
      /\ Buffers' = Buffers /\ Transit' = Transit /\ Arrived' = Arrived
    BY FrontFrame DEF FeStart, Buffers, Transit, Arrived
<1>3. /\ ~Alive(f) /\ Alive(f)' /\ run'[f] = starts + 1 /\ starts' = starts + 1
      /\ \A g \in Fronts \ {f} : (Alive(g)' <=> Alive(g)) /\ run'[g] = run[g]
      /\ \A g \in Fronts \ {f} : fe'[g] = fe[g]
      /\ UNCHANGED <<accepted, buf, pipe, wire, backVars, lost>>
    BY <1>1 DEF FeStart, FeGoto, Alive, TypeOK
<1>4. OneRunEach'
    <2>0. starts \in Nat /\ \A g \in Fronts : run[g] \in Nat /\ run[g] <= starts
        BY <1>1 DEF IInv, OneRunEach, TypeOK
    <2>1. \A g \in Fronts : run'[g] <= starts'
        BY <1>3, <2>0
    <2>2. \A g, h \in Fronts :
              Alive(g)' /\ Alive(h)' /\ run'[g] = run'[h] => g = h
        BY <1>3, <2>0 DEF IInv, OneRunEach
    <2>3. buf[f] = {}
        BY <1>1, <1>3 DEF IInv, OneRunEach, Alive, TypeOK
    <2>4. \A g \in Fronts : \A b \in buf[g] : fe'[g] = "send" /\ b.run = run'[g]
        BY <1>3, <2>3 DEF IInv, OneRunEach
    <2>5. \A b \in pipe : \E g \in Fronts : Alive(g)' /\ b.run = run'[g]
        BY <1>3 DEF IInv, OneRunEach
    <2>6. QED
        BY <1>3, <2>1, <2>2, <2>4, <2>5 DEF OneRunEach
<1>5. Numbered'
    <2>1. \A n \in Nat : n <= starts => n <= starts'
        BY <1>1, <1>3 DEF TypeOK
    <2>2. Transit \union Written \union lost \subseteq Block
        BY <1>1, PartsAreBlocks
    <2>3. QED
        BY <1>2, <1>3, <2>1, <2>2 DEF IInv, Numbered, Block
<1>6. Fifo' /\ BackHolds' /\ NoGap(OfThisBack)' /\ (back' # "off" => NoGap(Arrived)')
    BY <1>2, <1>3 DEF IInv, Fifo, Before, BackHolds, NoGap, backVars
<1>7. LostBefore'
    <2>1. OfRun(lost, starts + 1) = {}
        BY <1>1 DEF IInv, Numbered, OfRun, TypeOK, Block
    <2>2. QED
        BY <1>2, <1>3, <2>1 DEF IInv, LostBefore, Before, backVars, OfRun
<1>8. QED
    BY <1>1, <1>2, <1>4, <1>5, <1>6, <1>7 DEF IInv

LEMMA FeReadIInv ==
    ASSUME IInv, NEW f \in Fronts, FeRead(f)
    PROVE  IInv' /\ Recorder!Accept
<1> DEFINE b == [run |-> run[f], seg |-> accepted + 1]
<1>1. TypeOK /\ TypeOK'
    BY FrontType DEF IInv, FeStep
<1>2. /\ fe[f] = "read" /\ fe' = [fe EXCEPT ![f] = "send"]
      /\ accepted' = accepted + 1 /\ buf' = [buf EXCEPT ![f] = {b}]
      /\ UNCHANGED <<run, starts, pipe, wire, backVars, lost>>
    BY DEF FeRead, FeGoto
<1>3. /\ Written' = Written /\ OfThisBack' = OfThisBack /\ InHand' = InHand
      /\ Arrived' = Arrived
    BY <1>2, FrontFrame DEF Arrived
<1>4. Buffers' = Buffers \union {b}
    <2>1. buf[f] = {}
        BY <1>1, <1>2 DEF IInv, OneRunEach, TypeOK
    <2>2. QED
        BY <1>1, <1>2, <2>1 DEF TypeOK, Buffers
<1>5. Transit' = Transit \union {b}
    BY <1>2, <1>3, <1>4 DEF Transit
<1>6. /\ b.run = run[f] /\ run[f] <= starts /\ b.seg = accepted + 1
      /\ b \in Block /\ accepted \in Nat /\ starts \in Nat
    BY <1>1 DEF IInv, OneRunEach, TypeOK, Block
<1>7. Transit \union Written \union lost \subseteq Block
    BY <1>1, PartsAreBlocks
<1>8. Numbered'
    BY <1>2, <1>3, <1>5, <1>6, <1>7 DEF IInv, Numbered, Block
<1>9. \A c \in Transit \union Written \union lost : c.seg < b.seg
    BY <1>6, <1>7 DEF IInv, Numbered, Block
<1>10. \A g \in Fronts : Alive(g)' <=> Alive(g)
    BY <1>1, <1>2 DEF TypeOK, Alive
<1>11. OneRunEach'
    BY <1>1, <1>2, <1>6, <1>10 DEF IInv, OneRunEach, TypeOK
<1>12. Fifo'
    BY <1>2, <1>3, <1>4, <1>5, <1>9 DEF IInv, Fifo, Before, Transit
<1>13. BackHolds' /\ NoGap(OfThisBack)' /\ (back' # "off" => NoGap(Arrived)')
    BY <1>2, <1>3 DEF IInv, BackHolds, NoGap, backVars
<1>14. LostBefore'
    BY <1>2, <1>3, <1>4, <1>9, <1>10 DEF IInv, LostBefore, Before, OfRun, backVars
<1>15. Recorder!Accept
    <2>1. b \in Transit' /\ b \in Recorder!Block
        BY <1>5, <1>6 DEF Block, Recorder!Block
    <2>2. recorded' = recorded
        BY <1>2 DEF backVars
    <2>3. QED
        BY <1>2, <1>5, <1>6, <2>1, <2>2 DEF Recorder!Accept
<1>16. QED
    BY <1>1, <1>8, <1>11, <1>12, <1>13, <1>14, <1>15 DEF IInv

LEMMA FeSendIInv ==
    ASSUME IInv, NEW f \in Fronts, FeSend(f)
    PROVE  IInv' /\ Transit' = Transit
<1>1. TypeOK /\ TypeOK'
    BY FrontType DEF IInv, FeStep
<1>2. /\ fe[f] = "send" /\ fe' = [fe EXCEPT ![f] = "read"]
      /\ pipe' = pipe \union buf[f] /\ buf' = [buf EXCEPT ![f] = {}]
      /\ UNCHANGED <<run, starts, accepted, wire, backVars, lost>>
    BY DEF FeSend, FeGoto
<1>3. /\ Written' = Written /\ OfThisBack' = OfThisBack /\ InHand' = InHand
      /\ Arrived' = Arrived
    BY <1>2, FrontFrame DEF Arrived
<1>4. /\ Buffers = Buffers' \union buf[f]
      /\ \A c \in Buffers' : \E g \in Fronts \ {f} : c \in buf[g]
    BY <1>1, <1>2 DEF TypeOK, Buffers
<1>5. Transit' = Transit
    BY <1>2, <1>3, <1>4 DEF Transit
<1>6. \A g \in Fronts : Alive(g)' <=> Alive(g)
    BY <1>1, <1>2 DEF TypeOK, Alive
<1>7. OneRunEach'
    BY <1>1, <1>2, <1>6 DEF IInv, OneRunEach, TypeOK, Alive
<1>8. Numbered'
    BY <1>2, <1>3, <1>5 DEF IInv, Numbered
<1>9. Before(buf[f], Buffers')
    <2> SUFFICES ASSUME NEW b \in buf[f], NEW c \in Buffers', b.run = c.run
                 PROVE  FALSE
        BY DEF Before
    <2>1. PICK g \in Fronts \ {f} : c \in buf[g]
        BY <1>4
    <2>2. Alive(f) /\ Alive(g) /\ b.run = run[f] /\ c.run = run[g]
        BY <1>2, <2>1 DEF IInv, OneRunEach, Alive
    <2>3. QED
        BY <2>1, <2>2 DEF IInv, OneRunEach
<1>10. Fifo'
    BY <1>2, <1>3, <1>4, <1>5, <1>9 DEF IInv, Fifo, Before
<1>11. BackHolds' /\ NoGap(OfThisBack)' /\ (back' # "off" => NoGap(Arrived)')
    BY <1>2, <1>3 DEF IInv, BackHolds, NoGap, backVars
<1>12. LostBefore'
    BY <1>2, <1>3, <1>4, <1>6 DEF IInv, LostBefore, Before, OfRun, backVars
<1>13. QED
    BY <1>1, <1>5, <1>7, <1>8, <1>10, <1>11, <1>12 DEF IInv

\* Leaving the loop, and the process after it: nothing of it is anywhere but in
\* the wire.
LEMMA FeEndsIInv ==
    ASSUME IInv, NEW f \in Fronts, FeReadFails(f) \/ FeLeaves(f)
    PROVE  IInv' /\ Transit' = Transit
<1>1. TypeOK /\ TypeOK'
    BY FrontType DEF IInv, FeStep, FeTrouble
<1>2. /\ UNCHANGED <<run, starts, accepted, buf, pipe, wire, backVars, lost>>
      /\ \A g \in Fronts \ {f} : fe'[g] = fe[g]
      /\ fe[f] \in {"read", "linger"}
      /\ fe'[f] = "off" => OfRun(pipe, run[f]) = {}
    BY <1>1 DEF FeReadFails, FeLeaves, FeGoto, TypeOK
<1>3. /\ Written' = Written /\ OfThisBack' = OfThisBack /\ InHand' = InHand
      /\ Arrived' = Arrived /\ Buffers' = Buffers
    BY <1>2, FrontFrame DEF Arrived, Buffers
<1>4. Transit' = Transit
    BY <1>2, <1>3 DEF Transit
<1>5. \A g \in Fronts : Alive(g)' => Alive(g)
    BY <1>2 DEF Alive
<1>6. OneRunEach'
    <2>1. \A b \in pipe : \E g \in Fronts : Alive(g)' /\ b.run = run[g]
        BY <1>2 DEF IInv, OneRunEach, Alive, OfRun
    <2>2. \A g \in Fronts : \A b \in buf[g] : fe'[g] = "send"
        BY <1>2 DEF IInv, OneRunEach
    <2>3. QED
        BY <1>2, <1>5, <2>1, <2>2 DEF IInv, OneRunEach
<1>7. Numbered' /\ Fifo'
    BY <1>2, <1>3, <1>4 DEF IInv, Numbered, Fifo, Before
<1>8. BackHolds' /\ NoGap(OfThisBack)' /\ (back' # "off" => NoGap(Arrived)')
    BY <1>2, <1>3 DEF IInv, BackHolds, NoGap, backVars
<1>9. LostBefore'
    BY <1>2, <1>3, <1>5 DEF IInv, LostBefore, Before, OfRun, backVars
<1>10. QED
    BY <1>1, <1>4, <1>6, <1>7, <1>8, <1>9 DEF IInv

\* The process ends with everything of it but the beginning of the wire, which
\* is older than the rest.
LEMMA FeDiesIInv ==
    ASSUME IInv, NEW f \in Fronts, FeAborts(f) \/ FeKilled(f)
    PROVE  IInv' /\ Transit' \subseteq Transit
<1>1. TypeOK /\ TypeOK'
    BY FrontType DEF IInv, FeTrouble
<1>2. /\ FeDies(f)
      /\ UNCHANGED <<run, starts, accepted, backVars>>
    BY DEF FeAborts, FeKilled, FeDies
<1>3. /\ Alive(f) /\ ~Alive(f)' /\ buf'[f] = {}
      /\ \A g \in Fronts \ {f} :
             fe'[g] = fe[g] /\ (Alive(g)' <=> Alive(g)) /\ buf'[g] = buf[g]
    BY <1>1, <1>2 DEF FeDies, Alive, TypeOK
<1>4. PICK cut \in 0..accepted :
          LET gone == OfRun(pipe, run[f])
                        \union {b \in OfRun(wire, run[f]) : b.seg > cut}
          IN /\ pipe' = pipe \ gone
             /\ wire' = wire \ gone
             /\ lost' = lost \union gone \union buf[f]
    BY <1>2 DEF FeDies
<1> DEFINE new == OfRun(pipe, run[f]) \union buf[f]
                    \union {b \in OfRun(wire, run[f]) : b.seg > cut}
<1>5. /\ pipe' \subseteq pipe /\ wire' \subseteq wire /\ lost' = lost \union new
      /\ \A b \in pipe' : b.run # run[f]
      /\ \A b \in wire' : b.run = run[f] => ~(b.seg > cut)
    BY <1>4 DEF OfRun
<1>6. Buffers' \subseteq Buffers /\ \A b \in Buffers' : b.run # run[f]
    <2>1. \A b \in Buffers' : \E g \in Fronts \ {f} : b \in buf[g]
        BY <1>3 DEF Buffers
    <2>2. Buffers' \subseteq Buffers
        BY <2>1 DEF Buffers
    <2>3. \A b \in Buffers' : b.run # run[f]
        BY <1>3, <2>1 DEF IInv, OneRunEach, Alive
    <2>4. QED
        BY <2>2, <2>3
<1>7. /\ Written' = Written /\ OfThisBack' = OfThisBack /\ InHand' = InHand
      /\ OfThisBack \subseteq Written
      /\ back' = back
    BY <1>1, <1>2, FrontFrame DEF backVars, Written, OfThisBack, TypeOK
<1>8. Transit' \subseteq Transit /\ Arrived' \subseteq Arrived
    BY <1>5, <1>6, <1>7 DEF Transit, Arrived
<1>9. new \subseteq Transit /\ \A b \in new : b.run = run[f]
    BY <1>3 DEF Transit, Buffers, OfRun, IInv, OneRunEach
<1>10. OneRunEach'
    <2>1. \A b \in pipe' : \E g \in Fronts : Alive(g)' /\ b.run = run[g]
        BY <1>3, <1>5 DEF IInv, OneRunEach
    <2>2. \A g \in Fronts : \A b \in buf'[g] : fe'[g] = "send" /\ b.run = run[g]
        BY <1>3 DEF IInv, OneRunEach
    <2>3. QED
        BY <1>2, <1>3, <2>1, <2>2 DEF IInv, OneRunEach
<1>11. Numbered'
    BY <1>2, <1>5, <1>7, <1>8, <1>9 DEF IInv, Numbered
<1>12. Fifo'
    BY <1>5, <1>6, <1>7, <1>8 DEF IInv, Fifo, Before
<1>13. BackHolds'
    BY <1>2, <1>5, <1>7 DEF IInv, BackHolds, backVars
<1>14. LostBefore'
    BY <1>2, <1>3, <1>5, <1>6, <1>7, <1>8, <1>9
    DEF IInv, OneRunEach, LostBefore, Before, OfRun
\* Nothing of this run that is left is younger than a block it has lost now.
<1>15. \A b \in new, c \in Written \union Arrived' : b.run = c.run => ~(b.seg < c.seg)
    <2> SUFFICES ASSUME NEW b \in new, NEW c \in Written \union Arrived',
                        b.run = c.run
                 PROVE  ~(b.seg < c.seg)
        OBVIOUS
    <2>1. b \in Block /\ c \in Block /\ cut \in Nat
        BY <1>1, <1>8, <1>9, PartsAreBlocks DEF TypeOK
    <2>2. CASE c \in Written
        BY <1>9, <2>1, <2>2 DEF IInv, Fifo, Before, Block
    <2>3. CASE c \in InHand
        <3>1. b \in wire \union pipe \union Buffers
            BY DEF OfRun, Buffers
        <3>2. QED
            BY <2>1, <2>3, <3>1 DEF IInv, Fifo, Before, Block
    <2>4. CASE c \in wire'
        <3>1. b \in pipe \union Buffers \/ b.seg > cut
            BY DEF OfRun, Buffers
        <3>2. c.seg <= cut /\ c \in wire
            BY <1>5, <1>9, <2>1, <2>4 DEF Block
        <3>3. QED
            BY <2>1, <3>1, <3>2 DEF IInv, Fifo, Before, Block
    <2>5. QED
        BY <1>7, <2>2, <2>3, <2>4 DEF Arrived
<1>16. NoGap(OfThisBack)' /\ (back' # "off" => NoGap(Arrived)')
    BY <1>5, <1>7, <1>8, <1>15 DEF IInv, NoGap
<1>17. QED
    BY <1>1, <1>8, <1>10, <1>11, <1>12, <1>13, <1>14, <1>16 DEF IInv

-----------------------------------------------------------------------------
(* Steps of the connection and of the back ends *)

\* A message handed over is younger than what arrived before, and than what its
\* living front end has lost.
LEMMA HandOverIInv ==
    ASSUME IInv, HandOver
    PROVE  IInv' /\ Transit' = Transit
<1>1. TypeOK /\ TypeOK'
    BY BackType DEF IInv
<1>2. PICK m \in Oldest(pipe) : pipe' = pipe \ {m} /\ wire' = wire \union {m}
    BY DEF HandOver
<1>3. UNCHANGED <<feVars, backVars, lost>> /\ back # "off" /\ back' = back
    BY DEF HandOver, backVars
<1>4. /\ Written' = Written /\ OfThisBack' = OfThisBack /\ InHand' = InHand
      /\ Buffers' = Buffers /\ m \in pipe
    BY <1>2, <1>3, FrontFrame DEF Buffers, feVars, Oldest
<1>5. Transit' = Transit /\ Arrived' = Arrived \union {m}
    BY <1>2, <1>4 DEF Transit, Arrived
<1>6. Before({m}, pipe')
    <2> SUFFICES ASSUME NEW c \in pipe', m.run = c.run PROVE m.seg < c.seg
        BY DEF Before
    <2>1. m \in Block /\ c \in Block /\ m # c /\ m.seg <= c.seg
        BY <1>1, <1>2, <1>4 DEF TypeOK, Oldest, OfRun
    <2>2. QED
        BY <2>1 DEF Block
<1>7. OneRunEach' /\ Numbered' /\ BackHolds'
    BY <1>2, <1>3, <1>4, <1>5
    DEF IInv, OneRunEach, Alive, Numbered, BackHolds, feVars, backVars
<1>8. Fifo'
    BY <1>2, <1>4, <1>5, <1>6 DEF IInv, Fifo, Before
<1>9. LostBefore'
    BY <1>2, <1>3, <1>4, <1>5 DEF IInv, LostBefore, Before, OfRun, Alive, feVars
<1>10. \A b \in lost : b.run = m.run =>
           b.seg < m.seg /\ \A x \in Arrived : x.run = m.run => b.seg < x.seg
    BY <1>3, <1>4 DEF IInv, OneRunEach, LostBefore, Before, OfRun
<1>11. NoGap(OfThisBack)'
    BY <1>3, <1>4 DEF IInv, NoGap
<1>12. NoGap(Arrived)'
    <2> SUFFICES ASSUME NEW x \in Arrived \union {m}, NEW y \in Arrived \union {m},
                        NEW b \in lost, b.run = x.run, b.run = y.run,
                        x.seg < b.seg, b.seg < y.seg
                 PROVE  FALSE
        BY <1>3, <1>5 DEF NoGap
    <2>1. x \in Arrived /\ y \in Arrived => FALSE
        BY <1>3 DEF IInv, NoGap
    <2>2. x \in Block /\ b \in Block
        BY <1>1, <1>4, PartsAreBlocks DEF TypeOK
    <2>3. b.seg < x.seg
        BY <1>10, <2>1
    <2>4. QED
        BY <2>2, <2>3 DEF Block
<1>13. QED
    BY <1>1, <1>5, <1>7, <1>8, <1>9, <1>11, <1>12 DEF IInv

\* A back end begins with an empty wire, and with files of its own.
LEMMA BackStartIInv ==
    ASSUME IInv, BackStart
    PROVE  IInv' /\ Transit' = Transit
<1>1. TypeOK /\ TypeOK'
    BY BackType DEF IInv
<1>2. /\ back = "off" /\ back' = "recv" /\ held' = {} /\ wire = {}
      /\ since' = Len(recorded)
      /\ UNCHANGED <<feVars, pipe, wire, recorded, lost>>
    BY DEF BackStart, IInv, BackHolds
<1>3. /\ Written' = Written /\ OfThisBack' = {} /\ InHand' = {} /\ InHand = {}
      /\ Buffers' = Buffers
    BY <1>1, <1>2 DEF Written, OfThisBack, InHand, Buffers, feVars, TypeOK
<1>4. Transit' = Transit /\ Arrived' = {}
    BY <1>2, <1>3 DEF Transit, Arrived
<1>5. OneRunEach' /\ Numbered' /\ BackHolds'
    BY <1>2, <1>3, <1>4
    DEF IInv, OneRunEach, Alive, Numbered, BackHolds, feVars
<1>6. Fifo'
    BY <1>2, <1>3, <1>4 DEF IInv, Fifo, Before
<1>7. LostBefore' /\ NoGap(OfThisBack)' /\ NoGap(Arrived)'
    BY <1>2, <1>3, <1>4 DEF IInv, LostBefore, Before, OfRun, Alive, feVars, NoGap
<1>8. QED
    BY <1>1, <1>4, <1>5, <1>6, <1>7 DEF IInv

LEMMA BackRecvIInv ==
    ASSUME IInv, BackRecv
    PROVE  IInv' /\ Transit' = Transit
<1>1. TypeOK /\ TypeOK'
    BY BackType DEF IInv, BackStep
<1>2. PICK m \in Oldest(wire) : held' = {m} /\ wire' = wire \ {m}
    BY DEF BackRecv
<1>3. /\ back = "recv" /\ back' = "write"
      /\ UNCHANGED <<feVars, pipe, since, recorded, lost>>
    BY DEF BackRecv
<1>4. /\ Written' = Written /\ OfThisBack' = OfThisBack
      /\ InHand' = {m} /\ InHand = {}
      /\ Buffers' = Buffers /\ m \in wire
    BY <1>2, <1>3 DEF Written, OfThisBack, InHand, Buffers, feVars, Oldest
<1>5. Transit' = Transit /\ Arrived' = Arrived
    BY <1>2, <1>3, <1>4 DEF Transit, Arrived
<1>6. Before({m}, wire')
    <2> SUFFICES ASSUME NEW c \in wire', m.run = c.run PROVE m.seg < c.seg
        BY DEF Before
    <2>1. m \in Block /\ c \in Block /\ m # c /\ m.seg <= c.seg
        BY <1>1, <1>2, <1>4 DEF TypeOK, Oldest, OfRun
    <2>2. QED
        BY <2>1 DEF Block
<1>7. OneRunEach' /\ Numbered' /\ BackHolds'
    BY <1>2, <1>3, <1>4, <1>5
    DEF IInv, OneRunEach, Alive, Numbered, BackHolds, feVars
<1>8. Fifo'
    BY <1>2, <1>3, <1>4, <1>5, <1>6 DEF IInv, Fifo, Before
<1>9. LostBefore' /\ NoGap(OfThisBack)' /\ NoGap(Arrived)'
    BY <1>3, <1>4, <1>5 DEF IInv, LostBefore, Before, OfRun, Alive, feVars, NoGap
<1>10. QED
    BY <1>1, <1>5, <1>7, <1>8, <1>9 DEF IInv

\* recv() returns nothing or throws: the object keeps a block that is written
\* already, if any.
LEMMA BackRecvIdleIInv ==
    ASSUME IInv, BackRecvNothing \/ BackRecvFails
    PROVE  IInv' /\ Transit' = Transit
<1>1. TypeOK /\ TypeOK'
    BY BackType DEF IInv, BackStep, BackTrouble
<1>2. /\ back = "recv" /\ held' \in {held, {}}
      /\ back' \in {"recv", "again", "wild"}
      /\ UNCHANGED <<feVars, pipe, wire, since, recorded, lost>>
    BY DEF BackRecvNothing, BackRecvFails
<1>3. /\ Written' = Written /\ OfThisBack' = OfThisBack
      /\ InHand' = {} /\ InHand = {}
      /\ Buffers' = Buffers
    BY <1>2 DEF Written, OfThisBack, InHand, Buffers, feVars
<1>4. Transit' = Transit /\ Arrived' = Arrived
    BY <1>2, <1>3 DEF Transit, Arrived
<1>5. OneRunEach' /\ Numbered' /\ BackHolds'
    BY <1>2, <1>3, <1>4
    DEF IInv, OneRunEach, Alive, Numbered, BackHolds, feVars
<1>6. Fifo'
    BY <1>2, <1>3, <1>4 DEF IInv, Fifo, Before
<1>7. LostBefore' /\ NoGap(OfThisBack)' /\ NoGap(Arrived)'
    BY <1>2, <1>3, <1>4 DEF IInv, LostBefore, Before, OfRun, Alive, feVars, NoGap
<1>8. QED
    BY <1>1, <1>4, <1>5, <1>6, <1>7 DEF IInv

\* What is appended to the files.
LEMMA Appended ==
    ASSUME TypeOK, NEW b \in Block, recorded' = Append(recorded, b), since' = since
    PROVE  /\ Written' = Written \union {b}
           /\ OfThisBack' = OfThisBack \union {b}
           /\ since' < Len(recorded') /\ recorded'[Len(recorded')] = b
<1>1. /\ Len(recorded) \in Nat /\ Len(recorded') = Len(recorded) + 1
      /\ \A i \in 1..Len(recorded) : recorded'[i] = recorded[i]
      /\ recorded'[Len(recorded) + 1] = b
      /\ since \in 0..Len(recorded)
    BY DEF TypeOK
<1> DEFINE L == Len(recorded)
<1>2. \A lo \in 1..(L + 1) : lo..(L + 1) = lo..L \union {L + 1}
    BY <1>1
<1>3. 1 \in 1..(L + 1) /\ since + 1 \in 1..(L + 1)
    BY <1>1
<1>4. \A lo \in 1..(L + 1) :
          {recorded'[i] : i \in lo..(L + 1)} = {recorded[i] : i \in lo..L} \union {b}
    <2> TAKE lo \in 1..(L + 1)
    <2>1. lo..(L + 1) = lo..L \union {L + 1} /\ lo..L \subseteq 1..L
        BY <1>1, <1>2
    <2>2. QED
        BY <1>1, <2>1
<1>5. QED
    BY <1>1, <1>3, <1>4 DEF Written, OfThisBack

\* The block received goes to the file.
LEMMA BackWriteIInv ==
    ASSUME IInv, BackWrite, back = "write"
    PROVE  IInv' /\ \E b \in held : /\ recorded' = Append(recorded, b)
                                    /\ Recorder!IsOldest(b, Transit)
                                    /\ Transit' = Transit \ {b}
<1>1. TypeOK /\ TypeOK'
    BY BackType DEF IInv, BackStep
<1>2. PICK b \in held : recorded' = Append(recorded, b)
    BY DEF BackWrite
<1>3. /\ back' = "recv"
      /\ UNCHANGED <<feVars, pipe, wire, held, since, lost>>
    BY DEF BackWrite
<1>4. b \in Block /\ held = {b}
    BY <1>1, <1>2 DEF TypeOK, IInv, BackHolds
<1>5. /\ Written' = Written \union {b} /\ OfThisBack' = OfThisBack \union {b}
      /\ InHand' = {} /\ InHand = {b} /\ Buffers' = Buffers
    BY <1>1, <1>2, <1>3, <1>4, Appended DEF InHand, Buffers, feVars
<1>6. Arrived' = Arrived /\ Transit = Transit' \union {b}
    BY <1>3, <1>5 DEF Arrived, Transit
<1>7. Before({b}, Transit') /\ Transit' = Buffers \union pipe \union wire
    BY <1>3, <1>5 DEF IInv, Fifo, Before, Transit
<1>8. b \notin Transit'
    BY <1>4, <1>7 DEF Before, Block
<1>9. Recorder!IsOldest(b, Transit)
    <2> SUFFICES ASSUME NEW c \in Transit, c.run = b.run PROVE b.seg <= c.seg
        BY DEF Recorder!IsOldest
    <2>1. c \in Block
        BY <1>1, PartsAreBlocks
    <2>2. c = b \/ b.seg < c.seg
        BY <1>6, <1>7 DEF Before
    <2>3. QED
        BY <1>4, <2>1, <2>2 DEF Block
<1>10. OneRunEach' /\ Numbered' /\ BackHolds'
    <2>1. since' < Len(recorded') /\ recorded'[Len(recorded')] = b
        BY <1>1, <1>2, <1>3, <1>4, Appended
    <2>2. BackHolds'
        BY <1>3, <1>4, <2>1 DEF BackHolds
    <2>3. QED
        BY <1>3, <1>4, <1>5, <1>6, <2>2 DEF IInv, OneRunEach, Alive, Numbered, feVars
<1>11. Fifo'
    BY <1>3, <1>5, <1>6, <1>7 DEF IInv, Fifo, Before
<1>12. LostBefore' /\ NoGap(Arrived)'
    BY <1>3, <1>6 DEF IInv, LostBefore, Before, OfRun, Alive, feVars, NoGap, Buffers
<1>13. OfThisBack' \subseteq Arrived'
    BY DEF Arrived
<1>14. NoGap(OfThisBack)'
    BY <1>12, <1>13 DEF NoGap
<1>15. QED
    BY <1>1, <1>2, <1>6, <1>8, <1>9, <1>10, <1>11, <1>12, <1>14 DEF IInv

\* A block is written once more: it is in the file of this back end already.
LEMMA BackAgainIInv ==
    ASSUME IInv, BackWrite, back = "again"
    PROVE  IInv' /\ WrittenAgain
<1>1. TypeOK /\ TypeOK'
    BY BackType DEF IInv, BackStep
<1>2. PICK b \in held : recorded' = Append(recorded, b)
    BY DEF BackWrite
<1>3. /\ back' = "recv"
      /\ UNCHANGED <<feVars, pipe, wire, held, since, lost>>
    BY DEF BackWrite
<1>4. b \in Block /\ b \in OfThisBack /\ b \in Written
    <2>1. b \in Block /\ since < Len(recorded) /\ b = recorded[Len(recorded)]
        BY <1>1, <1>2 DEF TypeOK, IInv, BackHolds
    <2>2. /\ Len(recorded) \in 1..Len(recorded)
          /\ Len(recorded) \in (since + 1)..Len(recorded)
        BY <1>1, <2>1 DEF TypeOK
    <2>3. QED
        BY <2>1, <2>2 DEF OfThisBack, Written
<1>5. /\ Written' = Written /\ OfThisBack' = OfThisBack
      /\ InHand' = {} /\ InHand = {} /\ Buffers' = Buffers
    <2>1. Written' = Written \union {b} /\ OfThisBack' = OfThisBack \union {b}
        BY <1>1, <1>2, <1>3, <1>4, Appended
    <2>2. QED
        BY <1>3, <1>4, <2>1 DEF InHand, Buffers, feVars
<1>6. Arrived' = Arrived /\ Transit' = Transit
    BY <1>3, <1>5 DEF Arrived, Transit
<1>7. OneRunEach' /\ Numbered' /\ BackHolds'
    <2>1. since' < Len(recorded') /\ recorded'[Len(recorded')] = b
        BY <1>1, <1>2, <1>3, <1>4, Appended
    <2>2. BackHolds'
        BY <1>2, <1>3, <2>1 DEF IInv, BackHolds
    <2>3. QED
        BY <1>3, <1>5, <1>6, <2>2 DEF IInv, OneRunEach, Alive, Numbered, feVars
<1>8. Fifo'
    BY <1>3, <1>5, <1>6 DEF IInv, Fifo, Before
<1>9. LostBefore' /\ NoGap(OfThisBack)' /\ NoGap(Arrived)'
    BY <1>3, <1>5, <1>6
    DEF IInv, LostBefore, Before, OfRun, Alive, feVars, NoGap
<1>10. WrittenAgain
    <2>1. recorded # <<>> /\ b = recorded[Len(recorded)]
        BY <1>1, <1>2 DEF TypeOK, IInv, BackHolds
    <2>2. QED
        BY <1>2, <1>3, <1>6, <2>1 DEF WrittenAgain, feVars
<1>11. QED
    BY <1>1, <1>7, <1>8, <1>9, <1>10 DEF IInv

\* What a back end takes with it is younger than all it has written, and older
\* than all that the front ends still have.
LEMMA BackDiesIInv ==
    ASSUME IInv, BackCrashes \/ BackKilled
    PROVE  IInv' /\ Transit' \subseteq Transit
<1>1. TypeOK /\ TypeOK'
    BY BackType DEF IInv, BackStep, BackTrouble
<1>2. /\ back' = "off" /\ held' = {} /\ wire' = {}
      /\ lost' = lost \union wire \union InHand
      /\ UNCHANGED <<feVars, pipe, since, recorded>>
    BY DEF BackCrashes, BackKilled, BackDies
<1>3. /\ Written' = Written /\ OfThisBack' = OfThisBack /\ OfThisBack \subseteq Written
      /\ InHand' = {} /\ Buffers' = Buffers
    BY <1>1, <1>2 DEF Written, OfThisBack, InHand, Buffers, feVars, TypeOK
<1>4. Transit' \subseteq Transit /\ wire \union InHand \subseteq Transit
    BY <1>2, <1>3 DEF Transit
<1>5. OneRunEach' /\ Numbered' /\ BackHolds'
    BY <1>2, <1>3, <1>4
    DEF IInv, OneRunEach, Alive, Numbered, BackHolds, feVars
<1>6. Fifo'
    BY <1>2, <1>3, <1>4 DEF IInv, Fifo, Before
<1>7. LostBefore'
    BY <1>2, <1>3 DEF IInv, LostBefore, Fifo, Before, OfRun, Alive, feVars
<1>8. NoGap(OfThisBack)'
    <2> SUFFICES ASSUME NEW x \in OfThisBack, NEW y \in OfThisBack,
                        NEW b \in lost \union wire \union InHand,
                        b.run = x.run, b.run = y.run,
                        x.seg < b.seg, b.seg < y.seg
                 PROVE  FALSE
        BY <1>2, <1>3 DEF NoGap
    <2>1. y.seg < b.seg \/ b \in lost
        BY <1>3, <1>4 DEF IInv, Fifo, Before
    <2>2. y \in Block /\ b \in Block
        BY <1>1, <1>4, PartsAreBlocks
    <2>3. CASE b \in lost
        BY <2>3 DEF IInv, NoGap
    <2>4. QED
        BY <2>1, <2>2, <2>3 DEF Block
<1>9. QED
    BY <1>1, <1>2, <1>4, <1>5, <1>6, <1>7, <1>8 DEF IInv

-----------------------------------------------------------------------------
(* What each step does for BlockRecorder *)

LEMMA RecorderQuiet ==
    ASSUME UNCHANGED <<accepted, recorded>>, Transit' \subseteq Transit
    PROVE  [Recorder!Next]_(Recorder!vars)
<1>1. Recorder!GiveUp
    <2> DEFINE gone == Transit \ Transit'
    <2>1. gone \in SUBSET Transit /\ Transit' = Transit \ gone
        OBVIOUS
    <2>2. QED
        BY <2>1 DEF Recorder!GiveUp
<1>2. QED
    BY <1>1 DEF Recorder!Next

LEMMA FrontStep ==
    ASSUME IInv, NEW f \in Fronts, FeStart(f) \/ FeStep(f) \/ FeTrouble(f)
    PROVE  IInv' /\ [Recorder!Next]_(Recorder!vars)
<1>1. CASE FeRead(f)
    BY <1>1, FeReadIInv DEF Recorder!Next
<1>2. CASE ~FeRead(f)
    <2>1. UNCHANGED <<accepted, recorded>>
        BY <1>2
        DEF FeStep, FeTrouble, FeStart, FeSend, FeLeaves, FeReadFails, FeAborts,
            FeKilled, FeDies, backVars
    <2>2. CASE FeStart(f)
        BY <2>1, <2>2, FeStartIInv, RecorderQuiet
    <2>3. CASE FeSend(f)
        BY <2>1, <2>3, FeSendIInv, RecorderQuiet
    <2>4. CASE FeReadFails(f) \/ FeLeaves(f)
        BY <2>1, <2>4, FeEndsIInv, RecorderQuiet
    <2>5. CASE FeAborts(f) \/ FeKilled(f)
        BY <2>1, <2>5, FeDiesIInv, RecorderQuiet
    <2>6. QED
        BY <1>2, <2>2, <2>3, <2>4, <2>5 DEF FeStep, FeTrouble
<1>3. QED
    BY <1>1, <1>2

LEMMA BackStepMaps ==
    ASSUME IInv, HandOver \/ BackStart \/ BackStep \/ BackTrouble
    PROVE  IInv' /\ [Recorder!Next \/ WrittenAgain]_(Recorder!vars)
<1>1. CASE BackWrite /\ back = "write"
    <2>1. PICK b \in held : /\ recorded' = Append(recorded, b)
                            /\ Recorder!IsOldest(b, Transit)
                            /\ Transit' = Transit \ {b}
        BY <1>1, BackWriteIInv
    <2>2. b \in Transit /\ accepted' = accepted
        BY <1>1 DEF Transit, InHand, BackWrite, feVars
    <2>3. Recorder!Store
        BY <2>1, <2>2 DEF Recorder!Store
    <2>4. QED
        BY <1>1, <2>3, BackWriteIInv DEF Recorder!Next
<1>2. CASE BackWrite /\ back = "again"
    BY <1>2, BackAgainIInv
<1>3. CASE ~BackWrite
    <2>1. UNCHANGED <<accepted, recorded>>
        BY <1>3
        DEF HandOver, BackStart, BackStep, BackTrouble, BackRecv, BackRecvNothing,
            BackRecvFails, BackCrashes, BackKilled, BackDies, feVars, backVars
    <2>2. CASE HandOver
        BY <2>1, <2>2, HandOverIInv, RecorderQuiet
    <2>3. CASE BackStart
        BY <2>1, <2>3, BackStartIInv, RecorderQuiet
    <2>4. CASE BackRecv
        BY <2>1, <2>4, BackRecvIInv, RecorderQuiet
    <2>5. CASE BackRecvNothing \/ BackRecvFails
        BY <2>1, <2>5, BackRecvIdleIInv, RecorderQuiet
    <2>6. CASE BackCrashes \/ BackKilled
        BY <2>1, <2>6, BackDiesIInv, RecorderQuiet
    <2>7. QED
        BY <1>3, <2>2, <2>3, <2>4, <2>5, <2>6 DEF BackStep, BackTrouble
<1>4. QED
    BY <1>1, <1>2, <1>3 DEF BackWrite

LEMMA StutterIInv == IInv /\ UNCHANGED vars => IInv' /\ UNCHANGED Recorder!vars
<1> SUFFICES ASSUME IInv, UNCHANGED vars PROVE IInv' /\ UNCHANGED Recorder!vars
    OBVIOUS
<1>1. UNCHANGED <<fe, run, starts, accepted, buf, pipe, wire, back, program, held,
                  since, recorded, lost, kills, faults>>
    BY DEF vars, feVars, backVars
<1>2. /\ Written' = Written /\ OfThisBack' = OfThisBack /\ InHand' = InHand
      /\ Buffers' = Buffers
    BY <1>1 DEF Written, OfThisBack, InHand, Buffers
<1>3. Transit' = Transit /\ Arrived' = Arrived
    BY <1>1, <1>2 DEF Transit, Arrived
<1>4. TypeOK' /\ OneRunEach' /\ Numbered' /\ Fifo' /\ BackHolds'
    BY <1>1, <1>2, <1>3
    DEF IInv, TypeOK, OneRunEach, Alive, Numbered, Fifo, Before, BackHolds
<1>5. LostBefore' /\ NoGap(OfThisBack)' /\ (back' # "off" => NoGap(Arrived)')
    BY <1>1, <1>2, <1>3 DEF IInv, LostBefore, Before, OfRun, Alive, NoGap
<1>6. QED
    BY <1>1, <1>3, <1>4, <1>5 DEF IInv, Recorder!vars

LEMMA StepMaps ==
    IInv /\ [Next]_vars => IInv' /\ [Recorder!Next \/ WrittenAgain]_(Recorder!vars)
BY FrontStep, BackStepMaps, StutterIInv DEF Next

THEOREM Invariance == Spec => []IInv
<1>1. IInv /\ [Next]_vars => IInv'
    BY StepMaps
<1>2. QED
    BY <1>1, InitIInv, PTL DEF Spec

(***************************************************************************)
(* Every variable of the two programs and of the connection has its type.  *)
(***************************************************************************)
THEOREM TypeCorrect == Spec => []TypeOK
<1>1. IInv => TypeOK
    BY DEF IInv
<1>2. QED
    BY <1>1, Invariance, PTL

(***************************************************************************)
(* However many front ends there are, and whenever they or the back end    *)
(* are killed and started again, what one back end writes of one front end *)
(* has no hole (fe.cxx:53-92, be.cxx:68-150, benb.cxx:68-150).             *)
(***************************************************************************)
THEOREM NoHoleInFile == Spec => []GapOnlyAtRestart
<1>1. IInv => GapOnlyAtRestart
    <2> SUFFICES ASSUME IInv,
                        NEW i \in (since + 1)..Len(recorded),
                        NEW j \in (since + 1)..Len(recorded),
                        NEW b \in OfRun(lost, recorded[i].run),
                        recorded[j].run = b.run
                 PROVE  ~(recorded[i].seg < b.seg /\ b.seg < recorded[j].seg)
        BY DEF GapOnlyAtRestart
    <2>1. recorded[i] \in OfThisBack /\ recorded[j] \in OfThisBack
        BY DEF OfThisBack
    <2>2. QED
        BY <2>1 DEF IInv, NoGap, OfRun
<1>2. QED
    BY <1>1, Invariance, PTL

(***************************************************************************)
(* The two programs implement BlockRecorder but for the block that be       *)
(* writes again after a recv that throws (be.cxx:72-74): no other block is *)
(* written twice, and each front end's blocks are written in their order.  *)
(***************************************************************************)
THEOREM ImplementsRecorder == Spec => Implements
<1>1. Init => Recorder!Init
    BY DEF Init, Recorder!Init, Transit, Buffers, InHand
<1>2. QED
    BY <1>1, StepMaps, Invariance, PTL DEF Spec, Implements

=============================================================================
