---------------------------- MODULE PipelineProofs ----------------------------
(***************************************************************************)
(* Proofs about Pipeline, and about Dtmain around it, for every queue      *)
(* length, mode and bound.                                                 *)
(*                                                                         *)
(* IInv is inductive.  Its heart is that no buffer has two owners: then    *)
(* every decrement of g_avant_depth takes away exactly one element of Live. *)
(* From it follow the counter, the refinement of BlockRecorder and, with    *)
(* the blocks that are written and lost counted too (FateInv), that every  *)
(* block has one fate.  Dtmain keeps IInv and FateInv, implements           *)
(* TaskControl and thereby has what TaskControlProofs proves; with that,    *)
(* the connection DTavant reads from is the one it made.                   *)
(***************************************************************************)
EXTENDS Dtmain, FiniteSetTheorems, TLAPS

\* The steps that leave alone everything the invariant counts.
Quiet ==
    /\ UNCHANGED <<g_avant_depth, segs, buf, queue, held, leaked, recorded, lost>>

LEMMA InitIInv == Init => IInv
<1> SUFFICES ASSUME Init PROVE IInv
    OBVIOUS
<1>1. TypeOK
    BY DEF Init, TypeOK, MainPc, AvantPc, RearPc, OuterPc
<1>2. Live = {}
    BY DEF Init, Live
<1>3. Hands /\ OneOwner /\ HeldIsOldest
    BY <1>2 DEF Init, Hands, AtMostOne, OneOwner, HeldIsOldest
<1>4. IsFiniteSet(Live) /\ DepthAccounting
    BY <1>2, FS_EmptySet DEF Init, DepthAccounting
<1>5. QED
    BY <1>1, <1>3, <1>4 DEF IInv

\* The parts of Live are finite, and their sizes are numbers.
LEMMA FiniteParts ==
    ASSUME IInv
    PROVE  /\ IsFiniteSet(buf) /\ IsFiniteSet(queue) /\ IsFiniteSet(held)
           /\ \A S \in SUBSET Live : IsFiniteSet(S) /\ Cardinality(S) \in Nat
<1>1. \A S \in SUBSET Live : IsFiniteSet(S) /\ Cardinality(S) \in Nat
    BY FS_Subset, FS_CardinalityType DEF IInv
<1>2. QED
    BY <1>1 DEF Live

\* Taking a part of Live away leaves a finite set, smaller by the part's size.
LEMMA TakeAway ==
    ASSUME IInv, NEW S \in SUBSET Live
    PROVE  /\ IsFiniteSet(Live \ S)
           /\ Cardinality(Live \ S) = Cardinality(Live) - Cardinality(S)
<1>1. IsFiniteSet(Live) /\ IsFiniteSet(S) /\ IsFiniteSet(Live \ S)
    BY FS_Subset DEF IInv
<1>2. Cardinality((Live \ S) \union S)
        = Cardinality(Live \ S) + Cardinality(S) - Cardinality((Live \ S) \cap S)
    BY <1>1, FS_Union
<1>3. (Live \ S) \union S = Live /\ (Live \ S) \cap S = {}
    OBVIOUS
<1>4. Cardinality({}) = 0
    BY FS_EmptySet
<1>5. Cardinality(Live \ S) \in Nat /\ Cardinality(S) \in Nat
    BY <1>1, FS_CardinalityType
<1>6. QED
    BY <1>1, <1>2, <1>3, <1>4, <1>5

-----------------------------------------------------------------------------
(* Types *)

\* A step of main, of the console or of a thread's outer loop keeps the types.
LEMMA OuterType ==
    ASSUME TypeOK, MainStep \/ Command \/ Quit \/ AvantOuter \/ RearOuter
    PROVE  TypeOK'
<1> USE DEF TypeOK, MainPc, AvantPc, RearPc, OuterPc, mainVars
<1>1. CASE MainStep
    BY <1>1 DEF MainStep, Boot, Stop, Join, SetState
<1>2. CASE Command
    BY <1>2 DEF Command
<1>3. CASE Quit
    BY <1>3 DEF Quit, SetState
<1>4. CASE AvantOuter \/ RearOuter
    BY <1>4 DEF AvantOuter, RearOuter, AfterSwitch, AfterTestEnd
<1>5. QED
    BY <1>1, <1>2, <1>3, <1>4

\* Every other step of DTavant does.
LEMMA AvantType ==
    ASSUME TypeOK, AvantStep \/ AvantFault
    PROVE  TypeOK'
<1> USE DEF TypeOK, MainPc, AvantPc, RearPc, OuterPc, mainVars
<1>1. CASE AvantOuter
    BY <1>1, OuterType
<1>2. CASE AvantOpen
    BY <1>2 DEF AvantOpen, PeerState
<1>3. CASE AvantCheck
    BY <1>3 DEF AvantCheck
<1>4. CASE AvantAlloc
    BY <1>4 DEF AvantAlloc, Block, run
<1>5. CASE AvantRead \/ AvantSend
    BY <1>5 DEF AvantRead, AvantSend
<1>6. CASE AvantAllocFail \/ AvantReadFail
    BY <1>6 DEF AvantAllocFail, AvantReadFail
<1>7. CASE AvantSendLost \/ AvantSendFail
    BY <1>7 DEF AvantSendLost, AvantSendFail
<1>8. QED
    BY <1>1, <1>2, <1>3, <1>4, <1>5, <1>6, <1>7 DEF AvantStep, AvantFault

\* So does every step of DTrear.
LEMMA RearType ==
    ASSUME IInv, RearStep
    PROVE  TypeOK'
<1>1. TypeOK /\ Cardinality(held) \in Nat /\ Cardinality(Receivable) \in Nat
    BY FiniteParts DEF IInv, Live, Receivable
<1> USE <1>1 DEF TypeOK, MainPc, AvantPc, RearPc, OuterPc, mainVars
<1>2. CASE RearOuter
    BY <1>2, OuterType
<1>3. CASE RearOpen
    BY <1>3 DEF RearOpen, PeerState, run
<1>4. CASE RearCheckState \/ RearCheckDepth
    BY <1>4 DEF RearCheckState, RearCheckDepth
<1>5. CASE RearRecv
    BY <1>5 DEF RearRecv, FreeHeld, Receivable
<1>6. CASE RearRecvNothing \/ RearRecvFail
    BY <1>6 DEF RearRecvNothing, RearRecvFail, FreeHeld
<1>7. CASE RearWrite
    BY <1>7 DEF RearWrite
<1>8. CASE RearClose
    BY <1>8 DEF RearClose, FreeHeld, Receivable, PeerState, run
<1>9. QED
    BY <1>2, <1>3, <1>4, <1>5, <1>6, <1>7, <1>8 DEF RearStep

-----------------------------------------------------------------------------
(* Owners and the counter *)

\* Steps that do not touch the buffers keep what relates them.
LEMMA QuietStep ==
    ASSUME IInv, Quiet, TypeOK',
           run' = run \/ buf = {},
           avant' \in {"read", "send"} <=> avant \in {"read", "send"},
           rear' = "write" => rear = "write"
    PROVE  IInv'
<1>1. Live' = Live
    BY DEF Quiet, Live
<1>2. IsFiniteSet(Live') /\ DepthAccounting'
    BY <1>1 DEF IInv, DepthAccounting, Quiet
<1>3. Hands'
    BY DEF IInv, Hands, AtMostOne, Quiet
<1>4. OneOwner'
    BY <1>1 DEF IInv, OneOwner, Quiet
<1>5. HeldIsOldest'
    BY DEF IInv, HeldIsOldest, Quiet
<1>6. QED
    BY <1>2, <1>3, <1>4, <1>5 DEF IInv

LEMMA OuterIInv ==
    ASSUME IInv, MainStep \/ Command \/ Quit \/ AvantOuter \/ RearOuter
    PROVE  IInv'
<1>1. TypeOK'
    BY OuterType DEF IInv
<1>2. Quiet /\ UNCHANGED peer
    BY DEF MainStep, Boot, Stop, Join, SetState, Command, Quit, AvantOuter,
           RearOuter, Quiet
<1>3. avant' \in {"read", "send"} <=> avant \in {"read", "send"}
    BY DEF MainStep, Boot, Stop, Join, SetState, Command, Quit, AvantOuter,
           RearOuter, AfterSwitch, AfterTestEnd
<1>4. rear' = "write" => rear = "write"
    BY DEF MainStep, Boot, Stop, Join, SetState, Command, Quit, AvantOuter,
           RearOuter, AfterSwitch, AfterTestEnd
<1>5. QED
    BY <1>1, <1>2, <1>3, <1>4, QuietStep DEF run

\* DTavant gives up or loses its buffer: the counter follows.
LEMMA DropBuf ==
    ASSUME IInv, TypeOK', avant = "read" \/ avant = "send",
           avant' \notin {"read", "send"}, buf' = {},
           g_avant_depth' = g_avant_depth - 1,
           UNCHANGED <<rear, segs, peer, queue, held, leaked>>
    PROVE  IInv'
<1>1. PICK b \in buf : buf = {b}
    BY DEF IInv, Hands, AtMostOne
<1>2. Live' = Live \ buf
    BY DEF IInv, OneOwner, Live
<1>3. Cardinality(buf) = 1
    BY <1>1, FS_Singleton
<1>4. IsFiniteSet(Live') /\ DepthAccounting'
    BY <1>2, <1>3, TakeAway DEF IInv, DepthAccounting, Live
<1>5. Hands' /\ OneOwner' /\ HeldIsOldest'
    BY DEF IInv, Hands, AtMostOne, OneOwner, HeldIsOldest, Live
<1>6. QED
    BY <1>4, <1>5 DEF IInv

LEMMA AvantIInv ==
    ASSUME IInv, AvantStep \/ AvantFault
    PROVE  IInv'
<1>1. TypeOK'
    BY AvantType DEF IInv
<1>2. CASE AvantOuter
    BY <1>2, OuterIInv
<1>3. CASE AvantOpen
    <2>1. buf = {}
        BY <1>3 DEF IInv, Hands, AvantOpen
    <2>2. QED
        BY <1>1, <1>3, <2>1, QuietStep DEF AvantOpen, Quiet
<1>4. CASE AvantCheck
    BY <1>1, <1>4, QuietStep DEF AvantCheck, Quiet, run
<1>5. CASE AvantAllocFail
    BY <1>1, <1>5, QuietStep DEF AvantAllocFail, Quiet, run
<1>6. CASE AvantRead
    BY <1>1, <1>6, QuietStep DEF AvantRead, Quiet, run
<1>7. CASE AvantAlloc
    <2> DEFINE new == [run |-> run, seg |-> segs + 1]
    <2>1. buf = {} /\ buf' = {new} /\ UNCHANGED <<rear, peer, queue, held, leaked>>
          /\ segs' = segs + 1 /\ segs \in Nat
        BY <1>7 DEF AvantAlloc, IInv, Hands, TypeOK
    <2>2. \A b \in Live : b.seg # new.seg
        BY <2>1 DEF IInv, OneOwner
    <2>3. new \notin Live
        BY <2>2
    <2>4. Live' = Live \union {new}
        BY <2>1 DEF Live
    <2>5. IsFiniteSet(Live') /\ DepthAccounting'
        BY <1>7, <2>3, <2>4, FS_AddElement DEF IInv, DepthAccounting, AvantAlloc
    <2>6. Hands'
        BY <1>7, <2>1 DEF IInv, Hands, AtMostOne, AvantAlloc, run
    <2>7. OneOwner'
        <3>1. \A b \in Live' : b.seg \in 1..segs'
            BY <2>1, <2>4 DEF IInv, OneOwner
        <3>2. QED
            BY <2>1, <2>3, <3>1 DEF IInv, OneOwner, Live
    <2>8. HeldIsOldest'
        BY <2>1 DEF IInv, HeldIsOldest
    <2>9. QED
        BY <1>1, <2>5, <2>6, <2>7, <2>8 DEF IInv
<1>8. CASE AvantSend
    <2>1. Live' = Live
        BY <1>8 DEF AvantSend, Live
    <2>2. IsFiniteSet(Live') /\ DepthAccounting'
        BY <1>8, <2>1 DEF IInv, DepthAccounting, AvantSend
    <2>3. Hands'
        BY <1>8 DEF IInv, Hands, AtMostOne, AvantSend
    <2>4. OneOwner'
        BY <1>8, <2>1 DEF IInv, OneOwner, AvantSend
    <2>5. HeldIsOldest'
        <3>1. \A h \in held, c \in buf : h.seg <= c.seg
            BY DEF IInv, TypeOK, OneOwner, Hands, Live
        <3>2. QED
            BY <1>8, <3>1 DEF IInv, HeldIsOldest, AvantSend
    <2>6. QED
        BY <1>1, <2>2, <2>3, <2>4, <2>5 DEF IInv
<1>9. CASE AvantReadFail
    <2>1. Live' = Live
        BY <1>9 DEF AvantReadFail, Live
    <2>2. IsFiniteSet(Live') /\ DepthAccounting'
        BY <1>9, <2>1 DEF IInv, DepthAccounting, AvantReadFail
    <2>3. Hands' /\ OneOwner' /\ HeldIsOldest'
        BY <1>9, <2>1
           DEF IInv, Hands, AtMostOne, OneOwner, HeldIsOldest, AvantReadFail
    <2>4. QED
        BY <1>1, <2>2, <2>3 DEF IInv
<1>10. CASE AvantSendLost
    BY <1>1, <1>10, DropBuf DEF AvantSendLost
<1>11. CASE AvantSendFail
    BY <1>1, <1>11, DropBuf DEF AvantSendFail
<1>12. QED
    BY <1>2, <1>3, <1>4, <1>5, <1>6, <1>7, <1>8, <1>9, <1>10, <1>11
       DEF AvantStep, AvantFault

LEMMA RearIInv ==
    ASSUME IInv, RearStep
    PROVE  IInv'
<1>1. TypeOK'
    BY RearType
<1>2. CASE RearOuter
    BY <1>2, OuterIInv
<1>3. CASE RearOpen
    <2>1. run' = run
        BY <1>3 DEF RearOpen, run, IInv, TypeOK
    <2>2. QED
        BY <1>1, <1>3, <2>1, QuietStep DEF RearOpen, Quiet
<1>4. CASE RearCheckState \/ RearCheckDepth
    BY <1>1, <1>4, QuietStep DEF RearCheckState, RearCheckDepth, Quiet, run
<1>5. CASE RearRecv
    <2>1. PICK b \in Receivable :
              /\ \A c \in InPipe(b.run) : b.seg <= c.seg
              /\ held' = {b}
              /\ queue' = queue \ {b}
        BY <1>5 DEF RearRecv
    <2>2. b \in queue
        BY DEF Receivable
    <2>3. Live' = Live \ held
        BY <1>5, <2>1, <2>2 DEF RearRecv, Live, IInv, OneOwner
    <2>4. g_avant_depth' = Cardinality(Live) - Cardinality(held)
        BY <1>5, FiniteParts DEF RearRecv, FreeHeld, IInv, TypeOK, DepthAccounting, Live
    <2>5. IsFiniteSet(Live') /\ DepthAccounting'
        BY <2>3, <2>4, TakeAway DEF DepthAccounting, Live
    <2>6. Hands'
        BY <1>5, <2>1 DEF IInv, Hands, AtMostOne, RearRecv, run
    <2>7. OneOwner'
        BY <1>5, <2>1, <2>2, <2>3 DEF IInv, OneOwner, RearRecv
    <2>8. HeldIsOldest'
        BY <2>1 DEF HeldIsOldest, InPipe
    <2>9. QED
        BY <1>1, <2>5, <2>6, <2>7, <2>8 DEF IInv
<1>6. CASE RearRecvNothing
    <2>1. Live' = Live \ held
        BY <1>6 DEF RearRecvNothing, Live, IInv, OneOwner
    <2>2. g_avant_depth' = Cardinality(Live) - Cardinality(held)
        BY <1>6, FiniteParts
           DEF RearRecvNothing, FreeHeld, IInv, TypeOK, DepthAccounting, Live
    <2>3. IsFiniteSet(Live') /\ DepthAccounting'
        BY <2>1, <2>2, TakeAway DEF DepthAccounting, Live
    <2>4. Hands' /\ OneOwner' /\ HeldIsOldest'
        BY <1>6, <2>1
           DEF IInv, Hands, AtMostOne, OneOwner, HeldIsOldest, RearRecvNothing, run
    <2>5. QED
        BY <1>1, <2>3, <2>4 DEF IInv
<1>7. CASE RearRecvFail
    <2>1. /\ rear = "recv" /\ rear' = "check_state"
          /\ \/ held' = {} /\ FreeHeld(0)
             \/ UNCHANGED <<held, g_avant_depth>>
          /\ UNCHANGED <<mainVars, avant, segs, buf, peer, queue, leaked>>
        BY <1>7 DEF RearRecvFail
    <2>2. IsFiniteSet(Live') /\ DepthAccounting'
        <3>1. CASE held' = {} /\ FreeHeld(0)
            <4>1. Live' = Live \ held
                BY <2>1, <3>1 DEF Live, IInv, OneOwner
            <4>2. g_avant_depth' = Cardinality(Live) - Cardinality(held)
                BY <3>1, FiniteParts DEF FreeHeld, IInv, TypeOK, DepthAccounting, Live
            <4>3. QED
                BY <4>1, <4>2, TakeAway DEF DepthAccounting, Live
        <3>2. CASE UNCHANGED <<held, g_avant_depth>>
            <4>1. Live' = Live
                BY <2>1, <3>2 DEF Live
            <4>2. QED
                BY <3>2, <4>1 DEF IInv, DepthAccounting
        <3>3. QED
            BY <2>1, <3>1, <3>2
    <2>3. Live' \subseteq Live /\ held' \subseteq held
        BY <2>1 DEF Live
    <2>4. Hands' /\ OneOwner' /\ HeldIsOldest'
        <3>1. run' = run
            BY <2>1 DEF run
        <3>2. held' = {} \/ held' = held
            BY <2>1
        <3>3. Hands' /\ HeldIsOldest'
            BY <2>1, <3>1, <3>2 DEF IInv, Hands, AtMostOne, HeldIsOldest
        <3>4. OneOwner'
            BY <2>1, <2>3 DEF IInv, OneOwner
        <3>5. QED
            BY <3>3, <3>4
    <2>5. QED
        BY <1>1, <2>2, <2>4 DEF IInv
<1>8. CASE RearWrite
    <2>1. Live' = Live
        BY <1>8 DEF RearWrite, Live
    <2>2. IsFiniteSet(Live') /\ DepthAccounting'
        BY <1>8, <2>1 DEF IInv, DepthAccounting, RearWrite
    <2>3. Hands' /\ OneOwner' /\ HeldIsOldest'
        BY <1>8, <2>1
           DEF IInv, Hands, AtMostOne, OneOwner, HeldIsOldest, RearWrite, run
    <2>4. QED
        BY <1>1, <2>2, <2>3 DEF IInv
<1>9. CASE RearClose
    <2> DEFINE gone == held \union Receivable
    <2>1. Receivable \subseteq queue /\ held \cap Receivable = {}
        BY DEF Receivable, IInv, OneOwner
    <2>2. Live' = Live \ gone
        BY <1>9, <2>1 DEF RearClose, Live, IInv, OneOwner
    <2>3. Cardinality(gone) = Cardinality(held) + Cardinality(Receivable)
        <3>1. IsFiniteSet(held) /\ IsFiniteSet(Receivable)
            BY <2>1, FiniteParts DEF Live
        <3>2. Cardinality(held) \in Nat /\ Cardinality(Receivable) \in Nat
            BY <3>1, FS_CardinalityType
        <3>3. Cardinality(held \union Receivable)
                = Cardinality(held) + Cardinality(Receivable)
                    - Cardinality(held \cap Receivable)
            BY <3>1, FS_Union
        <3>4. Cardinality(held \cap Receivable) = 0
            BY <2>1, FS_EmptySet
        <3>5. QED
            BY <3>2, <3>3, <3>4
    <2>4. g_avant_depth' = Cardinality(Live) - Cardinality(gone)
        <3>1. Cardinality(held) \in Nat /\ Cardinality(Receivable) \in Nat
              /\ Cardinality(Live) \in Nat
            BY <2>1, FiniteParts DEF Live
        <3>2. QED
            BY <1>9, <2>3, <3>1 DEF RearClose, FreeHeld, IInv, DepthAccounting
    <2>5. gone \in SUBSET Live
        BY <2>1 DEF Live
    <2>6. IsFiniteSet(Live') /\ DepthAccounting'
        BY <2>2, <2>4, <2>5, TakeAway DEF DepthAccounting
    <2>7. run' = run
        BY <1>9 DEF RearClose, run, IInv, TypeOK
    <2>8. Hands' /\ HeldIsOldest'
        BY <1>9, <2>7 DEF IInv, Hands, AtMostOne, HeldIsOldest, RearClose
    <2>9. OneOwner'
        BY <1>9, <2>2 DEF IInv, OneOwner, RearClose
    <2>10. QED
        BY <1>1, <2>6, <2>8, <2>9 DEF IInv
<1>10. QED
    BY <1>2, <1>3, <1>4, <1>5, <1>6, <1>7, <1>8, <1>9 DEF RearStep

LEMMA StutterIInv == IInv /\ UNCHANGED vars => IInv'
BY DEF IInv, TypeOK, Hands, AtMostOne, OneOwner, HeldIsOldest, DepthAccounting,
       Live, run, vars, mainVars

LEMMA NextIInv == IInv /\ [Next]_vars => IInv'
BY OuterIInv, AvantIInv, RearIInv, StutterIInv DEF Next

(***************************************************************************)
(* IInv holds in every reachable state of every instance.                  *)
(***************************************************************************)
THEOREM Invariance == Spec => []IInv
BY InitIInv, NextIInv, PTL DEF Spec

(***************************************************************************)
(* The variables of the data path have their types.                        *)
(***************************************************************************)
THEOREM TypeCorrect == Spec => []TypeOK
<1>1. IInv => TypeOK
    BY DEF IInv
<1>2. QED
    BY <1>1, Invariance, PTL

(***************************************************************************)
(* g_avant_depth (dtavant.cxx:25, 36, 141) is the number of live buffers.   *)
(***************************************************************************)
THEOREM CounterExact == Spec => []DepthAccounting
<1>1. IInv => DepthAccounting
    BY DEF IInv
<1>2. QED
    BY <1>1, Invariance, PTL

\* The step with which DTrear leaves is its test of the counter.
LEMMA LeavesOnTest ==
    ASSUME IInv, Next, rear = "check_depth", rear' = "close"
    PROVE  Live = {}
<1>1. RearCheckDepth
    BY DEF Next, MainStep, Boot, Stop, Join, SetState, Command, Quit,
           AvantStep, AvantOuter, AvantOpen, AvantCheck, AvantAlloc,
           AvantRead, AvantSend, AvantFault, AvantAllocFail, AvantReadFail,
           AvantSendLost, AvantSendFail, RearStep, RearOuter, RearOpen,
           RearCheckState, RearRecv, RearRecvNothing, RearRecvFail, RearWrite, RearClose
<1>2. g_avant_depth <= 0
    BY <1>1 DEF RearCheckDepth
<1>3. Cardinality(Live) = 0
    BY <1>2, FS_CardinalityType DEF IInv, DepthAccounting
<1>4. QED
    BY <1>3, FS_EmptySet DEF IInv

(***************************************************************************)
(* DTrear leaves its loop (dtrear.cxx:145) only when no buffer exists.      *)
(***************************************************************************)
THEOREM LeavesDrained == Spec => DrainedBeforeLeaving
<1>1. IInv /\ [Next]_vars =>
        [rear = "check_depth" /\ rear' = "close" => Live = {}]_vars
    BY LeavesOnTest DEF vars
<1>2. QED
    BY <1>1, Invariance, PTL DEF Spec, DrainedBeforeLeaving

-----------------------------------------------------------------------------
(* The data path implements BlockRecorder *)

LEMMA InitMaps == Init => Recorder!Init
BY DEF Init, Recorder!Init, Transit

\* Steps that leave the mapped state as it is.
LEMMA StutterMaps ==
    ASSUME UNCHANGED <<segs, buf, queue, recorded>>,
           \/ UNCHANGED <<rear, held>>
           \/ rear # "write" /\ rear' # "write"
    PROVE  UNCHANGED Recorder!vars
BY DEF Transit, Recorder!vars

\* DTavant's block is dropped or leaked: the recorder gives it up.
LEMMA DropMaps ==
    ASSUME IInv, buf' = {}, UNCHANGED <<segs, rear, queue, held, recorded>>
    PROVE  Recorder!GiveUp
<1>1. Transit' = Transit \ buf
    BY DEF IInv, OneOwner, Transit
<1>2. buf \in SUBSET Transit
    BY DEF Transit
<1>3. QED
    BY <1>1, <1>2 DEF Recorder!GiveUp

LEMMA AvantMaps ==
    ASSUME IInv, AvantStep \/ AvantFault
    PROVE  Recorder!Next \/ UNCHANGED Recorder!vars
<1>1. CASE AvantAlloc
    <2> DEFINE new == [run |-> run, seg |-> segs + 1]
    <2>1. buf = {} /\ buf' = {new} /\ UNCHANGED <<rear, queue, held, recorded>>
          /\ segs' = segs + 1
        BY <1>1 DEF AvantAlloc, IInv, Hands
    <2>2. Transit' = Transit \union {new}
        BY <2>1 DEF Transit
    <2>3. new \in Recorder!Block
        BY DEF Recorder!Block, IInv, TypeOK, run
    <2>4. new \in Transit' /\ new.seg = segs + 1
        BY <2>2
    <2>5. Recorder!Accept
        BY <2>1, <2>2, <2>3, <2>4 DEF Recorder!Accept
    <2>6. QED
        BY <2>5 DEF Recorder!Next
<1>2. CASE AvantOuter \/ AvantOpen \/ AvantCheck \/ AvantRead \/ AvantAllocFail
    BY <1>2, StutterMaps
       DEF AvantOuter, AvantOpen, AvantCheck, AvantRead, AvantAllocFail
<1>3. CASE AvantSend
    <2>1. Transit' = Transit
        BY <1>3 DEF AvantSend, Transit
    <2>2. QED
        BY <1>3, <2>1 DEF AvantSend, Recorder!vars
<1>4. CASE AvantReadFail \/ AvantSendLost \/ AvantSendFail
    <2>1. Recorder!GiveUp
        BY <1>4, DropMaps DEF AvantReadFail, AvantSendLost, AvantSendFail
    <2>2. QED
        BY <2>1 DEF Recorder!Next
<1>5. QED
    BY <1>1, <1>2, <1>3, <1>4 DEF AvantStep, AvantFault

LEMMA RearMaps ==
    ASSUME IInv, RearStep
    PROVE  Recorder!Next \/ UNCHANGED Recorder!vars
<1>1. CASE RearOuter \/ RearOpen \/ RearCheckState \/ RearCheckDepth
           \/ RearRecvNothing \/ RearRecvFail
    BY <1>1, StutterMaps
       DEF RearOuter, AfterSwitch, AfterTestEnd, RearOpen, RearCheckState,
           RearCheckDepth, RearRecvNothing, RearRecvFail
<1>2. CASE RearRecv
    <2>1. Transit' = Transit
        BY <1>2 DEF RearRecv, Receivable, Transit
    <2>2. QED
        BY <1>2, <2>1 DEF RearRecv, Recorder!vars
<1>3. CASE RearWrite
    <2>1. PICK h \in held : recorded' = Append(recorded, h)
        BY <1>3 DEF RearWrite
    <2>2. held = {h}
        BY DEF IInv, Hands, AtMostOne
    <2>3. h \in Transit /\ Transit' = Transit \ {h}
        BY <1>3, <2>2 DEF RearWrite, Transit, IInv, OneOwner
    <2>4. \A c \in Transit : c.run = h.run => h.seg <= c.seg
        <3>1. \A c \in queue : c.run = h.run => h.seg <= c.seg
            BY <1>3 DEF RearWrite, IInv, HeldIsOldest
        <3>2. \A c \in buf : h.seg <= c.seg
            BY DEF IInv, TypeOK, Hands, OneOwner, Live
        <3>3. h.seg <= h.seg
            BY DEF IInv, TypeOK, Block
        <3>4. QED
            BY <1>3, <2>2, <3>1, <3>2, <3>3 DEF Transit, RearWrite
    <2>5. Recorder!Store
        BY <1>3, <2>1, <2>3, <2>4 DEF RearWrite, Recorder!Store, Recorder!IsOldest
    <2>6. QED
        BY <2>5 DEF Recorder!Next
<1>4. CASE RearClose
    <2>1. Transit' = Transit \ Receivable
        BY <1>4 DEF RearClose, Transit, Receivable, IInv, OneOwner
    <2>2. Receivable \in SUBSET Transit
        BY DEF Transit, Receivable
    <2>3. Recorder!GiveUp
        BY <1>4, <2>1, <2>2 DEF RearClose, Recorder!GiveUp
    <2>4. QED
        BY <2>3 DEF Recorder!Next
<1>5. QED
    BY <1>1, <1>2, <1>3, <1>4 DEF RearStep

LEMMA StepMaps == IInv /\ [Next]_vars => [Recorder!Next]_(Recorder!vars)
<1> SUFFICES ASSUME IInv, [Next]_vars
             PROVE  Recorder!Next \/ UNCHANGED Recorder!vars
    OBVIOUS
<1>1. CASE MainStep \/ Command \/ Quit
    BY <1>1, StutterMaps DEF MainStep, Boot, Stop, Join, Command, Quit, SetState
<1>2. CASE UNCHANGED vars
    BY <1>2, StutterMaps DEF vars
<1>3. QED
    BY <1>1, <1>2, AvantMaps, RearMaps DEF Next

(***************************************************************************)
(* Every behaviour of the threads, the sockets and main is one of the      *)
(* recorder: a step of theirs accepts a block, stores the oldest of its    *)
(* run, gives blocks up, or changes nothing the recorder sees.             *)
(***************************************************************************)
THEOREM ImplementsRecorder == Spec => Implements
BY InitMaps, StepMaps, Invariance, PTL DEF Spec, Implements, Recorder!Spec

\* The blocks in transit are newer than those stored, run by run.
LEMMA RecorderNextIInv ==
    Recorder!IInv /\ [Recorder!Next]_(Recorder!vars) => Recorder!IInv'
<1> SUFFICES ASSUME Recorder!IInv, [Recorder!Next]_(Recorder!vars)
             PROVE  Recorder!IInv'
    OBVIOUS
<1>0. \A i \in 1..Len(recorded) : recorded[i] \in Recorder!Block
    BY DEF Recorder!IInv
<1> USE <1>0 DEF Recorder!IInv, Recorder!Numbered, Recorder!InOrderOfRun, Recorder!Block
<1>1. CASE Recorder!Accept
    <2>1. PICK b \in Transit' : /\ b \in Recorder!Block /\ b.seg = segs + 1
                               /\ Transit' = Transit \union {b}
        BY <1>1 DEF Recorder!Accept
    <2>2. \A c \in Transit : c.seg < b.seg
        BY <2>1
    <2>3. Recorder!Numbered'
        BY <1>1, <2>1, <2>2 DEF Recorder!Accept
    <2>4. QED
        BY <1>1, <2>1, <2>3 DEF Recorder!Accept
<1>2. CASE Recorder!Store
    <2>1. PICK b \in Transit : /\ Recorder!IsOldest(b, Transit)
                              /\ recorded' = Append(recorded, b)
                              /\ Transit' = Transit \ {b}
                              /\ segs' = segs
        BY <1>2 DEF Recorder!Store
    <2>2. /\ Len(recorded') = Len(recorded) + 1
          /\ \A i \in 1..Len(recorded) : recorded'[i] = recorded[i]
          /\ recorded'[Len(recorded) + 1] = b
        BY <2>1
    <2>3. \A c \in Transit' : c.run = b.run => b.seg < c.seg
        BY <2>1 DEF Recorder!IsOldest
    <2>4. Recorder!Numbered'
        <3>1. ASSUME NEW i \in 1..Len(recorded')
              PROVE  /\ recorded'[i].seg <= segs'
                     /\ \A c \in Transit' :
                            recorded'[i].run = c.run => recorded'[i].seg < c.seg
            <4>1. CASE i \in 1..Len(recorded)
                BY <2>1, <2>2, <4>1
            <4>2. CASE i = Len(recorded) + 1
                BY <2>1, <2>2, <2>3, <4>2
            <4>3. QED
                BY <2>2, <3>1, <4>1, <4>2
        <3>2. QED
            BY <2>1, <3>1
    <2>5. Recorder!InOrderOfRun'
        <3>1. ASSUME NEW i \in 1..Len(recorded'), NEW j \in 1..Len(recorded'),
                     i < j, recorded'[i].run = recorded'[j].run
              PROVE  recorded'[i].seg < recorded'[j].seg
            <4>1. i \in 1..Len(recorded)
                BY <2>2, <3>1
            <4>2. CASE j \in 1..Len(recorded)
                BY <2>2, <3>1, <4>1, <4>2
            <4>3. CASE j = Len(recorded) + 1
                BY <2>1, <2>2, <3>1, <4>1, <4>3
            <4>4. QED
                BY <2>2, <3>1, <4>2, <4>3
        <3>2. QED
            BY <3>1
    <2>6. QED
        BY <2>1, <2>4, <2>5
<1>3. CASE Recorder!GiveUp \/ UNCHANGED Recorder!vars
    BY <1>3 DEF Recorder!GiveUp, Recorder!vars
<1>4. QED
    BY <1>1, <1>2, <1>3 DEF Recorder!Next

\* Whatever implements the recorder stores each run in its order.
LEMMA RecorderInOrder == Recorder!Spec => []Recorder!InOrderOfRun
<1>1. Recorder!Init => Recorder!IInv
    BY DEF Recorder!Init, Recorder!IInv, Recorder!Numbered, Recorder!InOrderOfRun
<1>2. Recorder!IInv => Recorder!InOrderOfRun
    BY DEF Recorder!IInv
<1>3. QED
    BY <1>1, <1>2, RecorderNextIInv, PTL DEF Recorder!Spec

(***************************************************************************)
(* So the blocks of one run reach write_data in the order they were read,  *)
(* each at most once.                                                      *)
(***************************************************************************)
THEOREM RunsInOrder == Spec => []InOrderOfRun
BY ImplementsRecorder, RecorderInOrder, PTL DEF Implements, InOrderOfRun

-----------------------------------------------------------------------------
(* Every block has one fate *)

\* Every block so far, whatever became of it.
Fates == Transit \union leaked \union lost \union Written

\* Appending a block to the recorded ones adds it to the written ones.
LEMMA WrittenGrows ==
    ASSUME TypeOK, NEW h \in Block, recorded' = Append(recorded, h)
    PROVE  Written' = Written \union {h} /\ Len(recorded') = Len(recorded) + 1
<1>1. /\ Len(recorded) \in Nat /\ Len(recorded') = Len(recorded) + 1
      /\ recorded'[Len(recorded) + 1] = h
      /\ \A i \in 1..Len(recorded) : recorded'[i] = recorded[i]
    BY DEF TypeOK
<1>2. 1..Len(recorded') = 1..Len(recorded) \union {Len(recorded) + 1}
    BY <1>1
<1>3. ASSUME NEW b PROVE b \in Written' <=> b \in Written \union {h}
    BY <1>1, <1>2 DEF Written
<1>4. QED
    BY <1>1, <1>3

\* The sets that are counted are finite.
LEMMA FatesFinite ==
    ASSUME IInv, FateInv
    PROVE  /\ IsFiniteSet(Transit) /\ Cardinality(Transit) \in Nat
           /\ IsFiniteSet(leaked) /\ Cardinality(leaked) \in Nat
           /\ IsFiniteSet(lost) /\ Cardinality(lost) \in Nat
           /\ Len(recorded) \in Nat /\ segs \in Nat
<1>1. Transit \in SUBSET Live /\ leaked \in SUBSET Live
    BY DEF Transit, Live
<1>2. QED
    BY <1>1, FiniteParts, FS_CardinalityType DEF FateInv, IInv, TypeOK

\* A part of a finite set that moves makes the one smaller and the other larger.
LEMMA MovedPart ==
    ASSUME NEW A, NEW B, NEW S \in SUBSET A, IsFiniteSet(A), IsFiniteSet(B), S \cap B = {}
    PROVE  /\ IsFiniteSet(A \ S) /\ IsFiniteSet(B \union S)
           /\ Cardinality(A \ S) + Cardinality(B \union S) = Cardinality(A) + Cardinality(B)
<1>1. IsFiniteSet(S) /\ IsFiniteSet(A \ S) /\ IsFiniteSet(B \union S)
    BY FS_Subset, FS_Union
<1>2. Cardinality(A \ S) = Cardinality(A) - Cardinality(S)
    <2>1. A \cap S = S
        OBVIOUS
    <2>2. QED
        BY <2>1, FS_Difference
<1>3. Cardinality(B \union S) = Cardinality(B) + Cardinality(S)
    <2>1. B \cap S = {} /\ Cardinality({}) = 0
        BY FS_EmptySet
    <2>2. Cardinality(B \union S) = Cardinality(B) + Cardinality(S) - 0
        BY <1>1, <2>1, FS_Union
    <2>3. Cardinality(B) \in Nat /\ Cardinality(S) \in Nat
        BY <1>1, FS_CardinalityType
    <2>4. QED
        BY <2>2, <2>3
<1>4. /\ Cardinality(A) \in Nat /\ Cardinality(B) \in Nat /\ Cardinality(S) \in Nat
    BY <1>1, FS_CardinalityType
<1>5. QED
    BY <1>1, <1>2, <1>3, <1>4

\* What FateInv says, where it counts the blocks and where it names them.
LEMMA FateInvMeans ==
    FateInv <=> /\ {b.seg : b \in Fates} = 1..segs
                /\ Cardinality(Transit) + Cardinality(leaked) + Cardinality(lost)
                     + Len(recorded) = segs
                /\ IsFiniteSet(lost) /\ Transit \cap lost = {}
BY DEF FateInv, OneFate, Fates

\* A part of what is on its way is lost or leaked.
LEMMA PartGivenUp ==
    ASSUME IInv, FateInv, NEW S \in SUBSET Transit, Transit' = Transit \ S,
           UNCHANGED <<segs, recorded>>,
           \/ lost' = lost \union S /\ leaked' = leaked
           \/ leaked' = leaked \union S /\ lost' = lost
    PROVE  FateInv'
<1>1. Transit \cap lost = {} /\ Transit \cap leaked = {}
    BY DEF FateInv, IInv, OneOwner, Transit
<1>2. Fates' = Fates /\ Written' = Written
    BY DEF Fates, Written
<1>3. Cardinality(Transit') + Cardinality(leaked') + Cardinality(lost')
        = Cardinality(Transit) + Cardinality(leaked) + Cardinality(lost)
      /\ IsFiniteSet(lost')
    <2>1. CASE lost' = lost \union S /\ leaked' = leaked
        <3>1. /\ IsFiniteSet(Transit') /\ IsFiniteSet(lost')
              /\ Cardinality(Transit') + Cardinality(lost')
                   = Cardinality(Transit) + Cardinality(lost)
            BY <1>1, <2>1, FatesFinite, MovedPart
        <3>2. Cardinality(Transit') \in Nat /\ Cardinality(lost') \in Nat
            BY <3>1, FS_CardinalityType
        <3>3. QED
            BY <2>1, <3>1, <3>2, FatesFinite
    <2>2. CASE leaked' = leaked \union S /\ lost' = lost
        <3>1. /\ IsFiniteSet(Transit') /\ IsFiniteSet(leaked')
              /\ Cardinality(Transit') + Cardinality(leaked')
                   = Cardinality(Transit) + Cardinality(leaked)
            BY <1>1, <2>2, FatesFinite, MovedPart
        <3>2. Cardinality(Transit') \in Nat /\ Cardinality(leaked') \in Nat
            BY <3>1, FS_CardinalityType
        <3>3. QED
            BY <2>2, <3>1, <3>2, FatesFinite
    <2>3. QED
        BY <2>1, <2>2
<1>4. Transit' \cap lost' = {}
    BY <1>1
<1>5. Cardinality(Transit') + Cardinality(leaked') + Cardinality(lost') + Len(recorded')
        = segs'
    BY <1>3, FateInvMeans
<1>6. {b.seg : b \in Fates'} = 1..segs'
    BY <1>2, FateInvMeans
<1>7. QED
    BY <1>3, <1>4, <1>5, <1>6 DEF FateInv, OneFate, Fates

\* The block that is written leaves the transit for the file.
LEMMA HeldWritten ==
    ASSUME IInv, FateInv, RearWrite
    PROVE  FateInv'
<1>1. PICK h \in held : recorded' = Append(recorded, h)
    BY DEF RearWrite
<1>2. held = {h} /\ h \in Block
    BY DEF IInv, Hands, AtMostOne, TypeOK
<1>3. /\ rear = "write" /\ rear' = "check_state"
      /\ UNCHANGED <<segs, buf, queue, held, leaked, lost>>
    BY DEF RearWrite
<1>4. h \in Transit /\ Transit' = Transit \ {h}
    BY <1>2, <1>3 DEF Transit, IInv, OneOwner
<1>5. Written' = Written \union {h} /\ Len(recorded') = Len(recorded) + 1
    BY <1>1, <1>2, WrittenGrows DEF IInv
<1>6. Fates' = Fates
    BY <1>3, <1>4, <1>5 DEF Fates
<1>7. Cardinality(Transit') = Cardinality(Transit) - 1
    BY <1>4, FatesFinite, FS_RemoveElement
<1>8. Cardinality(Transit') + Cardinality(leaked') + Cardinality(lost') + Len(recorded')
        = segs'
    <2>1. Cardinality(Transit) + Cardinality(leaked) + Cardinality(lost) + Len(recorded) = segs
        BY FateInvMeans
    <2>2. UNCHANGED <<segs, leaked, lost>>
        BY <1>3
    <2>3. QED
        BY <1>5, <1>7, <2>1, <2>2, FatesFinite
<1>9. {b.seg : b \in Fates'} = 1..segs'
    BY <1>3, <1>6, FateInvMeans
<1>10. IsFiniteSet(lost') /\ Transit' \cap lost' = {}
    BY <1>3, <1>4 DEF FateInv
<1>11. QED
    BY <1>8, <1>9, <1>10 DEF FateInv, OneFate, Fates

\* A new block takes the next number.
LEMMA BlockBegun ==
    ASSUME IInv, FateInv, AvantAlloc
    PROVE  FateInv'
<1> DEFINE new == [run |-> run, seg |-> segs + 1]
<1>1. /\ buf = {} /\ buf' = {new} /\ segs' = segs + 1 /\ segs \in Nat
      /\ UNCHANGED <<rear, queue, held, leaked, lost, recorded>>
    BY DEF AvantAlloc, IInv, Hands, TypeOK
<1>2. new.seg = segs + 1
    OBVIOUS
<1> HIDE DEF new
<1>3. Transit' = Transit \union {new}
    BY <1>1 DEF Transit
<1>4. new \notin Fates
    BY <1>1, <1>2, FateInvMeans
<1>5. new \notin Transit /\ new \notin lost
    BY <1>4 DEF Fates
<1>6. Fates' = Fates \union {new}
    BY <1>1, <1>3 DEF Fates, Written
<1>7. Cardinality(Transit') = Cardinality(Transit) + 1
    BY <1>3, <1>5, FatesFinite, FS_AddElement
<1>8. Cardinality(Transit') + Cardinality(leaked') + Cardinality(lost') + Len(recorded')
        = segs'
    BY <1>1, <1>7, FatesFinite, FateInvMeans
<1>9. {b.seg : b \in Fates'} = 1..segs'
    <2>1. {b.seg : b \in Fates'} = {b.seg : b \in Fates} \union {segs + 1}
        BY <1>2, <1>6
    <2>2. 1..segs' = 1..segs \union {segs + 1}
        BY <1>1
    <2>3. QED
        BY <2>1, <2>2, FateInvMeans
<1>10. IsFiniteSet(lost') /\ Transit' \cap lost' = {}
    BY <1>1, <1>3, <1>5 DEF FateInv
<1>11. QED
    BY <1>8, <1>9, <1>10 DEF FateInv, OneFate, Fates

\* Where nothing is begun, written or given up, every fate stays.
LEMMA FatesStay ==
    ASSUME FateInv, Transit' = Transit, UNCHANGED <<segs, leaked, lost, recorded>>
    PROVE  FateInv'
BY DEF FateInv, OneFate, Written

LEMMA FateInductive == IInv /\ FateInv /\ [Next]_vars => FateInv'
<1> SUFFICES ASSUME IInv, FateInv, [Next]_vars PROVE FateInv'
    OBVIOUS
<1>1. CASE MainStep \/ Command \/ Quit \/ UNCHANGED vars
    BY <1>1, FatesStay DEF MainStep, Boot, Stop, Join, Command, Quit, SetState, Transit, vars
<1>2. CASE AvantStep \/ AvantFault
    <2>1. CASE AvantAlloc
        BY <2>1, BlockBegun
    <2>2. CASE AvantOuter \/ AvantOpen \/ AvantCheck \/ AvantRead \/ AvantAllocFail \/ AvantSend
        BY <2>2, FatesStay DEF AvantOuter, AvantOpen, AvantCheck, AvantRead,
                               AvantAllocFail, AvantSend, Transit
    <2>3. CASE AvantReadFail \/ AvantSendLost \/ AvantSendFail
        <3>1. /\ buf' = {} /\ UNCHANGED <<segs, rear, queue, held, recorded>>
              /\ \/ lost' = lost \union buf /\ leaked' = leaked
                 \/ leaked' = leaked \union buf /\ lost' = lost
            BY <2>3 DEF AvantReadFail, AvantSendLost, AvantSendFail
        <3>2. buf \in SUBSET Transit /\ Transit' = Transit \ buf
            BY <3>1 DEF Transit, IInv, OneOwner
        <3>3. QED
            BY <3>1, <3>2, PartGivenUp
    <2>4. QED
        BY <1>2, <2>1, <2>2, <2>3 DEF AvantStep, AvantFault
<1>3. CASE RearStep
    <2>1. CASE RearWrite
        BY <2>1, HeldWritten
    <2>2. CASE RearOuter \/ RearOpen \/ RearCheckState \/ RearCheckDepth
                \/ RearRecvNothing \/ RearRecvFail
        <3>1. rear # "write" /\ rear' # "write" /\ UNCHANGED <<buf, queue>>
              /\ UNCHANGED <<segs, leaked, lost, recorded>>
            BY <2>2 DEF RearOuter, AfterSwitch, AfterTestEnd, RearOpen, RearCheckState,
                        RearCheckDepth, RearRecvNothing, RearRecvFail
        <3>2. Transit' = Transit
            BY <3>1 DEF Transit
        <3>3. QED
            BY <3>1, <3>2, FatesStay
    <2>3. CASE RearRecv
        <3>1. Transit' = Transit
            BY <2>3 DEF RearRecv, Receivable, Transit
        <3>2. QED
            BY <2>3, <3>1, FatesStay DEF RearRecv
    <2>4. CASE RearClose
        <3>1. Transit' = Transit \ Receivable
            BY <2>4 DEF RearClose, Transit, Receivable, IInv, OneOwner
        <3>2. Receivable \in SUBSET Transit
            BY DEF Transit, Receivable
        <3>3. QED
            BY <2>4, <3>1, <3>2, PartGivenUp DEF RearClose
    <2>5. QED
        BY <1>3, <2>1, <2>2, <2>3, <2>4 DEF RearStep
<1>4. QED
    BY <1>1, <1>2, <1>3 DEF Next

LEMMA InitFates == Init => FateInv
<1> SUFFICES ASSUME Init PROVE FateInv
    OBVIOUS
<1>1. /\ Transit = {} /\ leaked = {} /\ lost = {} /\ Written = {} /\ Len(recorded) = 0
      /\ segs = 0
    BY DEF Init, Transit, Written
<1>2. {b.seg : b \in Fates} = {} /\ 1..segs = {}
    BY <1>1 DEF Fates
<1>3. Cardinality(Transit) = 0 /\ Cardinality(leaked) = 0 /\ Cardinality(lost) = 0
        /\ IsFiniteSet(lost) /\ 0 + 0 + 0 + 0 = 0
    BY <1>1, FS_EmptySet
<1>4. Cardinality(Transit) + Cardinality(leaked) + Cardinality(lost) + Len(recorded) = segs
    BY <1>1, <1>3
<1>5. QED
    BY <1>1, <1>2, <1>3, <1>4, FateInvMeans

(***************************************************************************)
(* Every block DTavant begins ends in exactly one place: on its way, in    *)
(* the file, dropped with its message or leaked, whatever fails and however *)
(* often the sockets are closed and opened again.                          *)
(***************************************************************************)
THEOREM NoBlockVanishes == Spec => []OneFate
<1>1. FateInv => OneFate
    BY DEF FateInv
<1>2. QED
    BY <1>1, InitFates, FateInductive, Invariance, PTL DEF Spec

-----------------------------------------------------------------------------
(* The whole of dtmain: the start adds no way to break the data path, and  *)
(* the data path adds no way to break the run control                      *)

\* Before the run main touches nothing of the data path but c_state and main.
LEMMA StartFrame ==
    ASSUME TypeOK, Start
    PROVE  /\ c_state' \in {"INIT", "IDLE", "RUNNING", "END"}
           /\ main' \in MainPc
           /\ UNCHANGED dataVars
<1>1. main' \in MainPc /\ UNCHANGED dataVars
    BY DEF Start, TypeOK, MainPc
<1>2. c_state' \in {"INIT", "IDLE", "RUNNING", "END"}
    BY DEF Start, TypeOK, Control!MainStep, Control!Run, Control!ClearIsDone,
           Control!ClearIsGood, Control!SetInit, Control!Wait, Control!Collect,
           Control!Decide, Control!SetIdle, Control!SetRunning, Control!Stop,
           Control!End, Control!Fail, Control!Join, Control!SetState
<1>3. QED
    BY <1>1, <1>2

\* Every other step of dtmain is one of Pipeline's, or none.
LEMMA OtherSteps ==
    ASSUME DtNext, ~Start
    PROVE  Next \/ UNCHANGED vars
<1>1. CASE Switches \/ Console \/ JoinLast
    BY <1>1 DEF Switches, Console, JoinLast, Next, MainStep
<1>2. CASE JoinFirst
    BY <1>2 DEF JoinFirst
<1>3. CASE AvantThread
    BY <1>3 DEF AvantThread, Outer, OutsideOfRun, Inside, AvantWork, WildRead,
                Next, AvantStep
<1>4. CASE Inside(Avant, avant, AvantTrouble)
    BY <1>4 DEF Inside, AvantTrouble, Next, AvantFault
<1>5. CASE RearThread
    BY <1>5 DEF RearThread, Outer, OutsideOfRun, Inside, RearWork, Next, RearStep
<1>6. QED
    BY <1>1, <1>2, <1>3, <1>4, <1>5 DEF DtNext, MainThread

LEMMA DtNextIInv == IInv /\ [DtNext]_allVars => IInv'
<1> SUFFICES ASSUME IInv, [DtNext]_allVars PROVE IInv'
    OBVIOUS
<1>1. CASE Start
    <2>1. TypeOK'
        BY <1>1, StartFrame DEF IInv, TypeOK, dataVars
    <2>2. QED
        BY <1>1, <2>1, StartFrame
           DEF dataVars, IInv, Hands, OneOwner, HeldIsOldest, DepthAccounting,
               Live, run
<1>2. CASE DtNext /\ ~Start
    BY <1>2, OtherSteps, NextIInv
<1>3. CASE UNCHANGED allVars
    BY <1>3, StutterIInv DEF allVars
<1>4. QED
    BY <1>1, <1>2, <1>3

(***************************************************************************)
(* Pipeline's invariant holds in the whole program, from the first thread  *)
(* to the last join, also when the start fails.                            *)
(***************************************************************************)
THEOREM DtInvariance == DtSpec => []IInv
BY InitIInv, DtNextIInv, PTL DEF DtSpec, DtInit

(***************************************************************************)
(* In the whole program, g_avant_depth is the number of live buffers.      *)
(***************************************************************************)
THEOREM DtCounterExact == DtSpec => []DepthAccounting
<1>1. IInv => DepthAccounting
    BY DEF IInv
<1>2. QED
    BY <1>1, DtInvariance, PTL

(***************************************************************************)
(* In the whole program, too, DTrear leaves only when no buffer exists.    *)
(***************************************************************************)
THEOREM DtLeavesDrained == DtSpec => DrainedBeforeLeaving
<1>1. IInv /\ [DtNext]_allVars =>
        [rear = "check_depth" /\ rear' = "close" => Live = {}]_vars
    <2> SUFFICES ASSUME IInv, [DtNext]_allVars, ~UNCHANGED vars,
                        rear = "check_depth", rear' = "close"
                 PROVE  Live = {}
        BY DEF vars
    <2>1. DtNext
        BY DEF allVars
    <2>2. ~Start
        BY StartFrame DEF IInv, dataVars
    <2>3. Next
        BY <2>1, <2>2, OtherSteps
    <2>4. QED
        BY <2>3, LeavesOnTest
<1>2. QED
    BY <1>1, DtInvariance, PTL DEF DtSpec, DrainedBeforeLeaving

(***************************************************************************)
(* In the whole program too, every block has one fate.                     *)
(***************************************************************************)
THEOREM DtNoBlockVanishes == DtSpec => []OneFate
<1>1. IInv /\ FateInv /\ [DtNext]_allVars => FateInv'
    <2> SUFFICES ASSUME IInv, FateInv, [DtNext]_allVars PROVE FateInv'
        OBVIOUS
    <2>1. CASE Start
        BY <2>1, StartFrame, FatesStay DEF IInv, dataVars, Transit
    <2>2. CASE DtNext /\ ~Start
        BY <2>2, OtherSteps, FateInductive
    <2>3. CASE UNCHANGED allVars
        BY <2>3, FateInductive DEF allVars
    <2>4. QED
        BY <2>1, <2>2, <2>3
<1>2. FateInv => OneFate
    BY DEF FateInv
<1>3. QED
    BY <1>1, <1>2, InitFates, DtInvariance, PTL DEF DtSpec, DtInit

(***************************************************************************)
(* In the whole program, blocks are stored as BlockRecorder says.          *)
(***************************************************************************)
THEOREM DtImplementsRecorder == DtSpec => Implements
<1>1. IInv /\ [DtNext]_allVars => [Recorder!Next]_(Recorder!vars)
    <2> SUFFICES ASSUME IInv, [DtNext]_allVars
                 PROVE  [Recorder!Next]_(Recorder!vars)
        OBVIOUS
    <2>1. CASE Start
        BY <2>1, StartFrame, StutterMaps DEF IInv, dataVars
    <2>2. CASE DtNext /\ ~Start
        BY <2>2, OtherSteps, StepMaps
    <2>3. CASE UNCHANGED allVars
        BY <2>3, StepMaps DEF allVars
    <2>4. QED
        BY <2>1, <2>2, <2>3
<1>2. DtInit => Recorder!Init
    BY InitMaps DEF DtInit
<1>3. QED
    BY <1>1, <1>2, DtInvariance, PTL DEF DtSpec, Implements, Recorder!Spec

(***************************************************************************)
(* So the whole program, too, writes the blocks of one run in the order    *)
(* they were read, each at most once, through failed starts and commands   *)
(* that a thread sleeps through.                                           *)
(***************************************************************************)
THEOREM DtRunsInOrder == DtSpec => []InOrderOfRun
BY DtImplementsRecorder, RecorderInOrder, PTL DEF Implements, InOrderOfRun

\* A step of main or of the console, as the run control sees it.
LEMMA MainMaps ==
    ASSUME Start \/ Switches \/ Console \/ JoinFirst \/ JoinLast
    PROVE  Control!Next
<1> USE DEF Control!Next, Control!MainStep
<1>1. CASE Start \/ JoinFirst \/ JoinLast
    BY <1>1 DEF Start, JoinFirst, JoinLast
<1>2. CASE Switches
    BY <1>2 DEF Switches, Boot, Stop, SetState, ControlAlone, ControlMain,
                taskVars, Control!taskVars, Control!SetIdle, Control!SetRunning,
                Control!Stop, Control!End, Control!SetState
<1>3. CASE Console
    BY <1>3 DEF Console, Command, Quit, SetState, ControlAlone, ControlMain,
                taskVars, Control!taskVars, Control!Command, Control!SetState
<1>4. QED
    BY <1>1, <1>2, <1>3

\* The threads do not assign main's variables.
LEMMA ThreadFrame ==
    ASSUME AvantStep \/ AvantFault \/ RearStep
    PROVE  UNCHANGED mainVars
BY DEF AvantStep, AvantOuter, AvantOpen, AvantCheck, AvantAlloc, AvantRead,
       AvantSend, AvantFault, AvantAllocFail, AvantReadFail, AvantSendLost,
       AvantSendFail, RearStep, RearOuter, RearOpen, RearCheckState,
       RearCheckDepth, RearRecv, RearRecvNothing, RearRecvFail, RearWrite, RearClose

\* A step inside st_running, as the run control sees it: none, or its return.
LEMMA InsideMaps ==
    ASSUME NEW t \in Task,
           \/ Inside(t, avant, AvantWork \/ AvantTrouble)
           \/ Inside(t, rear, RearWork)
    PROVE  Control!Next \/ UNCHANGED Control!vars
<1>1. UNCHANGED mainVars
    BY ThreadFrame DEF Inside, AvantWork, AvantTrouble, RearWork, AvantStep,
                       AvantFault, RearStep
<1>2. CASE Control!StRunning(t)
    BY <1>2 DEF Control!Next, Control!Task, Task
<1>3. CASE UNCHANGED <<taskVars, k, is_good_init>>
    BY <1>1, <1>3 DEF Inside, mainVars, ControlMain, taskVars, Control!vars,
                      Control!taskVars, Control!mainVars
<1>4. QED
    BY <1>2, <1>3 DEF Inside

\* A step of one of the two threads, as the run control sees it.
LEMMA ThreadMaps ==
    ASSUME AvantThread \/ Inside(Avant, avant, AvantTrouble) \/ RearThread
    PROVE  Control!Next \/ UNCHANGED Control!vars
<1>1. Avant \in Task /\ Rear \in Task
    BY TwoTasksAssumption DEF Avant, Rear, Task
<1> USE <1>1
<1>2. ASSUME NEW t \in Task, Outer(t, AvantOuter) \/ Outer(t, RearOuter)
                               \/ OutsideOfRun(t)
      PROVE  Control!Next
    BY <1>2 DEF Outer, OutsideOfRun, Control!Next, Control!Advance,
                Control!Task, Task
<1>3. CASE WildRead
    BY <1>3 DEF WildRead, vars, mainVars, ControlMain, taskVars, Control!vars,
                Control!taskVars, Control!mainVars
<1>4. CASE Inside(Avant, avant, AvantWork) \/ Inside(Avant, avant, AvantTrouble)
           \/ Inside(Rear, rear, RearWork)
    BY <1>4, InsideMaps DEF Inside
<1>5. QED
    BY <1>2, <1>3, <1>4 DEF AvantThread, RearThread

(***************************************************************************)
(* The whole program implements TaskControl, so what TaskControlProofs     *)
(* proves of the run control holds of it.                                  *)
(***************************************************************************)
THEOREM DtImplementsControl == DtSpec => ImplementsControl
<1>1. DtInit => Control!Init
    BY DEF DtInit
<1>2. [DtNext]_allVars => [Control!Next]_(Control!vars)
    <2>1. CASE DtNext
        BY <2>1, MainMaps, ThreadMaps DEF DtNext, MainThread
    <2>2. CASE UNCHANGED allVars
        BY <2>2 DEF allVars, vars, mainVars, ControlMain, taskVars,
                    Control!vars, Control!taskVars, Control!mainVars
    <2>3. QED
        BY <2>1, <2>2
<1>3. QED
    BY <1>1, <1>2, PTL DEF DtSpec, ImplementsControl, Control!Spec

(***************************************************************************)
(* TaskControlProofs instantiated as Dtmain instantiates TaskControl: what *)
(* it proves of the run control alone holds of the whole program.  The two *)
(* instances have their operators under two names; the next lemma says,    *)
(* action by action, that they are the same.                               *)
(***************************************************************************)
ControlThms == INSTANCE TaskControlProofs WITH main <- ControlMain

LEMMA SameSteps == [Control!Next]_(Control!vars) => [ControlThms!Next]_(ControlThms!vars)
<1>1. ASSUME NEW t, Control!Switch(t) PROVE ControlThms!Switch(t)
    BY <1>1 DEF Control!Switch, ControlThms!Switch, Control!Goto,
       ControlThms!Goto, Control!mainVars, ControlThms!mainVars,
       Control!Connecting, ControlThms!Connecting, Control!taskVars,
       ControlThms!taskVars
<1>2. ASSUME NEW t, Control!TestDone(t) PROVE ControlThms!TestDone(t)
    BY <1>2 DEF Control!TestDone, ControlThms!TestDone, Control!Goto,
       ControlThms!Goto, Control!mainVars, ControlThms!mainVars,
       Control!Connecting, ControlThms!Connecting, Control!taskVars,
       ControlThms!taskVars
<1>3. ASSUME NEW t, Control!InitSucceeds(t) PROVE ControlThms!InitSucceeds(t)
    BY <1>3 DEF Control!InitSucceeds, ControlThms!InitSucceeds, Control!Goto,
       ControlThms!Goto, Control!mainVars, ControlThms!mainVars,
       Control!Connecting, ControlThms!Connecting, Control!taskVars,
       ControlThms!taskVars
<1>4. ASSUME NEW t, Control!InitFails(t) PROVE ControlThms!InitFails(t)
    BY <1>4 DEF Control!InitFails, ControlThms!InitFails, Control!Goto,
       ControlThms!Goto, Control!mainVars, ControlThms!mainVars,
       Control!Connecting, ControlThms!Connecting, Control!taskVars,
       ControlThms!taskVars
<1>5. ASSUME NEW t, Control!SetDone(t) PROVE ControlThms!SetDone(t)
    BY <1>5 DEF Control!SetDone, ControlThms!SetDone, Control!Goto,
       ControlThms!Goto, Control!mainVars, ControlThms!mainVars,
       Control!Connecting, ControlThms!Connecting, Control!taskVars,
       ControlThms!taskVars
<1>6. ASSUME NEW t, Control!StIdle(t) PROVE ControlThms!StIdle(t)
    BY <1>6 DEF Control!StIdle, ControlThms!StIdle, Control!Goto,
       ControlThms!Goto, Control!mainVars, ControlThms!mainVars,
       Control!Connecting, ControlThms!Connecting, Control!taskVars,
       ControlThms!taskVars
<1>7. ASSUME NEW t, Control!StRunning(t) PROVE ControlThms!StRunning(t)
    BY <1>7 DEF Control!StRunning, ControlThms!StRunning, Control!Goto,
       ControlThms!Goto, Control!mainVars, ControlThms!mainVars,
       Control!Connecting, ControlThms!Connecting, Control!taskVars,
       ControlThms!taskVars
<1>8. ASSUME NEW t, Control!TestEnd(t) PROVE ControlThms!TestEnd(t)
    BY <1>8 DEF Control!TestEnd, ControlThms!TestEnd, Control!Goto,
       ControlThms!Goto, Control!mainVars, ControlThms!mainVars,
       Control!Connecting, ControlThms!Connecting, Control!taskVars,
       ControlThms!taskVars
<1>9. Control!Run => ControlThms!Run
    BY DEF Control!Run, ControlThms!Run, Control!Loop, ControlThms!Loop,
       Control!SetState, ControlThms!SetState, Control!taskVars,
       ControlThms!taskVars
<1>10. Control!ClearIsDone => ControlThms!ClearIsDone
    BY DEF Control!ClearIsDone, ControlThms!ClearIsDone, Control!Loop,
       ControlThms!Loop, Control!SetState, ControlThms!SetState,
       Control!taskVars, ControlThms!taskVars
<1>11. Control!ClearIsGood => ControlThms!ClearIsGood
    BY DEF Control!ClearIsGood, ControlThms!ClearIsGood, Control!Loop,
       ControlThms!Loop, Control!SetState, ControlThms!SetState,
       Control!taskVars, ControlThms!taskVars
<1>12. Control!SetInit => ControlThms!SetInit
    BY DEF Control!SetInit, ControlThms!SetInit, Control!Loop,
       ControlThms!Loop, Control!SetState, ControlThms!SetState,
       Control!taskVars, ControlThms!taskVars
<1>13. Control!Wait => ControlThms!Wait
    BY DEF Control!Wait, ControlThms!Wait, Control!Loop, ControlThms!Loop,
       Control!SetState, ControlThms!SetState, Control!taskVars,
       ControlThms!taskVars
<1>14. Control!Collect => ControlThms!Collect
    BY DEF Control!Collect, ControlThms!Collect, Control!Loop,
       ControlThms!Loop, Control!SetState, ControlThms!SetState,
       Control!taskVars, ControlThms!taskVars
<1>15. Control!Decide => ControlThms!Decide
    BY DEF Control!Decide, ControlThms!Decide, Control!Loop, ControlThms!Loop,
       Control!SetState, ControlThms!SetState, Control!taskVars,
       ControlThms!taskVars
<1>16. Control!SetIdle => ControlThms!SetIdle
    BY DEF Control!SetIdle, ControlThms!SetIdle, Control!Loop,
       ControlThms!Loop, Control!SetState, ControlThms!SetState,
       Control!taskVars, ControlThms!taskVars
<1>17. Control!SetRunning => ControlThms!SetRunning
    BY DEF Control!SetRunning, ControlThms!SetRunning, Control!Loop,
       ControlThms!Loop, Control!SetState, ControlThms!SetState,
       Control!taskVars, ControlThms!taskVars
<1>18. Control!Command => ControlThms!Command
    BY DEF Control!Command, ControlThms!Command, Control!Loop,
       ControlThms!Loop, Control!SetState, ControlThms!SetState,
       Control!taskVars, ControlThms!taskVars
<1>19. Control!Stop => ControlThms!Stop
    BY DEF Control!Stop, ControlThms!Stop, Control!Loop, ControlThms!Loop,
       Control!SetState, ControlThms!SetState, Control!taskVars,
       ControlThms!taskVars
<1>20. Control!End => ControlThms!End
    BY DEF Control!End, ControlThms!End, Control!Loop, ControlThms!Loop,
       Control!SetState, ControlThms!SetState, Control!taskVars,
       ControlThms!taskVars
<1>21. Control!Fail => ControlThms!Fail
    BY DEF Control!Fail, ControlThms!Fail, Control!Loop, ControlThms!Loop,
       Control!SetState, ControlThms!SetState, Control!taskVars,
       ControlThms!taskVars
<1>22. Control!Join => ControlThms!Join
    BY DEF Control!Join, ControlThms!Join, Control!Loop, ControlThms!Loop,
       Control!SetState, ControlThms!SetState, Control!taskVars,
       ControlThms!taskVars
<1>23. UNCHANGED Control!vars => UNCHANGED ControlThms!vars
    BY DEF Control!vars, ControlThms!vars, Control!taskVars,
       ControlThms!taskVars, Control!mainVars, ControlThms!mainVars
<1>24. QED
    BY <1>1, <1>2, <1>3, <1>4, <1>5, <1>6, <1>7, <1>8, <1>9, <1>10, <1>11,
       <1>12, <1>13, <1>14, <1>15, <1>16, <1>17, <1>18, <1>19, <1>20, <1>21,
       <1>22, <1>23 DEF Control!Task, ControlThms!Task, Control!Next,
       ControlThms!Next, Control!Advance, ControlThms!Advance,
       Control!MainStep, ControlThms!MainStep

LEMMA DtControlled == DtSpec => ControlThms!Spec
<1>1. Control!Init => ControlThms!Init
    BY DEF Control!Init, ControlThms!Init, Control!Task, ControlThms!Task
<1>2. QED
    BY <1>1, SameSteps, DtImplementsControl, PTL
       DEF ImplementsControl, Control!Spec, ControlThms!Spec

(***************************************************************************)
(* In the whole program too, no task is in st_init after main has seen it  *)
(* done (dtmain.cxx:84).                                                   *)
(***************************************************************************)
THEOREM DtInitBarrier == DtSpec => []InitQuiescent
<1>1. ControlThms!InitQuiescent => InitQuiescent
    BY DEF InitQuiescent, ControlThms!InitQuiescent, Control!InitQuiescent,
           ControlThms!Seen, Control!Seen, ControlThms!Task, Control!Task,
           ControlThms!AfterWait, Control!AfterWait
<1>2. ControlThms!Spec => []ControlThms!InitQuiescent
    BY NTasksAssumption, AvantsAssumption, ControlThms!InitBarrier
<1>3. QED
    BY <1>1, <1>2, DtControlled, PTL

(***************************************************************************)
(* And it takes the branch of a failed initialisation (dtmain.cxx:109-112) *)
(* only if one did fail.                                                   *)
(***************************************************************************)
THEOREM DtAlarmIsTrue == DtSpec => []NoFalseAlarm
<1>1. ControlThms!NoFalseAlarm => NoFalseAlarm
    BY DEF NoFalseAlarm, ControlThms!NoFalseAlarm, Control!NoFalseAlarm,
           ControlThms!Task, Control!Task
<1>2. ControlThms!Spec => []ControlThms!NoFalseAlarm
    BY NTasksAssumption, AvantsAssumption, ControlThms!AlarmIsTrue
<1>3. QED
    BY <1>1, <1>2, DtControlled, PTL

(***************************************************************************)
(* And once main has seen a task done, the outcome of its st_init, in      *)
(* DTavant's case the connection, stays what it is (dtmain.cxx:84-86).      *)
(***************************************************************************)
THEOREM DtNoLateInit == DtSpec => OutcomeIsFinal
<1>1. [\A t \in ControlThms!Task : ControlThms!Seen(t) => outcome'[t] = outcome[t]]_(ControlThms!vars)
        => [\A t \in Control!Task : Control!Seen(t) => outcome'[t] = outcome[t]]_(Control!vars)
    BY DEF ControlThms!Seen, Control!Seen, ControlThms!Task, Control!Task,
           ControlThms!AfterWait, Control!AfterWait, ControlThms!vars,
           Control!vars, ControlThms!taskVars, Control!taskVars,
           ControlThms!mainVars, Control!mainVars
<1>2. ControlThms!Spec => ControlThms!OutcomeIsFinal
    BY NTasksAssumption, AvantsAssumption, ControlThms!NoLateInit
<1>3. QED
    BY <1>1, <1>2, DtControlled, PTL
       DEF OutcomeIsFinal, Control!OutcomeIsFinal, ControlThms!OutcomeIsFinal

(***************************************************************************)
(* No thread of the program idles or runs (daqtask.cxx:101-108) unless the  *)
(* verdict of main is good and the flags it was made from still are.       *)
(***************************************************************************)
THEOREM DtNoRunAfterBadStart == DtSpec => []Control!RunsOnlyIfGood
<1>1. ControlThms!RunsOnlyIfGood => Control!RunsOnlyIfGood
    BY DEF ControlThms!RunsOnlyIfGood, Control!RunsOnlyIfGood,
           ControlThms!Task, Control!Task
<1>2. ControlThms!Spec => []ControlThms!RunsOnlyIfGood
    BY NTasksAssumption, AvantsAssumption, ControlThms!NoRunAfterBadStart
<1>3. QED
    BY <1>1, <1>2, DtControlled, PTL

-----------------------------------------------------------------------------
(* The connection DTavant reads from *)

\* Nobody but the thread that is in st_init touches an outcome or the connection.
LEMMA OutcomeKept ==
    ASSUME DtNext, ~OutsideOfRun(Avant), ~OutsideOfRun(Rear)
    PROVE  UNCHANGED <<outcome, connected>>
<1>1. CASE Start
    BY <1>1 DEF Start, Control!MainStep, Control!Run, Control!ClearIsDone,
                Control!ClearIsGood, Control!SetInit, Control!Wait,
                Control!Collect, Control!Decide, Control!SetIdle,
                Control!SetRunning, Control!Stop, Control!End, Control!Fail,
                Control!Join, Control!SetState, Control!taskVars
<1>2. CASE Switches \/ Console
    BY <1>2 DEF Switches, Console, ControlAlone, taskVars
<1>3. CASE JoinFirst \/ JoinLast
    BY <1>3 DEF JoinFirst, JoinLast, Control!Join, Control!taskVars
<1>4. ASSUME NEW t \in {Avant, Rear}, Outer(t, AvantOuter) \/ Outer(t, RearOuter)
      PROVE  UNCHANGED <<outcome, connected>>
    BY <1>4 DEF Outer, Control!Switch, Control!TestEnd
<1>5. ASSUME NEW t \in {Avant, Rear},
             \/ Inside(t, avant, AvantWork) \/ Inside(t, avant, AvantTrouble)
             \/ Inside(t, rear, RearWork)
      PROVE  UNCHANGED <<outcome, connected>>
    BY <1>5 DEF Inside, Control!StRunning, taskVars
<1>6. CASE WildRead
    BY <1>6 DEF WildRead, taskVars
<1>7. QED
    BY <1>1, <1>2, <1>3, <1>4, <1>5, <1>6
       DEF DtNext, MainThread, AvantThread, RearThread

\* An st_init of DTavant that returns 0 leaves a connection behind.
LEMMA ConnectionStays ==
    ASSUME ConnectionMade, outcome \in [Task -> {"none", "ok", "fail"}], DtNext
    PROVE  ConnectionMade'
<1>1. Avant \in Task /\ Rear \in Task /\ Avant # Rear
    BY TwoTasksAssumption DEF Avant, Rear, Task
<1>2. ASSUME NEW t \in {Avant, Rear}, OutsideOfRun(t) PROVE ConnectionMade'
    <2>1. CASE UNCHANGED <<outcome, connected>>
        BY <2>1 DEF ConnectionMade, CanRead
    <2>2. CASE Control!InitFails(t) /\ connected' = connected
        <3>1. outcome'[Avant] = "ok" => outcome[Avant] = "ok"
            BY <1>1, <2>2 DEF Control!InitFails
        <3>2. QED
            BY <2>2, <3>1 DEF ConnectionMade, CanRead
    <2>3. CASE Control!InitSucceeds(t)
               /\ connected' = (connected \/ t \in Control!Connecting)
        <3>1. CASE t = Avant
            BY <2>3, <3>1, TwoTasksAssumption
               DEF ConnectionMade, CanRead, Control!Connecting, Avant
        <3>2. CASE t = Rear
            BY <1>1, <2>3, <3>2
               DEF ConnectionMade, CanRead, Control!InitSucceeds
        <3>3. QED
            BY <3>1, <3>2
    <2>4. QED
        BY <1>2, <2>1, <2>2, <2>3
           DEF OutsideOfRun, Control!TestDone, Control!SetDone, Control!StIdle
<1>3. QED
    BY <1>2, OutcomeKept DEF ConnectionMade, CanRead

\* Without one, DTavant runs only on a flag that hides a failure.
LEMMA WildIsOverlooked ==
    ASSUME ConnectionMade, outcome \in [Task -> {"none", "ok", "fail"}],
           ControlThms!RunsAfterInit, ControlThms!RunsOnlyIfGood, WildRead
    PROVE  WildOnlyIfOverlooked'
<1>1. Avant \in Task /\ Avant \in ControlThms!Task
    BY TwoTasksAssumption DEF Avant, Task, ControlThms!Task
<1>2. outcome[Avant] # "none" /\ m_is_good[Avant]
    BY <1>1 DEF WildRead, ControlThms!RunsAfterInit, ControlThms!RunsOnlyIfGood
<1>3. outcome[Avant] # "ok"
    BY DEF WildRead, ConnectionMade
<1>4. outcome[Avant] = "fail"
    BY <1>1, <1>2, <1>3
<1>5. QED
    BY <1>2, <1>4 DEF WildRead, WildOnlyIfOverlooked, taskVars

(***************************************************************************)
(* tcp (dtavant.cxx:150) is used without a connection only if DTavant's last *)
(* st_init failed and its flag says otherwise: the run control starts no    *)
(* run on a bad verdict, and the second st_init a thread may run does not   *)
(* take away the connection of the first.                                  *)
(***************************************************************************)
THEOREM WildIfOverlooked == DtSpec => []WildOnlyIfOverlooked
<1>1. DtInit => ConnectionInv
    <2>1. Avant \in Control!Task
        BY TwoTasksAssumption DEF Avant, Control!Task
    <2>2. QED
        BY <2>1 DEF DtInit, Control!Init, ConnectionInv, ConnectionMade,
                    WildOnlyIfOverlooked
<1>2. /\ ControlThms!TypeOK /\ ControlThms!RunsAfterInit
      /\ ControlThms!RunsOnlyIfGood /\ ConnectionInv /\ [DtNext]_allVars
      => ConnectionInv'
    <2> SUFFICES ASSUME ControlThms!TypeOK, ControlThms!RunsAfterInit,
                        ControlThms!RunsOnlyIfGood, ConnectionInv,
                        [DtNext]_allVars
                 PROVE  ConnectionInv'
        OBVIOUS
    <2>1. outcome \in [Task -> {"none", "ok", "fail"}]
        BY DEF ControlThms!TypeOK, ControlThms!Task, Task
    <2>2. CASE UNCHANGED allVars
        BY <2>2 DEF allVars, taskVars, ConnectionInv, ConnectionMade, CanRead,
                    WildOnlyIfOverlooked
    <2>3. CASE DtNext
        <3>1. ConnectionMade'
            BY <2>1, <2>3, ConnectionStays DEF ConnectionInv
        <3>2. CASE WildRead
            BY <2>1, <3>1, <3>2, WildIsOverlooked DEF ConnectionInv
        <3>3. CASE ~WildRead
            <4>1. ~crashed /\ crashed' = crashed
                BY <2>3, <3>3 DEF DtNext, MainThread, AvantThread, RearThread,
                   Start, Switches, Console, ControlAlone, JoinFirst, JoinLast,
                   Outer, OutsideOfRun, Inside
            <4>2. QED
                BY <3>1, <4>1 DEF ConnectionInv, WildOnlyIfOverlooked
        <3>4. QED
            BY <3>2, <3>3
    <2>4. QED
        BY <2>2, <2>3
<1>3. ControlThms!Spec => [](ControlThms!TypeOK /\ ControlThms!RunsAfterInit
                             /\ ControlThms!RunsOnlyIfGood)
    <2>1. ControlThms!Spec => []ControlThms!TypeOK
        BY NTasksAssumption, AvantsAssumption, ControlThms!TypeCorrect
    <2>2. ControlThms!Spec => []ControlThms!RunsAfterInit
        BY NTasksAssumption, AvantsAssumption, ControlThms!NoRunBeforeInit
    <2>3. ControlThms!Spec => []ControlThms!RunsOnlyIfGood
        BY NTasksAssumption, AvantsAssumption, ControlThms!NoRunAfterBadStart
    <2>4. QED
        BY <2>1, <2>2, <2>3, PTL
<1>4. ConnectionInv => WildOnlyIfOverlooked
    BY DEF ConnectionInv
<1>5. QED
    BY <1>1, <1>2, <1>3, <1>4, DtControlled, PTL DEF DtSpec

=============================================================================
