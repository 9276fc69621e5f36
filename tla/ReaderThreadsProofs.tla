------------------------- MODULE ReaderThreadsProofs -------------------------
(***************************************************************************)
(* Proofs about ReaderThreads for every high water mark and every bound.   *)
(*                                                                         *)
(* IInv is inductive.  Two ideas carry it: no buffer has two owners, hence *)
(* every decrement of g_avant_depth takes one element away from Live; and  *)
(* main ends the run for good, hence what rear has seen of g_state when it *)
(* reads the counter still holds.                                          *)
(***************************************************************************)
EXTENDS ReaderThreads, FiniteSetTheorems, TLAPS

-----------------------------------------------------------------------------
(* Pipes *)

\* x waits in some pipe of ps.
Waits(x, ps) == \E r \in 1..Len(ps) : \E i \in 1..Len(ps[r]) : ps[r][i] = x

\* Whatever waits is older than b.
OlderThan(ps, b) == \A x : Waits(x, ps) => x < b

\* b goes to the end of pipe p.
Sent(ps, p, b, qs) == qs = [ps EXCEPT ![p] = Append(@, b)]

LEMMA InPipesAre ==
    /\ \A x : x \in InPipes <=> Waits(x, pipes)
    /\ \A x : x \in InPipes' <=> Waits(x, pipes')
BY DEF InPipes, Waits

\* What waits is a number.
LEMMA PipeValue ==
    ASSUME NEW ps \in Seq(Seq(Nat)), NEW r \in 1..Len(ps), NEW i \in 1..Len(ps[r])
    PROVE  ps[r][i] \in Nat
<1>1. ps[r] \in Seq(Nat)
    OBVIOUS
<1>2. QED
    BY <1>1

\* A new pipe is empty.
LEMMA NewPipe ==
    ASSUME NEW ps \in Seq(Seq(Nat)), NEW qs, qs = Append(ps, <<>>)
    PROVE  /\ qs \in Seq(Seq(Nat)) /\ Len(qs) = Len(ps) + 1
           /\ \A x : Waits(x, qs) <=> Waits(x, ps)
           /\ Tidy(ps) => Tidy(qs)
<1>1. /\ qs \in Seq(Seq(Nat)) /\ Len(qs) = Len(ps) + 1 /\ Len(ps) \in Nat
      /\ \A r \in 1..Len(ps) : qs[r] = ps[r]
      /\ Len(qs[Len(qs)]) = 0
    OBVIOUS
<1>2. \A r \in 1..Len(qs) : r \in 1..Len(ps) \/ 1..Len(qs[r]) = {}
    BY <1>1
<1>3. 1..Len(ps) \subseteq 1..Len(qs)
    BY <1>1
<1>4. \A x : Waits(x, qs) <=> Waits(x, ps)
    <2>1. ASSUME NEW x, Waits(x, qs) PROVE Waits(x, ps)
        <3>1. PICK r \in 1..Len(qs) : \E i \in 1..Len(qs[r]) : qs[r][i] = x
            BY <2>1 DEF Waits
        <3>2. r \in 1..Len(ps) /\ qs[r] = ps[r]
            BY <1>1, <1>2, <3>1
        <3>3. QED
            BY <3>1, <3>2 DEF Waits
    <2>2. ASSUME NEW x, Waits(x, ps) PROVE Waits(x, qs)
        <3>1. PICK r \in 1..Len(ps) : \E i \in 1..Len(ps[r]) : ps[r][i] = x
            BY <2>2 DEF Waits
        <3>2. r \in 1..Len(qs) /\ qs[r] = ps[r]
            BY <1>1, <1>3
        <3>3. QED
            BY <3>1, <3>2 DEF Waits
    <2>3. QED
        BY <2>1, <2>2
<1>5. ASSUME Tidy(ps) PROVE Tidy(qs)
    <2>1. \A r \in 1..Len(qs) : \A i \in 1..Len(qs[r]) :
              r \in 1..Len(ps) /\ qs[r] = ps[r]
        BY <1>1, <1>2
    <2>2. ASSUME NEW r \in 1..Len(qs), NEW i \in 1..Len(qs[r]),
                 NEW j \in 1..Len(qs[r]), i < j
          PROVE  qs[r][i] < qs[r][j]
        BY <1>5, <2>1, <2>2 DEF Tidy
    <2>3. ASSUME NEW r \in 1..Len(qs), NEW s \in 1..Len(qs), r # s,
                 NEW i \in 1..Len(qs[r]), NEW j \in 1..Len(qs[s])
          PROVE  qs[r][i] # qs[s][j]
        <3>1. r \in 1..Len(ps) /\ s \in 1..Len(ps) /\ qs[r] = ps[r] /\ qs[s] = ps[s]
            BY <2>1, <2>3
        <3>2. QED
            BY <1>5, <2>3, <3>1 DEF Tidy
    <2>4. QED
        BY <2>2, <2>3 DEF Tidy
<1>6. QED
    BY <1>1, <1>4, <1>5

\* A block that is newer than all that wait goes to the end of one pipe.
LEMMA IntoPipe ==
    ASSUME NEW ps \in Seq(Seq(Nat)), NEW p \in 1..Len(ps), NEW b \in Nat,
           NEW qs, Sent(ps, p, b, qs), OlderThan(ps, b)
    PROVE  /\ qs \in Seq(Seq(Nat)) /\ Len(qs) = Len(ps)
           /\ \A x : Waits(x, qs) <=> Waits(x, ps) \/ x = b
           /\ Tidy(ps) => Tidy(qs)
<1>1. ps[p] \in Seq(Nat) /\ Len(ps[p]) \in Nat /\ Len(ps) \in Nat
    OBVIOUS
<1>2. qs \in Seq(Seq(Nat)) /\ Len(qs) = Len(ps)
    BY <1>1 DEF Sent
<1>3. /\ \A r \in 1..Len(ps) : r # p => qs[r] = ps[r]
      /\ qs[p] = Append(ps[p], b)
    BY DEF Sent
<1>4. /\ Len(qs[p]) = Len(ps[p]) + 1 /\ qs[p][Len(ps[p]) + 1] = b
      /\ \A i \in 1..Len(ps[p]) : qs[p][i] = ps[p][i]
    BY <1>1, <1>3
<1>5. /\ \A i \in 1..Len(qs[p]) : i \in 1..Len(ps[p]) \/ i = Len(ps[p]) + 1
      /\ \A i \in 1..Len(ps[p]) : i \in 1..Len(qs[p]) /\ i < Len(ps[p]) + 1
      /\ Len(ps[p]) + 1 \in 1..Len(qs[p])
    BY ONLY <1>1, <1>4
<1>6. \A x : Waits(x, qs) <=> Waits(x, ps) \/ x = b
    <2>1. ASSUME NEW x, Waits(x, qs) PROVE Waits(x, ps) \/ x = b
        BY <1>2, <1>3, <1>4, <1>5, <2>1 DEF Waits
    <2>2. ASSUME NEW x, Waits(x, ps) PROVE Waits(x, qs)
        BY <1>2, <1>3, <1>4, <1>5, <2>2 DEF Waits
    <2>3. Waits(b, qs)
        BY <1>2, <1>4, <1>5 DEF Waits
    <2>4. QED
        BY <2>1, <2>2, <2>3
<1>7. ASSUME Tidy(ps) PROVE Tidy(qs)
    <2>1. \A r \in 1..Len(ps) : \A i \in 1..Len(ps[r]) : ps[r][i] < b
        BY DEF Waits, OlderThan
    <2>2. ASSUME NEW r \in 1..Len(qs), NEW i \in 1..Len(qs[r]),
                 NEW j \in 1..Len(qs[r]), i < j
          PROVE  qs[r][i] < qs[r][j]
        <3>1. CASE r # p
            BY <1>2, <1>3, <1>7, <2>2, <3>1 DEF Tidy
        <3>2. CASE r = p /\ j \in 1..Len(ps[p])
            <4>1. i \in 1..Len(ps[p])
                BY <1>1, <2>2, <3>2
            <4>2. QED
                BY <1>4, <1>7, <2>2, <3>2, <4>1 DEF Tidy
        <3>3. CASE r = p /\ j = Len(ps[p]) + 1
            <4>1. i \in 1..Len(ps[p])
                BY <1>1, <2>2, <3>3
            <4>2. QED
                BY <1>4, <2>1, <3>3, <4>1
        <3>4. QED
            BY <1>5, <3>1, <3>2, <3>3
    <2>3. ASSUME NEW r \in 1..Len(qs), NEW s \in 1..Len(qs), r # s,
                 NEW i \in 1..Len(qs[r]), NEW j \in 1..Len(qs[s])
          PROVE  qs[r][i] # qs[s][j]
        <3>1. \A t \in 1..Len(ps), m \in 1..Len(qs[p]) : t # p =>
                  \A n \in 1..Len(ps[t]) : ps[t][n] # qs[p][m]
            <4> SUFFICES ASSUME NEW t \in 1..Len(ps), NEW m \in 1..Len(qs[p]),
                                t # p, NEW n \in 1..Len(ps[t])
                         PROVE  ps[t][n] # qs[p][m]
                OBVIOUS
            <4>1. CASE m \in 1..Len(ps[p])
                <5>1. qs[p][m] = ps[p][m]
                    BY <1>4, <4>1
                <5>2. ps[t][n] # ps[p][m]
                    BY <1>7, <4>1 DEF Tidy
                <5>3. QED
                    BY <5>1, <5>2
            <4>2. CASE m = Len(ps[p]) + 1
                <5>1. qs[p][m] = b
                    BY <1>4, <4>2
                <5>2. ps[t][n] < b
                    BY <2>1
                <5>3. ps[t][n] \in Nat
                    BY PipeValue
                <5>4. ps[t][n] # b
                    BY ONLY <5>2, <5>3, b \in Nat
                <5>5. QED
                    BY <5>1, <5>4
            <4>3. QED
                BY <1>5, <4>1, <4>2
        <3>2. CASE r # p /\ s # p
            <4>1. r \in 1..Len(ps) /\ qs[r] = ps[r] /\ s \in 1..Len(ps) /\ qs[s] = ps[s]
                BY <1>2, <1>3, <3>2
            <4>2. ps[r][i] # ps[s][j]
                BY <1>7, <2>3, <4>1 DEF Tidy
            <4>3. QED
                BY <4>1, <4>2
        <3>3. CASE r = p
            <4>1. s \in 1..Len(ps) /\ s # p /\ qs[s] = ps[s]
                BY <1>2, <1>3, <2>3, <3>3
            <4>2. i \in 1..Len(qs[p]) /\ j \in 1..Len(ps[s])
                BY <2>3, <3>3, <4>1
            <4>3. ps[s][j] # qs[p][i]
                BY <3>1, <4>1, <4>2
            <4>4. QED
                BY <3>3, <4>1, <4>3
        <3>4. CASE s = p
            <4>1. r \in 1..Len(ps) /\ r # p /\ qs[r] = ps[r]
                BY <1>2, <1>3, <2>3, <3>4
            <4>2. j \in 1..Len(qs[p]) /\ i \in 1..Len(ps[r])
                BY <2>3, <3>4, <4>1
            <4>3. ps[r][i] # qs[p][j]
                BY <3>1, <4>1, <4>2
            <4>4. QED
                BY <3>4, <4>1, <4>3
        <3>5. QED
            BY <3>2, <3>3, <3>4
    <2>4. QED
        BY <2>2, <2>3 DEF Tidy
<1>8. QED
    BY <1>2, <1>6, <1>7

\* The first of a pipe is taken: it waits nowhere else, and is the oldest there.
LEMMA OutOfPipe ==
    ASSUME NEW ps \in Seq(Seq(Nat)), Tidy(ps), NEW p \in 1..Len(ps),
           ps[p] # <<>>, NEW qs, qs = [ps EXCEPT ![p] = Tail(@)]
    PROVE  /\ qs \in Seq(Seq(Nat)) /\ Len(qs) = Len(ps) /\ Tidy(qs)
           /\ Waits(Head(ps[p]), ps)
           /\ \A x : Waits(x, qs) <=> Waits(x, ps) /\ x # Head(ps[p])
           /\ \A i \in 1..Len(qs[p]) : Head(ps[p]) < qs[p][i]
<1>1. ps[p] \in Seq(Nat) /\ Len(ps[p]) \in Nat /\ Len(ps[p]) # 0
      /\ Len(ps) \in Nat /\ Tail(ps[p]) \in Seq(Nat)
    OBVIOUS
<1>2. qs \in Seq(Seq(Nat)) /\ Len(qs) = Len(ps)
    BY <1>1
<1>3. /\ \A r \in 1..Len(ps) : r # p => qs[r] = ps[r]
      /\ qs[p] = Tail(ps[p])
    OBVIOUS
<1>4. /\ Len(qs[p]) = Len(ps[p]) - 1
      /\ \A i \in 1..Len(qs[p]) : qs[p][i] = ps[p][i + 1]
      /\ Head(ps[p]) = ps[p][1]
    BY <1>1, <1>3
<1>5. /\ 1 \in 1..Len(ps[p])
      /\ \A i \in 1..Len(qs[p]) : i + 1 \in 1..Len(ps[p]) /\ 1 < i + 1
      /\ \A i \in 1..Len(ps[p]) : i # 1 => i - 1 \in 1..Len(qs[p]) /\ (i - 1) + 1 = i
    BY <1>1, <1>4
<1>6. \A i \in 1..Len(qs[p]) : Head(ps[p]) < qs[p][i]
    BY <1>4, <1>5 DEF Tidy
<1>7. Waits(Head(ps[p]), ps)
    BY <1>4, <1>5 DEF Waits
<1>8. \A x : Waits(x, qs) <=> Waits(x, ps) /\ x # Head(ps[p])
    <2>1. ASSUME NEW x, Waits(x, qs) PROVE Waits(x, ps) /\ x # Head(ps[p])
        <3>1. PICK r \in 1..Len(ps) : \E i \in 1..Len(qs[r]) : qs[r][i] = x
            BY <1>2, <2>1 DEF Waits
        <3>2. PICK i \in 1..Len(qs[r]) : qs[r][i] = x
            BY <3>1
        <3>3. CASE r = p
            <4>1. x = ps[p][i + 1] /\ i + 1 \in 1..Len(ps[p])
                BY <1>4, <1>5, <3>2, <3>3
            <4>2. Head(ps[p]) \in Nat /\ x \in Nat
                BY <1>4, <1>5, <4>1, PipeValue
            <4>3. Head(ps[p]) < x
                BY <1>6, <3>2, <3>3
            <4>4. QED
                BY <4>1, <4>2, <4>3 DEF Waits
        <3>4. CASE r # p
            <4>1. i \in 1..Len(ps[r]) /\ ps[r][i] = x
                BY <1>3, <3>2, <3>4
            <4>2. ps[r][i] # ps[p][1]
                BY <1>5, <3>4, <4>1 DEF Tidy
            <4>3. QED
                BY <1>4, <4>1, <4>2 DEF Waits
        <3>5. QED
            BY <3>3, <3>4
    <2>2. ASSUME NEW x, Waits(x, ps), x # Head(ps[p]) PROVE Waits(x, qs)
        <3>1. PICK r \in 1..Len(ps) : \E i \in 1..Len(ps[r]) : ps[r][i] = x
            BY <2>2 DEF Waits
        <3>2. PICK i \in 1..Len(ps[r]) : ps[r][i] = x
            BY <3>1
        <3>3. CASE r = p
            <4>1. i - 1 \in 1..Len(qs[p]) /\ qs[p][i - 1] = x
                BY <1>4, <1>5, <2>2, <3>2, <3>3
            <4>2. QED
                BY <1>2, <4>1 DEF Waits
        <3>4. CASE r # p
            BY <1>2, <1>3, <3>2, <3>4 DEF Waits
        <3>5. QED
            BY <3>3, <3>4
    <2>3. QED
        BY <2>1, <2>2
<1>9. Tidy(qs)
    <2>1. ASSUME NEW r \in 1..Len(qs), NEW i \in 1..Len(qs[r]),
                 NEW j \in 1..Len(qs[r]), i < j
          PROVE  qs[r][i] < qs[r][j]
        <3>1. CASE r # p
            BY <1>2, <1>3, <2>1, <3>1 DEF Tidy
        <3>2. CASE r = p
            <4>1. i + 1 \in 1..Len(ps[p]) /\ j + 1 \in 1..Len(ps[p]) /\ i + 1 < j + 1
                BY <1>1, <1>4, <2>1, <3>2
            <4>2. ps[p][i + 1] < ps[p][j + 1]
                BY <4>1 DEF Tidy
            <4>3. QED
                BY <1>4, <3>2, <4>2
        <3>3. QED
            BY <3>1, <3>2
    <2>2. ASSUME NEW r \in 1..Len(qs), NEW s \in 1..Len(qs), r # s,
                 NEW i \in 1..Len(qs[r]), NEW j \in 1..Len(qs[s])
          PROVE  qs[r][i] # qs[s][j]
        <3>1. \A t \in 1..Len(qs) : \A m \in 1..Len(qs[t]) :
                  \E n \in 1..Len(ps[t]) : qs[t][m] = ps[t][n]
            <4> SUFFICES ASSUME NEW t \in 1..Len(qs), NEW m \in 1..Len(qs[t])
                         PROVE  \E n \in 1..Len(ps[t]) : qs[t][m] = ps[t][n]
                OBVIOUS
            <4>1. CASE t = p
                BY <1>4, <1>5, <4>1
            <4>2. CASE t # p
                BY <1>2, <1>3, <4>2
            <4>3. QED
                BY <4>1, <4>2
        <3>2. PICK m \in 1..Len(ps[r]) : qs[r][i] = ps[r][m]
            BY <3>1
        <3>3. PICK n \in 1..Len(ps[s]) : qs[s][j] = ps[s][n]
            BY <3>1
        <3>4. QED
            BY <1>2, <2>2, <3>2, <3>3 DEF Tidy
    <2>3. QED
        BY <2>1, <2>2 DEF Tidy
<1>10. QED
    BY <1>2, <1>6, <1>7, <1>8, <1>9

-----------------------------------------------------------------------------
(* Buffers and their count *)

LEMMA InitIInv == Init => IInv
<1> SUFFICES ASSUME Init PROVE IInv
    OBVIOUS
<1>1. TypeOK
    <2>1. \A S : <<>> \in Seq(S)
        OBVIOUS
    <2>2. pipes \in Seq(Seq(Nat)) /\ recorded \in Seq(Nat)
        BY <2>1 DEF Init
    <2>3. QED
        BY <2>2 DEF Init, TypeOK, Tests
<1>2. \A x : ~Waits(x, pipes)
    BY DEF Init, Waits
<1>3. InPipes = {} /\ Live = {}
    BY <1>2, InPipesAre DEF Init, Live
<1>4. Phases /\ LeftAfterRun /\ BindsOnce
    BY DEF Init, Phases, LeftAfterRun, Left, BindsOnce
<1>5. Hands /\ OneOwner
    BY <1>3 DEF Init, Hands, OneOwner
<1>6. Tidy(pipes)
    BY DEF Init, Tidy
<1>7. IsFiniteSet(Live) /\ DepthAccounting
    BY <1>3, FS_EmptySet DEF Init, DepthAccounting
<1>8. Order /\ LateInv
    BY DEF Init, Order, InOrder, LateInv, Left
<1>9. QED
    BY <1>1, <1>4, <1>5, <1>6, <1>7, <1>8 DEF IInv

\* Taking a part of Live away leaves a finite set, smaller by the part's size.
LEMMA TakeAway ==
    ASSUME IInv, NEW S \in SUBSET Live
    PROVE  /\ IsFiniteSet(Live \ S)
           /\ Cardinality(Live \ S) = Cardinality(Live) - Cardinality(S)
           /\ Cardinality(Live \ S) \in Nat
<1>1. IsFiniteSet(Live) /\ IsFiniteSet(S) /\ IsFiniteSet(Live \ S)
    BY FS_Subset DEF IInv
<1>2. Cardinality((Live \ S) \union S)
        = Cardinality(Live \ S) + Cardinality(S) - Cardinality((Live \ S) \cap S)
    BY <1>1, FS_Union
<1>3. (Live \ S) \union S = Live /\ (Live \ S) \cap S = {}
    OBVIOUS
<1>4. Cardinality({}) = 0
    BY FS_EmptySet
<1>5. Cardinality(Live \ S) \in Nat /\ Cardinality(S) \in Nat
    BY <1>1, FS_CardinalityType
<1>6. QED
    BY <1>1, <1>2, <1>3, <1>4, <1>5

\* What rear frees by dropping its message, and avant by dropping its buffer.
LEMMA Freed ==
    ASSUME IInv
    PROVE  /\ IsFiniteSet(Live \ held)
           /\ g_avant_depth - Cardinality(held) = Cardinality(Live \ held)
           /\ g_avant_depth - Cardinality(held) \in Nat
           /\ buf # {} => /\ IsFiniteSet(Live \ buf)
                          /\ g_avant_depth - 1 = Cardinality(Live \ buf)
                          /\ g_avant_depth - 1 \in Nat
<1>1. held \subseteq Live /\ buf \subseteq Live
    BY DEF Live
<1>2. buf # {} => buf = {begun}
    BY DEF IInv, Hands
<1>3. Cardinality({begun}) = 1
    BY FS_Singleton
<1>4. QED
    BY <1>1, <1>2, <1>3, TakeAway DEF IInv, DepthAccounting

-----------------------------------------------------------------------------
(* Types *)

LEMMA MainType ==
    ASSUME TypeOK, MainStep
    PROVE  TypeOK'
<1> USE DEF TypeOK, rearVars, avantVars
<1>1. CASE Sequencer
    BY <1>1 DEF Sequencer, SetState
<1>2. CASE Disconnect("end", "closed", "delete") \/ Disconnect("delete", "deleted", "join")
    BY <1>2 DEF Disconnect
<1>3. CASE Join
    BY <1>3 DEF Join
<1>4. QED
    BY <1>1, <1>2, <1>3 DEF MainStep

LEMMA AvantType ==
    ASSUME IInv, AvantStep \/ AvantFault
    PROVE  TypeOK'
<1>1. TypeOK
    BY DEF IInv
<1> USE <1>1 DEF TypeOK, shared, rearVars
<1>2. CASE AvantTest
    BY <1>2 DEF AvantTest, AfterTest, Tests
<1>3. CASE AvantConnect
    BY <1>3, NewPipe DEF AvantConnect
<1>4. CASE AvantCheck
    BY <1>4 DEF AvantCheck, Tests
<1>5. CASE AvantAlloc
    BY <1>5 DEF AvantAlloc
<1>6. CASE AvantRead
    BY <1>6 DEF AvantRead
<1>7. CASE AvantSend
    BY <1>7 DEF AvantSend
<1>8. CASE AvantAllocFail
    BY <1>8 DEF AvantAllocFail, Tests
<1>9. CASE AvantReadFail
    <2>1. faults' \in Nat /\ misused' \in BOOLEAN /\ avant' \in Tests
        BY <1>9 DEF AvantReadFail, Tests
    <2>2. leaked' \subseteq Nat /\ buf' \subseteq Nat
        BY <1>9 DEF AvantReadFail
    <2>3. QED
        BY <1>9, <2>1, <2>2 DEF AvantReadFail
<1>10. CASE AvantSendFail
    <2>1. g_avant_depth - 1 \in Nat
        BY <1>10, Freed DEF AvantSendFail, IInv, Hands
    <2>2. QED
        BY <1>10, <2>1 DEF AvantSendFail
<1>11. QED
    BY <1>2, <1>3, <1>4, <1>5, <1>6, <1>7, <1>8, <1>9, <1>10
       DEF AvantStep, AvantFault

LEMMA RearType ==
    ASSUME IInv, RearStep
    PROVE  TypeOK'
<1>1. TypeOK /\ g_avant_depth - Cardinality(held) \in Nat
    BY Freed DEF IInv
<1> USE <1>1 DEF TypeOK, shared, avantVars
<1>2. CASE RearTest
    BY <1>2 DEF RearTest, AfterTest, Tests
<1>3. CASE RearBind \/ RearCheckState \/ RearCheckDepth
    BY <1>3 DEF RearBind, RearCheckState, RearCheckDepth
<1>4. CASE RearRecv
    <2>1. PICK r \in 1..Len(pipes) :
              /\ pipes[r] # <<>>
              /\ held' = {Head(pipes[r])}
              /\ pipes' = [pipes EXCEPT ![r] = Tail(@)]
        BY <1>4 DEF RearRecv
    <2>2. pipes[r] \in Seq(Nat)
        OBVIOUS
    <2>3. Head(pipes[r]) \in Nat /\ Tail(pipes[r]) \in Seq(Nat)
        BY <2>1, <2>2
    <2>4. pipes' \in Seq(Seq(Nat)) /\ held' \subseteq Nat
        BY <2>1, <2>3
    <2>5. QED
        BY <1>4, <2>4 DEF RearRecv
<1>5. CASE RearRecvNothing
    BY <1>5 DEF RearRecvNothing
<1>6. CASE RearRecvFail
    <2>1. held' \subseteq Nat /\ g_avant_depth' \in Nat
        BY <1>6 DEF RearRecvFail
    <2>2. faults' \in Nat /\ rear' = "check_state"
        BY <1>6 DEF RearRecvFail
    <2>3. UNCHANGED <<g_state, main, tcp, avant, begun, buf, leaked, misused, bound, recorded, pipes>>
        BY <1>6 DEF RearRecvFail
    <2>4. QED
        BY <2>1, <2>2, <2>3
<1>7. CASE RearWrite
    BY <1>7 DEF RearWrite
<1>8. CASE RearLeave
    BY <1>8 DEF RearLeave, Tests
<1>9. QED
    BY <1>2, <1>3, <1>4, <1>5, <1>6, <1>7, <1>8 DEF RearStep

-----------------------------------------------------------------------------
(* Where main and rear are *)

Control == Phases /\ LeftAfterRun /\ BindsOnce

\* main ends the run for good; only it writes g_state.
LEMMA MainControl ==
    ASSUME IInv, MainStep
    PROVE  Control'
<1> USE DEF IInv, Control, Phases, LeftAfterRun, Left, BindsOnce, rearVars
<1>1. CASE Sequencer
    BY <1>1 DEF Sequencer, SetState
<1>2. CASE Disconnect("end", "closed", "delete") \/ Disconnect("delete", "deleted", "join")
    BY <1>2 DEF Disconnect
<1>3. CASE Join
    BY <1>3 DEF Join
<1>4. QED
    BY <1>1, <1>2, <1>3 DEF MainStep

\* avant touches nothing of it.
LEMMA AvantControl ==
    ASSUME IInv, AvantStep \/ AvantFault
    PROVE  Control'
<1>1. UNCHANGED <<g_state, main, rear, bound>>
    BY DEF AvantStep, AvantFault, AvantTest, AvantConnect, AvantCheck,
           AvantAlloc, AvantRead, AvantSend, AvantAllocFail, AvantReadFail,
           AvantSendFail, shared, rearVars
<1>2. QED
    BY <1>1 DEF IInv, Control, Phases, LeftAfterRun, Left, BindsOnce

\* rear enters its run only while g_state is RUNNING.
LEMMA RearControl ==
    ASSUME IInv, RearStep
    PROVE  Control'
<1> USE DEF IInv, Control, Phases, LeftAfterRun, Left, BindsOnce, shared, Tests
<1>1. CASE RearTest
    <2>1. UNCHANGED <<g_state, main, bound>> /\ rear \in Tests
        BY <1>1 DEF RearTest
    <2>2. /\ rear' = "bind" => g_state = "RUNNING"
          /\ rear' \in Tests \union {"bind", "ended"}
          /\ main = "start" => rear' = "is_idle"
        BY <1>1 DEF RearTest, AfterTest
    <2>3. QED
        BY <2>1, <2>2
<1>2. CASE RearBind
    BY <1>2 DEF RearBind
<1>3. CASE RearCheckState
    BY <1>3 DEF RearCheckState, TypeOK
<1>4. CASE RearCheckDepth
    BY <1>4 DEF RearCheckDepth
<1>5. CASE RearRecv \/ RearRecvNothing \/ RearRecvFail \/ RearWrite
    BY <1>5 DEF RearRecv, RearRecvNothing, RearRecvFail, RearWrite
<1>6. CASE RearLeave
    BY <1>6 DEF RearLeave
<1>7. QED
    BY <1>1, <1>2, <1>3, <1>4, <1>5, <1>6 DEF RearStep

-----------------------------------------------------------------------------
(* Owners, the counter and the order *)

Buffers ==
    /\ Hands /\ OneOwner /\ Tidy(pipes)
    /\ IsFiniteSet(Live) /\ DepthAccounting
    /\ Order

\* A step that touches no buffer keeps what relates them.
LEMMA QuietStep ==
    ASSUME IInv,
           UNCHANGED <<g_avant_depth, begun, buf, pipes, held, recorded, leaked>>,
           avant' \in {"read", "send"} <=> avant \in {"read", "send"},
           rear' = "write" => rear = "write"
    PROVE  Buffers'
<1>1. InPipes' = InPipes
    BY DEF InPipes
<1>2. Live' = Live
    BY <1>1 DEF Live
<1>3. Hands'
    BY DEF IInv, Hands
<1>4. OneOwner'
    BY <1>1, <1>2 DEF IInv, OneOwner
<1>5. Tidy(pipes)' /\ IsFiniteSet(Live') /\ DepthAccounting'
    BY <1>2 DEF IInv, DepthAccounting, Tidy
<1>6. Order'
    BY <1>1 DEF IInv, Order, InOrder
<1>7. QED
    BY <1>3, <1>4, <1>5, <1>6 DEF Buffers

\* A step of avant that moves or drops its buffer, or leaves it as it is, and
\* adds nothing else: the order is kept.
LEMMA OrderStays ==
    ASSUME IInv, InPipes' \union buf' \subseteq InPipes \union buf,
           Len(pipes') = Len(pipes) \/ (Len(pipes') <= 1 => Len(pipes) <= 1),
           UNCHANGED <<rear, held, recorded>>
    PROVE  Order'
BY DEF IInv, Order, InOrder

LEMMA ConnectBuffers ==
    ASSUME IInv, AvantConnect
    PROVE  Buffers'
<1> USE DEF AvantConnect, rearVars
<1>1. /\ Len(pipes') = Len(pipes) + 1 /\ Len(pipes) \in Nat
      /\ \A x : Waits(x, pipes') <=> Waits(x, pipes)
      /\ Tidy(pipes')
    <2>1. pipes \in Seq(Seq(Nat)) /\ Tidy(pipes)
        BY DEF IInv, TypeOK
    <2>2. Len(pipes) \in Nat
        BY <2>1
    <2>3. pipes' = Append(pipes, <<>>)
        OBVIOUS
    <2>4. QED
        BY ONLY <2>1, <2>2, <2>3, NewPipe
<1>2. InPipes' = InPipes
    BY <1>1, InPipesAre
<1>3. Live' = Live
    BY <1>2 DEF Live
<1>4. Hands' /\ OneOwner'
    BY <1>2, <1>3 DEF IInv, Hands, OneOwner
<1>5. IsFiniteSet(Live') /\ DepthAccounting' /\ Tidy(pipes)'
    BY <1>1, <1>3 DEF IInv, DepthAccounting, Tidy
<1>6. Order'
    BY <1>1, <1>2, OrderStays
<1>7. QED
    BY <1>1, <1>4, <1>5, <1>6 DEF Buffers

\* The new buffer has a number of its own, above all others.
LEMMA AllocBuffers ==
    ASSUME IInv, AvantAlloc
    PROVE  Buffers'
<1> USE DEF AvantAlloc, rearVars
<1>1. begun \in Nat /\ Live \subseteq 1..begun /\ buf = {}
    BY DEF IInv, TypeOK, OneOwner, Hands
<1>2. InPipes' = InPipes
    BY DEF InPipes
<1>3. begun + 1 \notin Live
    BY <1>1
<1>4. Live' = Live \union {begun + 1}
    BY <1>1, <1>2 DEF Live
<1>5. IsFiniteSet(Live') /\ Cardinality(Live') = Cardinality(Live) + 1
    BY <1>3, <1>4, FS_AddElement DEF IInv
<1>6. DepthAccounting'
    BY <1>5 DEF IInv, DepthAccounting
<1>7. Hands'
    BY <1>1 DEF IInv, Hands
<1>8. OneOwner'
    <2>1. Live' \subseteq 1..begun'
        BY <1>1, <1>4
    <2>2. \A n \in 1..Len(recorded') : recorded'[n] \in 1..begun'
        BY <1>1 DEF IInv, OneOwner
    <2>3. QED
        BY <1>2, <1>3, <2>1, <2>2 DEF IInv, OneOwner, Live
<1>9. Tidy(pipes)'
    BY DEF IInv, Tidy
<1>10. Order'
    <2>1. \A n \in 1..Len(recorded) : recorded[n] < begun + 1
        BY <1>1 DEF IInv, OneOwner
    <2>2. \A h \in held : h < begun + 1
        BY <1>1 DEF Live
    <2>3. QED
        BY <1>1, <1>2, <2>1, <2>2 DEF IInv, Order, InOrder
<1>11. QED
    BY <1>5, <1>6, <1>7, <1>8, <1>9, <1>10 DEF Buffers

\* The buffer of a read that failed stays counted.
LEMMA ReadFailBuffers ==
    ASSUME IInv, AvantReadFail
    PROVE  Buffers'
<1> USE DEF AvantReadFail, rearVars
<1>1. InPipes' = InPipes
    BY DEF InPipes
<1>2. Live' = Live
    BY <1>1 DEF Live
<1>3. Hands' /\ OneOwner'
    BY <1>1, <1>2 DEF IInv, Hands, OneOwner
<1>4. Tidy(pipes)' /\ IsFiniteSet(Live') /\ DepthAccounting'
    BY <1>2 DEF IInv, DepthAccounting, Tidy
<1>5. Order'
    BY <1>1, OrderStays
<1>6. QED
    BY <1>3, <1>4, <1>5 DEF Buffers

\* The latest block goes to the end of a pipe.
LEMMA SentBlock ==
    ASSUME IInv, AvantSend
    PROVE  /\ Len(pipes') = Len(pipes) /\ Tidy(pipes')
           /\ InPipes' = InPipes \union buf
<1>1. buf = {begun} /\ begun \in Nat
    BY DEF AvantSend, IInv, Hands, TypeOK
<1>2. PICK r \in 1..Len(pipes) : Sent(pipes, r, begun, pipes')
    BY <1>1 DEF AvantSend, Sent
<1>3. \A x \in InPipes : x \in 1..begun /\ x # begun
    BY <1>1 DEF IInv, OneOwner, Live
<1>4. OlderThan(pipes, begun)
    BY <1>1, <1>3, InPipesAre DEF OlderThan
<1>5. /\ Len(pipes') = Len(pipes)
      /\ \A x : Waits(x, pipes') <=> Waits(x, pipes) \/ x = begun
      /\ Tidy(pipes')
    <2>1. pipes \in Seq(Seq(Nat)) /\ Tidy(pipes) /\ begun \in Nat
        BY DEF IInv, TypeOK
    <2>2. QED
        BY ONLY <1>2, <1>4, <2>1, IntoPipe
<1>6. InPipes' = InPipes \union buf
    BY <1>1, <1>5, InPipesAre
<1>7. QED
    BY <1>5, <1>6

LEMMA SendBuffers ==
    ASSUME IInv, AvantSend
    PROVE  Buffers'
<1> USE DEF AvantSend, rearVars
<1>1. Live' = Live
    BY SentBlock DEF Live
<1>2. Hands' /\ OneOwner'
    BY <1>1, SentBlock DEF IInv, Hands, OneOwner
<1>3. IsFiniteSet(Live') /\ DepthAccounting' /\ Tidy(pipes)'
    BY <1>1, SentBlock DEF IInv, DepthAccounting, Tidy
<1>4. Order'
    BY SentBlock, OrderStays
<1>5. QED
    BY <1>2, <1>3, <1>4 DEF Buffers

LEMMA SendFailBuffers ==
    ASSUME IInv, AvantSendFail
    PROVE  Buffers'
<1> USE DEF AvantSendFail, rearVars
<1>1. InPipes' = InPipes /\ buf # {}
    BY DEF InPipes, IInv, Hands
<1>2. Live' = Live \ buf
    BY <1>1 DEF Live, IInv, OneOwner
<1>3. IsFiniteSet(Live') /\ DepthAccounting'
    BY <1>1, <1>2, Freed DEF DepthAccounting
<1>4. Hands' /\ OneOwner'
    BY <1>1, <1>2 DEF IInv, Hands, OneOwner
<1>5. Tidy(pipes)'
    BY DEF IInv, Tidy
<1>6. Order'
    BY <1>1, OrderStays
<1>7. QED
    BY <1>3, <1>4, <1>5, <1>6 DEF Buffers

\* rear takes the oldest message of a pipe.
LEMMA RecvBuffers ==
    ASSUME IInv, RearRecv
    PROVE  Buffers'
<1> USE DEF RearRecv, avantVars
<1>1. PICK r \in 1..Len(pipes) :
          /\ pipes[r] # <<>>
          /\ held' = {Head(pipes[r])}
          /\ pipes' = [pipes EXCEPT ![r] = Tail(@)]
    OBVIOUS
<1> DEFINE h == Head(pipes[r])
<1>2. /\ Len(pipes') = Len(pipes) /\ Tidy(pipes') /\ Waits(h, pipes)
      /\ \A x : Waits(x, pipes') <=> Waits(x, pipes) /\ x # h
      /\ \A i \in 1..Len(pipes'[r]) : h < pipes'[r][i]
    <2>1. pipes \in Seq(Seq(Nat)) /\ Tidy(pipes)
        BY DEF IInv, TypeOK
    <2>2. QED
        BY ONLY <1>1, <2>1, OutOfPipe
<1>3. h \in InPipes /\ InPipes' = InPipes \ {h}
    BY <1>2, InPipesAre
<1>4. Live' = Live \ held
    BY <1>1, <1>3 DEF Live, IInv, OneOwner
<1>5. IsFiniteSet(Live') /\ DepthAccounting'
    BY <1>4, Freed DEF DepthAccounting
<1>6. Hands'
    BY <1>1 DEF IInv, Hands
<1>7. OneOwner'
    BY <1>1, <1>3, <1>4 DEF IInv, OneOwner
<1>8. Order'
    <2>1. ASSUME Len(pipes) <= 1 PROVE \A b \in InPipes' \union buf' : h < b
        <3>1. ASSUME NEW b \in InPipes' PROVE h < b
            <4>1. Waits(b, pipes')
                BY <3>1, InPipesAre
            <4>2. PICK s \in 1..Len(pipes') : \E i \in 1..Len(pipes'[s]) : pipes'[s][i] = b
                BY <4>1 DEF Waits
            <4>3. s = r
                BY <1>2, <2>1, <4>2 DEF IInv, TypeOK
            <4>4. QED
                BY <1>2, <4>2, <4>3
        <3>2. ASSUME NEW b \in buf PROVE h < b
            <4>1. b = begun /\ h \in 1..begun /\ h # b /\ begun \in Nat
                BY <1>3, <3>2 DEF IInv, Hands, OneOwner, Live, TypeOK
            <4>2. QED
                BY <4>1
        <3>3. QED
            BY <3>1, <3>2
    <2>2. UNCHANGED <<buf, recorded>> /\ rear' = "write"
        OBVIOUS
    <2>3. QED
        BY <1>1, <1>2, <1>3, <2>1, <2>2 DEF IInv, Order, InOrder
<1>9. Tidy(pipes)'
    BY <1>2 DEF Tidy
<1>10. QED
    BY <1>5, <1>6, <1>7, <1>8, <1>9 DEF Buffers

\* rear frees its message and takes none.
LEMMA FreeBuffers ==
    ASSUME IInv,
           \/ RearRecvNothing \/ RearLeave
           \/ RearRecvFail /\ held' = {} /\ g_avant_depth' = g_avant_depth - Cardinality(held)
    PROVE  Buffers'
<1>1. /\ UNCHANGED <<begun, buf, pipes, recorded, leaked, avant>>
      /\ g_avant_depth' = g_avant_depth - Cardinality(held)
      /\ held' = {} /\ rear' # "write"
    BY DEF RearRecvNothing, RearRecvFail, RearLeave, avantVars
<1>2. InPipes' = InPipes
    BY <1>1 DEF InPipes
<1>3. Live' = Live \ held
    BY <1>1, <1>2 DEF Live, IInv, OneOwner
<1>4. IsFiniteSet(Live') /\ DepthAccounting'
    BY <1>1, <1>3, Freed DEF DepthAccounting
<1>5. Hands' /\ OneOwner'
    BY <1>1, <1>2, <1>3 DEF IInv, Hands, OneOwner
<1>6. Tidy(pipes)'
    BY <1>1 DEF IInv, Tidy
<1>7. Order'
    BY <1>1, <1>2 DEF IInv, Order, InOrder
<1>8. QED
    BY <1>4, <1>5, <1>6, <1>7 DEF Buffers

\* The message is written behind those written before.
LEMMA WriteBuffers ==
    ASSUME IInv, RearWrite
    PROVE  Buffers'
<1> USE DEF RearWrite, avantVars
<1>1. PICK b \in held : recorded' = Append(recorded, b)
    OBVIOUS
<1>2. recorded \in Seq(Nat) /\ b \in 1..begun /\ held = {b}
    BY <1>1 DEF IInv, TypeOK, OneOwner, Live, Hands
<1>3. /\ Len(recorded') = Len(recorded) + 1 /\ Len(recorded) \in Nat
      /\ recorded'[Len(recorded) + 1] = b
      /\ \A n \in 1..Len(recorded) : recorded'[n] = recorded[n]
    BY <1>1, <1>2
<1>4. \A n \in 1..Len(recorded') : n \in 1..Len(recorded) \/ n = Len(recorded) + 1
    BY <1>3
<1>5. InPipes' = InPipes
    BY DEF InPipes
<1>6. Live' = Live
    BY <1>5 DEF Live
<1>7. Hands'
    BY DEF IInv, Hands
<1>8. OneOwner'
    BY <1>2, <1>3, <1>4, <1>5, <1>6 DEF IInv, OneOwner
<1>9. Tidy(pipes)' /\ IsFiniteSet(Live') /\ DepthAccounting'
    BY <1>6 DEF IInv, DepthAccounting, Tidy
<1>10. ASSUME Len(pipes) <= 1
       PROVE  /\ \A m, n \in 1..Len(recorded') : m < n => recorded'[m] < recorded'[n]
              /\ \A n \in 1..Len(recorded') : \A c \in InPipes \union buf : recorded'[n] < c
    <2>1. /\ \A m, n \in 1..Len(recorded) : m < n => recorded[m] < recorded[n]
          /\ \A n \in 1..Len(recorded) : recorded[n] < b
          /\ \A n \in 1..Len(recorded) : \A c \in InPipes \union buf : recorded[n] < c
          /\ \A c \in InPipes \union buf : b < c
        BY <1>2, <1>10 DEF IInv, Order, InOrder
    <2>2. ASSUME NEW m \in 1..Len(recorded'), NEW n \in 1..Len(recorded'), m < n
          PROVE  recorded'[m] < recorded'[n]
        <3>1. m \in 1..Len(recorded)
            BY <1>3, <2>2
        <3>2. CASE n \in 1..Len(recorded)
            BY <1>3, <2>1, <2>2, <3>1, <3>2
        <3>3. CASE n = Len(recorded) + 1
            BY <1>3, <2>1, <3>1, <3>3
        <3>4. QED
            BY <1>4, <3>2, <3>3
    <2>3. ASSUME NEW n \in 1..Len(recorded'), NEW c \in InPipes \union buf
          PROVE  recorded'[n] < c
        BY <1>3, <1>4, <2>1
    <2>4. QED
        BY <2>2, <2>3
<1>11. Order'
    BY <1>5, <1>10 DEF Order, InOrder
<1>12. QED
    BY <1>7, <1>8, <1>9, <1>11 DEF Buffers

LEMMA AvantBuffers ==
    ASSUME IInv, AvantStep \/ AvantFault
    PROVE  Buffers'
<1>1. CASE AvantTest
    BY <1>1, QuietStep DEF AvantTest, AfterTest, Tests, rearVars
<1>2. CASE AvantCheck \/ AvantRead \/ AvantAllocFail
    BY <1>2, QuietStep DEF AvantCheck, AvantRead, AvantAllocFail, rearVars
<1>3. QED
    BY <1>1, <1>2, ConnectBuffers, AllocBuffers, ReadFailBuffers, SendBuffers,
       SendFailBuffers DEF AvantStep, AvantFault

LEMMA RearBuffers ==
    ASSUME IInv, RearStep
    PROVE  Buffers'
<1>1. CASE RearTest
    BY <1>1, QuietStep DEF RearTest, AfterTest, Tests, avantVars
<1>2. CASE RearBind \/ RearCheckState \/ RearCheckDepth
    BY <1>2, QuietStep DEF RearBind, RearCheckState, RearCheckDepth, avantVars
<1>3. CASE RearRecvFail
    <2>1. CASE held' = {} /\ g_avant_depth' = g_avant_depth - Cardinality(held)
        BY <1>3, <2>1, FreeBuffers
    <2>2. CASE UNCHANGED <<held, g_avant_depth>>
        BY <1>3, <2>2, QuietStep DEF RearRecvFail
    <2>3. QED
        BY <1>3, <2>1, <2>2 DEF RearRecvFail
<1>4. QED
    BY <1>1, <1>2, <1>3, RecvBuffers, FreeBuffers, WriteBuffers DEF RearStep

-----------------------------------------------------------------------------
(* What is late *)

\* Once rear has left, avant allocates no buffer but the one it was about to.
LEMMA AvantLate ==
    ASSUME IInv, AvantStep \/ AvantFault
    PROVE  LateInv'
<1> SUFFICES ASSUME Left'
             PROVE  /\ avant' = "alloc" => buf' \union InPipes' = {}
                    /\ \A b, c \in buf' \union InPipes' : b = c
    BY DEF LateInv
<1>1. Left
    BY DEF Left, AvantStep, AvantFault, AvantTest, AvantConnect, AvantCheck,
           AvantAlloc, AvantRead, AvantSend, AvantAllocFail, AvantReadFail,
           AvantSendFail, rearVars
<1>2. g_state # "RUNNING"
    BY <1>1 DEF IInv, Phases, LeftAfterRun
<1>3. /\ avant = "alloc" => buf \union InPipes = {}
      /\ \A b, c \in buf \union InPipes : b = c
    BY <1>1 DEF IInv, LateInv
<1>4. pipes' = pipes => InPipes' = InPipes
    BY DEF InPipes
<1>5. CASE AvantTest \/ AvantCheck \/ AvantRead \/ AvantAllocFail
    BY <1>2, <1>3, <1>4, <1>5
       DEF AvantTest, AfterTest, Tests, AvantCheck, AvantRead, AvantAllocFail
<1>6. CASE AvantReadFail \/ AvantSendFail
    BY <1>3, <1>4, <1>6 DEF AvantReadFail, AvantSendFail
<1>7. CASE AvantAlloc
    BY <1>3, <1>4, <1>7 DEF AvantAlloc
<1>8. CASE AvantConnect
    <2>1. pipes \in Seq(Seq(Nat)) /\ pipes' = Append(pipes, <<>>)
        BY <1>8 DEF AvantConnect, IInv, TypeOK
    <2>2. \A x : Waits(x, pipes') <=> Waits(x, pipes)
        BY ONLY <2>1, NewPipe
    <2>3. InPipes' = InPipes
        BY <2>2, InPipesAre
    <2>4. QED
        BY <1>3, <1>8, <2>3 DEF AvantConnect
<1>9. CASE AvantSend
    <2>1. InPipes' = InPipes \union buf
        BY <1>9, SentBlock
    <2>2. QED
        BY <1>3, <1>9, <2>1 DEF AvantSend
<1>10. QED
    BY <1>5, <1>6, <1>7, <1>8, <1>9 DEF AvantStep, AvantFault

\* rear leaves when no buffer exists, and then adds none.
LEMMA RearLate ==
    ASSUME IInv, RearStep
    PROVE  LateInv'
<1>1. CASE RearCheckDepth
    <2> SUFFICES ASSUME Left' PROVE LateInv'
        BY DEF LateInv
    <2>1. rear' = "leave" /\ g_avant_depth <= 0
        BY <1>1 DEF RearCheckDepth, Left, Tests
    <2>2. Cardinality(Live) = 0
        BY <2>1, FS_CardinalityType DEF IInv, DepthAccounting
    <2>3. buf = {} /\ InPipes = {}
        BY <2>2, FS_EmptySet DEF IInv, Live
    <2>4. UNCHANGED <<buf, pipes>>
        BY <1>1 DEF RearCheckDepth, avantVars
    <2>5. InPipes' = InPipes
        BY <2>4 DEF InPipes
    <2>6. QED
        BY <2>3, <2>4, <2>5 DEF LateInv
<1>2. CASE RearTest \/ RearLeave
    <2>1. UNCHANGED <<avant, buf, pipes>>
        BY <1>2 DEF RearTest, RearLeave, avantVars
    <2>2. Left' => Left
        <3>1. CASE RearLeave
            BY <3>1 DEF RearLeave, Left
        <3>2. CASE RearTest
            <4>1. rear \in Tests /\ bound' = bound /\ rear' # "leave"
                BY <3>2 DEF RearTest, AfterTest, Tests
            <4>2. QED
                BY <4>1 DEF Left
        <3>3. QED
            BY <1>2, <3>1, <3>2
    <2>3. InPipes' = InPipes
        BY <2>1 DEF InPipes
    <2>4. QED
        BY <2>1, <2>2, <2>3 DEF IInv, LateInv
<1>3. CASE RearBind \/ RearCheckState \/ RearRecv \/ RearRecvNothing \/ RearRecvFail \/ RearWrite
    <2>1. rear' \in {"check_state", "check_depth", "recv", "write"}
        BY <1>3 DEF RearBind, RearCheckState, RearRecv, RearRecvNothing, RearRecvFail, RearWrite
    <2>2. ~Left'
        BY <2>1 DEF Left, Tests
    <2>3. QED
        BY <2>2 DEF LateInv
<1>4. QED
    BY <1>1, <1>2, <1>3 DEF RearStep

-----------------------------------------------------------------------------
(* The invariant *)

LEMMA MainIInv ==
    ASSUME IInv, MainStep
    PROVE  IInv'
<1>1. TypeOK' /\ Control'
    BY MainType, MainControl DEF IInv
<1>2. UNCHANGED <<avantVars, rearVars, g_avant_depth, pipes>>
    BY DEF MainStep, Sequencer, SetState, Disconnect, Join
<1>3. Buffers'
    BY <1>2, QuietStep DEF avantVars, rearVars
<1>4. LateInv'
    <2>1. InPipes' = InPipes /\ (Left' <=> Left)
        BY <1>2 DEF InPipes, Left, rearVars
    <2>2. QED
        BY <1>2, <2>1 DEF IInv, LateInv, avantVars
<1>5. QED
    BY <1>1, <1>3, <1>4 DEF IInv, Control, Buffers

LEMMA NextIInv == IInv /\ [Next]_vars => IInv'
<1> SUFFICES ASSUME IInv, [Next]_vars PROVE IInv'
    OBVIOUS
<1>1. CASE MainStep
    BY <1>1, MainIInv
<1>2. CASE AvantStep \/ AvantFault
    BY <1>2, AvantType, AvantControl, AvantBuffers, AvantLate
       DEF IInv, Control, Buffers
<1>3. CASE RearStep
    BY <1>3, RearType, RearControl, RearBuffers, RearLate
       DEF IInv, Control, Buffers
<1>4. CASE UNCHANGED vars
    <2> USE <1>4 DEF vars, shared, avantVars, rearVars
    <2>1. TypeOK' /\ Control'
        BY DEF IInv, TypeOK, Control, Phases, LeftAfterRun, Left, BindsOnce
    <2>2. Buffers'
        BY QuietStep
    <2>3. InPipes' = InPipes
        BY DEF InPipes
    <2>4. LateInv'
        BY <2>3 DEF IInv, LateInv, Left
    <2>5. QED
        BY <2>1, <2>2, <2>4 DEF IInv, Control, Buffers
<1>5. QED
    BY <1>1, <1>2, <1>3, <1>4 DEF Next

(***************************************************************************)
(* IInv holds in every reachable state of every instance.                  *)
(***************************************************************************)
THEOREM Invariance == Spec => []IInv
BY InitIInv, NextIInv, PTL DEF Spec

(***************************************************************************)
(* The variables of the two threads have their types; g_avant_depth        *)
(* (thtdcreader.cxx:63) never goes below zero.                              *)
(***************************************************************************)
THEOREM TypeCorrect == Spec => []TypeOK
<1>1. IInv => TypeOK
    BY DEF IInv
<1>2. QED
    BY <1>1, Invariance, PTL

(***************************************************************************)
(* g_avant_depth is the number of buffers that exist, also when avant_run() *)
(* has connected its socket several times.                                 *)
(***************************************************************************)
THEOREM CounterExact == Spec => []DepthAccounting
<1>1. IInv => DepthAccounting
    BY DEF IInv
<1>2. QED
    BY <1>1, Invariance, PTL

(***************************************************************************)
(* rear_run() never binds the socket a second time.                        *)
(***************************************************************************)
THEOREM BoundOnce == Spec => []BindsOnce
<1>1. IInv => BindsOnce
    BY DEF IInv
<1>2. QED
    BY <1>1, Invariance, PTL

(***************************************************************************)
(* As long as there is one pipe, the blocks are written in the order in    *)
(* which they were read.                                                   *)
(***************************************************************************)
THEOREM WrittenInOrder == Spec => []InOrder
<1>1. IInv => InOrder
    BY DEF IInv, Order, InOrder
<1>2. QED
    BY <1>1, Invariance, PTL

(***************************************************************************)
(* The test of the counter leaves at most one block unwritten, the one     *)
(* avant was about to begin.                                               *)
(***************************************************************************)
THEOREM OneLateBlock == Spec => []AtMostOneLate
<1>1. IInv => AtMostOneLate
    <2> SUFFICES ASSUME IInv, rear = "ended", bound
                 PROVE  Cardinality(buf \union InPipes) <= 1
        BY DEF AtMostOneLate
    <2>1. \A b, c \in buf \union InPipes : b = c
        BY DEF IInv, LateInv, Left
    <2>2. CASE buf \union InPipes = {}
        BY <2>2, FS_EmptySet
    <2>3. ASSUME NEW b \in buf \union InPipes PROVE Cardinality(buf \union InPipes) <= 1
        <3>1. buf \union InPipes = {b}
            BY <2>1, <2>3
        <3>2. QED
            BY <3>1, FS_Singleton
    <2>4. QED
        BY <2>2, <2>3
<1>2. QED
    BY <1>1, Invariance, PTL

=============================================================================
