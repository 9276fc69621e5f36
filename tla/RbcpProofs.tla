------------------------------ MODULE RbcpProofs ------------------------------
(***************************************************************************)
(* Proofs about Rbcp, for any number of writes and any size of the id that *)
(* holds them.  That the program ends is left to TLC.                      *)
(***************************************************************************)
EXTENDS Rbcp, FiniteSetTheorems, TLAPS

\* A number below the size of the id field is not changed by it.
LEMMA SmallMod ==
    ASSUME NEW a \in Nat, NEW b \in Nat \ {0}, a < b
    PROVE  a % b = a
OBVIOUS

\* The longest plan is that of all three options.
LEMMA PlanLength ==
    ASSUME NEW read \in BOOLEAN, NEW write \in BOOLEAN, NEW seq1 \in BOOLEAN
    PROVE  /\ Plan(read, write, seq1) \in Seq({"read", "write", "seq1"})
           /\ Len(Plan(read, write, seq1)) <= SeqLen + 2
<1> DEFINE r == IF read THEN <<"read">> ELSE <<>>
           w == IF write THEN <<"write">> ELSE <<>>
           s == IF seq1 THEN [j \in 1..SeqLen |-> "seq1"] ELSE <<>>
<1>0. /\ <<>> \in Seq({"read", "write", "seq1"}) /\ Len(<<>>) = 0
      /\ \A k \in {"read", "write", "seq1"} :
            <<k>> \in Seq({"read", "write", "seq1"}) /\ Len(<<k>>) = 1
      /\ 0 <= 1 /\ 1 <= 1
  OBVIOUS
<1>1. r \in Seq({"read", "write", "seq1"}) /\ Len(r) <= 1
  <2>1. r = <<"read">> \/ r = <<>>
    OBVIOUS
  <2> HIDE DEF r, w, s
  <2> QED BY <1>0, <2>1, Zenon
<1>2. w \in Seq({"read", "write", "seq1"}) /\ Len(w) <= 1
  <2>1. w = <<"write">> \/ w = <<>>
    OBVIOUS
  <2> HIDE DEF r, w, s
  <2> QED BY <1>0, <2>1, Zenon
<1>3. s \in Seq({"read", "write", "seq1"}) /\ Len(s) <= SeqLen
  <2>1. CASE seq1
    <3>1. [j \in 1..SeqLen |-> "seq1"] \in Seq({"read", "write", "seq1"})
      BY SeqLenAssumption
    <3>2. Len([j \in 1..SeqLen |-> "seq1"]) = SeqLen
      BY SeqLenAssumption
    <3> QED BY <2>1, <3>1, <3>2, SeqLenAssumption
  <2>2. CASE ~seq1
    BY <2>2, SeqLenAssumption
  <2> QED BY <2>1, <2>2
<1>4. Plan(read, write, seq1) = r \o w \o s
  BY DEF Plan
<1> HIDE DEF r, w, s
<1>5. r \o w \in Seq({"read", "write", "seq1"}) /\ Len(r \o w) = Len(r) + Len(w)
  BY <1>1, <1>2
<1>6. r \o w \o s \in Seq({"read", "write", "seq1"})
        /\ Len(r \o w \o s) = Len(r) + Len(w) + Len(s)
  BY <1>3, <1>5
<1> QED BY <1>1, <1>2, <1>3, <1>4, <1>6, SeqLenAssumption

\* What a delivered answer and a received one do to the socket.
LEMMA InboxGrows ==
    ASSUME TypeOK, NEW n \in Nat, inbox' = Append(inbox, n)
    PROVE  InInbox' = InInbox \union {n}
<1> USE DEF TypeOK
<1>1. Len(inbox) \in Nat /\ Len(inbox') = Len(inbox) + 1 /\ inbox'[Len(inbox) + 1] = n
        /\ \A j \in 1..Len(inbox) : inbox'[j] = inbox[j]
  OBVIOUS
<1>2. 1..Len(inbox') = 1..Len(inbox) \union {Len(inbox) + 1}
  BY <1>1
<1>3. ASSUME NEW a PROVE a \in InInbox' <=> a \in InInbox \union {n}
  BY <1>1, <1>2 DEF InInbox
<1> QED BY <1>3

LEMMA InboxShrinks ==
    ASSUME IInv, inbox # <<>>, inbox' = Tail(inbox)
    PROVE  /\ Head(inbox) \in InInbox
           /\ InInbox' = InInbox \ {Head(inbox)}
<1>1. /\ Len(inbox) \in Nat /\ Len(inbox) > 0
      /\ Head(inbox) = inbox[1]
      /\ Len(inbox') = Len(inbox) - 1
      /\ \A j \in 1..Len(inbox') : inbox'[j] = inbox[j + 1] /\ j + 1 \in 1..Len(inbox)
  BY DEF IInv, TypeOK
<1>2. \A j, l \in 1..Len(inbox) : j # l => inbox[j] # inbox[l]
  BY DEF IInv, OnePlace
<1>3. Head(inbox) \in InInbox
  BY <1>1 DEF InInbox
<1>4. ASSUME NEW a \in InInbox' PROVE a \in InInbox \ {Head(inbox)}
  <2>1. PICK j \in 1..Len(inbox') : a = inbox'[j]
    BY <1>4 DEF InInbox
  <2>2. a = inbox[j + 1] /\ j + 1 \in 1..Len(inbox) /\ j + 1 # 1 /\ 1 \in 1..Len(inbox)
    BY <1>1, <2>1
  <2> QED BY <1>1, <1>2, <2>2 DEF InInbox
<1>5. ASSUME NEW a \in InInbox, a # Head(inbox) PROVE a \in InInbox'
  <2>1. PICK j \in 1..Len(inbox) : a = inbox[j]
    BY <1>5 DEF InInbox
  <2>2. j # 1
    BY <1>1, <1>5, <2>1
  <2>3. j - 1 \in 1..Len(inbox') /\ (j - 1) + 1 = j
    BY <1>1, <2>2
  <2>4. inbox'[j - 1] = a
    BY <1>1, <2>1, <2>3
  <2> QED BY <2>3, <2>4 DEF InInbox
<1> QED BY <1>3, <1>4, <1>5

\* Nothing but the end of the program changes.
LEMMA NothingMoves ==
    ASSUME IInv,
           UNCHANGED <<plan, made, sequence, id, requests, executed, answers, inbox, result>>,
           pc' = pc \/ (pc = "next" /\ pc' = "closed")
    PROVE  IInv'
<1>1. InInbox' = InInbox /\ Unanswered' = Unanswered /\ NoneFailed' = NoneFailed
  BY DEF InInbox, Unanswered, NoneFailed
<1>2. TypeOK'
  BY DEF IInv, TypeOK
<1>3. OnePlace' /\ FromDevice' /\ Unsent'
  BY <1>1 DEF IInv, OnePlace, FromDevice, Unsent
<1>4. Numbered'
  BY DEF IInv, Numbered
<1>5. OnlyCurrent' /\ InStep' /\ TakenOnce'
  BY <1>1 DEF IInv, OnlyCurrent, InStep, TakenOnce
<1> QED BY <1>2, <1>3, <1>4, <1>5 DEF IInv

LEMMA Initially == Init => IInv
<1> SUFFICES ASSUME Init PROVE IInv
  OBVIOUS
<1>1. plan \in Seq({"read", "write", "seq1"}) /\ Len(plan) <= SeqLen + 2
  BY PlanLength DEF Init
<1> QED
  BY <1>1 DEF Init, IInv, TypeOK, OnePlace, FromDevice, Unsent, Numbered, OnlyCurrent,
              InStep, TakenOnce, NoneFailed, Unanswered, InInbox, Failed

-----------------------------------------------------------------------------
(* The steps of the program *)

LEMMA MakeKeeps == IInv /\ Make => IInv'
<1> SUFFICES ASSUME IInv, Make PROVE IInv'
  OBVIOUS
<1> USE DEF Make, More, NextSequence
<1>1. made < Len(plan) /\ Len(plan) <= SeqLen + 2 /\ made \in Nat /\ sequence = made
        /\ Len(plan) \in Nat
  BY DEF IInv, TypeOK, Numbered
<1>2. sequence % IdLimit = made
  BY <1>1, SmallMod, SeqLenAssumption, IdLimitAssumption
<1>3. made \in 0..(IdLimit - 1)
  BY <1>1, SeqLenAssumption, IdLimitAssumption
<1>4. InInbox' = InInbox /\ Unanswered' = Unanswered
  BY DEF InInbox, Unanswered
<1>5. TypeOK'
  BY <1>1, <1>2, <1>3 DEF IInv, TypeOK
<1>6. Unsent'
  BY <1>1, <1>4 DEF IInv, TypeOK, Unsent, Unanswered, InInbox
<1>7. Numbered'
  BY <1>1, <1>2 DEF IInv, TypeOK, Numbered
<1>8. OnePlace' /\ FromDevice' /\ OnlyCurrent' /\ InStep' /\ TakenOnce'
  BY <1>4 DEF IInv, OnePlace, FromDevice, OnlyCurrent, InStep, TakenOnce, NoneFailed
<1> QED BY <1>5, <1>6, <1>7, <1>8 DEF IInv

LEMMA SendKeeps == IInv /\ Send => IInv'
<1> SUFFICES ASSUME IInv, Send PROVE IInv'
  OBVIOUS
<1> USE DEF Send
<1>1. made \in 1..made /\ made # Failed
  BY DEF IInv, TypeOK, Numbered, Failed
<1>2. InInbox' = InInbox /\ Unanswered' \subseteq Unanswered \union {made}
  BY DEF InInbox, Unanswered
<1>3. made \notin Unanswered /\ made \notin executed
  BY DEF IInv, Unsent
<1>4. TypeOK'
  BY <1>1 DEF IInv, TypeOK
<1>5. \A n \in 1..Len(result) : result[n] # made
  BY <1>1, <1>3 DEF IInv, FromDevice
<1>6. OnePlace'
  BY <1>2, <1>3, <1>5 DEF IInv, OnePlace, Unanswered, InInbox
<1>7. FromDevice' /\ Unsent' /\ Numbered' /\ InStep' /\ TakenOnce'
  BY <1>2 DEF IInv, FromDevice, Unsent, Numbered, InStep, TakenOnce, NoneFailed
<1>8. OnlyCurrent'
  BY <1>2 DEF IInv, OnlyCurrent, NoneFailed
<1> QED BY <1>4, <1>6, <1>7, <1>8 DEF IInv

LEMMA ReceiveKeeps == IInv /\ Receive => IInv'
<1> SUFFICES ASSUME IInv, Receive PROVE IInv'
  OBVIOUS
<1> DEFINE h == Head(inbox)
<1> USE DEF Receive
<1>1. h \in InInbox /\ InInbox' = InInbox \ {h}
  BY InboxShrinks
<1>2. Unanswered' = Unanswered \ {h} /\ h \in Unanswered /\ h \in executed
  BY <1>1 DEF IInv, OnePlace, FromDevice, Unanswered
<1>3. h \in 1..made /\ h # Failed
  BY DEF IInv, TypeOK, Failed
<1>4. Len(result) \in Nat /\ Len(result') = Len(result) + 1 /\ Len(result') = made
        /\ result'[made] = h
        /\ \A n \in 1..Len(result) : result'[n] = result[n]
  BY DEF IInv, TypeOK, Numbered
<1>5. TypeOK'
  BY <1>3 DEF IInv, TypeOK
<1> HIDE DEF h
<1>6. OnePlace'
  <2>1. \A j, l \in 1..Len(inbox') : j # l => inbox'[j] # inbox'[l]
    BY DEF IInv, TypeOK, OnePlace
  <2>2. \A n \in 1..Len(result') : result'[n] \notin Unanswered'
    BY <1>2, <1>4 DEF IInv, OnePlace
  <2> QED BY <1>1, <2>1, <2>2 DEF IInv, OnePlace
<1>7. FromDevice'
  BY <1>1, <1>2, <1>4 DEF IInv, FromDevice
<1>8. Unsent' /\ Numbered'
  BY <1>4 DEF IInv, Unsent, Numbered
<1>9. NoneFailed' => NoneFailed
  BY <1>4 DEF NoneFailed
<1>10. OnlyCurrent'
  BY <1>2, <1>9 DEF IInv, OnlyCurrent
<1>11. InStep'
  BY <1>2, <1>4, <1>9 DEF IInv, InStep, OnlyCurrent
<1>12. TakenOnce'
  BY <1>2, <1>4 DEF IInv, TakenOnce, OnePlace
<1> QED BY <1>5, <1>6, <1>7, <1>8, <1>10, <1>11, <1>12 DEF IInv

LEMMA ReceiveFailsKeeps == IInv /\ ReceiveFails => IInv'
<1> SUFFICES ASSUME IInv, ReceiveFails PROVE IInv'
  OBVIOUS
<1> USE DEF ReceiveFails
<1>1. Len(result) \in Nat /\ Len(result') = Len(result) + 1 /\ Len(result') = made
        /\ result'[made] = Failed
        /\ \A n \in 1..Len(result) : result'[n] = result[n]
  BY DEF IInv, TypeOK, Numbered, Failed
<1>2. InInbox' = InInbox /\ Unanswered' = Unanswered
  BY DEF InInbox, Unanswered
<1>3. Failed \notin Unanswered
  BY DEF IInv, TypeOK, Unanswered, InInbox, Failed
<1>4. ~NoneFailed'
  BY <1>1 DEF NoneFailed
<1>5. TypeOK'
  BY DEF IInv, TypeOK, Failed
<1>6. OnePlace' /\ FromDevice'
  BY <1>1, <1>2, <1>3 DEF IInv, OnePlace, FromDevice
<1>7. Unsent' /\ Numbered' /\ OnlyCurrent' /\ InStep'
  BY <1>1, <1>4 DEF IInv, Unsent, Numbered, OnlyCurrent, InStep
<1>8. TakenOnce'
  BY <1>1 DEF IInv, TakenOnce
<1> QED BY <1>5, <1>6, <1>7, <1>8 DEF IInv

LEMMA CloseKeeps == IInv /\ Close => IInv'
BY NothingMoves DEF Close

-----------------------------------------------------------------------------
(* The steps of the device and the network *)

\* They leave the program's variables alone, and only move or lose answers.
LEMMA EnvironmentKeeps ==
    ASSUME IInv, NEW n \in 1..made, Execute(n) \/ Deliver(n) \/ Lose(n)
    PROVE  IInv'
<1>1. CASE Execute(n)
  <2> USE <1>1 DEF Execute
  <2>1. InInbox' = InInbox /\ Unanswered' = Unanswered
    BY DEF InInbox, Unanswered
  <2>2. n # made \/ pc # "send"
    BY DEF IInv, Unsent, Unanswered
  <2>3. TypeOK'
    BY DEF IInv, TypeOK
  <2>4. OnePlace' /\ FromDevice'
    BY <2>1 DEF IInv, OnePlace, FromDevice
  <2>5. Unsent' /\ Numbered' /\ OnlyCurrent' /\ InStep' /\ TakenOnce'
    BY <2>1, <2>2 DEF IInv, Unsent, Numbered, OnlyCurrent, InStep, TakenOnce, NoneFailed
  <2> QED BY <2>3, <2>4, <2>5 DEF IInv
<1>2. CASE Deliver(n)
  <2> USE <1>2 DEF Deliver
  <2>1. InInbox' = InInbox \union {n}
    BY InboxGrows DEF IInv
  <2>2. Unanswered' = Unanswered
    BY <2>1 DEF Unanswered
  <2>3. TypeOK'
    BY DEF IInv, TypeOK
  <2>4. \A j, l \in 1..Len(inbox') : j # l => inbox'[j] # inbox'[l]
    BY DEF IInv, TypeOK, OnePlace, InInbox
  <2>5. OnePlace' /\ FromDevice'
    BY <2>1, <2>2, <2>4 DEF IInv, OnePlace, FromDevice
  <2>6. Unsent' /\ Numbered' /\ OnlyCurrent' /\ InStep' /\ TakenOnce'
    BY <2>2 DEF IInv, Unsent, Numbered, OnlyCurrent, InStep, TakenOnce, NoneFailed
  <2> QED BY <2>3, <2>5, <2>6 DEF IInv
<1>3. CASE Lose(n)
  <2> USE <1>3 DEF Lose
  <2>1. InInbox' = InInbox /\ Unanswered' \subseteq Unanswered
    BY DEF InInbox, Unanswered
  <2>2. TypeOK'
    BY DEF IInv, TypeOK
  <2>3. OnePlace' /\ FromDevice'
    BY <2>1 DEF IInv, OnePlace, FromDevice
  <2>4. Unsent' /\ Numbered' /\ OnlyCurrent' /\ InStep' /\ TakenOnce'
    BY <2>1 DEF IInv, Unsent, Numbered, OnlyCurrent, InStep, TakenOnce, NoneFailed
  <2> QED BY <2>2, <2>3, <2>4 DEF IInv
<1> QED BY <1>1, <1>2, <1>3

LEMMA Inductive == IInv /\ [Next]_vars => IInv'
<1> SUFFICES ASSUME IInv, [Next]_vars PROVE IInv'
  OBVIOUS
<1>1. CASE Program
  BY <1>1, MakeKeeps, SendKeeps, ReceiveKeeps, ReceiveFailsKeeps, CloseKeeps DEF Program
<1>2. CASE Environment
  BY <1>2, EnvironmentKeeps DEF Environment
<1>3. CASE UNCHANGED vars
  <2>1. UNCHANGED <<plan, made, sequence, id, requests, executed, answers, inbox, result>>
    BY <1>3 DEF vars
  <2>2. pc' = pc \/ (pc = "next" /\ pc' = "closed")
    BY <1>3 DEF vars
  <2> QED BY <2>1, <2>2, NothingMoves
<1> QED BY <1>1, <1>2, <1>3 DEF Next

LEMMA Invariant == Spec => []IInv
BY Initially, Inductive, PTL DEF Spec

-----------------------------------------------------------------------------

(***************************************************************************)
(* The variables of udpreg, its socket and the network keep their types.   *)
(***************************************************************************)
THEOREM TypeCorrect == Spec => []TypeOK
<1>1. IInv => TypeOK
  BY DEF IInv
<1> QED BY <1>1, Invariant, PTL

(***************************************************************************)
(* Until a receive fails, udpreg_read() and udpreg_write() take the answer *)
(* of their own request, however datagrams are lost and overtake.          *)
(***************************************************************************)
THEOREM OwnAnswer == Spec => []InStep
<1>1. IInv => InStep
  BY DEF IInv
<1> QED BY <1>1, Invariant, PTL

(***************************************************************************)
(* No answer is taken for two requests.                                    *)
(***************************************************************************)
THEOREM NoAnswerTwice == Spec => []TakenOnce
<1>1. IInv => TakenOnce
  BY DEF IInv
<1> QED BY <1>1, Invariant, PTL

(***************************************************************************)
(* Whenever udpreg takes a wrong answer, its id is not that of the request *)
(* - if the id field has a value for every request of the run.             *)
(***************************************************************************)
THEOREM WrongAnswerShows == Spec => []IdsTell
<1>1. IInv => IdsTell
  <2> SUFFICES ASSUME IInv, NEW n \in 1..Len(result), result[n] \notin {Failed, n}
               PROVE  id[result[n]] # id[n]
    BY DEF IdsTell
  <2>1. Len(result) \in Nat /\ Len(result) <= made /\ made \in Nat
    BY DEF IInv, TypeOK, Numbered
  <2>2. result[n] \in 1..made
    BY DEF IInv, TypeOK, Failed
  <2> QED BY <2>1, <2>2 DEF IInv, Numbered
<1> QED BY <1>1, Invariant, PTL

-----------------------------------------------------------------------------
(* The number of late answers *)

\* What is counted is finite: requests are numbers up to made.
LEMMA Finite ==
    ASSUME IInv
    PROVE  /\ IsFiniteSet(Unanswered) /\ Cardinality(Unanswered) \in Nat
           /\ IsFiniteSet(Failures) /\ Cardinality(Failures) \in Nat
<1>1. made \in Int /\ Len(result) \in Int
  BY DEF IInv, TypeOK
<1>2. IsFiniteSet(1..made) /\ IsFiniteSet(1..Len(result))
  BY <1>1, FS_Interval
<1>3. Unanswered \subseteq 1..made
  <2>1. \A j \in 1..Len(inbox) : inbox[j] \in 1..made
    BY DEF IInv, TypeOK
  <2> QED BY <2>1 DEF IInv, TypeOK, Unanswered, InInbox
<1>4. Failures \subseteq 1..Len(result)
  BY DEF Failures
<1>5. IsFiniteSet(Unanswered)
  BY <1>2, <1>3, FS_Subset
<1>6. IsFiniteSet(Failures)
  BY <1>2, <1>4, FS_Subset
<1> QED BY <1>5, <1>6, FS_CardinalityType

\* Whatever leaves the result of the program alone adds nothing to what failed.
LEMMA SameFailures ==
    ASSUME UNCHANGED result
    PROVE  Failures' = Failures
BY DEF Failures

\* Only sending makes one more answer expected, and it starts the wait for it.
LEMMA SendCounts == IInv /\ FewLate /\ Send => FewLate'
<1> SUFFICES ASSUME IInv, FewLate, Send PROVE FewLate'
  OBVIOUS
<1> USE DEF Send
<1>1. Unanswered' = Unanswered \union {made} \/ Unanswered' = Unanswered
  BY DEF Unanswered, InInbox
<1>2. Cardinality(Unanswered') <= Cardinality(Unanswered) + 1
  BY <1>1, Finite, FS_AddElement
<1>3. Failures' = Failures
  BY SameFailures
<1>4. Cardinality(Unanswered) <= Cardinality(Failures)
  BY Finite DEF FewLate
<1>5. Unanswered' = Unanswered \union {made} =>
            IsFiniteSet(Unanswered') /\ Cardinality(Unanswered') \in Nat
  BY Finite, FS_AddElement, FS_CardinalityType
<1>6. Cardinality(Unanswered') \in Nat
  BY <1>1, <1>5, Finite
<1>7. Cardinality(Unanswered') <= Cardinality(Failures) + 1
  BY <1>2, <1>4, <1>6, Finite
<1> QED BY <1>3, <1>7 DEF FewLate

\* A taken answer ends the wait and is one less.
LEMMA ReceiveCounts == IInv /\ FewLate /\ Receive => FewLate'
<1> SUFFICES ASSUME IInv, FewLate, Receive PROVE FewLate'
  OBVIOUS
<1> DEFINE h == Head(inbox)
<1> USE DEF Receive
<1>1. h \in InInbox /\ InInbox' = InInbox \ {h}
  BY InboxShrinks
<1>2. Unanswered' = Unanswered \ {h} /\ h \in Unanswered
  BY <1>1 DEF IInv, OnePlace, Unanswered
<1>3. h \in 1..made /\ h # Failed
  BY DEF IInv, TypeOK, Failed
<1>4. Failures' = Failures
  BY <1>3 DEF IInv, TypeOK, Failures
<1> HIDE DEF h
<1>5. Cardinality(Unanswered') = Cardinality(Unanswered) - 1
  BY <1>2, Finite, FS_RemoveElement
<1>6. Cardinality(Unanswered) <= Cardinality(Failures) + 1
  BY DEF FewLate
<1>7. Cardinality(Unanswered') <= Cardinality(Failures')
  BY <1>4, <1>5, <1>6, Finite
<1> QED BY <1>4, <1>7, Finite DEF FewLate

\* A receive that fails ends the wait too, and is one more failure.
LEMMA ReceiveFailsCounts == IInv /\ FewLate /\ ReceiveFails => FewLate'
<1> SUFFICES ASSUME IInv, FewLate, ReceiveFails PROVE FewLate'
  OBVIOUS
<1> USE DEF ReceiveFails
<1>1. Unanswered' = Unanswered
  BY DEF Unanswered, InInbox
<1>2. Failures' = Failures \union {Len(result) + 1} /\ Len(result) + 1 \notin Failures
  BY DEF IInv, TypeOK, Failures, Failed
<1>3. Cardinality(Failures') = Cardinality(Failures) + 1
  BY <1>2, Finite, FS_AddElement
<1>4. Cardinality(Unanswered) <= Cardinality(Failures) + 1
  BY DEF FewLate
<1>5. Cardinality(Unanswered') <= Cardinality(Failures')
  BY <1>1, <1>3, <1>4
<1> QED BY <1>3, <1>5, Finite DEF FewLate

\* The device and the network do not add to what the program has asked for.
LEMMA OthersCount ==
    ASSUME IInv, FewLate, UNCHANGED result, Unanswered' \subseteq Unanswered,
           pc = "receive" => pc' = "receive"
    PROVE  FewLate'
<1>1. Cardinality(Unanswered') <= Cardinality(Unanswered)
        /\ Cardinality(Unanswered') \in Nat
  BY Finite, FS_Subset, FS_CardinalityType
<1>2. Failures' = Failures
  BY SameFailures
<1> QED BY <1>1, <1>2, Finite DEF FewLate

LEMMA EnvironmentCounts ==
    ASSUME IInv, NEW n \in 1..made, Execute(n) \/ Deliver(n) \/ Lose(n)
    PROVE  UNCHANGED <<result, pc>> /\ Unanswered' \subseteq Unanswered
<1>1. CASE Execute(n)
  BY <1>1 DEF Execute, Unanswered, InInbox
<1>2. CASE Deliver(n)
  <2>1. InInbox' = InInbox \union {n}
    BY <1>2, InboxGrows DEF Deliver, IInv
  <2> QED BY <1>2, <2>1 DEF Deliver, Unanswered
<1>3. CASE Lose(n)
  BY <1>3 DEF Lose, Unanswered, InInbox
<1> QED BY <1>1, <1>2, <1>3

LEMMA LateInductive == IInv /\ FewLate /\ [Next]_vars => FewLate'
<1> SUFFICES ASSUME IInv, FewLate, [Next]_vars PROVE FewLate'
  OBVIOUS
<1>1. CASE Send \/ Receive \/ ReceiveFails
  BY <1>1, SendCounts, ReceiveCounts, ReceiveFailsCounts
<1>2. CASE Make \/ Close \/ UNCHANGED vars
  <2>1. UNCHANGED result /\ Unanswered' \subseteq Unanswered
          /\ (pc = "receive" => pc' = "receive")
    BY <1>2 DEF Make, Close, vars, Unanswered, InInbox
  <2> QED BY <2>1, OthersCount
<1>3. CASE Environment
  BY <1>3, EnvironmentCounts, OthersCount DEF Environment
<1> QED BY <1>1, <1>2, <1>3 DEF Next, Program

(***************************************************************************)
(* Each receive of udpreg that fails leaves at most one answer behind that *)
(* can be taken for the one of a later request.                            *)
(***************************************************************************)
THEOREM LateAnswersCounted == Spec => []FewLate
<1>1. Init => FewLate
  <2> SUFFICES ASSUME Init PROVE FewLate
    OBVIOUS
  <2>1. Unanswered = {} /\ Failures = {} /\ pc = "next"
    BY DEF Init, Unanswered, InInbox, Failures
  <2> QED BY <2>1, FS_EmptySet DEF FewLate
<1> QED BY <1>1, LateInductive, Invariant, PTL DEF Spec

=============================================================================
