--------------------------- MODULE TcpBufferProofs ---------------------------
(***************************************************************************)
(* Proofs about TcpBuffer for every size of the buffers, every stream and  *)
(* every number of failures.                                               *)
(*                                                                         *)
(* IInv is inductive.  Each half of the object is an equation between      *)
(* sequences: what has left it and what it still holds are, joined, the    *)
(* bytes in their order.  A call moves bytes from one side of the joint to *)
(* the other, so the proof is the algebra of \o and SubSeq.                *)
(***************************************************************************)
EXTENDS TcpBuffer, SequenceTheorems, TLAPS

-----------------------------------------------------------------------------
(* Runs of positions *)

LEMMA AfterIs ==
    ASSUME NEW a \in Nat, NEW n \in Nat
    PROVE  /\ After(a, n) \in Seq(Nat) /\ Len(After(a, n)) = n
           /\ \A j \in 1..n : After(a, n)[j] = a + j
<1>1. After(a, n) \in [1..n -> Nat]
    BY DEF After
<1>2. After(a, n) \in Seq(Nat)
    BY <1>1, SeqDef
<1>3. DOMAIN After(a, n) = 1..n
    BY DEF After
<1>4. Len(After(a, n)) = n
    BY <1>2, <1>3, LenProperties
<1>5. QED
    BY <1>2, <1>4 DEF After

\* Two runs, the second where the first ends, are one.
LEMMA AfterJoin ==
    ASSUME NEW a \in Nat, NEW n \in Nat, NEW m \in Nat
    PROVE  After(a, n) \o After(a + n, m) = After(a, n + m)
<1> DEFINE s == After(a, n)
           t == After(a + n, m)
           u == After(a, n + m)
<1>1. /\ s \in Seq(Nat) /\ Len(s) = n /\ \A j \in 1..n : s[j] = a + j
      /\ t \in Seq(Nat) /\ Len(t) = m /\ \A j \in 1..m : t[j] = (a + n) + j
      /\ u \in Seq(Nat) /\ Len(u) = n + m /\ \A j \in 1..(n + m) : u[j] = a + j
    <2>1. a + n \in Nat /\ n + m \in Nat
        OBVIOUS
    <2>2. QED
        BY <2>1, AfterIs
<1> HIDE DEF s, t, u
<1>2. /\ s \o t \in Seq(Nat) /\ Len(s \o t) = n + m
      /\ \A i \in 1..(n + m) : (s \o t)[i] = IF i <= n THEN s[i] ELSE t[i - n]
    BY <1>1, ConcatProperties
<1>3. ASSUME NEW i \in 1..(n + m) PROVE (s \o t)[i] = u[i]
    <2>1. CASE i <= n
        BY <1>1, <1>2, <2>1
    <2>2. CASE ~(i <= n)
        <3>1. i - n \in 1..m
            BY <2>2
        <3>2. t[i - n] = (a + n) + (i - n)
            BY <1>1, <3>1
        <3>3. QED
            BY <1>1, <1>2, <2>2, <3>2
    <2>3. QED
        BY <2>1, <2>2
<1>4. s \o t = u
    BY <1>1, <1>2, <1>3, SeqEqual
<1>5. QED
    BY <1>4 DEF s, t, u

LEMMA AfterOne ==
    ASSUME NEW a \in Nat
    PROVE  After(a, 1) = <<a + 1>>
<1>1. /\ After(a, 1) \in Seq(Nat) /\ Len(After(a, 1)) = 1
      /\ \A j \in 1..1 : After(a, 1)[j] = a + j
    BY AfterIs
<1>2. <<a + 1>> \in Seq(Nat) /\ Len(<<a + 1>>) = 1 /\ <<a + 1>>[1] = a + 1
    OBVIOUS
<1>3. \A i \in 1..Len(After(a, 1)) : After(a, 1)[i] = <<a + 1>>[i]
    <2>1. After(a, 1)[1] = a + 1
        BY <1>1
    <2>2. \A i \in 1..1 : i = 1
        OBVIOUS
    <2>3. QED
        BY <1>1, <1>2, <2>1, <2>2
<1>4. QED
    BY <1>1, <1>2, <1>3, SeqEqual

\* The next position at the end.
LEMMA AfterNext ==
    ASSUME NEW n \in Nat
    PROVE  Append(After(0, n), n + 1) = After(0, n + 1)
<1>1. After(0, n) \in Seq(Nat)
    BY AfterIs
<1>2. Append(After(0, n), n + 1) = After(0, n) \o <<n + 1>>
    BY <1>1, AppendIsConcat
<1>3. <<n + 1>> = After(n, 1)
    BY AfterOne
<1>4. After(0, n) \o After(0 + n, 1) = After(0, n + 1)
    BY AfterJoin
<1>5. 0 + n = n
    OBVIOUS
<1>6. QED
    BY <1>2, <1>3, <1>4, <1>5

LEMMA ElementsJoin ==
    ASSUME NEW s \in Seq(Nat), NEW t \in Seq(Nat)
    PROVE  Elements(s \o t) = Elements(s) \union Elements(t)
<1>1. /\ Len(s) \in Nat /\ Len(t) \in Nat /\ Len(s \o t) = Len(s) + Len(t)
      /\ \A i \in 1..(Len(s) + Len(t)) :
             (s \o t)[i] = IF i <= Len(s) THEN s[i] ELSE t[i - Len(s)]
    BY ConcatProperties, LenProperties
<1>2. ASSUME NEW x \in Elements(s \o t) PROVE x \in Elements(s) \union Elements(t)
    <2>1. PICK i \in 1..Len(s \o t) : x = (s \o t)[i]
        BY DEF Elements
    <2>2. CASE i <= Len(s)
        <3>1. i \in 1..Len(s) /\ x = s[i]
            BY <1>1, <2>1, <2>2
        <3>2. QED
            BY <3>1 DEF Elements
    <2>3. CASE ~(i <= Len(s))
        <3>1. i - Len(s) \in 1..Len(t) /\ x = t[i - Len(s)]
            BY <1>1, <2>1, <2>3
        <3>2. QED
            BY <3>1 DEF Elements
    <2>4. QED
        BY <2>2, <2>3
<1>3. ASSUME NEW x \in Elements(s) PROVE x \in Elements(s \o t)
    <2>1. PICK i \in 1..Len(s) : x = s[i]
        BY DEF Elements
    <2>2. i \in 1..Len(s \o t) /\ x = (s \o t)[i]
        BY <1>1, <2>1
    <2>3. QED
        BY <2>2 DEF Elements
<1>4. ASSUME NEW x \in Elements(t) PROVE x \in Elements(s \o t)
    <2>1. PICK j \in 1..Len(t) : x = t[j]
        BY DEF Elements
    <2>2. Len(s) + j \in 1..Len(s \o t) /\ x = (s \o t)[Len(s) + j]
        <3>1. ~(Len(s) + j <= Len(s)) /\ (Len(s) + j) - Len(s) = j
            BY <1>1
        <3>2. Len(s) + j \in 1..(Len(s) + Len(t))
            BY <1>1
        <3>3. QED
            BY <1>1, <2>1, <3>1, <3>2
    <2>3. QED
        BY <2>2 DEF Elements
<1>5. QED
    BY <1>2, <1>3, <1>4

LEMMA AppendedByte ==
    ASSUME NEW s \in Seq(Nat), NEW x \in Nat
    PROVE  /\ s \o <<x>> = Append(s, x) /\ Append(s, x) \in Seq(Nat)
           /\ Len(Append(s, x)) = Len(s) + 1
           /\ Elements(s \o <<x>>) = Elements(s) \union {x}
<1>1. <<x>> \in Seq(Nat) /\ Len(<<x>>) = 1 /\ <<x>>[1] = x
    OBVIOUS
<1>2. Elements(<<x>>) = {x}
    BY <1>1 DEF Elements
<1>3. Elements(s \o <<x>>) = Elements(s) \union {x}
    BY <1>1, <1>2, ElementsJoin
<1>4. QED
    BY <1>3, AppendIsConcat, AppendProperties

LEMMA PieceIsASeq ==
    ASSUME NEW s \in Seq(Nat), NEW n \in 0..(Len(s) - 1)
    PROVE  SubSeq(s, 1, n) \in Seq(Nat)
<1>1. \A i \in 1..n : s[i] \in Nat
    <2>1. Len(s) \in Nat
        BY LenProperties
    <2>2. \A i \in 1..n : i \in 1..Len(s)
        BY <2>1
    <2>3. QED
        BY <2>2, ElementOfSeq
<1>2. n \in Int /\ 1 \in Int
    BY LenProperties
<1>3. QED
    BY <1>1, <1>2, SubSeqProperties

-----------------------------------------------------------------------------
(* Output *)

LEMMA InitIInv == Init => IInv
<1> SUFFICES ASSUME Init PROVE IInv
    OBVIOUS
<1>1. \A S : <<>> \in Seq(S) /\ Len(<<>>) = 0
    BY EmptySeq
<1>2. After(0, 0) = <<>>
    <2>1. After(0, 0) \in Seq(Nat) /\ Len(After(0, 0)) = 0
        BY AfterIs
    <2>2. QED
        BY <2>1, EmptySeq
<1>3. TypeOK
    <2>1. <<>> \in Seq(Nat) /\ Len(<<>>) = 0 /\ 0 <= BufSize
        BY <1>1, SizesAssumption
    <2>2. received \in 0..StreamLen /\ m_rbufnxt \in 0..Len(m_rbuf)
        BY <1>1, SizesAssumption DEF Init
    <2>3. QED
        BY <2>1, <2>2 DEF Init, TypeOK
<1>4. <<>> \o <<>> = <<>>
    BY <1>1, ConcatEmptySeq
<1>5. OutputInOrder
    BY <1>2, <1>4 DEF Init, OutputInOrder
<1>6. InputInOrder
    <2>1. SubSeq(m_rbuf, m_rbufnxt + 1, Len(m_rbuf)) = <<>>
        BY <1>1, SubSeqEmpty DEF Init
    <2>2. QED
        BY <1>2, <1>4, <2>1 DEF Init, InputInOrder
<1>7. AcceptedNotLost /\ FlushedBeforeWrite /\ CountOfLast /\ LoopStates /\ EofMeansAll
    BY EmptySeq DEF Init, AcceptedNotLost, FlushedBeforeWrite, CountOfLast, LoopStates, EofMeansAll
<1>8. QED
    BY <1>3, <1>5, <1>6, <1>7 DEF IInv

\* An output call does not touch what the input properties speak of.
LEMMA InputKept ==
    ASSUME IInv, UNCHANGED inVars, threw => threw',
           "eof" \in m_iostate' => "eof" \in m_iostate,
           op' = op \/ {op, op'} \subseteq {"none", "write"}
    PROVE  InputInOrder' /\ CountOfLast' /\ LoopStates' /\ EofMeansAll'
<1>1. op' = op \/ (op \in {"none", "write"} /\ op' \in {"none", "write"})
    OBVIOUS
<1>2. QED
    BY <1>1 DEF IInv, inVars, InputInOrder, CountOfLast, LoopStates, EofMeansAll

\* Whatever becomes of a send, only more bytes are on the wire, in the end.
LEMMA Sending ==
    ASSUME TypeOK, NEW bytes \in Seq(Nat), SendReturns(bytes) \/ SendThrows(bytes)
    PROVE  /\ wire' \in Seq(Nat) /\ Elements(wire) \subseteq Elements(wire')
           /\ m_iostate' \subseteq {"eof", "fail", "bad"}
           /\ threw' \in BOOLEAN /\ faults' \in Nat
           /\ threw => threw'
           /\ "bad" \in m_iostate => "bad" \in m_iostate'
           /\ "eof" \in m_iostate' => "eof" \in m_iostate
<1>1. \A s \in Seq(Nat) : /\ wire \o s \in Seq(Nat)
                          /\ Elements(wire) \subseteq Elements(wire \o s)
    BY ConcatProperties, ElementsJoin DEF TypeOK
<1>2. CASE SendAll(bytes)
    BY <1>1, <1>2 DEF SendAll, TypeOK
<1>3. CASE SendGivesUp(bytes)
    <2>1. PICK n \in 0..(Len(bytes) - 1) : wire' = wire \o SubSeq(bytes, 1, n)
        BY <1>3 DEF SendGivesUp
    <2>2. SubSeq(bytes, 1, n) \in Seq(Nat)
        BY PieceIsASeq
    <2>3. wire' \in Seq(Nat) /\ Elements(wire) \subseteq Elements(wire')
        BY <1>1, <2>1, <2>2
    <2>4. threw' = threw /\ m_iostate' = m_iostate \union {"bad"} /\ faults' = faults + 1
        BY <1>3 DEF SendGivesUp, Fault
    <2>5. QED
        BY <2>3, <2>4 DEF TypeOK
<1>4. CASE SendThrows(bytes)
    <2>1. PICK n \in 0..(Len(bytes) - 1) : wire' = wire \o SubSeq(bytes, 1, n)
        BY <1>4 DEF SendThrows
    <2>2. SubSeq(bytes, 1, n) \in Seq(Nat)
        BY PieceIsASeq
    <2>3. wire' \in Seq(Nat) /\ Elements(wire) \subseteq Elements(wire')
        BY <1>1, <2>1, <2>2
    <2>4. threw' = TRUE /\ m_iostate' = m_iostate
        BY <1>4 DEF SendThrows, Throws
    <2>5. faults' = faults \/ faults' = faults + 1
        BY <1>4 DEF SendThrows, Throws, Fault
    <2>6. faults' \in Nat
        BY <2>5 DEF TypeOK
    <2>7. QED
        BY <2>3, <2>4, <2>6 DEF TypeOK
<1>5. QED
    BY <1>2, <1>3, <1>4 DEF SendReturns

\* The buffer is empty after a send of it that returns.
LEMMA Flushed ==
    ASSUME IInv, SendReturns(m_sbuf), m_sbuf' = <<>>, life # "destroyed",
           given' = given, accepted' = accepted
    PROVE  OutputInOrder' /\ AcceptedNotLost'
<1>1. m_sbuf \in Seq(Nat) /\ wire \in Seq(Nat)
    BY DEF IInv, TypeOK
<1>2. CASE SendAll(m_sbuf)
    <2>1. wire' = wire \o m_sbuf /\ wire' \in Seq(Nat)
        BY <1>1, <1>2, ConcatProperties DEF SendAll
    <2>2. wire' \o m_sbuf' = wire \o m_sbuf
        BY <2>1, ConcatEmptySeq
    <2>3. QED
        BY <1>2, <2>2 DEF SendAll, IInv, OutputInOrder, AcceptedNotLost
<1>3. CASE SendGivesUp(m_sbuf)
    BY <1>3 DEF SendGivesUp, OutputInOrder, AcceptedNotLost
<1>4. QED
    BY <1>2, <1>3 DEF SendReturns

\* A send that throws leaves the buffer as it is.
LEMMA Torn ==
    ASSUME IInv, NEW bytes \in Seq(Nat), SendThrows(bytes), m_sbuf' = m_sbuf,
           life' = life, accepted' = accepted
    PROVE  OutputInOrder' /\ AcceptedNotLost'
<1>1. OutputInOrder'
    BY DEF SendThrows, Throws, OutputInOrder
<1>2. /\ wire' \in Seq(Nat) /\ Elements(wire) \subseteq Elements(wire')
      /\ wire \in Seq(Nat) /\ m_sbuf \in Seq(Nat)
    BY Sending DEF IInv, TypeOK
<1>3. Elements(wire \o m_sbuf) \subseteq Elements(wire' \o m_sbuf)
    BY <1>2, ElementsJoin
<1>4. m_iostate' = m_iostate
    BY DEF SendThrows
<1>5. AcceptedNotLost'
    BY <1>3, <1>4 DEF IInv, AcceptedNotLost
<1>6. QED
    BY <1>1, <1>5

\* flush(), at the beginning of three of the calls.
LEMMA FlushKeeps ==
    ASSUME IInv, UNCHANGED inVars, life # "destroyed",
           given' = given, accepted' = accepted,
           \/ SendReturns(m_sbuf) /\ m_sbuf' = <<>>
           \/ SendThrows(m_sbuf) /\ m_sbuf' = m_sbuf /\ UNCHANGED <<life, op, want>>,
           life' \in {"open", "closed", "destroyed"}, want' \in Nat,
           op' \in {"none", "write"}, op \in {"none", "write"},
           op' = "write" => op = "write" \/ m_sbuf' = <<>>
    PROVE  IInv'
<1>1. m_sbuf \in Seq(Nat)
    BY DEF IInv, TypeOK
<1>2. /\ wire' \in Seq(Nat) /\ m_iostate' \subseteq {"eof", "fail", "bad"}
      /\ threw' \in BOOLEAN /\ faults' \in Nat
      /\ threw => threw'
      /\ "eof" \in m_iostate' => "eof" \in m_iostate
    BY <1>1, Sending DEF IInv
<1>3. m_sbuf' \in Seq(Nat) /\ Len(m_sbuf') <= BufSize
    <2>1. <<>> \in Seq(Nat) /\ Len(<<>>) = 0 /\ 0 <= BufSize
        BY EmptySeq, SizesAssumption
    <2>2. m_sbuf' = <<>> \/ m_sbuf' = m_sbuf
        OBVIOUS
    <2>3. QED
        BY <2>1, <2>2 DEF IInv, TypeOK
<1>4. TypeOK'
    <2>1. op' \in {"none", "write", "get", "read", "ignore", "getline", "recv_all"}
        OBVIOUS
    <2>2. /\ m_gcount' = m_gcount /\ m_rbuf' = m_rbuf /\ m_rbufnxt' = m_rbufnxt
          /\ received' = received /\ count' = count
          /\ delivered' = delivered /\ before' = before
        BY DEF inVars
    <2>3. /\ wire' \in Seq(Nat) /\ m_iostate' \subseteq {"eof", "fail", "bad"}
          /\ threw' \in BOOLEAN /\ faults' \in Nat
        BY <1>2
    <2>4. TypeOK
        BY DEF IInv
    <2>5. QED
        BY ONLY <1>3, <2>1, <2>2, <2>3, <2>4, given' = given, accepted' = accepted,
                life' \in {"open", "closed", "destroyed"}, want' \in Nat DEF TypeOK
<1>5. InputInOrder' /\ CountOfLast' /\ LoopStates' /\ EofMeansAll'
    BY ONLY <1>2, InputKept, IInv, UNCHANGED inVars,
            op' \in {"none", "write"}, op \in {"none", "write"}
<1>6. OutputInOrder' /\ AcceptedNotLost'
    BY <1>1, Flushed, Torn
<1>7. FlushedBeforeWrite'
    BY DEF IInv, FlushedBeforeWrite
<1>8. QED
    BY <1>4, <1>5, <1>6, <1>7 DEF IInv

LEMMA FlushCallKeeps == ASSUME IInv, FlushCall PROVE IInv'
BY FlushKeeps DEF FlushCall, Flush, Ready, IInv, TypeOK

LEMMA WriteKeeps == ASSUME IInv, Write PROVE IInv'
<1>1. PICK len \in 1..MaxLen : Flush(op' = "write" /\ want' = len /\ UNCHANGED life)
    BY DEF Write
<1>2. len \in Nat
    BY SizesAssumption
<1>3. /\ UNCHANGED inVars /\ given' = given /\ accepted' = accepted
      /\ op = "none" /\ life # "destroyed"
    BY DEF Write, Ready
<1>4. life \in {"open", "closed", "destroyed"} /\ want \in Nat
    BY DEF IInv, TypeOK
<1>5. QED
    BY <1>1, <1>2, <1>3, <1>4, FlushKeeps DEF Flush

LEMMA CloseKeeps == ASSUME IInv, Close PROVE IInv'
BY FlushKeeps DEF Close, Flush, Ready, IInv, TypeOK

\* put() is accepted: one more byte, at the end of what wire and buffer hold.
LEMMA PutOne ==
    ASSUME IInv, life # "destroyed",
           wire' \o m_sbuf' = (wire \o m_sbuf) \o <<given + 1>>,
           given' = given + 1, accepted' = accepted \union {given + 1},
           m_iostate' = m_iostate, threw' = threw
    PROVE  OutputInOrder' /\ AcceptedNotLost'
<1> DEFINE both == wire \o m_sbuf
<1>1. given \in Nat /\ given + 1 \in Nat /\ both \in Seq(Nat)
    BY ConcatProperties DEF IInv, TypeOK
<1>2. wire' \o m_sbuf' = both \o <<given + 1>>
    OBVIOUS
<1>3. /\ OutputInOrder <=> (~threw /\ "bad" \notin m_iostate =>
                              life = "destroyed" \/ both = After(0, given))
      /\ AcceptedNotLost <=> (life # "destroyed" /\ "bad" \notin m_iostate =>
                                accepted \subseteq Elements(both))
    BY DEF OutputInOrder, AcceptedNotLost
<1> HIDE DEF both
<1>4. /\ both \o <<given + 1>> = Append(both, given + 1)
      /\ Elements(both \o <<given + 1>>) = Elements(both) \union {given + 1}
    BY <1>1, AppendedByte
<1>5. OutputInOrder'
    <2>1. both = After(0, given) => wire' \o m_sbuf' = After(0, given + 1)
        BY <1>1, <1>2, <1>4, AfterNext
    <2>2. QED
        BY <1>3, <2>1 DEF IInv, OutputInOrder
<1>6. AcceptedNotLost'
    <2>1. Elements(wire' \o m_sbuf') = Elements(both) \union {given + 1}
        BY <1>2, <1>4
    <2>2. QED
        BY <1>3, <2>1 DEF IInv, AcceptedNotLost
<1>7. QED
    BY <1>5, <1>6

LEMMA PutKeeps == ASSUME IInv, Put PROVE IInv'
<1>1. /\ m_sbuf \in Seq(Nat) /\ Len(m_sbuf) <= BufSize /\ Len(m_sbuf) \in Nat
      /\ wire \in Seq(Nat) /\ given \in Nat /\ given + 1 \in Nat
      /\ accepted \subseteq 1..given /\ 1..given \subseteq 1..(given + 1)
      /\ given + 1 \in 1..(given + 1)
    BY DEF IInv, TypeOK
<1>2. /\ given' = given + 1 /\ op = "none" /\ life # "destroyed"
      /\ UNCHANGED <<life, op, want>> /\ UNCHANGED inVars
    BY DEF Put, Ready
<1>3. \/ SendReturns(m_sbuf) \/ SendThrows(m_sbuf)
      \/ UNCHANGED <<m_iostate, wire, threw, faults>>
    BY DEF Put, SendReturns
<1>4. /\ wire' \in Seq(Nat) /\ m_iostate' \subseteq {"eof", "fail", "bad"}
      /\ threw' \in BOOLEAN /\ faults' \in Nat
      /\ threw => threw'
      /\ "eof" \in m_iostate' => "eof" \in m_iostate
    <2>1. CASE SendReturns(m_sbuf) \/ SendThrows(m_sbuf)
        BY <1>1, <2>1, Sending DEF IInv
    <2>2. CASE UNCHANGED <<m_iostate, wire, threw, faults>>
        BY <2>2 DEF IInv, TypeOK
    <2>3. QED
        BY <1>3, <2>1, <2>2
<1>5. InputInOrder' /\ CountOfLast' /\ LoopStates' /\ EofMeansAll'
    BY <1>2, <1>4, InputKept
<1>6. FlushedBeforeWrite'
    BY <1>2 DEF FlushedBeforeWrite
<1>7. <<given + 1>> \in Seq(Nat) /\ Len(<<given + 1>>) = 1 /\ 1 <= BufSize
    BY <1>1, SizesAssumption
<1>8. <<>> \in Seq(Nat) /\ Len(<<>>) = 0 /\ 0 <= BufSize
    BY EmptySeq, SizesAssumption
<1>9. /\ m_sbuf' \in Seq(Nat) /\ Len(m_sbuf') <= BufSize /\ accepted' \subseteq 1..(given + 1)
      /\ OutputInOrder' /\ AcceptedNotLost'
    <2>1. CASE IsFull /\ SendAll(m_sbuf) /\ m_sbuf' = <<given'>>
               /\ accepted' = accepted \union {given'}
        <3>1. wire' = wire \o m_sbuf /\ m_iostate' = m_iostate /\ threw' = threw
            BY <2>1 DEF SendAll
        <3>2. wire' \o m_sbuf' = (wire \o m_sbuf) \o <<given + 1>>
            BY <1>2, <2>1, <3>1
        <3>3. OutputInOrder' /\ AcceptedNotLost'
            BY <1>2, <2>1, <3>1, <3>2, PutOne
        <3>4. QED
            BY <1>1, <1>2, <1>7, <2>1, <3>3
    <2>2. CASE SendGivesUp(m_sbuf) /\ m_sbuf' = <<>> /\ accepted' = accepted
        BY <1>1, <1>8, <2>2 DEF SendGivesUp, OutputInOrder, AcceptedNotLost
    <2>3. CASE SendThrows(m_sbuf) /\ m_sbuf' = m_sbuf /\ accepted' = accepted
        BY <1>1, <1>2, <2>3, Torn
    <2>4. CASE /\ UNCHANGED <<m_iostate, wire, threw, faults>>
               /\ "bad" \in m_iostate /\ m_sbuf' = m_sbuf /\ accepted' = accepted
        BY <1>1, <2>4 DEF OutputInOrder, AcceptedNotLost
    <2>5. CASE /\ ~IsFull /\ UNCHANGED <<m_iostate, wire, threw, faults>>
               /\ m_sbuf' = Append(m_sbuf, given') /\ accepted' = accepted \union {given'}
        <3>1. m_sbuf' \in Seq(Nat) /\ Len(m_sbuf') = Len(m_sbuf) + 1
            BY <1>1, <1>2, <2>5, AppendedByte
        <3>2. Len(m_sbuf') <= BufSize
            BY <1>1, <2>5, <3>1, SizesAssumption DEF IsFull
        <3>3. /\ m_iostate' = m_iostate /\ threw' = threw /\ wire' = wire
              /\ m_sbuf' = Append(m_sbuf, given + 1) /\ accepted' = accepted \union {given + 1}
            BY <1>2, <2>5
        <3>4. m_sbuf' = m_sbuf \o <<given + 1>>
            BY <1>1, <3>3, AppendedByte
        <3>5. wire' \o m_sbuf' = (wire \o m_sbuf) \o <<given + 1>>
            BY <1>1, <1>7, <3>3, <3>4, ConcatAssociative
        <3>6. OutputInOrder' /\ AcceptedNotLost'
            BY <1>2, <3>3, <3>5, PutOne
        <3>7. QED
            BY <1>1, <3>1, <3>2, <3>3, <3>6
    <2>6. QED
        BY <2>1, <2>2, <2>3, <2>4, <2>5 DEF Put
<1>10. TypeOK'
    <2>1. /\ m_gcount' = m_gcount /\ m_rbuf' = m_rbuf /\ m_rbufnxt' = m_rbufnxt
          /\ received' = received /\ count' = count
          /\ delivered' = delivered /\ before' = before
          /\ life' = life /\ op' = op /\ want' = want
        BY <1>2 DEF inVars
    <2>2. /\ wire' \in Seq(Nat) /\ m_iostate' \subseteq {"eof", "fail", "bad"}
          /\ threw' \in BOOLEAN /\ faults' \in Nat
        BY <1>4
    <2>3. given' \in Nat /\ accepted' \subseteq 1..given'
        BY <1>1, <1>2, <1>9
    <2>4. m_sbuf' \in Seq(Nat) /\ Len(m_sbuf') <= BufSize
        BY <1>9
    <2>5. TypeOK
        BY DEF IInv
    <2>6. QED
        BY ONLY <2>1, <2>2, <2>3, <2>4, <2>5 DEF TypeOK
<1>11. QED
    BY <1>5, <1>6, <1>9, <1>10 DEF IInv

LEMMA WriteSendKeeps == ASSUME IInv, WriteSend PROVE IInv'
<1> DEFINE bytes == After(given, want)
<1>1. /\ op = "write" /\ op' = "none" /\ m_sbuf = <<>> /\ m_sbuf' = <<>>
      /\ given' = given + want /\ life' = life /\ want' = want
      /\ UNCHANGED inVars
    BY DEF WriteSend, IInv, FlushedBeforeWrite
<1>2. /\ wire \in Seq(Nat) /\ given \in Nat /\ want \in Nat /\ given + want \in Nat
      /\ accepted \subseteq 1..given /\ 1..given \subseteq 1..(given + want)
      /\ <<>> \in Seq(Nat)
    BY EmptySeq DEF IInv, TypeOK
<1>3. bytes \in Seq(Nat) /\ Elements(bytes) \subseteq 1..(given + want)
    <2>1. /\ bytes \in Seq(Nat) /\ Len(bytes) = want
          /\ \A j \in 1..want : bytes[j] = given + j
        BY <1>2, AfterIs
    <2>2. \A j \in 1..want : given + j \in 1..(given + want)
        BY <1>2
    <2>3. QED
        BY <2>1, <2>2 DEF Elements
<1>4. \/ SendAll(bytes) /\ accepted' = accepted \union Elements(bytes)
      \/ (SendGivesUp(bytes) \/ SendThrows(bytes)) /\ accepted' = accepted
    BY DEF WriteSend
<1>5. wire \o bytes = (wire \o m_sbuf) \o After(given, want)
    BY <1>1, <1>2, ConcatEmptySeq
<1>6. After(0, given) \o After(given, want) = After(0, given + want)
    <2>1. After(0, given) \o After(0 + given, want) = After(0, given + want)
        BY <1>2, AfterJoin
    <2>2. 0 + given = given
        BY <1>2
    <2>3. QED
        BY <2>1, <2>2
<1> HIDE DEF bytes
<1>7. /\ wire' \in Seq(Nat) /\ m_iostate' \subseteq {"eof", "fail", "bad"}
      /\ threw' \in BOOLEAN /\ faults' \in Nat
      /\ threw => threw'
      /\ "eof" \in m_iostate' => "eof" \in m_iostate
    BY <1>3, <1>4, Sending DEF IInv, SendReturns
<1>8. InputInOrder' /\ CountOfLast' /\ LoopStates' /\ EofMeansAll'
    BY <1>1, <1>7, InputKept
<1>9. OutputInOrder' /\ AcceptedNotLost'
    <2>1. CASE SendAll(bytes) /\ accepted' = accepted \union Elements(bytes)
        <3>1. wire' = wire \o bytes /\ m_iostate' = m_iostate /\ threw' = threw
            BY <2>1 DEF SendAll
        <3>2. wire' \o m_sbuf' = wire'
            BY <1>1, <1>7, ConcatEmptySeq
        <3>3. OutputInOrder'
            BY <1>1, <1>5, <1>6, <3>1, <3>2 DEF IInv, OutputInOrder
        <3>4. wire \o m_sbuf = wire
            BY <1>1, <1>2, ConcatEmptySeq
        <3>5. Elements(wire') = Elements(wire) \union Elements(bytes)
            BY <1>2, <1>3, <3>1, ElementsJoin
        <3>6. AcceptedNotLost'
            BY <1>1, <2>1, <3>1, <3>2, <3>4, <3>5 DEF IInv, AcceptedNotLost
        <3>7. QED
            BY <3>3, <3>6
    <2>2. CASE SendGivesUp(bytes)
        BY <2>2 DEF SendGivesUp, OutputInOrder, AcceptedNotLost
    <2>3. CASE SendThrows(bytes) /\ accepted' = accepted
        BY <1>1, <1>3, <2>3, Torn
    <2>4. QED
        BY <1>4, <2>1, <2>2, <2>3
<1>10. FlushedBeforeWrite'
    BY <1>1 DEF FlushedBeforeWrite
<1>11. TypeOK'
    <2>1. /\ m_gcount' = m_gcount /\ m_rbuf' = m_rbuf /\ m_rbufnxt' = m_rbufnxt
          /\ received' = received /\ count' = count
          /\ delivered' = delivered /\ before' = before
          /\ life' = life /\ op' = "none" /\ want' = want /\ m_sbuf' = m_sbuf
        BY <1>1 DEF inVars
    <2>2. /\ wire' \in Seq(Nat) /\ m_iostate' \subseteq {"eof", "fail", "bad"}
          /\ threw' \in BOOLEAN /\ faults' \in Nat
        BY <1>7
    <2>3. given' \in Nat /\ accepted' \subseteq 1..given'
        BY <1>1, <1>2, <1>3, <1>4
    <2>4. TypeOK
        BY DEF IInv
    <2>5. QED
        BY ONLY <2>1, <2>2, <2>3, <2>4 DEF TypeOK
<1>12. QED
    BY <1>8, <1>9, <1>10, <1>11 DEF IInv

LEMMA DestroyKeeps == ASSUME IInv, Destroy PROVE IInv'
<1>1. /\ op = "none" /\ op' = "none" /\ life' = "destroyed" /\ m_sbuf' = <<>>
      /\ UNCHANGED <<m_iostate, want, inVars, given, accepted, wire, threw, faults>>
    BY DEF Destroy, Ready
<1>2. InputInOrder' /\ CountOfLast' /\ LoopStates' /\ EofMeansAll'
    BY <1>1, InputKept
<1>3. OutputInOrder' /\ AcceptedNotLost' /\ FlushedBeforeWrite'
    BY <1>1 DEF OutputInOrder, AcceptedNotLost, FlushedBeforeWrite
<1>4. <<>> \in Seq(Nat) /\ Len(<<>>) = 0 /\ 0 <= BufSize
    BY EmptySeq, SizesAssumption
<1>5. TypeOK'
    BY <1>1, <1>4 DEF IInv, TypeOK, inVars
<1>6. QED
    BY <1>2, <1>3, <1>5 DEF IInv

-----------------------------------------------------------------------------
(* Input *)

\* An input call does not touch what the output properties speak of.
LEMMA OutputKept ==
    ASSUME IInv, UNCHANGED outVars, life' = life, threw => threw',
           "bad" \in m_iostate => "bad" \in m_iostate',
           op' = "write" => op = "write"
    PROVE  OutputInOrder' /\ AcceptedNotLost' /\ FlushedBeforeWrite'
BY DEF IInv, outVars, OutputInOrder, AcceptedNotLost, FlushedBeforeWrite

\* The types of the variables that an input call changes, and of the others.
LEMMA InputTypes ==
    ASSUME TypeOK, UNCHANGED outVars, life' = life,
           m_iostate' \subseteq {"eof", "fail", "bad"},
           op' \in {"none", "write", "get", "read", "ignore", "getline", "recv_all"},
           want' \in Nat, m_gcount' \in Nat, count' \in Nat, before' \in Nat,
           m_rbuf' \in Seq(Nat), Len(m_rbuf') <= BufSize, m_rbufnxt' \in 0..Len(m_rbuf'),
           received' \in 0..StreamLen, delivered' \in Seq(Nat),
           threw' \in BOOLEAN, faults' \in Nat
    PROVE  TypeOK'
BY DEF TypeOK, outVars

LEMMA BeginKeeps ==
    ASSUME IInv, Ready, NEW len \in Nat,
           NEW name \in {"get", "read", "ignore", "getline", "recv_all"},
           name = "recv_all" => m_rbuf = <<>>, Begin(name, len)
    PROVE  IInv'
<1>1. /\ op' = name /\ want' = len /\ count' = 0 /\ m_gcount' \in Nat
      /\ before' = Len(delivered) /\ before' \in Nat
      /\ UNCHANGED <<life, m_iostate, m_rbuf, m_rbufnxt, received, delivered,
                     outVars, threw, faults>>
    BY LenProperties DEF Begin, IInv, TypeOK
<1>2. TypeOK'
    BY <1>1, InputTypes DEF IInv, TypeOK
<1>3. OutputInOrder' /\ AcceptedNotLost' /\ FlushedBeforeWrite'
    BY <1>1, OutputKept
<1>4. InputInOrder' /\ CountOfLast' /\ EofMeansAll'
    <2>1. InputInOrder' /\ EofMeansAll'
        BY <1>1 DEF IInv, InputInOrder, EofMeansAll
    <2>2. Len(delivered') = Len(delivered) + 0 /\ op' \notin {"none", "write"}
        <3>1. Len(delivered) \in Nat /\ delivered' = delivered
            BY <1>1
        <3>2. QED
            BY <1>1, <3>1
    <2>3. CountOfLast'
        BY <1>1, <2>2 DEF CountOfLast
    <2>4. QED
        BY <2>1, <2>3
<1>5. LoopStates'
    <2>1. m_rbuf = <<>> => m_rbufnxt = 0
        BY EmptySeq DEF IInv, TypeOK
    <2>2. QED
        BY <1>1, <2>1 DEF LoopStates
<1>6. QED
    BY <1>2, <1>3, <1>4, <1>5 DEF IInv

LEMMA GetlineKeeps == ASSUME IInv, GetlineCall PROVE IInv'
<1>1. Ready
    BY DEF GetlineCall
<1>2. PICK len \in 0..MaxLen :
          IF len > 1 THEN Begin("getline", len - 1)
          ELSE /\ m_gcount' = 0 /\ before' = Len(delivered)
               /\ m_iostate' = m_iostate \union {"fail"}
               /\ UNCHANGED <<life, op, want, m_rbuf, m_rbufnxt, received,
                              count, delivered, outVars, threw, faults>>
    BY DEF GetlineCall
<1>3. CASE len > 1
    <2>1. len - 1 \in Nat /\ Begin("getline", len - 1)
        BY <1>2, <1>3, SizesAssumption
    <2>2. QED
        BY <1>1, <2>1, BeginKeeps
<1>4. CASE ~(len > 1)
    <2>1. /\ m_gcount' = 0 /\ before' = Len(delivered) /\ before' \in Nat
          /\ m_iostate' = m_iostate \union {"fail"}
          /\ UNCHANGED <<life, op, want, m_rbuf, m_rbufnxt, received,
                         count, delivered, outVars, threw, faults>>
          /\ op = "none"
        BY <1>1, <1>2, <1>4, LenProperties DEF Ready, IInv, TypeOK
    <2>2. TypeOK'
        BY <2>1, InputTypes DEF IInv, TypeOK
    <2>3. OutputInOrder' /\ AcceptedNotLost' /\ FlushedBeforeWrite'
        BY <2>1, OutputKept
    <2>4. InputInOrder' /\ CountOfLast' /\ LoopStates' /\ EofMeansAll'
        <3>1. InputInOrder' /\ LoopStates' /\ EofMeansAll'
            BY <2>1 DEF IInv, InputInOrder, LoopStates, EofMeansAll
        <3>2. Len(delivered') = before' + m_gcount' /\ op' = "none"
            BY <2>1
        <3>3. CountOfLast'
            BY <3>2 DEF CountOfLast
        <3>4. QED
            BY <3>1, <3>3
    <2>5. QED
        BY <2>2, <2>3, <2>4 DEF IInv
<1>5. QED
    BY <1>3, <1>4

\* When nothing is unread, all that was received has been delivered.
LEMMA UsedUp ==
    ASSUME IInv, m_rbufnxt >= Len(m_rbuf), ~threw
    PROVE  delivered = After(0, received)
<1>1. /\ delivered \in Seq(Nat) /\ m_rbufnxt + 1 \in Int /\ Len(m_rbuf) \in Int
      /\ Len(m_rbuf) < m_rbufnxt + 1
    BY LenProperties DEF IInv, TypeOK
<1>2. SubSeq(m_rbuf, m_rbufnxt + 1, Len(m_rbuf)) = <<>>
    BY <1>1, SubSeqEmpty
<1>3. QED
    BY <1>1, <1>2, ConcatEmptySeq DEF IInv, InputInOrder

\* An empty buffer, and all delivered.
LEMMA NothingUnread ==
    ASSUME delivered' \in Seq(Nat), m_rbuf' = <<>>, m_rbufnxt' = 0,
           ~threw' => delivered' = After(0, received')
    PROVE  InputInOrder'
<1>1. Len(m_rbuf') = 0
    OBVIOUS
<1>2. SubSeq(m_rbuf', m_rbufnxt' + 1, Len(m_rbuf')) = <<>>
    BY <1>1, SubSeqEmpty
<1>3. QED
    BY <1>2, ConcatEmptySeq DEF InputInOrder

LEMMA RecvAllKeeps == ASSUME IInv, RecvAll PROVE IInv'
<1>1. /\ received \in Nat /\ received \in 0..StreamLen /\ StreamLen \in Nat
      /\ delivered \in Seq(Nat) /\ count \in Nat /\ want \in Nat /\ before \in Nat
      /\ m_rbuf = <<>> /\ m_rbufnxt = 0 /\ Len(m_rbuf) = 0 /\ m_rbufnxt >= Len(m_rbuf)
      /\ MaxLen \in Nat /\ op = "recv_all"
    BY SizesAssumption, EmptySeq DEF RecvAll, IInv, TypeOK, LoopStates
<1>2. PICK n \in 0..MaxLen :
          /\ Recv(want - count, n)
          /\ delivered' = delivered \o After(received, n)
          /\ count' = count + n
          /\ LET ends == n = 0 \/ count' >= want IN
             /\ op' = IF ends THEN "none" ELSE op
             /\ m_gcount' = IF ends THEN count' ELSE m_gcount
          /\ m_iostate' = IF n = 0 THEN m_iostate \union {"eof"} ELSE m_iostate
    BY DEF RecvAll
<1>3. /\ UNCHANGED <<life, want, outVars>> /\ m_rbuf' = <<>> /\ m_rbufnxt' = 0
      /\ before' = before /\ threw' = threw /\ faults' = faults
    BY <1>1 DEF RecvAll
<1>4. /\ n \in Nat /\ received' = received + n /\ n <= StreamLen - received
      /\ n = 0 => received = StreamLen
    <2>1. n \in Nat
        BY <1>1
    <2>2. QED
        BY <1>2, <2>1 DEF Recv
<1>5. /\ received' \in 0..StreamLen /\ count' \in Nat /\ count' = count + n
      /\ (op' = "none" /\ m_gcount' = count') \/ (op' = "recv_all" /\ m_gcount' = m_gcount)
    <2>1. received \in Nat /\ StreamLen \in Nat /\ count \in Nat /\ op = "recv_all"
        BY <1>1
    <2>2. received' \in 0..StreamLen
        BY <1>4, <2>1
    <2>3. count' = count + n /\ count' \in Nat
        BY <1>2, <1>4, <2>1
    <2>4. (op' = "none" /\ m_gcount' = count') \/ (op' = "recv_all" /\ m_gcount' = m_gcount)
        BY <1>2, <2>1
    <2>5. QED
        BY <2>2, <2>3, <2>4
<1>6. /\ After(received, n) \in Seq(Nat) /\ Len(After(received, n)) = n
      /\ delivered' \in Seq(Nat) /\ Len(delivered') = Len(delivered) + n
      /\ Len(delivered) \in Nat
    <2>1. /\ received \in Nat /\ n \in Nat /\ delivered \in Seq(Nat)
          /\ delivered' = delivered \o After(received, n)
        BY <1>1, <1>2, <1>4
    <2>2. After(received, n) \in Seq(Nat) /\ Len(After(received, n)) = n
        BY <2>1, AfterIs
    <2>3. QED
        BY <2>1, <2>2, ConcatProperties, LenProperties
<1>7. /\ m_iostate \subseteq m_iostate' /\ m_iostate' \subseteq m_iostate \union {"eof"}
      /\ "eof" \in m_iostate' => "eof" \in m_iostate \/ n = 0
    BY <1>2
<1>8. TypeOK'
    <2>1. m_iostate' \subseteq {"eof", "fail", "bad"} /\ m_gcount' \in Nat
        BY <1>5, <1>7 DEF IInv, TypeOK
    <2>2. <<>> \in Seq(Nat) /\ Len(<<>>) = 0 /\ 0 <= BufSize /\ 0 \in 0..0
        BY EmptySeq, SizesAssumption
    <2>3. op' \in {"none", "write", "get", "read", "ignore", "getline", "recv_all"}
        BY <1>5
    <2>4. want' \in Nat /\ before' \in Nat /\ threw' \in BOOLEAN /\ faults' \in Nat
        BY <1>3 DEF IInv, TypeOK
    <2>5. QED
        BY <1>3, <1>5, <1>6, <2>1, <2>2, <2>3, <2>4, InputTypes DEF IInv
<1>9. OutputInOrder' /\ AcceptedNotLost' /\ FlushedBeforeWrite'
    <2>1. op' # "write" /\ ("bad" \in m_iostate => "bad" \in m_iostate')
        BY <1>5, <1>7
    <2>2. QED
        BY <1>3, <2>1, OutputKept
<1>10. InputInOrder'
    <2>1. ~threw => delivered = After(0, received)
        BY <1>1, UsedUp
    <2>2. After(0, received) \o After(0 + received, n) = After(0, received + n)
        <3>1. received \in Nat /\ n \in Nat
            BY <1>1, <1>4
        <3>2. QED
            BY <3>1, AfterJoin
    <2>3. 0 + received = received
        BY <1>1
    <2>4. ~threw' => delivered' = After(0, received')
        BY <1>2, <1>3, <1>4, <2>1, <2>2, <2>3
    <2>5. QED
        BY <1>3, <1>6, <2>4, NothingUnread
<1>11. CountOfLast'
    <2>1. ~threw => Len(delivered) = before + count
        BY <1>1 DEF IInv, CountOfLast
    <2>2. ASSUME ~threw' PROVE Len(delivered') = before' + count'
        <3>1. Len(delivered) = before + count
            BY <1>3, <2>1, <2>2
        <3>2. count \in Nat /\ before \in Nat /\ n \in Nat
            BY <1>1, <1>4
        <3>3. count' = count + n /\ before' = before
            BY <1>3, <1>5
        <3>4. Len(delivered') = Len(delivered) + n
            BY <1>6
        <3>5. QED
            BY <3>1, <3>2, <3>3, <3>4
    <2>3. QED
        BY <1>5, <2>2 DEF CountOfLast
<1>12. LoopStates'
    BY <1>3, <1>5 DEF LoopStates
<1>13. EofMeansAll'
    <2>1. ~threw /\ "eof" \in m_iostate => received = StreamLen
        BY DEF IInv, EofMeansAll
    <2>2. received = StreamLen => received' = StreamLen
        BY <1>1, <1>4
    <2>3. Len(m_rbuf') = 0
        BY <1>3, EmptySeq
    <2>4. QED
        BY <1>3, <1>4, <1>7, <2>1, <2>2, <2>3 DEF EofMeansAll
<1>14. QED
    BY <1>8, <1>9, <1>10, <1>11, <1>12, <1>13 DEF IInv

LEMMA RecvAllThrowsKeeps == ASSUME IInv, RecvAllThrows PROVE IInv'
<1>1. /\ op' = "none" /\ threw' = TRUE
      /\ UNCHANGED <<life, m_iostate, want, inVars, outVars>>
    BY DEF RecvAllThrows, Throws
<1>2. faults' \in Nat
    BY DEF RecvAllThrows, Throws, Fault, IInv, TypeOK
<1>3. TypeOK'
    <2>1. /\ m_gcount' = m_gcount /\ m_rbuf' = m_rbuf /\ m_rbufnxt' = m_rbufnxt
          /\ received' = received /\ count' = count
          /\ delivered' = delivered /\ before' = before
        BY <1>1 DEF inVars
    <2>2. QED
        BY <1>1, <1>2, <2>1, InputTypes DEF IInv, TypeOK
<1>4. OutputInOrder' /\ AcceptedNotLost' /\ FlushedBeforeWrite'
    BY <1>1, OutputKept
<1>5. InputInOrder' /\ CountOfLast' /\ LoopStates' /\ EofMeansAll'
    BY <1>1 DEF InputInOrder, CountOfLast, LoopStates, EofMeansAll
<1>6. QED
    BY <1>3, <1>4, <1>5 DEF IInv

LEMMA ReadCallKeeps == ASSUME IInv, ReadCall PROVE IInv'
<1>1. Ready
    BY DEF ReadCall
<1>2. PICK len \in 1..MaxLen :
          Begin(IF m_rbuf = <<>> THEN "recv_all" ELSE "read", len)
    BY DEF ReadCall
<1>3. len \in Nat
    BY SizesAssumption
<1>4. CASE m_rbuf = <<>>
    BY <1>1, <1>2, <1>3, <1>4, BeginKeeps
<1>5. CASE m_rbuf # <<>>
    BY <1>1, <1>2, <1>3, <1>5, BeginKeeps
<1>6. QED
    BY <1>4, <1>5

\* The unread bytes of r after its first n.
LEMMA FirstUnread ==
    ASSUME NEW r \in Seq(Nat), NEW n \in 0..(Len(r) - 1)
    PROVE  /\ r[n + 1] \in Nat
           /\ SubSeq(r, n + 1, Len(r)) = <<r[n + 1]>> \o SubSeq(r, n + 2, Len(r))
           /\ SubSeq(r, n + 2, Len(r)) \in Seq(Nat)
<1>1. Len(r) \in Nat /\ n \in Nat
    BY LenProperties
<1>2. n + 1 \in 1..Len(r) /\ Len(r) \in (n + 1)..Len(r) /\ (n + 1) + 1 = n + 2
    BY <1>1
<1>3. \A i \in (n + 2)..Len(r) : i \in 1..Len(r)
    BY <1>1
<1>4. \A i \in (n + 2)..Len(r) : r[i] \in Nat
    BY <1>3, ElementOfSeq
<1>5. n + 2 \in Int /\ Len(r) \in Int
    BY <1>1
<1>6. SubSeq(r, n + 2, Len(r)) \in Seq(Nat)
    BY <1>4, <1>5, SubSeqProperties
<1>7. SubSeq(r, n + 1, Len(r)) = <<r[n + 1]>> \o SubSeq(r, (n + 1) + 1, Len(r))
    BY <1>2, SubSeqRecursiveFirst
<1>8. r[n + 1] \in Nat
    BY <1>2, ElementOfSeq
<1>9. QED
    BY <1>2, <1>6, <1>7, <1>8

LEMMA ThreeParts ==
    \A s, t, u \in Seq(Nat) : (s \o t) \o u = s \o (t \o u)
BY ConcatAssociative

\* A byte goes over from the unread ones to the delivered ones.
LEMMA ByteMoves ==
    ASSUME NEW d \in Seq(Nat), NEW r \in Seq(Nat), NEW n \in 0..(Len(r) - 1)
    PROVE  /\ Append(d, r[n + 1]) \in Seq(Nat)
           /\ Len(Append(d, r[n + 1])) = Len(d) + 1
           /\ Append(d, r[n + 1]) \o SubSeq(r, n + 2, Len(r))
                = d \o SubSeq(r, n + 1, Len(r))
<1> DEFINE b == r[n + 1]
           rest == SubSeq(r, n + 2, Len(r))
<1>1. /\ b \in Nat /\ rest \in Seq(Nat)
      /\ SubSeq(r, n + 1, Len(r)) = <<b>> \o rest
    BY FirstUnread
<1> HIDE DEF b, rest
<1>2. <<b>> \in Seq(Nat)
    BY <1>1
<1>3. /\ Append(d, b) = d \o <<b>> /\ Append(d, b) \in Seq(Nat)
      /\ Len(Append(d, b)) = Len(d) + 1
    BY <1>1, AppendedByte
<1>4. (d \o <<b>>) \o rest = d \o (<<b>> \o rest)
    BY ONLY <1>1, <1>2, d \in Seq(Nat), ThreeParts
<1>5. Append(d, b) \o rest = d \o SubSeq(r, n + 1, Len(r))
    BY <1>1, <1>3, <1>4
<1>6. QED
    BY <1>3, <1>5 DEF b, rest

LEMMA GetByteMoves ==
    ASSUME IInv, GetByte
    PROVE  /\ m_rbuf' \in Seq(Nat) /\ Len(m_rbuf') <= BufSize
           /\ m_rbufnxt' \in 0..Len(m_rbuf')
           /\ received' \in 0..StreamLen /\ delivered' \in Seq(Nat)
           /\ Len(delivered') = Len(delivered) + 1 /\ Len(delivered) \in Nat
           /\ InputInOrder'
           /\ ~threw => "eof" \notin m_iostate
<1>1. /\ m_rbuf \in Seq(Nat) /\ Len(m_rbuf) <= BufSize /\ Len(m_rbuf) \in Nat
      /\ m_rbufnxt \in 0..Len(m_rbuf) /\ received \in 0..StreamLen /\ received \in Nat
      /\ delivered \in Seq(Nat) /\ StreamLen \in Nat /\ BufSize \in Nat
      /\ Len(delivered) \in Nat
    BY SizesAssumption, LenProperties DEF IInv, TypeOK
<1>2. threw' = threw /\ delivered' = Append(delivered, m_rbuf'[m_rbufnxt'])
    BY DEF GetByte
<1>3. CASE m_rbufnxt < Len(m_rbuf)
    <2>1. m_rbufnxt' = m_rbufnxt + 1 /\ m_rbuf' = m_rbuf /\ received' = received
        BY <1>1, <1>3 DEF GetByte
    <2>2. m_rbufnxt \in 0..(Len(m_rbuf) - 1) /\ m_rbufnxt' \in 0..Len(m_rbuf)
        BY <1>1, <1>3, <2>1
    <2>3. /\ Append(delivered, m_rbuf[m_rbufnxt + 1]) \in Seq(Nat)
          /\ Len(Append(delivered, m_rbuf[m_rbufnxt + 1])) = Len(delivered) + 1
          /\ Append(delivered, m_rbuf[m_rbufnxt + 1]) \o SubSeq(m_rbuf, m_rbufnxt + 2, Len(m_rbuf))
               = delivered \o SubSeq(m_rbuf, m_rbufnxt + 1, Len(m_rbuf))
        BY <1>1, <2>2, ByteMoves
    <2>4. m_rbufnxt' + 1 = m_rbufnxt + 2
        BY <1>1, <2>1
    <2>5. InputInOrder'
        BY <1>2, <2>1, <2>3, <2>4 DEF IInv, InputInOrder
    <2>6. ~threw => "eof" \notin m_iostate
        BY <1>1, <1>3 DEF IInv, EofMeansAll
    <2>7. QED
        BY <1>1, <1>2, <2>1, <2>2, <2>3, <2>5, <2>6
<1>4. CASE m_rbufnxt >= Len(m_rbuf)
    <2>1. PICK n \in 1..BufSize : Recv(BufSize, n) /\ m_rbuf' = After(received, n)
        BY <1>1, <1>4 DEF GetByte
    <2>2. m_rbufnxt' = 1
        BY <1>1, <1>4 DEF GetByte
    <2>3. n \in Nat /\ n <= StreamLen - received /\ received' = received + n
        BY <1>1, <2>1 DEF Recv
    <2>4. m_rbuf' \in Seq(Nat) /\ Len(m_rbuf') = n
        BY <1>1, <2>1, <2>3, AfterIs
    <2>5. /\ 0 \in 0..(Len(m_rbuf') - 1) /\ m_rbufnxt' \in 0..Len(m_rbuf')
          /\ Len(m_rbuf') <= BufSize /\ received' \in 0..StreamLen
        BY <1>1, <2>1, <2>2, <2>3, <2>4
    <2>6. /\ Append(delivered, m_rbuf'[0 + 1]) \in Seq(Nat)
          /\ Len(Append(delivered, m_rbuf'[0 + 1])) = Len(delivered) + 1
          /\ Append(delivered, m_rbuf'[0 + 1]) \o SubSeq(m_rbuf', 0 + 2, Len(m_rbuf'))
               = delivered \o SubSeq(m_rbuf', 0 + 1, Len(m_rbuf'))
        BY <1>1, <2>4, <2>5, ByteMoves
    <2>7. /\ delivered' \in Seq(Nat) /\ Len(delivered') = Len(delivered) + 1
          /\ delivered' \o SubSeq(m_rbuf', m_rbufnxt' + 1, Len(m_rbuf')) = delivered \o m_rbuf'
        <3>1. 0 + 1 = 1 /\ 0 + 2 = 2 /\ m_rbufnxt' + 1 = 2
            BY <2>2
        <3>2. SubSeq(m_rbuf', 1, Len(m_rbuf')) = m_rbuf'
            BY <2>4, SubSeqFull
        <3>3. QED
            BY <1>2, <2>2, <2>6, <3>1, <3>2
    <2>8. After(0, received) \o m_rbuf' = After(0, received')
        <3>1. After(0, received) \o After(0 + received, n) = After(0, received + n)
            BY <1>1, <2>3, AfterJoin
        <3>2. 0 + received = received
            BY <1>1
        <3>3. QED
            BY <2>1, <2>3, <3>1, <3>2
    <2>9. InputInOrder'
        BY <1>2, <1>4, <2>7, <2>8, UsedUp DEF InputInOrder
    <2>10. ~threw => "eof" \notin m_iostate
        BY <1>1, <2>1, <2>3 DEF IInv, EofMeansAll
    <2>11. QED
        BY <2>4, <2>5, <2>7, <2>9, <2>10
<1>5. QED
    BY <1>1, <1>3, <1>4

LEMMA LoopByteKeeps == ASSUME IInv, LoopByte PROVE IInv'
<1> DEFINE isLine == op = "getline" /\ delivered'[Len(delivered')] \in Delims
           ends == op = "get" \/ isLine \/ count' >= want
<1>1. /\ op \in {"get", "read", "ignore", "getline"} /\ GetByte
      /\ UNCHANGED <<life, want, outVars>>
      /\ before' = before /\ threw' = threw /\ faults' = faults
      /\ count' = IF op = "get" THEN count ELSE count + 1
    BY DEF LoopByte, GetByte
<1>2. /\ op' = IF ends THEN "none" ELSE op
      /\ m_gcount' = IF ends THEN CountOfCall ELSE CountOfGet
      /\ m_iostate' = IF op = "getline" /\ ends /\ ~isLine
                      THEN m_iostate \union {"fail"} ELSE m_iostate
      /\ op = "get" => ends
    BY DEF LoopByte
<1> HIDE DEF isLine, ends
<1>3. /\ m_rbuf' \in Seq(Nat) /\ Len(m_rbuf') <= BufSize
      /\ m_rbufnxt' \in 0..Len(m_rbuf')
      /\ received' \in 0..StreamLen /\ delivered' \in Seq(Nat)
      /\ Len(delivered') = Len(delivered) + 1 /\ Len(delivered) \in Nat
      /\ InputInOrder'
      /\ ~threw => "eof" \notin m_iostate
    BY <1>1, GetByteMoves
<1>4. /\ \/ op = "get" /\ op' = "none" /\ count' = count /\ m_gcount' = 1
         \/ op # "get" /\ op' = "none" /\ count' = count + 1 /\ m_gcount' = count'
         \/ op # "get" /\ op' = op /\ count' = count + 1 /\ m_gcount' = 1
      /\ m_iostate' \subseteq m_iostate \union {"fail"}
      /\ m_iostate \subseteq m_iostate'
    <2>1. CountOfGet = 1
        BY <1>3 DEF CountOfGet
    <2>2. CountOfCall = IF op = "get" THEN 1 ELSE count'
        BY <2>1 DEF CountOfCall
    <2>3. \/ op = "get" /\ op' = "none" /\ count' = count /\ m_gcount' = 1
          \/ op # "get" /\ op' = "none" /\ count' = count + 1 /\ m_gcount' = count'
          \/ op # "get" /\ op' = op /\ count' = count + 1 /\ m_gcount' = 1
        BY <1>1, <1>2, <2>1, <2>2
    <2>4. m_iostate' = m_iostate \union {"fail"} \/ m_iostate' = m_iostate
        BY <1>2
    <2>5. QED
        BY <2>3, <2>4
<1>5. TypeOK'
    <2>1. count' \in Nat /\ before' \in Nat /\ m_gcount' \in Nat
        BY <1>1, <1>4 DEF IInv, TypeOK
    <2>2. m_iostate' \subseteq {"eof", "fail", "bad"}
        BY <1>4 DEF IInv, TypeOK
    <2>3. op' \in {"none", "write", "get", "read", "ignore", "getline", "recv_all"}
        BY <1>1, <1>4
    <2>4. want' \in Nat /\ threw' \in BOOLEAN /\ faults' \in Nat
        BY <1>1 DEF IInv, TypeOK
    <2>5. QED
        BY <1>1, <1>3, <2>1, <2>2, <2>3, <2>4, InputTypes DEF IInv
<1>6. OutputInOrder' /\ AcceptedNotLost' /\ FlushedBeforeWrite'
    <2>1. op' = "write" => op = "write"
        BY <1>1, <1>4
    <2>2. QED
        BY <1>1, <1>4, <2>1, OutputKept
<1>7. CountOfLast'
    <2>1. /\ ~threw => Len(delivered) = before + count
          /\ op = "get" => count = 0
          /\ count \in Nat /\ before \in Nat
        <3>1. count \in Nat /\ before \in Nat
            BY DEF IInv, TypeOK
        <3>2. ~threw => Len(delivered) = before + count
            BY <1>1 DEF IInv, CountOfLast
        <3>3. QED
            BY <3>1, <3>2 DEF IInv, LoopStates
    <2>2. CASE op' = "none"
        <3>1. ~threw => Len(delivered') = before + m_gcount'
            <4>1. CASE op = "get"
                <5>1. m_gcount' = 1 /\ count = 0
                    BY <1>4, <2>1, <4>1
                <5>2. ~threw => Len(delivered') = before + 1
                    <6>1. Len(delivered') = Len(delivered) + 1
                        BY <1>3
                    <6>2. ~threw => Len(delivered) = before + 0
                        BY <2>1, <5>1
                    <6>3. QED
                        BY <2>1, <6>1, <6>2
                <5>3. QED
                    BY <5>1, <5>2
            <4>2. CASE op # "get"
                <5>1. m_gcount' = count + 1
                    BY <1>1, <1>4, <2>2, <4>2
                <5>2. Len(delivered') = Len(delivered) + 1
                    BY <1>3
                <5>3. QED
                    BY <2>1, <5>1, <5>2
            <4>3. QED
                BY <4>1, <4>2
        <3>2. QED
            BY <1>1, <2>2, <3>1 DEF CountOfLast
    <2>3. CASE op' = op /\ op # "get"
        <3>1. ~threw => Len(delivered') = before + count'
            <4>1. Len(delivered') = Len(delivered) + 1
                BY <1>3
            <4>2. count' = count + 1
                BY <1>4, <2>3
            <4>3. QED
                BY <2>1, <4>1, <4>2
        <3>2. op' \notin {"none", "write"}
            BY <1>1, <2>3
        <3>3. QED
            BY <1>1, <3>1, <3>2 DEF CountOfLast
    <2>4. QED
        BY <1>4, <2>2, <2>3
<1>8. LoopStates'
    BY <1>1, <1>4 DEF LoopStates
<1>9. EofMeansAll'
    BY <1>1, <1>3, <1>4 DEF EofMeansAll
<1>10. QED
    BY <1>3, <1>5, <1>6, <1>7, <1>8, <1>9 DEF IInv

LEMMA LoopEofKeeps == ASSUME IInv, LoopEof PROVE IInv'
<1>1. /\ op \in {"get", "read", "ignore", "getline"}
      /\ op' = "none" /\ m_gcount' = CountOfCall
      /\ m_iostate' = m_iostate \union {"eof"}
                        \union (IF op = "getline" /\ m_gcount' = 0 THEN {"fail"} ELSE {})
      /\ UNCHANGED <<life, want, outVars>>
      /\ m_rbufnxt >= Len(m_rbuf) /\ m_rbuf' = <<>> /\ m_rbufnxt' = 0
      /\ UNCHANGED <<delivered, count, before, threw, faults>>
    BY DEF LoopEof, GetEof
<1>2. received = StreamLen /\ received' = received
    BY DEF LoopEof, GetEof, Recv, IInv, TypeOK
<1>3. <<>> \in Seq(Nat) /\ Len(<<>>) = 0 /\ 0 <= BufSize /\ 0 \in 0..0
    BY EmptySeq, SizesAssumption
<1>4. m_gcount' = IF op = "get" THEN 0 ELSE count
    <2>1. CountOfGet = 0
        BY <1>1, LenProperties DEF CountOfGet, IInv, TypeOK
    <2>2. QED
        BY <1>1, <2>1 DEF CountOfCall
<1>5. TypeOK'
    <2>1. m_iostate' \subseteq {"eof", "fail", "bad"}
        BY <1>1 DEF IInv, TypeOK
    <2>2. count' \in Nat /\ before' \in Nat /\ m_gcount' \in Nat /\ delivered' \in Seq(Nat)
        BY <1>1, <1>4 DEF IInv, TypeOK
    <2>3. want' \in Nat /\ threw' \in BOOLEAN /\ faults' \in Nat /\ received' \in 0..StreamLen
        BY <1>1, <1>2 DEF IInv, TypeOK
    <2>4. QED
        BY <1>1, <1>3, <2>1, <2>2, <2>3, InputTypes DEF IInv
<1>6. OutputInOrder' /\ AcceptedNotLost' /\ FlushedBeforeWrite'
    BY <1>1, OutputKept
<1>7. InputInOrder'
    <2>1. delivered' \in Seq(Nat)
        BY <1>1 DEF IInv, TypeOK
    <2>2. ~threw' => delivered' = After(0, received')
        BY <1>1, <1>2, UsedUp
    <2>3. QED
        BY <1>1, <2>1, <2>2, NothingUnread
<1>8. CountOfLast'
    <2>1. /\ ~threw => Len(delivered) = before + count
          /\ op = "get" => count = 0
        BY <1>1 DEF IInv, CountOfLast, LoopStates
    <2>2. m_gcount' = count
        BY <1>1, <1>4, <2>1 DEF IInv, LoopStates
    <2>3. QED
        BY <1>1, <2>1, <2>2 DEF CountOfLast
<1>9. LoopStates' /\ EofMeansAll'
    BY <1>1, <1>2, <1>3 DEF LoopStates, EofMeansAll
<1>10. QED
    BY <1>5, <1>6, <1>7, <1>8, <1>9 DEF IInv

LEMMA LoopThrowsKeeps == ASSUME IInv, LoopThrows PROVE IInv'
<1>1. /\ op' = "none" /\ threw' = TRUE /\ m_rbuf' = <<>> /\ m_rbufnxt' = 0
      /\ UNCHANGED <<life, want, outVars, m_iostate, m_gcount, received, delivered, count, before>>
    BY DEF LoopThrows, GetThrows, Throws
<1>2. faults' \in Nat
    BY DEF LoopThrows, GetThrows, Throws, Fault, IInv, TypeOK
<1>3. <<>> \in Seq(Nat) /\ Len(<<>>) = 0 /\ 0 <= BufSize /\ 0 \in 0..0
    BY EmptySeq, SizesAssumption
<1>4. TypeOK'
    BY <1>1, <1>2, <1>3, InputTypes DEF IInv, TypeOK
<1>5. OutputInOrder' /\ AcceptedNotLost' /\ FlushedBeforeWrite'
    BY <1>1, OutputKept
<1>6. InputInOrder' /\ CountOfLast' /\ LoopStates' /\ EofMeansAll'
    BY <1>1 DEF InputInOrder, CountOfLast, LoopStates, EofMeansAll
<1>7. QED
    BY <1>4, <1>5, <1>6 DEF IInv

-----------------------------------------------------------------------------
(* The theorems *)

LEMMA NextIInv == IInv /\ [Next]_vars => IInv'
<1> SUFFICES ASSUME IInv, [Next]_vars PROVE IInv'
    OBVIOUS
<1>1. CASE FlushCall \/ Put \/ Write \/ WriteSend \/ Close \/ Destroy
    BY <1>1, FlushCallKeeps, PutKeeps, WriteKeeps, WriteSendKeeps, CloseKeeps, DestroyKeeps
<1>2. CASE GetCall \/ IgnoreCall
    <2>1. CASE GetCall
        BY <2>1, BeginKeeps DEF GetCall
    <2>2. CASE IgnoreCall
        <3>1. PICK len \in 1..MaxLen : Begin("ignore", len)
            BY <2>2 DEF IgnoreCall
        <3>2. len \in Nat /\ Ready
            BY <2>2, SizesAssumption DEF IgnoreCall
        <3>3. QED
            BY <3>1, <3>2, BeginKeeps
    <2>3. QED
        BY <1>2, <2>1, <2>2
<1>3. CASE GetlineCall \/ ReadCall \/ LoopByte \/ LoopEof \/ LoopThrows
            \/ RecvAll \/ RecvAllThrows
    BY <1>3, GetlineKeeps, ReadCallKeeps, RecvAllKeeps, RecvAllThrowsKeeps, LoopByteKeeps, LoopEofKeeps, LoopThrowsKeeps
<1>4. CASE UNCHANGED vars
    <2>1. /\ UNCHANGED <<life, m_iostate, op, want, inVars, outVars, threw, faults>>
          /\ UNCHANGED <<m_gcount, m_rbuf, m_rbufnxt, received, count, delivered, before>>
        BY <1>4 DEF vars, inVars
    <2>2. TypeOK'
        BY <2>1, InputTypes DEF IInv, TypeOK
    <2>3. OutputInOrder' /\ AcceptedNotLost' /\ FlushedBeforeWrite'
        BY <2>1, OutputKept
    <2>4. InputInOrder' /\ CountOfLast' /\ LoopStates' /\ EofMeansAll'
        BY <2>1, InputKept
    <2>5. QED
        BY <2>2, <2>3, <2>4 DEF IInv
<1>5. QED
    BY <1>1, <1>2, <1>3, <1>4 DEF Next, Output, Input

\* IInv holds in every state.
THEOREM Invariance == Spec => []IInv
BY InitIInv, NextIInv, PTL DEF Spec

(***************************************************************************)
(* Every variable of TcpBuffer keeps its type: in particular the indices   *)
(* of both buffers stay within them (koltcp.cpp:201 and :217).             *)
(***************************************************************************)
THEOREM TypeCorrect == Spec => []TypeOK
<1>1. IInv => TypeOK
    BY DEF IInv
<1>2. QED
    BY <1>1, Invariance, PTL

(***************************************************************************)
(* put(), write() and flush() mixed send what they were given in its order *)
(* and once, until a call fails.                                           *)
(***************************************************************************)
THEOREM SentInOrder == Spec => []OutputInOrder
<1>1. IInv => OutputInOrder
    BY DEF IInv
<1>2. QED
    BY <1>1, Invariance, PTL

(***************************************************************************)
(* An exception loses no byte for which put() or write() had returned.     *)
(***************************************************************************)
THEOREM ExceptionLosesNothing == Spec => []AcceptedNotLost
<1>1. IInv => AcceptedNotLost
    BY DEF IInv
<1>2. QED
    BY <1>1, Invariance, PTL

(***************************************************************************)
(* read(), get(), ignore() and getline() mixed see the peer's stream in    *)
(* its order, with nothing lost or repeated, until a call fails.           *)
(***************************************************************************)
THEOREM ReadInOrder == Spec => []InputInOrder
<1>1. IInv => InputInOrder
    BY DEF IInv
<1>2. QED
    BY <1>1, Invariance, PTL

(***************************************************************************)
(* gcount(), which the loops set from their own counters, is the number of *)
(* bytes the last input call took from the stream.                         *)
(***************************************************************************)
THEOREM CountOfCallIsExact == Spec => []GcountExact
<1>1. IInv => GcountExact
    BY DEF IInv, CountOfLast, GcountExact
<1>2. QED
    BY <1>1, Invariance, PTL

(***************************************************************************)
(* eof() is set only when the user has had the whole stream.               *)
(***************************************************************************)
THEOREM EofIsExact == Spec => []EofIsTheEnd
<1>1. IInv => EofIsTheEnd
    <2>1. SUFFICES ASSUME IInv, ~threw, "eof" \in m_iostate
                   PROVE  delivered = After(0, StreamLen)
        BY DEF EofIsTheEnd
    <2>2. received = StreamLen /\ m_rbufnxt = Len(m_rbuf)
        BY <2>1 DEF IInv, EofMeansAll
    <2>3. m_rbufnxt >= Len(m_rbuf)
        BY <2>1, <2>2, LenProperties DEF IInv, TypeOK
    <2>4. QED
        BY <2>1, <2>2, <2>3, UsedUp
<1>2. QED
    BY <1>1, Invariance, PTL

=============================================================================
