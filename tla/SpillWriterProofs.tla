-------------------------- MODULE SpillWriterProofs --------------------------
(***************************************************************************)
(* Proofs about SpillWriter, for every stream, every division into blocks, *)
(* every length of a word and of the marker and every number of spills in  *)
(* a file: the copies of the loop that write nothing beyond a marker       *)
(* (be.cxx, benb.cxx, thtdcreader.cxx, fctreader.cxx) store the stream as  *)
(* it is, and no copy leaves a byte of a block unwritten; the markers that *)
(* are overlooked are those of short spills, and every closed file has the *)
(* time nspill times.  That the loop ends is left to TLC.                  *)
(***************************************************************************)
EXTENDS SpillWriter, FiniteSetTheorems, SequenceTheorems, TLAPS

LEMMA MarkLenType ==
    /\ MarkLen \in Nat \ {0} /\ Stride \in Nat \ {0}
BY SizesAssumption DEF MarkLen, Stride

\* What is written stays written.
LEMMA WritesStay ==
    ASSUME out \in Seq(WriteRecord), NEW s \in Seq(WriteRecord), out' = out \o s
    PROVE  /\ out' \in Seq(WriteRecord)
           /\ Len(out') = Len(out) + Len(s)
           /\ \A n \in 1..Len(out) : n \in 1..Len(out') /\ out'[n] = out[n]
           /\ \A n \in 1..Len(s) : /\ Len(out) + n \in 1..Len(out')
                                   /\ out'[Len(out) + n] = s[n]
BY ConcatProperties

\* What one more write does to the sequence of writes.
LEMMA OneMoreWrite ==
    ASSUME out \in Seq(WriteRecord), NEW s \in Seq(WriteRecord), out' = out \o s,
           Len(s) = 1
    PROVE  /\ Begin(Len(out) + 1)' = s[1].to
           /\ StreamKept /\ s[1].from = Begin(Len(out) + 1) => StreamKept'
<1>1. /\ Len(out') = Len(out) + 1 /\ Len(out) \in Nat
      /\ \A n \in 1..Len(out) : out'[n] = out[n]
      /\ out'[Len(out) + 1] = s[1]
    <2>1. 1 \in 1..Len(s) /\ Len(out) \in Nat
        OBVIOUS
    <2>2. out'[Len(out) + 1] = s[1]
        BY <2>1, WritesStay
    <2>3. Len(out') = Len(out) + 1 /\ \A n \in 1..Len(out) : out'[n] = out[n]
        BY WritesStay
    <2>4. QED
        BY <2>1, <2>2, <2>3
<1>2. Begin(Len(out) + 1)' = s[1].to
    <2>1. Begin(Len(out) + 1)' = out'[Len(out')].to
        BY <1>1 DEF Begin
    <2>2. QED
        BY <1>1, <2>1
<1>3. ASSUME StreamKept, s[1].from = Begin(Len(out) + 1), NEW n \in 1..Len(out')
      PROVE  out'[n].from = Begin(n)'
    <2>1. Begin(n)' = Begin(n)
        BY <1>1, <1>3 DEF Begin
    <2>2. CASE n \in 1..Len(out)
        BY <1>1, <1>3, <2>1, <2>2 DEF StreamKept
    <2>3. CASE n = Len(out) + 1
        BY <1>1, <1>3, <2>1, <2>3
    <2>4. QED
        BY <1>1, <1>3, <2>2, <2>3
<1>4. QED
    BY <1>1, <1>2, <1>3 DEF StreamKept

\* A write that begins where all was written before leaves all written to its end.
LEMMA WrittenFurther ==
    ASSUME out \in Seq(WriteRecord), NEW s \in Seq(WriteRecord), out' = out \o s,
           NEW from \in Nat, NEW to \in Nat, WrittenTo(from),
           from = to \/ (Len(s) > 0 /\ s[1].from = from /\ s[1].to = to)
    PROVE  \A p \in 0..(to - 1) :
               \E n \in 1..Len(out') : out'[n].from <= p /\ p < out'[n].to
<1>1. SUFFICES ASSUME NEW p \in 0..(to - 1)
               PROVE  \E n \in 1..Len(out') : out'[n].from <= p /\ p < out'[n].to
    OBVIOUS
<1>2. CASE p < from
    <2>1. PICK n \in 1..Len(out) : out[n].from <= p /\ p < out[n].to
        BY <1>2 DEF WrittenTo
    <2>2. n \in 1..Len(out') /\ out'[n] = out[n]
        BY WritesStay
    <2>3. QED
        BY <2>1, <2>2
<1>3. CASE ~(p < from)
    <2>1. Len(s) > 0 /\ s[1].from = from /\ s[1].to = to
        BY <1>3
    <2>2. 1 \in 1..Len(s)
        BY <2>1
    <2>3. Len(out) + 1 \in 1..Len(out') /\ out'[Len(out) + 1] = s[1]
        BY <2>2, WritesStay
    <2>4. QED
        BY <1>3, <2>1, <2>3
<1>4. QED
    BY <1>2, <1>3

\* A step that writes nothing leaves every beginning where it is.
LEMMA SameBegin ==
    ASSUME UNCHANGED out
    PROVE  /\ StreamKept' <=> StreamKept
           /\ Begin(Len(out) + 1)' = Begin(Len(out) + 1)
           /\ WrittenTo(got) => (\A p \in 0..(got - 1) :
                  \E n \in 1..Len(out') : out'[n].from <= p /\ p < out'[n].to)
BY DEF StreamKept, Begin, WrittenTo

LEMMA InitIInv == Init => IInv
<1> SUFFICES ASSUME Init PROVE IInv
    OBVIOUS
<1>1. TypeOK
    <2>1. marks \subseteq Nat /\ 0 <= StreamLen
        BY SizesAssumption DEF Init, Position
    <2>2. out \in Seq(WriteRecord)
        BY DEF Init
    <2>3. QED
        BY <2>1, <2>2, CopiesAssumption DEF Init, TypeOK
<1>2. Contiguous /\ RestIsUnwritten
    BY DEF Init, Contiguous, StreamKept, RestIsUnwritten, AllWritten, WrittenTo, Begin
<1>3. QED
    BY <1>1, <1>2 DEF IInv

\* A block arrives: nothing of it is written yet.
LEMMA ReceiveStep ==
    ASSUME IInv, Receive
    PROVE  \E n \in Nat : /\ got' = got + n /\ data_size' = n
                          /\ pc' = IF n > 0 THEN "scan" ELSE "recv"
<1>1. PICK b \in BlockLens :
          LET n == IF got + b <= StreamLen THEN b ELSE StreamLen - got
          IN  /\ got' = got + n /\ data_size' = n
              /\ pc' = IF n > 0 THEN "scan" ELSE "recv"
    BY DEF Receive
<1> DEFINE n == IF got + b <= StreamLen THEN b ELSE StreamLen - got
<1>2. b \in Nat /\ StreamLen \in Nat /\ got \in Nat /\ got <= StreamLen
    BY SizesAssumption DEF IInv, TypeOK
<1>3. n \in Nat
    BY <1>2
<1>4. QED
    BY <1>1, <1>3

LEMMA ReceiveIInv ==
    ASSUME IInv, Receive
    PROVE  IInv'
<1>1. PICK n \in Nat : /\ got' = got + n /\ data_size' = n
                       /\ pc' = IF n > 0 THEN "scan" ELSE "recv"
    BY ReceiveStep
<1>2. UNCHANGED <<out, copy>> /\ data' = got /\ got \in Nat /\ pc = "recv"
    BY DEF Receive, IInv, TypeOK
<1>3. got' <= StreamLen
    <2>1. PICK b \in BlockLens :
              got' = got + (IF got + b <= StreamLen THEN b ELSE StreamLen - got)
        BY DEF Receive
    <2>2. b \in Nat /\ StreamLen \in Nat
        BY SizesAssumption
    <2>3. QED
        BY <1>2, <2>1, <2>2
<1>4. TypeOK'
    <2>1. whole' \subseteq marks' /\ marks' = marks
        BY DEF Receive, Visible, IInv, TypeOK
    <2>2. file' \in Nat
        BY DEF Receive, IInv, TypeOK
    <2>3. got' \in Nat /\ pc' \in {"recv", "scan"}
        BY <1>1, <1>2
    <2>4. QED
        BY <1>1, <1>3, <2>1, <2>2, <2>3 DEF Receive, IInv, TypeOK
<1>5. WrittenTo(got)
    BY <1>2 DEF IInv, RestIsUnwritten, AllWritten
<1>6. Plain => got = Begin(Len(out) + 1)
    BY <1>2 DEF IInv, RestIsUnwritten
<1>7. n > 0 \/ got' = got
    BY <1>1, <1>2
<1>8. RestIsUnwritten'
    <2>1. (pc = "scan" => data + data_size = got /\ WrittenTo(data))'
        BY <1>1, <1>2, <1>5 DEF WrittenTo
    <2>2. (Plain => Begin(Len(out) + 1) = IF pc = "scan" THEN data ELSE got)'
        BY <1>1, <1>2, <1>6, <1>7, SameBegin DEF Plain
    <2>3. AllWritten'
        BY <1>1, <1>2, <1>5, <1>7 DEF AllWritten, WrittenTo
    <2>4. QED
        BY <2>1, <2>2, <2>3 DEF RestIsUnwritten
<1>9. Contiguous'
    BY <1>2, SameBegin DEF IInv, Contiguous, Plain
<1>10. QED
    BY <1>4, <1>8, <1>9 DEF IInv

\* What a marker at index j means for the pointers.
LEMMA MatchPointers ==
    ASSUME IInv, Match
    PROVE  /\ data' \in Nat /\ data_size' \in Nat /\ i' \in Nat
           /\ data < data' /\ data' + data_size' = got'
           /\ file' \in Nat /\ spillcount' \in Nat
           /\ UNCHANGED <<copy, marks, whole, got, cdata, pc>> /\ pc = "scan"
<1>1. PICK j \in i..data_size :
          /\ IsMark(j)
          /\ data' = data + j + MarkLen
          /\ data_size' = data_size - (j + MarkLen)
          /\ i' = IndexAfter(j)
    BY DEF Match
<1>2. pc = "scan" /\ UNCHANGED <<copy, marks, whole, got, cdata, pc>>
    BY DEF Match, blockVars
<1>3. /\ i \in Nat /\ data \in Nat /\ data_size \in Nat /\ got \in Nat
      /\ data + data_size = got
    BY <1>2 DEF IInv, TypeOK, RestIsUnwritten
<1>4. j \in Nat /\ data + j + MarkLen <= got
    BY <1>1, <1>3 DEF IsMark, Visible
<1>5. data' \in Nat /\ data_size' \in Nat /\ i' \in Nat /\ data < data'
    BY <1>1, <1>3, <1>4, MarkLenType DEF IndexAfter
<1>6. data' + data_size' = got'
    BY <1>1, <1>2, <1>3, <1>4, MarkLenType
<1>7. spillcount' \in Nat
    BY DEF Match, IInv, TypeOK
<1>8. file' = file \/ file' = file + 1
    BY DEF Match, NextFile
<1>9. file' \in Nat
    BY <1>8 DEF IInv, TypeOK
<1>10. QED
    BY <1>2, <1>5, <1>6, <1>7, <1>9

\* The writes of Match: the one that ends with the marker, and what is left, which
\* has no time after it.
LEMMA MatchWrites ==
    ASSUME IInv, Match
    PROVE  \E s \in Seq(WriteRecord) :
               /\ out' = out \o s
               /\ Len(s) > 0 /\ s[1] = Write(file, data, data', TRUE)
               /\ Plain => Len(s) = 1
               /\ \A n \in 1..Len(s) : n # 1 => ~s[n].stamped /\ s[n].file = file'
<1> DEFINE w == Write(file, data, data', TRUE)
           left == LeftoverWrite(file', data_size', data')
<1>1. out \in Seq(WriteRecord) /\ data \in Nat /\ cdata \in Nat /\ file \in Nat
      /\ copy \in Copy
    BY DEF IInv, TypeOK
<1>2. w \in WriteRecord
    BY <1>1, MatchPointers DEF Write, WriteRecord
<1>3. out' = Append(out, w) \o left
    BY DEF Match
<1>4. left = <<>> \/ (~Plain /\ \E v \in WriteRecord :
                         left = <<v>> /\ ~v.stamped /\ v.file = file')
    <2>1. CASE data_size' = 0 \/ Plain
        <3>1. left = <<>>
            BY <2>1 DEF LeftoverWrite
        <3>2. QED
            BY <3>1
    <2>2. CASE data_size' # 0 /\ copy = "dtrear"
        <3> DEFINE v == Write(file', cdata, cdata + data_size', FALSE)
        <3>1. v \in WriteRecord /\ ~v.stamped /\ v.file = file'
            BY <1>1, MatchPointers DEF Write, WriteRecord
        <3>2. ~Plain
            BY <2>2 DEF Plain
        <3>3. left = <<v>>
            BY <2>2, <3>2 DEF LeftoverWrite
        <3>4. QED
            BY <3>1, <3>2, <3>3
    <2>3. CASE data_size' # 0 /\ copy = "dtrearhul"
        <3> DEFINE v == Write(file', data', data' + data_size', FALSE)
        <3>1. v \in WriteRecord /\ ~v.stamped /\ v.file = file'
            BY <1>1, MatchPointers DEF Write, WriteRecord
        <3>2. ~Plain
            BY <2>3 DEF Plain
        <3>3. left = <<v>>
            BY <2>3, <3>2 DEF LeftoverWrite
        <3>4. QED
            BY <3>1, <3>2, <3>3
    <2>4. QED
        BY <1>1, <2>1, <2>2, <2>3 DEF Copy, Plain
<1> HIDE DEF w, left
<1>5. /\ left \in Seq(WriteRecord) /\ (Plain => left = <<>>)
      /\ \A n \in 1..Len(left) : ~left[n].stamped /\ left[n].file = file'
    <2>1. CASE left = <<>>
        BY <2>1
    <2>2. CASE ~Plain /\ \E v \in WriteRecord : left = <<v>> /\ ~v.stamped /\ v.file = file'
        <3>1. PICK v \in WriteRecord : left = <<v>> /\ ~v.stamped /\ v.file = file'
            BY <2>2
        <3>2. left \in Seq(WriteRecord) /\ \A n \in 1..Len(left) : left[n] = v
            BY <3>1
        <3>3. QED
            BY <2>2, <3>1, <3>2, Zenon
    <2>3. QED
        BY <1>4, <2>1, <2>2
<1>6. Append(out, w) = out \o <<w>> /\ <<w>> \in Seq(WriteRecord)
    BY <1>1, <1>2
<1> DEFINE s == <<w>> \o left
<1>7. out' = out \o s
    BY <1>1, <1>3, <1>5, <1>6, ConcatAssociative
<1>8. /\ s \in Seq(WriteRecord)
      /\ Len(s) = 1 + Len(left) /\ Len(left) \in Nat
      /\ s[1] = w
      /\ \A n \in 1..Len(left) : s[1 + n] = left[n]
    BY <1>5, <1>6, ConcatProperties
<1>9. Plain => Len(s) = 1
    BY <1>5, <1>8
<1> HIDE DEF s
<1>10. s[1] = Write(file, data, data', TRUE) /\ Len(s) > 0
    BY <1>8 DEF w
<1>11. ASSUME NEW n \in 1..Len(s), n # 1
       PROVE  ~s[n].stamped /\ s[n].file = file'
    <2> DEFINE m == n - 1
    <2>1. m \in 1..Len(left) /\ s[n] = left[m]
        BY <1>8, <1>11
    <2> HIDE DEF m
    <2>2. QED
        BY <1>5, <2>1, Zenon
<1>12. QED
    BY <1>7, <1>8, <1>9, <1>10, <1>11, Zenon

LEMMA MatchIInv ==
    ASSUME IInv, Match
    PROVE  IInv'
<1>1. PICK s \in Seq(WriteRecord) :
          /\ out' = out \o s
          /\ Len(s) > 0 /\ s[1] = Write(file, data, data', TRUE)
          /\ Plain => Len(s) = 1
    BY MatchWrites
<1>2. /\ out \in Seq(WriteRecord) /\ data \in Nat /\ pc = "scan" /\ pc' = "scan"
      /\ s[1].from = data /\ s[1].to = data'
    BY <1>1, MatchPointers DEF Write, IInv, TypeOK
<1>3. TypeOK'
    <2>1. out' \in Seq(WriteRecord)
        BY <1>1, <1>2, WritesStay
    <2>2. is_spill_end' \in BOOLEAN
        BY DEF Match
    <2>3. QED
        BY <2>1, <2>2, MatchPointers DEF IInv, TypeOK
<1>4. WrittenTo(data)'
    <2>1. WrittenTo(data)
        BY <1>2 DEF IInv, RestIsUnwritten
    <2>2. \A p \in 0..(data' - 1) :
              \E n \in 1..Len(out') : out'[n].from <= p /\ p < out'[n].to
        BY <1>1, <1>2, <2>1, MatchPointers, WrittenFurther
    <2>3. QED
        BY <2>2 DEF WrittenTo
<1>5. ASSUME Plain
      PROVE  Begin(Len(out) + 1)' = data' /\ StreamKept'
    <2>1. data = Begin(Len(out) + 1) /\ StreamKept
        BY <1>2, <1>5 DEF IInv, RestIsUnwritten, Contiguous
    <2>2. QED
        BY <1>1, <1>2, <1>5, <2>1, OneMoreWrite
<1>6. RestIsUnwritten' /\ Contiguous'
    BY <1>2, <1>4, <1>5, MatchPointers DEF RestIsUnwritten, AllWritten, Contiguous, Plain
<1>7. QED
    BY <1>3, <1>6 DEF IInv

LEMMA PassEndsIInv ==
    ASSUME IInv, PassEnds
    PROVE  IInv'
<1>1. UNCHANGED <<copy, marks, whole, got, cdata, out, data, data_size>>
    BY DEF PassEnds, blockVars
<1>2. TypeOK'
    BY <1>1 DEF PassEnds, IInv, TypeOK
<1>3. /\ pc = "scan" /\ data + data_size = got /\ data \in Nat /\ data_size \in Nat
      /\ WrittenTo(data)
    BY DEF PassEnds, IInv, RestIsUnwritten, TypeOK
<1>4. pc' = IF data_size > 0 THEN "scan" ELSE "recv"
    BY DEF PassEnds
<1>5. pc' = "recv" => got = data
    BY <1>3, <1>4
<1>6. WrittenTo(data)'
    BY <1>1, <1>3 DEF WrittenTo
<1>7. pc' = "recv" => WrittenTo(got)'
    BY <1>1, <1>5, <1>6 DEF WrittenTo
<1>8. Plain => Begin(Len(out) + 1)' = data
    BY <1>1, <1>3, SameBegin DEF IInv, RestIsUnwritten
<1>9. RestIsUnwritten'
    <2>1. (pc = "scan" => data + data_size = got /\ WrittenTo(data))'
        BY <1>1, <1>3, <1>6
    <2>2. (Plain => Begin(Len(out) + 1) = IF pc = "scan" THEN data ELSE got)'
        BY <1>1, <1>4, <1>5, <1>8 DEF Plain
    <2>3. QED
        BY <1>7, <2>1, <2>2 DEF RestIsUnwritten, AllWritten
<1>10. Contiguous'
    BY <1>1, SameBegin DEF IInv, Contiguous, Plain
<1>11. QED
    BY <1>2, <1>9, <1>10 DEF IInv

\* The rest is one write without the time, or none.
LEMMA RestWrites ==
    ASSUME IInv, WriteRest
    PROVE  \E s \in Seq(WriteRecord) :
               /\ out' = out \o s
               /\ \/ data = got /\ s = <<>>
                  \/ Len(s) = 1 /\ s[1] = Write(file, data, got, FALSE)
<1> DEFINE w == Write(file, data, got, FALSE)
<1>1. /\ out \in Seq(WriteRecord) /\ data \in Nat /\ got \in Nat /\ file \in Nat
      /\ data_size \in Nat /\ data + data_size = got
    BY DEF IInv, TypeOK, WriteRest, RestIsUnwritten
<1>2. w \in WriteRecord
    BY <1>1 DEF Write, WriteRecord
<1>3. out' = (IF data_size = 0 THEN out ELSE Append(out, w))
    BY <1>1 DEF WriteRest
<1> HIDE DEF w
<1>4. CASE data_size = 0
    <2>1. out' = out \o <<>> /\ <<>> \in Seq(WriteRecord)
        BY <1>1, <1>3, <1>4
    <2>2. data = got
        BY <1>1, <1>4
    <2>3. QED
        BY <2>1, <2>2
<1>5. CASE data_size # 0
    <2>1. out' = out \o <<w>> /\ <<w>> \in Seq(WriteRecord)
        BY <1>1, <1>2, <1>3, <1>5
    <2>2. Len(<<w>>) = 1 /\ <<w>>[1] = w
        OBVIOUS
    <2>3. QED
        BY <2>1, <2>2, Zenon DEF w
<1>6. QED
    BY <1>4, <1>5

LEMMA WriteRestIInv ==
    ASSUME IInv, WriteRest
    PROVE  IInv'
<1>1. PICK s \in Seq(WriteRecord) :
          /\ out' = out \o s
          /\ \/ data = got /\ s = <<>>
             \/ Len(s) = 1 /\ s[1] = Write(file, data, got, FALSE)
    BY RestWrites
<1>2. /\ out \in Seq(WriteRecord) /\ data \in Nat /\ got \in Nat
      /\ pc = "scan" /\ pc' = "recv" /\ WrittenTo(data)
      /\ UNCHANGED <<copy, marks, whole, got, cdata>>
    BY DEF IInv, TypeOK, WriteRest, RestIsUnwritten, blockVars
<1>3. TypeOK'
    <2>1. out' \in Seq(WriteRecord)
        BY <1>1, <1>2, WritesStay
    <2>2. QED
        BY <1>2, <2>1 DEF WriteRest, IInv, TypeOK
<1>4. WrittenTo(got)'
    <2>1. data = got \/ (Len(s) > 0 /\ s[1].from = data /\ s[1].to = got)
        BY <1>1 DEF Write
    <2>2. \A p \in 0..(got - 1) :
              \E n \in 1..Len(out') : out'[n].from <= p /\ p < out'[n].to
        BY <1>1, <1>2, <2>1, WrittenFurther
    <2>3. QED
        BY <1>2, <2>2 DEF WrittenTo
<1>5. ASSUME Plain
      PROVE  Begin(Len(out) + 1)' = got /\ StreamKept'
    <2>1. data = Begin(Len(out) + 1) /\ StreamKept
        BY <1>2, <1>5 DEF IInv, RestIsUnwritten, Contiguous
    <2>2. CASE data = got /\ s = <<>>
        <3>1. out' = out
            BY <1>1, <1>2, <2>2
        <3>2. QED
            BY <2>1, <2>2, <3>1, SameBegin
    <2>3. CASE Len(s) = 1 /\ s[1] = Write(file, data, got, FALSE)
        <3>1. s[1].from = data /\ s[1].to = got
            BY <2>3 DEF Write
        <3>2. QED
            BY <1>1, <1>2, <2>1, <2>3, <3>1, OneMoreWrite
    <2>4. QED
        BY <1>1, <2>2, <2>3
<1>6. RestIsUnwritten' /\ Contiguous'
    BY <1>2, <1>4, <1>5 DEF RestIsUnwritten, AllWritten, Contiguous, Plain
<1>7. QED
    BY <1>3, <1>6 DEF IInv

LEMMA StutterIInv == IInv /\ UNCHANGED vars => IInv'
<1> SUFFICES ASSUME IInv, UNCHANGED vars PROVE IInv'
    OBVIOUS
<1>1. TypeOK'
    BY DEF IInv, TypeOK, vars, blockVars
<1>2. Contiguous'
    BY SameBegin DEF IInv, Contiguous, Plain, vars, blockVars
<1>3. RestIsUnwritten'
    BY SameBegin DEF IInv, RestIsUnwritten, AllWritten, WrittenTo, Plain, vars, blockVars
<1>4. QED
    BY <1>1, <1>2, <1>3 DEF IInv

LEMMA NextIInv == IInv /\ [Next]_vars => IInv'
BY ReceiveIInv, MatchIInv, PassEndsIInv, WriteRestIInv, StutterIInv
   DEF Next, Scan

(***************************************************************************)
(* IInv holds in every reachable state of every instance.                  *)
(***************************************************************************)
THEOREM Invariance == Spec => []IInv
BY InitIInv, NextIInv, PTL DEF Spec

(***************************************************************************)
(* The files of be, benb, thtdcreader and fctreader, read one after        *)
(* another without the times, are the stream: be.cxx:104-141 and           *)
(* fctreader.cxx:122-152 lose, repeat and move nothing.                    *)
(***************************************************************************)
THEOREM StreamIsStored == Spec => []Contiguous
<1>1. IInv => Contiguous
    BY DEF IInv
<1>2. QED
    BY <1>1, Invariance, PTL

(***************************************************************************)
(* Every copy of the loop, the ones with a leftover write too, has written *)
(* every byte it was given when it leaves a block.                         *)
(***************************************************************************)
THEOREM BlocksAreFinished == Spec => []AllWritten
<1>1. IInv => AllWritten
    BY DEF IInv, RestIsUnwritten
<1>2. QED
    BY <1>1, Invariance, PTL

-----------------------------------------------------------------------------
(* Which markers are overlooked *)

\* A stamped marker stays one, and one that was passed over too.
LEMMA StampedStays ==
    ASSUME out \in Seq(WriteRecord), NEW s \in Seq(WriteRecord), out' = out \o s,
           UNCHANGED copy, NEW p, Stamped(p) \/ PassedOver(p)
    PROVE  (Stamped(p) \/ PassedOver(p))'
<1>1. MarkLen' = MarkLen /\ Stride' = Stride
    BY DEF MarkLen, Stride
<1>2. CASE Stamped(p)
    BY <1>1, <1>2, WritesStay DEF Stamped
<1>3. CASE PassedOver(p)
    <2>1. PICK n, m \in 1..Len(out) :
              /\ out[n].stamped /\ out[m].stamped
              /\ out[m].from = out[n].to
              /\ out[n].to <= p /\ p + MarkLen < out[m].to
              /\ (p - out[n].to) + MarkLen < (out[n].to - out[n].from) + Stride
        BY <1>3 DEF PassedOver
    <2>2. /\ n \in 1..Len(out') /\ m \in 1..Len(out')
          /\ out'[n] = out[n] /\ out'[m] = out[m]
        BY WritesStay
    <2>3. copy' # "fct"
        BY <1>3 DEF PassedOver
    <2>4. PassedOver(p)'
        BY <1>1, <2>1, <2>2, <2>3 DEF PassedOver
    <2>5. QED
        BY <2>4
<1>4. QED
    BY <1>2, <1>3

LEMMA SameStamps ==
    ASSUME UNCHANGED <<out, copy>>
    PROVE  \A p : (Stamped(p) \/ PassedOver(p))' <=> (Stamped(p) \/ PassedOver(p))
BY DEF Stamped, PassedOver, MarkLen, Stride

\* Inside the loops the stream and its division stay.
LEMMA ScanDivides ==
    ASSUME Divided, UNCHANGED blockVars
    PROVE  Divided' /\ MarkLen' = MarkLen /\ Stride' = Stride
BY DEF Divided, IsMarkSet, Visible, MarkLen, Stride, blockVars

\* What has been received of a block is Visible, or of an earlier block.
LEMMA OfThisBlock ==
    ASSUME IInv, Divided, NEW p \in whole, cdata <= p
    PROVE  p \in Visible
<1>1. p \in Nat /\ cdata \in Nat
    BY DEF IInv, TypeOK
<1>2. ~(p + MarkLen <= cdata)
    BY <1>1, MarkLenType
<1>3. QED
    BY <1>2 DEF Divided

LEMMA InitStamps == Init => StampInv
<1> SUFFICES ASSUME Init PROVE StampInv
    OBVIOUS
<1>1. got = 0 /\ cdata = 0 /\ whole = {} /\ marks \subseteq Position
    BY DEF Init
<1>2. Visible = {}
    <2>1. \A p \in marks : p \in Nat
        BY <1>1, SizesAssumption DEF Position
    <2>2. \A p \in marks : ~(p + MarkLen <= got)
        BY <1>1, <2>1, MarkLenType
    <2>3. QED
        BY <2>2 DEF Visible
<1>3. Divided
    BY <1>1, <1>2 DEF Init, Divided
<1>4. QED
    BY <1>1, <1>3 DEF Init, StampInv, FoundBehind, OnlyShortSpillsMissed

LEMMA ReceiveStamps ==
    ASSUME IInv, StampInv, Receive
    PROVE  StampInv'
<1>1. PICK n \in Nat : /\ got' = got + n /\ data_size' = n
                       /\ pc' = IF n > 0 THEN "scan" ELSE "recv"
    BY ReceiveStep
<1>2. /\ pc = "recv" /\ UNCHANGED <<copy, marks, out>>
      /\ data' = got /\ cdata' = got /\ i' = 0
      /\ whole' = whole \union Visible'
    BY DEF Receive
<1>3. /\ got \in Nat /\ cdata \in Nat /\ got <= got' /\ cdata <= got
      /\ whole \subseteq Nat /\ marks \subseteq Nat
    BY <1>1 DEF IInv, TypeOK, StampInv, Divided
<1>4. MarkLen' = MarkLen /\ Stride' = Stride
    BY <1>2 DEF MarkLen, Stride
<1>5. \A p \in whole : p + MarkLen <= got
    BY <1>3, MarkLenType DEF StampInv, Divided, Visible
<1>6. \A p \in Visible' : got <= p /\ p + MarkLen <= got' /\ p \in Nat
    BY <1>2, <1>3, <1>4 DEF Visible
<1>7. \A p \in whole : Stamped(p) \/ PassedOver(p)
    BY <1>2 DEF StampInv, OnlyShortSpillsMissed
<1>8. Divided'
    <2>1. IsMarkSet(marks)'
        BY <1>2, <1>4 DEF StampInv, Divided, IsMarkSet
    <2>2. QED
        BY <1>2, <1>3, <1>4, <1>5, <2>1 DEF Divided
<1>9. FoundBehind'
    <2>1. ASSUME NEW p \in whole', p < got
          PROVE  p + MarkLen <= got /\ (Stamped(p) \/ PassedOver(p))'
        <3>1. p \in whole
            BY <1>2, <1>3, <1>6, <2>1
        <3>2. QED
            BY <1>2, <1>5, <1>7, <3>1, SameStamps
    <2>2. ~(0 > 0)
        OBVIOUS
    <2>3. QED
        BY <1>2, <1>3, <1>4, <2>1, <2>2 DEF FoundBehind
<1>10. OnlyShortSpillsMissed'
    <2>1. SUFFICES ASSUME pc' = "recv", NEW p \in whole'
                   PROVE  (Stamped(p) \/ PassedOver(p))'
        BY DEF OnlyShortSpillsMissed
    <2>2. got' = got
        BY <1>1, <1>3, <2>1
    <2>3. p \in whole
        BY <1>2, <1>3, <1>6, <2>2, MarkLenType
    <2>4. QED
        BY <1>2, <1>7, <2>3, SameStamps
<1>11. QED
    BY <1>8, <1>9, <1>10 DEF StampInv

\* The marker the for loop comes to, and those it has passed over on its way.
LEMMA MatchFindsNext ==
    ASSUME IInv, Divided, FoundBehind, Match
    PROVE  \E P \in Visible :
               /\ data <= P /\ data' = P + MarkLen
               /\ i' > 0 => i' + MarkLen = (data' - data) + Stride
               /\ \A p \in whole : data <= p /\ p < data' =>
                      p = P \/ (p + MarkLen <= P /\ p - data < i)
<1>1. PICK j \in i..data_size :
          /\ IsMark(j)
          /\ \A l \in i..(j - 1) : ~IsMark(l)
          /\ data' = data + j + MarkLen
          /\ i' = IndexAfter(j)
    BY DEF Match
<1> DEFINE P == data + j
<1>2. /\ i \in Nat /\ j \in Nat /\ data \in Nat /\ data_size \in Nat /\ cdata \in Nat
      /\ got \in Nat /\ marks \subseteq Nat
    BY <1>1 DEF IInv, TypeOK
<1>3. P \in Visible /\ P \in marks /\ P \in Nat
    BY <1>1, <1>2 DEF IsMark, Visible
<1>4. pc = "scan" /\ cdata <= data
    BY DEF Match, FoundBehind
<1>5. ASSUME NEW p \in whole, data <= p, p < data', p # P
      PROVE  p + MarkLen <= P /\ p - data < i
    <2>1. p \in marks /\ p \in Nat
        BY DEF IInv, TypeOK
    <2>2. p \in Visible
        BY <1>2, <1>4, <1>5, <2>1, OfThisBlock
    <2>3. ~(P < p)
        BY <1>1, <1>2, <1>3, <1>5, <2>1, MarkLenType DEF Divided, IsMarkSet
    <2>4. p + MarkLen <= P
        BY <1>3, <1>5, <2>1, <2>3 DEF Divided, IsMarkSet
    <2> DEFINE l == p - data
    <2>5. l \in Nat /\ data + l = p /\ l < j
        BY <1>2, <1>5, <2>1, <2>4, MarkLenType
    <2>6. IsMark(l)
        BY <2>2, <2>5 DEF IsMark
    <2>7. l < i
        BY <1>1, <1>2, <2>5, <2>6
    <2>8. QED
        BY <2>4, <2>7
<1>6. data <= P /\ data' = P + MarkLen
    BY <1>1, <1>2
<1>7. i' > 0 => i' + MarkLen = (data' - data) + Stride
    BY <1>1, <1>2, MarkLenType DEF IndexAfter
<1> HIDE DEF P
<1>8. QED
    BY <1>3, <1>5, <1>6, <1>7

LEMMA MatchStamps ==
    ASSUME IInv, StampInv, Match
    PROVE  StampInv'
<1>1. Divided' /\ MarkLen' = MarkLen /\ Stride' = Stride
    BY ScanDivides DEF Match, StampInv
<1>2. Divided /\ FoundBehind /\ pc = "scan"
    BY DEF StampInv, Match
<1>3. PICK P \in Visible :
          /\ data <= P /\ data' = P + MarkLen
          /\ i' > 0 => i' + MarkLen = (data' - data) + Stride
          /\ \A p \in whole : data <= p /\ p < data' =>
                 p = P \/ (p + MarkLen <= P /\ p - data < i)
    BY <1>2, MatchFindsNext
<1>4. PICK s \in Seq(WriteRecord) :
          /\ out' = out \o s
          /\ Len(s) > 0 /\ s[1] = Write(file, data, data', TRUE)
    BY MatchWrites
<1>5. pc' = "scan" /\ UNCHANGED <<copy, marks, cdata, whole>>
    BY <1>2, MatchPointers
<1>6. /\ out \in Seq(WriteRecord) /\ data \in Nat /\ data' \in Nat /\ cdata \in Nat
      /\ P \in Nat /\ whole \subseteq Nat /\ i \in Nat
    BY MatchPointers DEF IInv, TypeOK, Visible
<1> DEFINE last == Len(out) + 1
<1>7. /\ last \in 1..Len(out') /\ out'[last].stamped
      /\ out'[last].from = data /\ out'[last].to = data'
    <2>1. 1 \in 1..Len(s)
        BY <1>4
    <2>2. last \in 1..Len(out') /\ out'[last] = s[1]
        BY <1>4, <1>6, <2>1, WritesStay
    <2>3. QED
        BY <1>4, <2>2 DEF Write
<1> HIDE DEF last
<1>8. ASSUME NEW p \in whole, p < data'
      PROVE  p + MarkLen <= data' /\ (Stamped(p) \/ PassedOver(p))'
    <2>0. p \in Nat
        BY <1>6
    <2>1. CASE p < data
        <3>1. p + MarkLen <= data /\ (Stamped(p) \/ PassedOver(p))
            BY <1>2, <2>1 DEF FoundBehind
        <3>2. (Stamped(p) \/ PassedOver(p))'
            BY <1>4, <1>5, <1>6, <3>1, StampedStays
        <3>3. QED
            BY <1>6, <2>0, <3>1, <3>2, MarkLenType, MatchPointers
    <2>2. CASE p = P
        <3>1. Stamped(p)'
            BY <1>1, <1>3, <1>7, <2>2 DEF Stamped
        <3>2. QED
            BY <1>3, <1>6, <2>2, <3>1, MarkLenType
    <2>3. CASE data <= p /\ p # P
        <3>1. p + MarkLen <= P /\ p - data < i
            BY <1>3, <1>8, <2>3
        <3>2. i > 0
            BY <1>6, <2>0, <2>3, <3>1
        <3>3. copy # "fct"
            BY <1>2, <3>2 DEF FoundBehind
        <3>4. PICK n \in 1..Len(out) :
                  /\ out[n].stamped /\ out[n].to = data
                  /\ i + MarkLen = (data - out[n].from) + Stride
            BY <1>2, <3>2 DEF FoundBehind
        <3>5. n \in 1..Len(out') /\ out'[n] = out[n]
            BY <1>4, <1>6, WritesStay
        <3>6. (p - data) + MarkLen < (data - out[n].from) + Stride
            BY <1>6, <2>0, <3>1, <3>4, MarkLenType
        <3>7. p + MarkLen < data'
            BY <1>3, <1>6, <2>0, <3>1, MarkLenType
        <3>8. PassedOver(p)'
            BY <1>1, <1>5, <1>7, <2>3, <3>3, <3>4, <3>5, <3>6, <3>7 DEF PassedOver
        <3>9. QED
            BY <3>7, <3>8, <1>6, <2>0, MarkLenType
    <2>4. QED
        BY <1>6, <2>0, <2>1, <2>2, <2>3
<1>9. i' > 0 => copy # "fct" /\ is_spill_end'
    <2>1. PICK j \in i..data_size : i' = IndexAfter(j)
        BY DEF Match
    <2>2. copy = "fct" => i' = 0
        BY <2>1 DEF IndexAfter
    <2>3. is_spill_end' = (copy # "fct")
        BY DEF Match
    <2>4. copy # "fct" => is_spill_end'
        BY <2>3, Zenon
    <2>5. ~(0 > 0)
        OBVIOUS
    <2>6. QED
        BY <2>2, <2>4, <2>5, Zenon
<1>10. cdata <= data'
    BY <1>2, <1>6, MatchPointers DEF FoundBehind
<1>11. i' > 0 => \E n \in 1..Len(out') :
           /\ out'[n].stamped /\ out'[n].to = data'
           /\ i' + MarkLen = (data' - out'[n].from) + Stride
    BY <1>3, <1>7
<1>12. FoundBehind'
    BY <1>1, <1>5, <1>8, <1>9, <1>10, <1>11 DEF FoundBehind
<1>13. OnlyShortSpillsMissed'
    BY <1>5 DEF OnlyShortSpillsMissed
<1>14. QED
    BY <1>1, <1>12, <1>13 DEF StampInv

\* When the end of the block is reached, everything of it is behind data.
LEMMA PassEndsStamps ==
    ASSUME IInv, StampInv, PassEnds
    PROVE  StampInv'
<1>1. Divided' /\ MarkLen' = MarkLen /\ Stride' = Stride
    BY ScanDivides DEF PassEnds, StampInv
<1>2. /\ pc = "scan" /\ i' = 0
      /\ UNCHANGED <<copy, marks, cdata, whole, got, data, data_size, out>>
    BY DEF PassEnds, blockVars
<1>3. ~(0 > 0)
    OBVIOUS
<1>4. FoundBehind'
    BY <1>1, <1>2, <1>3, SameStamps DEF StampInv, FoundBehind
<1>5. OnlyShortSpillsMissed'
    <2>1. SUFFICES ASSUME pc' = "recv", NEW p \in whole
                   PROVE  Stamped(p) \/ PassedOver(p)
        BY <1>2, SameStamps DEF OnlyShortSpillsMissed
    <2>2. data = got /\ data \in Nat /\ cdata \in Nat /\ p \in Nat /\ got \in Nat
        BY <1>2, <2>1 DEF PassEnds, IInv, TypeOK, RestIsUnwritten
    <2>3. p < data
        BY <2>1, <2>2, MarkLenType DEF StampInv, Divided, Visible
    <2>4. QED
        BY <1>2, <2>3 DEF StampInv, FoundBehind
<1>6. QED
    BY <1>1, <1>4, <1>5 DEF StampInv

\* A pass that starts at index 0 and finds nothing has left no marker out.
LEMMA NothingLeft ==
    ASSUME IInv, Divided, FoundBehind, WriteRest, NEW p \in whole
    PROVE  p < data
<1>1. /\ pc = "scan" /\ i \in Nat /\ ~(i > 0) /\ data + data_size = got /\ NoMarkLeft
      /\ data \in Nat /\ data_size \in Nat /\ p \in Nat /\ cdata \in Nat /\ cdata <= data
    BY DEF WriteRest, IInv, TypeOK, FoundBehind, RestIsUnwritten
<1>2. SUFFICES ASSUME ~(p < data) PROVE FALSE
    OBVIOUS
<1>3. p \in Visible
    BY <1>1, <1>2, OfThisBlock
<1> DEFINE l == p - data
<1>4. l \in i..data_size /\ data + l = p
    BY <1>1, <1>2, <1>3, MarkLenType DEF Visible
<1>5. IsMark(l)
    BY <1>3, <1>4 DEF IsMark
<1>6. QED
    BY <1>1, <1>4, <1>5 DEF NoMarkLeft

LEMMA WriteRestStamps ==
    ASSUME IInv, StampInv, WriteRest
    PROVE  StampInv'
<1>1. Divided'
    BY ScanDivides DEF WriteRest, StampInv
<1>2. pc = "scan" /\ pc' = "recv" /\ UNCHANGED <<copy, whole>>
    BY DEF WriteRest, blockVars
<1>3. PICK s \in Seq(WriteRecord) : out' = out \o s
    BY RestWrites
<1>4. out \in Seq(WriteRecord)
    BY DEF IInv, TypeOK
<1>5. OnlyShortSpillsMissed'
    <2>1. SUFFICES ASSUME NEW p \in whole
                   PROVE  (Stamped(p) \/ PassedOver(p))'
        BY <1>2 DEF OnlyShortSpillsMissed
    <2>2. p < data
        BY NothingLeft DEF StampInv
    <2>3. Stamped(p) \/ PassedOver(p)
        BY <1>2, <2>2 DEF StampInv, FoundBehind
    <2>4. QED
        BY <1>2, <1>3, <1>4, <2>3, StampedStays
<1>6. FoundBehind'
    BY <1>2 DEF FoundBehind
<1>7. QED
    BY <1>1, <1>5, <1>6 DEF StampInv

LEMMA StampInductive == IInv /\ StampInv /\ [Next]_vars => StampInv'
<1> SUFFICES ASSUME IInv, StampInv, [Next]_vars PROVE StampInv'
    OBVIOUS
<1>1. CASE UNCHANGED vars
    <2>1. Divided' /\ MarkLen' = MarkLen /\ Stride' = Stride
        BY <1>1, ScanDivides DEF vars, StampInv
    <2>2. UNCHANGED <<copy, out, whole, data, cdata, i, is_spill_end, pc>>
        BY <1>1 DEF vars, blockVars
    <2>3. FoundBehind' /\ OnlyShortSpillsMissed'
        BY <2>1, <2>2, SameStamps DEF StampInv, FoundBehind, OnlyShortSpillsMissed
    <2>4. QED
        BY <2>1, <2>3 DEF StampInv
<1>2. QED
    BY <1>1, ReceiveStamps, MatchStamps, PassEndsStamps, WriteRestStamps DEF Next, Scan

(***************************************************************************)
(* For every stream and every division into blocks, with as many markers   *)
(* in a block as there may be: a marker that lies in the words of one      *)
(* block goes without the time only if its spill is no longer than the     *)
(* stamped one before it and another marker follows in the block; none     *)
(* does in fctreader.                                                      *)
(***************************************************************************)
THEOREM OnlyShortSpillsAreMissed == Spec => []OnlyShortSpillsMissed
<1>1. StampInv => OnlyShortSpillsMissed
    BY DEF StampInv
<1>2. QED
    BY <1>1, InitStamps, StampInductive, Invariance, PTL DEF Spec

-----------------------------------------------------------------------------
(* The spills of a file *)

\* A number is its quotient times the divisor, and its remainder; and no other
\* remainder does that.
LEMMA Remainder ==
    ASSUME NEW n \in Nat, NEW N \in Nat \ {0}
    PROVE  /\ n % N \in 0..(N - 1)
           /\ \E q \in Int : n = N * q + (n % N)
<1>1. n \div N \in Int
    OBVIOUS
<1>2. n = N * (n \div N) + (n % N)
    BY <1>1
<1>3. n % N \in 0..(N - 1)
    OBVIOUS
<1>4. QED
    BY <1>1, <1>2, <1>3

LEMMA OnlyRemainder ==
    ASSUME NEW q \in Int, NEW N \in Nat \ {0}, NEW r \in 0..(N - 1)
    PROVE  (N * q + r) % N = r
OBVIOUS

\* Counting by one, remainders count from 0 to N-1 and start again.
LEMMA NextRemainder ==
    ASSUME NEW n \in Nat, NEW N \in Nat \ {0}
    PROVE  (n + 1) % N = IF n % N = N - 1 THEN 0 ELSE (n % N) + 1
<1>1. n % N \in 0..(N - 1)
    BY Remainder
<1>2. PICK q \in Int : n = N * q + (n % N)
    BY Remainder
<1> DEFINE r == n % N
<1>3. r \in Int /\ N * q \in Int
    BY <1>1
<1>4. n = N * q + r
    BY <1>2
<1> HIDE DEF r
<1>5. CASE r = N - 1
    <2>1. N * (q + 1) = N * q + N
        OBVIOUS
    <2>2. n + 1 = N * (q + 1) + 0
        BY <1>3, <1>4, <1>5, <2>1
    <2>3. (N * (q + 1) + 0) % N = 0
        BY OnlyRemainder
    <2>4. QED
        BY <1>5, <2>2, <2>3 DEF r
<1>6. CASE r # N - 1
    <2>1. n + 1 = N * q + (r + 1)
        BY <1>3, <1>4
    <2>2. r + 1 \in 0..(N - 1)
        BY <1>1, <1>6 DEF r
    <2>3. (N * q + (r + 1)) % N = r + 1
        BY <2>2, OnlyRemainder
    <2>4. QED
        BY <1>6, <2>1, <2>3 DEF r
<1>7. QED
    BY <1>5, <1>6

\* Both sets of a file are finite.
LEMMA FileSetsFinite ==
    ASSUME IInv, StampInv, NEW f
    PROVE  /\ IsFiniteSet(StampsIn(f)) /\ Cardinality(StampsIn(f)) \in Nat
           /\ IsFiniteSet(MarksIn(f)) /\ Cardinality(MarksIn(f)) \in Nat
<1>1. IsFiniteSet(1..Len(out)) /\ IsFiniteSet(0..got)
    BY FS_Interval DEF IInv, TypeOK
<1>2. StampsIn(f) \in SUBSET (1..Len(out))
    BY DEF StampsIn
<1>3. MarksIn(f) \in SUBSET (0..got)
    <2>1. ASSUME NEW p \in whole PROVE p \in 0..got
        BY MarkLenType DEF IInv, TypeOK, StampInv, Divided, Visible
    <2>2. QED
        BY <2>1 DEF MarksIn
<1>4. QED
    BY <1>1, <1>2, <1>3, FS_Subset, FS_CardinalityType

\* A step that writes nothing leaves the sets of every file, a new block too.
LEMMA SameFileSets ==
    ASSUME UNCHANGED <<copy, out>>, whole \subseteq whole',
           \A p \in whole' \ whole : \A n \in 1..Len(out) : ~(p + MarkLen <= out[n].to)
    PROVE  \A f : StampsIn(f)' = StampsIn(f) /\ MarksIn(f)' = MarksIn(f)
BY DEF StampsIn, MarksIn, MarkLen

\* A step that writes adds to the stamps the first of its writes, if it is one.
LEMMA StampsAfter ==
    ASSUME out \in Seq(WriteRecord), NEW s \in Seq(WriteRecord), out' = out \o s,
           \A n \in 1..Len(s) : n # 1 => ~s[n].stamped
    PROVE  \A f : StampsIn(f)' =
               IF Len(s) > 0 /\ s[1].stamped /\ s[1].file = f
               THEN StampsIn(f) \union {Len(out) + 1} ELSE StampsIn(f)
<1> SUFFICES ASSUME NEW f
             PROVE  StampsIn(f)' =
                        IF Len(s) > 0 /\ s[1].stamped /\ s[1].file = f
                        THEN StampsIn(f) \union {Len(out) + 1} ELSE StampsIn(f)
    OBVIOUS
<1>1. /\ Len(out) \in Nat /\ Len(s) \in Nat
      /\ Len(out') = Len(out) + Len(s)
      /\ \A n \in 1..Len(out) : n \in 1..Len(out') /\ out'[n] = out[n]
      /\ \A n \in 1..Len(s) : Len(out) + n \in 1..Len(out') /\ out'[Len(out) + n] = s[n]
    BY WritesStay
<1>2. StampsIn(f) \subseteq StampsIn(f)'
    BY <1>1 DEF StampsIn
<1>3. ASSUME NEW n \in StampsIn(f)', n \notin StampsIn(f)
      PROVE  n = Len(out) + 1 /\ Len(s) > 0 /\ s[1].stamped /\ s[1].file = f
    <2>1. n \in 1..Len(out') /\ out'[n].file = f /\ out'[n].stamped
        BY <1>3 DEF StampsIn
    <2>2. ~(n \in 1..Len(out))
        BY <1>1, <1>3, <2>1 DEF StampsIn
    <2> DEFINE m == n - Len(out)
    <2>3. m \in 1..Len(s) /\ Len(out) + m = n
        BY <1>1, <2>1, <2>2
    <2>4. out'[n] = s[m]
        BY <1>1, <2>3
    <2>5. m = 1
        BY <2>1, <2>3, <2>4
    <2>6. QED
        BY <2>1, <2>3, <2>4, <2>5
<1>4. ASSUME Len(s) > 0, s[1].stamped, s[1].file = f
      PROVE  Len(out) + 1 \in StampsIn(f)'
    <2>1. 1 \in 1..Len(s)
        BY <1>1, <1>4
    <2>2. Len(out) + 1 \in 1..Len(out') /\ out'[Len(out) + 1] = s[1]
        BY <1>1, <2>1
    <2>3. QED
        BY <1>4, <2>2 DEF StampsIn
<1>5. CASE Len(s) > 0 /\ s[1].stamped /\ s[1].file = f
    BY <1>2, <1>3, <1>4, <1>5
<1>6. CASE ~(Len(s) > 0 /\ s[1].stamped /\ s[1].file = f)
    BY <1>2, <1>3, <1>6
<1>7. QED
    BY <1>5, <1>6

\* Of the markers it adds those that are complete in what it writes, if that is one
\* write.
LEMMA MarksAfter ==
    ASSUME out \in Seq(WriteRecord), NEW s \in Seq(WriteRecord), out' = out \o s,
           UNCHANGED <<copy, whole>>, Len(s) = 1
    PROVE  \A f : MarksIn(f)' =
               IF s[1].file = f
               THEN MarksIn(f) \union
                        {p \in whole : s[1].from <= p /\ p + MarkLen <= s[1].to}
               ELSE MarksIn(f)
<1> DEFINE New == {p \in whole : s[1].from <= p /\ p + MarkLen <= s[1].to}
<1> SUFFICES ASSUME NEW f
             PROVE  MarksIn(f)' = IF s[1].file = f THEN MarksIn(f) \union New
                                                  ELSE MarksIn(f)
    OBVIOUS
<1>1. /\ Len(out) \in Nat
      /\ Len(out') = Len(out) + 1
      /\ \A n \in 1..Len(out) : n \in 1..Len(out') /\ out'[n] = out[n]
      /\ Len(out) + 1 \in 1..Len(out') /\ out'[Len(out) + 1] = s[1]
    <2>1. 1 \in 1..Len(s) /\ Len(out) \in Nat
        OBVIOUS
    <2>2. Len(out) + 1 \in 1..Len(out') /\ out'[Len(out) + 1] = s[1]
        BY <2>1, WritesStay
    <2>3. /\ Len(out') = Len(out) + 1
          /\ \A n \in 1..Len(out) : n \in 1..Len(out') /\ out'[n] = out[n]
        BY WritesStay
    <2>4. QED
        BY <2>1, <2>2, <2>3
<1>2. MarkLen' = MarkLen
    BY DEF MarkLen
<1>3. MarksIn(f) \subseteq MarksIn(f)'
    BY <1>1, <1>2 DEF MarksIn
<1>4. ASSUME NEW p \in MarksIn(f)', p \notin MarksIn(f)
      PROVE  s[1].file = f /\ p \in New
    <2>1. PICK n \in 1..Len(out') :
              /\ p \in whole /\ out'[n].file = f
              /\ out'[n].from <= p /\ p + MarkLen <= out'[n].to
        BY <1>2, <1>4 DEF MarksIn
    <2>2. ~(n \in 1..Len(out))
        BY <1>1, <1>4, <2>1 DEF MarksIn
    <2>3. n = Len(out) + 1
        BY <1>1, <2>1, <2>2
    <2>4. QED
        BY <1>1, <2>1, <2>3
<1>5. ASSUME s[1].file = f, NEW p \in New
      PROVE  p \in MarksIn(f)'
    BY <1>1, <1>2, <1>5 DEF MarksIn
<1> HIDE DEF New
<1>6. CASE s[1].file = f
    BY <1>3, <1>4, <1>5, <1>6
<1>7. CASE s[1].file # f
    BY <1>3, <1>4, <1>7
<1>8. QED
    BY <1>6, <1>7

LEMMA InitCounts == Init => CountInv
<1> SUFFICES ASSUME Init PROVE CountInv
    OBVIOUS
<1>1. out = <<>> /\ spillcount = 0 /\ (file = 0 \/ file = 1) /\ pc = "recv" /\ Len(out) = 0
    BY DEF Init
<1>2. \A f : MarksIn(f) = {} /\ StampsIn(f) = {}
    BY <1>1 DEF MarksIn, StampsIn
<1>3. 0 % NSpill = 0
    BY SizesAssumption
<1>4. /\ Cardinality(MarksIn(file)) = spillcount % NSpill
      /\ Cardinality(StampsIn(file)) = spillcount % NSpill
    BY <1>1, <1>2, <1>3, FS_EmptySet
<1>5. \A f \in 1..(file - 1) : FALSE
    BY <1>1
<1>6. QED
    BY <1>1, <1>4, <1>5 DEF CountInv, ClosedFiles

LEMMA ReceiveCounts ==
    ASSUME IInv, StampInv, CountInv, Receive
    PROVE  CountInv'
<1>1. PICK n \in Nat : /\ got' = got + n
                       /\ pc' = IF n > 0 THEN "scan" ELSE "recv"
    BY ReceiveStep
<1>2. /\ pc = "recv" /\ UNCHANGED <<copy, marks, out, spillcount>>
      /\ data' = got /\ cdata' = got
      /\ whole' = whole \union Visible'
      /\ file' = IF file = 0 THEN 1 ELSE file
    BY DEF Receive
<1>3. got \in Nat /\ file \in Nat /\ marks \subseteq Nat /\ out \in Seq(WriteRecord)
    BY DEF IInv, TypeOK
<1>4. CASE copy # "fct"
    <2>1. \A f : StampsIn(f)' = StampsIn(f)
        BY <1>2 DEF StampsIn
    <2>2. CASE file = 0
        <3>1. Len(out) = 0 /\ spillcount = 0 /\ file' = 1
            BY <1>2, <2>2 DEF CountInv
        <3>2. \A f : StampsIn(f) = {}
            BY <3>1 DEF StampsIn
        <3>3. Cardinality(StampsIn(file)') = spillcount' % NSpill
            BY <1>2, <3>1, <3>2, SizesAssumption, FS_EmptySet DEF StampsIn
        <3>4. \A f \in 1..(file' - 1) : FALSE
            BY <3>1
        <3>5. \A m \in 1..Len(out') : FALSE
            BY <1>2, <3>1
        <3>6. QED
            BY <1>2, <1>4, <3>1, <3>3, <3>4, <3>5 DEF CountInv, ClosedFiles
    <2>3. CASE file # 0
        BY <1>2, <1>4, <2>1, <2>3 DEF CountInv, ClosedFiles
    <2>4. QED
        BY <2>2, <2>3
<1>5. CASE copy = "fct"
    <2>1. \A m \in 1..Len(out) : out[m].to \in Nat /\ out[m].to <= got
        <3>1. \A m \in 1..Len(out) : out[m] \in WriteRecord
            BY <1>3
        <3>2. QED
            BY <1>2, <1>5, <3>1 DEF CountInv, WriteRecord
    <2>2. \A f : StampsIn(f)' = StampsIn(f) /\ MarksIn(f)' = MarksIn(f)
        <3>1. ASSUME NEW p \in whole' \ whole, NEW m \in 1..Len(out)
              PROVE  ~(p + MarkLen <= out[m].to)
            <4>1. p \in Nat /\ got <= p
                BY <1>2, <1>3 DEF Visible
            <4>2. QED
                BY <1>3, <2>1, <4>1, MarkLenType
        <3>2. QED
            BY <1>2, <3>1, SameFileSets
    <2>3. \A m \in 1..Len(out) : out[m].to <= IF pc' = "scan" THEN data' ELSE got'
        BY <1>1, <1>2, <1>3, <2>1
    <2>4. CASE file = 0
        <3>1. Len(out) = 0 /\ spillcount = 0 /\ file' = 1
            BY <1>2, <2>4 DEF CountInv
        <3>2. \A f : StampsIn(f) = {} /\ MarksIn(f) = {}
            BY <3>1 DEF StampsIn, MarksIn
        <3>3. /\ Cardinality(StampsIn(file)') = spillcount' % NSpill
              /\ Cardinality(MarksIn(file)') = spillcount' % NSpill
            <4>1. StampsIn(file)' = {} /\ MarksIn(file)' = {}
                BY <1>2, <3>1 DEF StampsIn, MarksIn
            <4>2. QED
                BY <1>2, <3>1, <4>1, SizesAssumption, FS_EmptySet
        <3>4. \A f \in 1..(file' - 1) : FALSE
            BY <3>1
        <3>5. \A m \in 1..Len(out') : FALSE
            BY <1>2, <3>1
        <3>6. QED
            BY <1>2, <3>1, <3>3, <3>4, <3>5 DEF CountInv, ClosedFiles
    <2>5. CASE file # 0
        <3>1. file' = file /\ UNCHANGED <<copy, out, spillcount>>
            BY <1>2, <2>5
        <3>2. /\ StampsIn(file)' = StampsIn(file) /\ MarksIn(file)' = MarksIn(file)
            BY <2>2, <3>1
        <3>3. ClosedFiles'
            BY <2>2, <3>1 DEF CountInv, ClosedFiles
        <3>4. QED
            BY <2>3, <2>5, <3>1, <3>2, <3>3 DEF CountInv
    <2>6. QED
        BY <2>4, <2>5
<1>6. QED
    BY <1>4, <1>5

\* Without a write or a new block nothing is counted anew.
LEMMA PassEndsCounts ==
    ASSUME IInv, CountInv, PassEnds
    PROVE  CountInv'
<1>1. UNCHANGED <<copy, whole, got, out, data, data_size, spillcount, file>>
    BY DEF PassEnds, blockVars
<1>2. pc = "scan" /\ data + data_size = got /\ data \in Nat /\ data_size \in Nat
        /\ pc' = IF data_size > 0 THEN "scan" ELSE "recv"
    BY DEF PassEnds, IInv, RestIsUnwritten, TypeOK
<1>3. (IF pc' = "scan" THEN data' ELSE got') = (IF pc = "scan" THEN data ELSE got)
    BY <1>1, <1>2
<1>4. \A f : StampsIn(f)' = StampsIn(f) /\ MarksIn(f)' = MarksIn(f)
    BY <1>1, SameFileSets
<1>5. StampsIn(file)' = StampsIn(file) /\ MarksIn(file)' = MarksIn(file)
    BY <1>1, <1>4
<1>6. ClosedFiles'
    BY <1>1, <1>4 DEF CountInv, ClosedFiles
<1>7. file # 0
    BY <1>2 DEF CountInv
<1>8. QED
    BY <1>1, <1>3, <1>5, <1>6, <1>7 DEF CountInv

\* Both sets of the open file grow by one when a marker is found, and no other does.
LEMMA MatchStampsOne ==
    ASSUME IInv, StampInv, CountInv, Match
    PROVE  /\ \A f : f = file =>
                  Cardinality(StampsIn(f)') = (spillcount % NSpill) + 1
           /\ \A f : f # file => StampsIn(f)' = StampsIn(f)
           /\ \A n \in 1..Len(out') : out'[n].file <= file'
<1>1. PICK s \in Seq(WriteRecord) :
          /\ out' = out \o s
          /\ Len(s) > 0 /\ s[1] = Write(file, data, data', TRUE)
          /\ \A n \in 1..Len(s) : n # 1 => ~s[n].stamped /\ s[n].file = file'
    BY MatchWrites
<1>2. out \in Seq(WriteRecord) /\ file \in Nat /\ Len(out) \in Nat
    BY DEF IInv, TypeOK
<1>3. s[1].stamped /\ s[1].file = file
    BY <1>1 DEF Write
<1>4. \A f : StampsIn(f)' = IF file = f THEN StampsIn(f) \union {Len(out) + 1}
                                       ELSE StampsIn(f)
    <2>1. \A f : StampsIn(f)' =
              IF Len(s) > 0 /\ s[1].stamped /\ s[1].file = f
              THEN StampsIn(f) \union {Len(out) + 1} ELSE StampsIn(f)
        BY <1>1, <1>2, StampsAfter
    <2>2. QED
        BY <1>1, <1>3, <2>1
<1>5. Len(out) + 1 \notin StampsIn(file)
    BY <1>2 DEF StampsIn
<1>6. Cardinality(StampsIn(file) \union {Len(out) + 1}) = Cardinality(StampsIn(file)) + 1
    BY <1>5, FileSetsFinite, FS_AddElement
<1>7. Cardinality(StampsIn(file)) = spillcount % NSpill
    BY DEF CountInv
<1>8. \A f : f = file => Cardinality(StampsIn(f)') = (spillcount % NSpill) + 1
    BY <1>4, <1>6, <1>7
<1>9. ASSUME NEW n \in 1..Len(out')
      PROVE  out'[n].file <= file'
    <2>1. file <= file' /\ file' \in Nat
        <3>1. file' = file \/ file' = file + 1
            BY DEF Match, NextFile
        <3>2. QED
            BY <1>2, <3>1
    <2>2. CASE n \in 1..Len(out)
        <3>1. out'[n] = out[n] /\ out[n] \in WriteRecord /\ out[n].file <= file
            BY <1>1, <1>2, <2>2, WritesStay DEF CountInv
        <3>2. out[n].file \in Nat
            BY <3>1 DEF WriteRecord
        <3>3. QED
            BY <1>2, <2>1, <3>1, <3>2
    <2>3. CASE ~(n \in 1..Len(out))
        <3> DEFINE m == n - Len(out)
        <3>1. Len(out') = Len(out) + Len(s)
            BY <1>1, <1>2, WritesStay
        <3>2. m \in 1..Len(s) /\ n = Len(out) + m
            BY <1>2, <2>3, <3>1
        <3>3. out'[n] = s[m]
            BY <1>1, <1>2, <3>2, WritesStay
        <3>4. out'[n].file = file \/ out'[n].file = file'
            BY <1>1, <1>3, <3>2, <3>3
        <3>5. QED
            BY <1>2, <2>1, <3>4
    <2>4. QED
        BY <2>2, <2>3
<1>10. QED
    BY <1>4, <1>8, <1>9

LEMMA MatchMarksOne ==
    ASSUME IInv, StampInv, CountInv, Match, copy = "fct"
    PROVE  /\ \A f : f = file =>
                  Cardinality(MarksIn(f)') = (spillcount % NSpill) + 1
           /\ \A f : f # file => MarksIn(f)' = MarksIn(f)
           /\ \A n \in 1..Len(out') : out'[n].to <= data'
<1>1. Plain /\ Divided /\ FoundBehind /\ pc = "scan"
    BY DEF Plain, StampInv, Match
<1>2. PICK s \in Seq(WriteRecord) :
          /\ out' = out \o s
          /\ s[1] = Write(file, data, data', TRUE)
          /\ Len(s) = 1
    BY <1>1, MatchWrites
<1>3. PICK P \in Visible :
          /\ data <= P /\ data' = P + MarkLen
          /\ \A p \in whole : data <= p /\ p < data' =>
                 p = P \/ (p + MarkLen <= P /\ p - data < i)
    BY <1>1, MatchFindsNext
<1>4. /\ out \in Seq(WriteRecord) /\ data \in Nat /\ data' \in Nat /\ i \in Nat
      /\ P \in Nat /\ P \in whole /\ whole \subseteq Nat
      /\ UNCHANGED <<copy, whole>> /\ data < data'
    BY <1>1, MatchPointers DEF IInv, TypeOK, Visible, Divided
<1>5. ~(i > 0)
    BY <1>1 DEF FoundBehind
<1>6. s[1].file = file /\ s[1].from = data /\ s[1].to = data'
    BY <1>2 DEF Write
<1>7. {p \in whole : data <= p /\ p + MarkLen <= data'} = {P}
    <2>1. ASSUME NEW p \in whole, data <= p, p + MarkLen <= data'
          PROVE  p = P
        <3>1. p \in Nat /\ p < data'
            BY <1>4, <2>1, MarkLenType
        <3>2. ~(p - data < i)
            BY <1>4, <1>5, <2>1, <3>1
        <3>3. QED
            BY <1>3, <2>1, <3>1, <3>2
    <2>2. P + MarkLen <= data'
        BY <1>3, <1>4
    <2>3. QED
        BY <1>3, <1>4, <2>1, <2>2
<1>8. \A f : MarksIn(f)' = IF file = f THEN MarksIn(f) \union {P} ELSE MarksIn(f)
    <2>1. \A f : MarksIn(f)' =
              IF s[1].file = f
              THEN MarksIn(f) \union
                       {p \in whole : s[1].from <= p /\ p + MarkLen <= s[1].to}
              ELSE MarksIn(f)
        BY <1>2, <1>4, MarksAfter
    <2>2. QED
        BY <1>6, <1>7, <2>1
<1>9. ASSUME NEW n \in 1..Len(out)
      PROVE  out[n].to \in Nat /\ out[n].to <= data
    <2>1. out[n] \in WriteRecord
        BY <1>4
    <2>2. QED
        BY <1>1, <2>1 DEF CountInv, WriteRecord
<1>10. P \notin MarksIn(file)
    <2>1. \A n \in 1..Len(out) : ~(P + MarkLen <= out[n].to)
        BY <1>3, <1>4, <1>9, MarkLenType
    <2>2. QED
        BY <2>1 DEF MarksIn
<1>11. Cardinality(MarksIn(file) \union {P}) = Cardinality(MarksIn(file)) + 1
    BY <1>10, FileSetsFinite, FS_AddElement
<1>12. Cardinality(MarksIn(file)) = spillcount % NSpill
    BY DEF CountInv
<1>13. \A f : f = file => Cardinality(MarksIn(f)') = (spillcount % NSpill) + 1
    BY <1>8, <1>11, <1>12
<1>14. ASSUME NEW n \in 1..Len(out')
       PROVE  out'[n].to <= data'
    <2>1. 1 \in 1..Len(s) /\ Len(out) \in Nat
        BY <1>2, <1>4
    <2>2. Len(out') = Len(out) + 1 /\ out'[Len(out) + 1] = s[1]
        BY <1>2, <1>4, <2>1, WritesStay
    <2>3. CASE n \in 1..Len(out)
        <3>1. out'[n] = out[n]
            BY <1>2, <1>4, <2>3, WritesStay
        <3>2. QED
            BY <1>4, <1>9, <2>3, <3>1
    <2>4. CASE n = Len(out) + 1
        BY <1>4, <1>6, <2>2, <2>4
    <2>5. QED
        BY <2>1, <2>2, <2>3, <2>4
<1>15. QED
    BY <1>8, <1>13, <1>14

\* A marker is found: the open file has one more, and a full one is closed.
LEMMA MatchCounts ==
    ASSUME IInv, StampInv, CountInv, Match
    PROVE  CountInv'
<1>1. /\ pc = "scan" /\ pc' = "scan" /\ UNCHANGED copy
      /\ spillcount' = spillcount + 1 /\ file' = NextFile(spillcount')
    BY MatchPointers DEF Match
<1>2. /\ file \in Nat /\ spillcount \in Nat /\ NSpill \in Nat \ {0}
      /\ file # 0 /\ ClosedFiles /\ \A n \in 1..Len(out) : out[n].file <= file
    BY <1>1, SizesAssumption DEF IInv, TypeOK, CountInv
<1>3. /\ spillcount % NSpill \in 0..(NSpill - 1)
      /\ spillcount' % NSpill =
             IF spillcount % NSpill = NSpill - 1 THEN 0 ELSE (spillcount % NSpill) + 1
    BY <1>1, <1>2, Remainder, NextRemainder
<1>4. /\ \A f : f = file => Cardinality(StampsIn(f)') = (spillcount % NSpill) + 1
      /\ \A f : f # file => StampsIn(f)' = StampsIn(f)
      /\ \A n \in 1..Len(out') : out'[n].file <= file'
    BY MatchStampsOne
<1>5. copy = "fct" =>
          /\ \A f : f = file => Cardinality(MarksIn(f)') = (spillcount % NSpill) + 1
          /\ \A f : f # file => MarksIn(f)' = MarksIn(f)
          /\ \A n \in 1..Len(out') : out'[n].to <= data'
    BY MatchMarksOne
<1>6. \A f \in 1..(file - 1) :
          /\ Cardinality(StampsIn(f)') = NSpill
          /\ copy = "fct" => Cardinality(MarksIn(f)') = NSpill
    BY <1>2, <1>4, <1>5 DEF ClosedFiles
<1>7. CASE spillcount' % NSpill = 0
    <2>1. spillcount % NSpill = NSpill - 1 /\ file' = file + 1
        BY <1>1, <1>2, <1>3, <1>7 DEF NextFile
    <2>2. ClosedFiles'
        <3>1. \A f : f = file =>
                  /\ Cardinality(StampsIn(f)') = NSpill
                  /\ copy = "fct" => Cardinality(MarksIn(f)') = NSpill
            BY <1>2, <1>4, <1>5, <2>1
        <3>2. \A f \in 1..(file' - 1) : f = file \/ f \in 1..(file - 1)
            BY <1>2, <2>1
        <3>3. QED
            BY <1>1, <1>6, <3>1, <3>2 DEF ClosedFiles
    <2>3. StampsIn(file + 1) = {} /\ MarksIn(file + 1) = {}
        <3>1. \A n \in 1..Len(out) : out[n].file # file + 1
            BY <1>2
        <3>2. QED
            BY <3>1 DEF StampsIn, MarksIn
    <2>4. \A f : f = file + 1 =>
              Cardinality(StampsIn(f)') = 0 /\ (copy = "fct" => Cardinality(MarksIn(f)') = 0)
        <3>1. SUFFICES ASSUME NEW f, f = file + 1
                       PROVE  StampsIn(f)' = {} /\ (copy = "fct" => MarksIn(f)' = {})
            BY FS_EmptySet
        <3>2. f # file
            BY <1>2, <3>1
        <3>3. QED
            BY <1>4, <1>5, <2>3, <3>1, <3>2
    <2>5. /\ (Cardinality(StampsIn(file)) = spillcount % NSpill)'
          /\ copy = "fct" => (Cardinality(MarksIn(file)) = spillcount % NSpill)'
        BY <1>7, <2>1, <2>4
    <2>6. file' # 0
        BY <1>2, <2>1
    <2>7. QED
        BY <1>1, <1>4, <1>5, <2>2, <2>5, <2>6 DEF CountInv
<1>8. CASE spillcount' % NSpill # 0
    <2>1. spillcount' % NSpill = (spillcount % NSpill) + 1 /\ file' = file
        BY <1>1, <1>3, <1>8 DEF NextFile
    <2>2. ClosedFiles'
        BY <1>1, <1>6, <2>1 DEF ClosedFiles
    <2>3. /\ (Cardinality(StampsIn(file)) = spillcount % NSpill)'
          /\ copy = "fct" => (Cardinality(MarksIn(file)) = spillcount % NSpill)'
        BY <1>4, <1>5, <2>1
    <2>4. QED
        BY <1>1, <1>2, <1>4, <1>5, <2>1, <2>2, <2>3 DEF CountInv
<1>9. QED
    BY <1>7, <1>8

\* The rest of a block has no stamp, and in fctreader no marker.
LEMMA WriteRestCounts ==
    ASSUME IInv, StampInv, CountInv, WriteRest
    PROVE  CountInv'
<1>1. /\ UNCHANGED <<copy, whole, got, spillcount, file>> /\ pc = "scan" /\ pc' = "recv"
    BY DEF WriteRest, blockVars
<1>2. PICK s \in Seq(WriteRecord) :
          /\ out' = out \o s
          /\ \/ data = got /\ s = <<>>
             \/ Len(s) = 1 /\ s[1] = Write(file, data, got, FALSE)
    BY RestWrites
<1>3. /\ out \in Seq(WriteRecord) /\ file \in Nat /\ file # 0 /\ data \in Nat
      /\ got \in Nat /\ data <= got /\ whole \subseteq Nat
    BY <1>1 DEF IInv, TypeOK, RestIsUnwritten, CountInv
<1>4. CASE data = got /\ s = <<>>
    <2>1. out' = out
        BY <1>2, <1>3, <1>4
    <2>2. \A f : StampsIn(f)' = StampsIn(f) /\ MarksIn(f)' = MarksIn(f)
        BY <1>1, <2>1, SameFileSets
    <2>3. StampsIn(file)' = StampsIn(file) /\ MarksIn(file)' = MarksIn(file)
        BY <1>1, <2>2
    <2>4. ClosedFiles'
        BY <1>1, <2>2 DEF CountInv, ClosedFiles
    <2>5. QED
        BY <1>1, <1>3, <1>4, <2>1, <2>3, <2>4 DEF CountInv
<1>5. CASE Len(s) = 1 /\ s[1] = Write(file, data, got, FALSE)
    <2>1. ~s[1].stamped /\ s[1].file = file /\ s[1].from = data /\ s[1].to = got
        BY <1>5 DEF Write
    <2>2. \A n \in 1..Len(s) : n = 1
        BY <1>5
    <2>3. \A f : StampsIn(f)' = StampsIn(f)
        <3>1. \A n \in 1..Len(s) : n # 1 => ~s[n].stamped
            BY <2>2
        <3>2. QED
            BY <1>2, <1>3, <2>1, <3>1, StampsAfter
    <2>4. {p \in whole : data <= p /\ p + MarkLen <= got} = {}
        <3>1. SUFFICES ASSUME NEW p \in whole, data <= p PROVE FALSE
            OBVIOUS
        <3>2. p < data
            BY NothingLeft DEF StampInv
        <3>3. QED
            BY <1>3, <3>1, <3>2
    <2>5. \A f : MarksIn(f)' = MarksIn(f)
        <3>1. \A f : MarksIn(f)' =
                  IF s[1].file = f
                  THEN MarksIn(f) \union
                           {p \in whole : s[1].from <= p /\ p + MarkLen <= s[1].to}
                  ELSE MarksIn(f)
            BY <1>1, <1>2, <1>3, <1>5, MarksAfter
        <3>2. QED
            BY <2>1, <2>4, <3>1
    <2>6. StampsIn(file)' = StampsIn(file) /\ MarksIn(file)' = MarksIn(file)
        BY <1>1, <2>3, <2>5
    <2>7. ClosedFiles'
        BY <1>1, <2>3, <2>5 DEF CountInv, ClosedFiles
    <2>8. ASSUME NEW n \in 1..Len(out')
          PROVE  out'[n].file <= file /\ (copy = "fct" => out'[n].to <= got)
        <3>1. 1 \in 1..Len(s) /\ Len(out) \in Nat
            BY <1>3, <1>5
        <3>2. Len(out') = Len(out) + 1 /\ out'[Len(out) + 1] = s[1]
            BY <1>2, <1>3, <1>5, <3>1, WritesStay
        <3>3. CASE n \in 1..Len(out)
            <4>1. out'[n] = out[n] /\ out[n] \in WriteRecord
                BY <1>2, <1>3, <3>3, WritesStay
            <4>2. out[n].to \in Nat /\ out[n].file <= file /\ (copy = "fct" => out[n].to <= data)
                BY <1>1, <3>3, <4>1 DEF CountInv, WriteRecord
            <4>3. QED
                BY <1>3, <4>1, <4>2
        <3>4. CASE n = Len(out) + 1
            BY <1>3, <2>1, <3>2, <3>4
        <3>5. QED
            BY <3>1, <3>2, <3>3, <3>4
    <2>9. QED
        BY <1>1, <1>3, <2>6, <2>7, <2>8 DEF CountInv
<1>6. QED
    BY <1>2, <1>4, <1>5

LEMMA CountInductive == IInv /\ StampInv /\ CountInv /\ [Next]_vars => CountInv'
<1> SUFFICES ASSUME IInv, StampInv, CountInv, [Next]_vars PROVE CountInv'
    OBVIOUS
<1>1. CASE UNCHANGED vars
    <2>1. UNCHANGED <<copy, whole, out, file, spillcount, pc, data, got>>
        BY <1>1 DEF vars, blockVars
    <2>2. \A f : StampsIn(f)' = StampsIn(f) /\ MarksIn(f)' = MarksIn(f)
        BY <2>1, SameFileSets
    <2>3. StampsIn(file)' = StampsIn(file) /\ MarksIn(file)' = MarksIn(file)
        BY <2>1, <2>2
    <2>4. ClosedFiles'
        BY <2>1, <2>2 DEF CountInv, ClosedFiles
    <2>5. QED
        BY <2>1, <2>3, <2>4 DEF CountInv
<1>2. QED
    BY <1>1, ReceiveCounts, MatchCounts, PassEndsCounts, WriteRestCounts DEF Next, Scan

(***************************************************************************)
(* Whatever nspill is and however the markers lie in the blocks, every     *)
(* copy of the loop closes a file after nspill times, and fctreader's      *)
(* files have exactly nspill markers.                                      *)
(***************************************************************************)
THEOREM FilesAreClosedFull == Spec => []ClosedFiles
<1>1. CountInv => ClosedFiles
    BY DEF CountInv
<1>2. QED
    BY <1>1, InitStamps, StampInductive, InitCounts, CountInductive, Invariance,
       PTL DEF Spec

=============================================================================
