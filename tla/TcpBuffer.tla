------------------------------ MODULE TcpBuffer ------------------------------
(***************************************************************************)
(* kol::TcpBuffer (kol/koltcp.cpp), the buffered TCP stream of one thread,  *)
(* over kol::Socket, whose send and recv throw when the system call fails   *)
(* (kol/kolsocket.cpp).                                                     *)
(*                                                                         *)
(* Bytes are named by their position: the n-th byte the peer sends, the     *)
(* n-th byte the user gives.  The loops of read, ignore and getline take    *)
(* one step for each get(), the loop of recv_all one for each recv; a call  *)
(* that waits for bytes is one step, in which it gets them.                 *)
(***************************************************************************)
EXTENDS Naturals, Sequences, FiniteSets

CONSTANTS
    BufSize,    \* bufsize, 1024 in koltcp.h
    StreamLen,  \* bytes the peer sends before it closes
    Delims,     \* which of them are line feeds
    MaxLen,     \* bound: the longest length the user asks for
    MaxGiven,   \* bound: bytes the user gives to put and write
    MaxFaults   \* bound: calls of send and recv that fail

ASSUME SizesAssumption ==
    /\ BufSize \in Nat \ {0} /\ StreamLen \in Nat /\ Delims \subseteq Nat
    /\ MaxLen \in Nat /\ MaxGiven \in Nat /\ MaxFaults \in Nat

VARIABLES
    life,       \* "open", "closed" or "destroyed"
    m_iostate,  \* the bits set
    m_gcount,
    m_rbuf,     \* the bytes in m_rbuf; m_rbuflen is their number
    m_rbufnxt,
    received,   \* bytes that recv has returned so far
    op,         \* the loop that is running, "none" between calls
    want,       \* its argument
    count,      \* what the loop has counted: n, nget, nbytes - nleft
    delivered,  \* the bytes all calls took, in order
    before,     \* history: how many they were when the last of them began
    m_sbuf,     \* the bytes in m_sbuf; m_sbufnxt is their number
    given,      \* bytes given so far
    accepted,   \* those for which the call returned, and not with bad()
    wire,       \* the bytes send has taken, in order
    threw,      \* a call ended with an exception
    faults      \* failures so far

inVars == <<m_gcount, m_rbuf, m_rbufnxt, received, count, delivered, before>>
outVars == <<m_sbuf, given, accepted, wire>>
vars == <<life, m_iostate, op, want, inVars, outVars, threw, faults>>

\* The n positions after a, in order.
After(a, n) == [j \in 1..n |-> a + j]

Elements(s) == {s[j] : j \in 1..Len(s)}

Init ==
    /\ life = "open"
    /\ m_iostate = {}
    /\ m_gcount = 0
    /\ m_rbuf = <<>> /\ m_rbufnxt = 0
    /\ received = 0
    /\ op = "none" /\ want = 0
    /\ count = 0
    /\ delivered = <<>> /\ before = 0
    /\ m_sbuf = <<>>
    /\ given = 0 /\ accepted = {}
    /\ wire = <<>>
    /\ threw = FALSE /\ faults = 0

Ready == op = "none" /\ life # "destroyed"

Fault == faults < MaxFaults /\ faults' = faults + 1

\* A call on a closed descriptor always fails; on an open one it may.
Throws ==
    /\ threw' = TRUE
    /\ IF life = "open" THEN Fault ELSE UNCHANGED faults

-----------------------------------------------------------------------------
(* Output *)

\* send_all(): the kernel takes the bytes in pieces, all of them here.
SendAll(bytes) ==
    /\ bytes = <<>> \/ life = "open"
    /\ wire' = wire \o bytes
    /\ UNCHANGED <<m_iostate, threw, faults>>

\* send returns 0 before the end: badbit, and send_all returns.
SendGivesUp(bytes) ==
    /\ life = "open" /\ Fault
    /\ \E n \in 0..(Len(bytes) - 1) : wire' = wire \o SubSeq(bytes, 1, n)
    /\ m_iostate' = m_iostate \union {"bad"}
    /\ UNCHANGED threw

\* Socket::send throws before the end.
SendThrows(bytes) ==
    /\ Throws
    /\ \E n \in 0..(Len(bytes) - 1) :
           /\ n > 0 => life = "open"
           /\ wire' = wire \o SubSeq(bytes, 1, n)
    /\ UNCHANGED m_iostate

\* The rest of a call after send_all has returned is skipped by an exception.
SendReturns(bytes) == SendAll(bytes) \/ SendGivesUp(bytes)

\* Mutant: the buffer is taken for empty before it is sent.
FlushEarly(next) ==
    \/ SendReturns(m_sbuf) /\ m_sbuf' = <<>> /\ next
    \/ SendThrows(m_sbuf) /\ m_sbuf' = <<>> /\ UNCHANGED <<life, op, want>>

\* flush(), and "next" when it returns; an empty buffer is not sent.
Flush(next) ==
    \/ SendReturns(m_sbuf) /\ m_sbuf' = <<>> /\ next
    \/ SendThrows(m_sbuf) /\ UNCHANGED <<m_sbuf, life, op, want>>

FlushCall ==
    /\ Ready /\ m_sbuf # <<>>
    /\ Flush(UNCHANGED <<life, op, want>>)
    /\ UNCHANGED <<inVars, given, accepted>>

IsFull == Len(m_sbuf) >= BufSize

\* put(): a full buffer is sent first; nothing is stored once bad() is set.
Put ==
    /\ Ready /\ given < MaxGiven
    /\ given' = given + 1
    /\ IF IsFull
       THEN \/ SendAll(m_sbuf) /\ m_sbuf' = <<given'>> /\ accepted' = accepted \union {given'}
            \/ SendGivesUp(m_sbuf) /\ m_sbuf' = <<>> /\ UNCHANGED accepted
            \/ SendThrows(m_sbuf) /\ UNCHANGED <<m_sbuf, accepted>>
       ELSE /\ UNCHANGED <<m_iostate, wire, threw, faults>>
            /\ IF "bad" \in m_iostate THEN UNCHANGED <<m_sbuf, accepted>>
               ELSE m_sbuf' = Append(m_sbuf, given') /\ accepted' = accepted \union {given'}
    /\ UNCHANGED <<life, op, want, inVars>>

\* Mutant: write() does not flush what put() has left.
WriteUnflushed ==
    /\ Ready
    /\ \E len \in 1..MaxLen :
           given + len <= MaxGiven /\ op' = "write" /\ want' = len
    /\ UNCHANGED <<life, m_iostate, inVars, outVars, threw, faults>>

\* write(): what put() has left goes first ...
Write ==
    /\ Ready
    /\ \E len \in 1..MaxLen :
           /\ given + len <= MaxGiven
           /\ Flush(op' = "write" /\ want' = len /\ UNCHANGED life)
    /\ UNCHANGED <<inVars, given, accepted>>

\* ... then the bytes of the call, without looking at bad().
WriteSend ==
    /\ op = "write"
    /\ op' = "none"
    /\ given' = given + want
    /\ LET bytes == After(given, want) IN
       \/ SendAll(bytes) /\ accepted' = accepted \union Elements(bytes)
       \/ (SendGivesUp(bytes) \/ SendThrows(bytes)) /\ UNCHANGED accepted
    /\ UNCHANGED <<life, want, inVars, m_sbuf>>

\* close(): the socket stays open when flush() throws.
Close ==
    /\ Ready
    /\ Flush(life' = "closed" /\ UNCHANGED <<op, want>>)
    /\ UNCHANGED <<inVars, given, accepted>>

\* ~TcpBuffer(): the socket is closed, and m_sbuf is gone unflushed.
Destroy ==
    /\ Ready
    /\ life' = "destroyed"
    /\ m_sbuf' = <<>>
    /\ UNCHANGED <<m_iostate, op, want, inVars, given, accepted, wire, threw, faults>>

-----------------------------------------------------------------------------
(* Input *)

\* A recv of up to len bytes returns n of them, 0 at the end of the stream.
Recv(len, n) ==
    /\ life = "open"
    /\ n <= len /\ n <= StreamLen - received
    /\ n = 0 => received = StreamLen
    /\ received' = received + n

\* get() returns a byte, from the buffer or after filling it.
GetByte ==
    /\ \/ /\ m_rbufnxt < Len(m_rbuf)
          /\ m_rbufnxt' = m_rbufnxt + 1
          /\ UNCHANGED <<m_rbuf, received>>
       \/ /\ m_rbufnxt >= Len(m_rbuf)
          /\ \E n \in 1..BufSize : Recv(BufSize, n) /\ m_rbuf' = After(received, n)
          /\ m_rbufnxt' = 1
    /\ delivered' = Append(delivered, m_rbuf'[m_rbufnxt'])
    /\ UNCHANGED <<before, threw, faults>>

\* Mutant: a buffer that did not fill is taken for the last one.
GetEofWhenShort ==
    /\ m_rbufnxt >= Len(m_rbuf)
    /\ \E n \in 0..(BufSize - 1) : Recv(BufSize, n)
    /\ m_rbuf' = <<>> /\ m_rbufnxt' = 0
    /\ UNCHANGED <<delivered, count, before, threw, faults>>

\* The buffer is used up and recv returns 0: get() returns eof().
GetEof ==
    /\ m_rbufnxt >= Len(m_rbuf)
    /\ Recv(BufSize, 0)
    /\ m_rbuf' = <<>> /\ m_rbufnxt' = 0
    /\ UNCHANGED <<delivered, count, before, threw, faults>>

\* Socket::recv throws: the loop around get() ends too.
GetThrows ==
    /\ m_rbufnxt >= Len(m_rbuf)
    /\ Throws
    /\ m_rbuf' = <<>> /\ m_rbufnxt' = 0
    /\ op' = "none"
    /\ UNCHANGED <<m_iostate, m_gcount, received, delivered, count, before>>

\* A call begins that takes up to len bytes; get() by itself only sets
\* m_gcount at its end.
Begin(name, len) ==
    /\ op' = name /\ want' = len /\ count' = 0
    /\ m_gcount' = (IF name = "get" THEN m_gcount ELSE 0)
    /\ before' = Len(delivered)
    /\ UNCHANGED <<life, m_iostate, m_rbuf, m_rbufnxt, received, delivered,
                   outVars, threw, faults>>

GetCall     == Ready /\ Begin("get", 1)
IgnoreCall  == Ready /\ \E len \in 1..MaxLen : Begin("ignore", len)

\* getline(buf, maxlen): up to maxlen - 1 bytes, of which there must be one.
GetlineCall ==
    /\ Ready
    /\ \E len \in 0..MaxLen :
           IF len > 1 THEN Begin("getline", len - 1)
           ELSE /\ m_gcount' = 0 /\ before' = Len(delivered)
                /\ m_iostate' = m_iostate \union {"fail"}
                /\ UNCHANGED <<life, op, want, m_rbuf, m_rbufnxt, received,
                               count, delivered, outVars, threw, faults>>

\* Mutant: read() never looks into m_rbuf.
ReadCallDirect == Ready /\ \E len \in 1..MaxLen : Begin("recv_all", len)

\* read(): directly from the socket as long as get() has filled no buffer.
ReadCall ==
    /\ Ready
    /\ \E len \in 1..MaxLen :
           Begin(IF m_rbuf = <<>> THEN "recv_all" ELSE "read", len)

\* recv_all() goes on until it has all the bytes or the stream has ended ...
RecvAll ==
    /\ op = "recv_all"
    /\ \E n \in 0..MaxLen :
           /\ Recv(want - count, n)
           /\ delivered' = delivered \o After(received, n)
           /\ count' = count + n
           /\ LET ends == n = 0 \/ count' >= want IN
              /\ op' = IF ends THEN "none" ELSE op
              /\ m_gcount' = IF ends THEN count' ELSE m_gcount
           /\ m_iostate' = IF n = 0 THEN m_iostate \union {"eof"} ELSE m_iostate
    /\ UNCHANGED <<life, want, m_rbuf, m_rbufnxt, before, outVars, threw, faults>>

\* ... or Socket::recv throws, and m_gcount stays 0 whatever came before.
RecvAllThrows ==
    /\ op = "recv_all" /\ op' = "none"
    /\ Throws
    /\ UNCHANGED <<life, m_iostate, want, inVars, outVars>>

\* What get() leaves in m_gcount.
CountOfGet == Len(delivered') - Len(delivered)

\* Mutant: m_gcount is left as the last get() set it.
CountForgotten == CountOfGet

\* m_gcount = n, the last statement of each of the calls but get() itself.
CountOfCall == IF op = "get" THEN CountOfGet ELSE count'

\* A byte has come: the call ends with it, or goes on.
LoopByte ==
    /\ op \in {"get", "read", "ignore", "getline"}
    /\ GetByte
    /\ count' = IF op = "get" THEN count ELSE count + 1
    /\ LET isLine == op = "getline" /\ delivered'[Len(delivered')] \in Delims
           ends == op = "get" \/ isLine \/ count' >= want
       IN  /\ op' = IF ends THEN "none" ELSE op
           /\ m_gcount' = IF ends THEN CountOfCall ELSE CountOfGet
           /\ m_iostate' = IF op = "getline" /\ ends /\ ~isLine
                           THEN m_iostate \union {"fail"} ELSE m_iostate
    /\ UNCHANGED <<life, want, outVars>>

\* The end of the stream: getline() fails only when it took nothing.
LoopEof ==
    /\ op \in {"get", "read", "ignore", "getline"}
    /\ GetEof
    /\ op' = "none"
    /\ m_gcount' = CountOfCall
    /\ m_iostate' = m_iostate \union {"eof"}
                      \union (IF op = "getline" /\ m_gcount' = 0 THEN {"fail"} ELSE {})
    /\ UNCHANGED <<life, want, outVars>>

LoopThrows ==
    /\ op \in {"get", "read", "ignore", "getline"}
    /\ GetThrows
    /\ UNCHANGED <<life, want, outVars>>

-----------------------------------------------------------------------------
Output == FlushCall \/ Put \/ Write \/ WriteSend \/ Close \/ Destroy
Input ==
    \/ GetCall \/ IgnoreCall \/ GetlineCall \/ ReadCall
    \/ RecvAll \/ RecvAllThrows \/ LoopByte \/ LoopEof \/ LoopThrows

Next == Output \/ Input

Spec == Init /\ [][Next]_vars

-----------------------------------------------------------------------------
(* Correctness *)

TypeOK ==
    /\ life \in {"open", "closed", "destroyed"}
    /\ m_iostate \subseteq {"eof", "fail", "bad"}
    /\ m_gcount \in Nat
    /\ m_rbuf \in Seq(Nat) /\ Len(m_rbuf) <= BufSize
    /\ m_rbufnxt \in 0..Len(m_rbuf)
    /\ received \in 0..StreamLen
    /\ op \in {"none", "write", "get", "read", "ignore", "getline", "recv_all"}
    /\ want \in Nat /\ count \in Nat
    /\ delivered \in Seq(Nat) /\ before \in Nat
    /\ m_sbuf \in Seq(Nat) /\ Len(m_sbuf) <= BufSize
    /\ given \in Nat /\ accepted \subseteq 1..given
    /\ wire \in Seq(Nat)
    /\ threw \in BOOLEAN
    /\ faults \in Nat

(***************************************************************************)
(* What put() and write() were given reaches the socket in the order it    *)
(* was given, and once, however the two are mixed and wherever the buffer  *)
(* is flushed; until a call has failed.                                    *)
(***************************************************************************)
OutputInOrder ==
    ~threw /\ "bad" \notin m_iostate =>
        life = "destroyed" \/ wire \o m_sbuf = After(0, given)

(***************************************************************************)
(* A byte for which put() returned is not lost by an exception in a later  *)
(* call: it has been sent or is still in the buffer, and will be sent (a   *)
(* second time, perhaps) by the next flush; only the destructor drops it.  *)
(***************************************************************************)
AcceptedNotLost ==
    life # "destroyed" /\ "bad" \notin m_iostate =>
        accepted \subseteq Elements(wire \o m_sbuf)

(***************************************************************************)
(* The calls that take bytes, directly from the socket (read) or through   *)
(* m_rbuf (the others, and read after them), see the peer's stream in its   *)
(* order with nothing lost or repeated, until a call has failed.           *)
(***************************************************************************)
InputInOrder ==
    ~threw =>
        delivered \o SubSeq(m_rbuf, m_rbufnxt + 1, Len(m_rbuf)) = After(0, received)

(***************************************************************************)
(* gcount() is the number of bytes the last input call took, whichever     *)
(* loop has counted them, and however the pieces came; the users of read    *)
(* rely on it for the length of a block (dtavant.cxx:156, fe.cxx:75).       *)
(***************************************************************************)
GcountExact == op = "none" /\ ~threw => Len(delivered) = before + m_gcount

(***************************************************************************)
(* eof() is set only when the user has had every byte of the stream: no     *)
(* short piece of it, and nothing left in m_rbuf, is taken for the end.    *)
(***************************************************************************)
EofIsTheEnd == ~threw /\ "eof" \in m_iostate => delivered = After(0, StreamLen)

-----------------------------------------------------------------------------
(* Why the properties hold *)

\* Between the two halves of write() the buffer is empty.
FlushedBeforeWrite == op = "write" => m_sbuf = <<>>

\* The loops count the bytes they take, and the output calls leave the
\* count of the last input call alone.
CountOfLast ==
    ~threw => Len(delivered) = before + (IF op \in {"none", "write"} THEN m_gcount
                                         ELSE count)

\* get() has no counter, and bypassing m_rbuf there is nothing in it.
LoopStates ==
    /\ op = "get" => count = 0
    /\ op = "recv_all" => m_rbuf = <<>> /\ m_rbufnxt = 0

\* recv has returned 0, and the buffer was used up then.
EofMeansAll ==
    ~threw /\ "eof" \in m_iostate =>
        received = StreamLen /\ m_rbufnxt = Len(m_rbuf)

IInv ==
    /\ TypeOK
    /\ OutputInOrder /\ AcceptedNotLost /\ FlushedBeforeWrite
    /\ InputInOrder /\ CountOfLast /\ LoopStates /\ EofMeansAll

=============================================================================
