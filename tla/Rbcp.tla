--------------------------------- MODULE Rbcp ---------------------------------
(***************************************************************************)
(* udpreg (rbcp/udpreg.c): register access over UDP.  The program makes its *)
(* requests one after another: a read and a write, if asked for, then the  *)
(* writes of --seq1.  It sends each request once, and takes the next        *)
(* datagram it receives for the answer, whatever request that belongs to;  *)
(* after three seconds without one it goes on to the next request.         *)
(*                                                                         *)
(* Requests are numbered in the order they are made.  The network may lose  *)
(* and delay datagrams and change their order, not copy them.              *)
(***************************************************************************)
EXTENDS Integers, Sequences, FiniteSets

CONSTANTS
    SeqLen,     \* writes of --seq1, 128 in the code
    IdLimit     \* values of the id in the header, 256 in the code

ASSUME SeqLenAssumption == SeqLen \in Nat
ASSUME IdLimitAssumption == IdLimit \in Nat \ {0} /\ SeqLen + 2 <= IdLimit

VARIABLES
    plan,       \* the kinds of the requests to be made (fixed)
    made,       \* requests made so far
    pc,         \* "next" between requests, "send", "receive", "closed"
    sequence,
    id,         \* the id each request was sent with
    requests,   \* the requests on their way
    executed,   \* those the device has carried out
    answers,    \* the requests whose answers are on their way
    inbox,      \* the requests whose answers wait in the socket
    result      \* the request whose answer was taken, or Failed, by request

vars == <<plan, made, pc, sequence, id, requests, executed, answers, inbox, result>>

Failed == 0

\* A read of length 0 and a write of a negative value are not made.
Plan(read, write, seq1) ==
    (IF read THEN <<"read">> ELSE <<>>)
        \o (IF write THEN <<"write">> ELSE <<>>)
        \o (IF seq1 THEN [j \in 1..SeqLen |-> "seq1"] ELSE <<>>)

Init ==
    /\ plan \in {Plan(read, write, seq1) : read, write, seq1 \in BOOLEAN}
    /\ made = 0
    /\ pc = "next"
    /\ sequence = 0
    /\ id = <<>>
    /\ requests = {} /\ executed = {} /\ answers = {}
    /\ inbox = <<>>
    /\ result = <<>>

-----------------------------------------------------------------------------
(* The program *)

\* sequence++
NextSequence(n) == n + 1

\* A request is left, in the loop of --seq1 or before it.
More == made < Len(plan)

\* The header of the next request is filled; its id is one byte.
Make ==
    /\ pc = "next" /\ More
    /\ made' = made + 1
    /\ sequence' = NextSequence(sequence)
    /\ id' = Append(id, sequence % IdLimit)
    /\ pc' = "send"
    /\ UNCHANGED <<plan, requests, executed, answers, inbox, result>>

\* sendto() may fail, which is only printed; it and recvfrom() always fail when
\* udpreg_open() did, whose -1 is used as a descriptor.
Send ==
    /\ pc = "send"
    /\ requests' \in {requests \union {made}, requests}
    /\ pc' = "receive"
    /\ UNCHANGED <<plan, made, sequence, id, executed, answers, inbox, result>>

\* Mutant: the answer stays in the socket.
ReceiveKept ==
    /\ pc = "receive" /\ inbox # <<>>
    /\ result' = Append(result, Head(inbox))
    /\ inbox' = inbox
    /\ pc' = "next"
    /\ UNCHANGED <<plan, made, sequence, id, requests, executed, answers>>

\* recvfrom() returns the first datagram of the socket.
Receive ==
    /\ pc = "receive" /\ inbox # <<>>
    /\ result' = Append(result, Head(inbox))
    /\ inbox' = Tail(inbox)
    /\ pc' = "next"
    /\ UNCHANGED <<plan, made, sequence, id, requests, executed, answers>>

\* Mutant: no SO_RCVTIMEO, only an error reported by the network ends the wait.
ReceiveFailsOnError ==
    /\ pc = "receive" /\ requests # {}
    /\ result' = Append(result, Failed)
    /\ pc' = "next"
    /\ UNCHANGED <<plan, made, sequence, id, requests, executed, answers, inbox>>

\* SO_RCVTIMEO runs out, or an error waits in the socket, which recvfrom()
\* reports before it looks for datagrams.
ReceiveFails ==
    /\ pc = "receive"
    /\ result' = Append(result, Failed)
    /\ pc' = "next"
    /\ UNCHANGED <<plan, made, sequence, id, requests, executed, answers, inbox>>

Close ==
    /\ pc = "next" /\ ~More
    /\ pc' = "closed"
    /\ UNCHANGED <<plan, made, sequence, id, requests, executed, answers, inbox, result>>

Program == Make \/ Send \/ Receive \/ ReceiveFails \/ Close

-----------------------------------------------------------------------------
(* The device and the network *)

\* The device carries out a request and answers it.
Execute(n) ==
    /\ n \in requests
    /\ requests' = requests \ {n}
    /\ executed' = executed \union {n}
    /\ answers' = answers \union {n}
    /\ UNCHANGED <<plan, made, pc, sequence, id, inbox, result>>

Deliver(n) ==
    /\ n \in answers
    /\ answers' = answers \ {n}
    /\ inbox' = Append(inbox, n)
    /\ UNCHANGED <<plan, made, pc, sequence, id, requests, executed, result>>

Lose(n) ==
    /\ \/ n \in requests /\ requests' = requests \ {n} /\ UNCHANGED answers
       \/ n \in answers /\ answers' = answers \ {n} /\ UNCHANGED requests
    /\ UNCHANGED <<plan, made, pc, sequence, id, executed, inbox, result>>

Environment == \E n \in 1..made : Execute(n) \/ Deliver(n) \/ Lose(n)

Next == Program \/ Environment

Spec == Init /\ [][Next]_vars

\* The program runs, and the kernel's timeout runs out; of the network and the
\* device nothing is expected.
FairSpec == Spec /\ WF_vars(Program)

-----------------------------------------------------------------------------
(* Correctness *)

TypeOK ==
    /\ plan \in Seq({"read", "write", "seq1"})
    /\ made \in 0..Len(plan)
    /\ pc \in {"next", "send", "receive", "closed"}
    /\ sequence \in Nat
    /\ id \in Seq(0..(IdLimit - 1))
    /\ requests \subseteq 1..made /\ executed \subseteq 1..made
    /\ answers \subseteq 1..made
    /\ inbox \in Seq(1..made)
    /\ result \in Seq(0..made)

\* No request has timed out so far.
NoneFailed == \A n \in 1..Len(result) : result[n] # Failed

(***************************************************************************)
(* Until a receive fails, the answer printed (udpreg_read) or returned     *)
(* (udpreg_write) for a request is its own, and the device has carried it  *)
(* out: one request at a time, sent once, needs no comparison of ids.      *)
(***************************************************************************)
InStep ==
    NoneFailed => \A n \in 1..Len(result) : result[n] = n /\ n \in executed

InInbox == {inbox[j] : j \in 1..Len(inbox)}

Unanswered == requests \union answers \union InInbox

Failures == {n \in 1..Len(result) : result[n] = Failed}

(***************************************************************************)
(* There are at most as many late answers as receives that failed, besides *)
(* the one the program waits for: that many answers can be taken for those *)
(* of later requests.                                                      *)
(***************************************************************************)
FewLate ==
    Cardinality(Unanswered) <=
        Cardinality(Failures) + (IF pc = "receive" THEN 1 ELSE 0)

(***************************************************************************)
(* No answer is taken twice: each request prints one nobody else printed.  *)
(***************************************************************************)
TakenOnce ==
    \A m, n \in 1..Len(result) : m # n /\ result[m] # Failed => result[m] # result[n]

(***************************************************************************)
(* A wrong answer could be told by its id, which is printed but not        *)
(* compared: all requests of one run of the program fit into one byte.     *)
(***************************************************************************)
IdsTell ==
    \A n \in 1..Len(result) :
        result[n] \notin {Failed, n} => id[result[n]] # id[n]

(***************************************************************************)
(* The program comes to its end whatever the device and the network do.    *)
(***************************************************************************)
ProgramEnds == <>(pc = "closed")

-----------------------------------------------------------------------------
(* Why the above hold: the invariant RbcpProofs proves inductive           *)

\* Each answer that has been asked for is in one place.
OnePlace ==
    /\ requests \cap answers = {}
    /\ InInbox \cap (requests \union answers) = {}
    /\ \A j, l \in 1..Len(inbox) : j # l => inbox[j] # inbox[l]
    /\ \A n \in 1..Len(result) : result[n] \notin Unanswered

\* Answers come from requests that were carried out.
FromDevice ==
    /\ answers \union InInbox \subseteq executed
    /\ \A n \in 1..Len(result) : result[n] # Failed => result[n] \in executed

\* The request that is being made has not been sent.
Unsent == pc = "send" => made \notin Unanswered /\ made \notin executed

\* Ids are the numbers of the requests as long as they fit.
Numbered ==
    /\ Len(result) = (IF pc \in {"next", "closed"} THEN made ELSE made - 1)
    /\ pc \in {"send", "receive"} => made > 0
    /\ Len(id) = made /\ sequence = made
    /\ Len(plan) <= SeqLen + 2
    /\ \A n \in 1..made : id[n] = n - 1

\* Without a failure only the request of the moment can be on its way.
OnlyCurrent ==
    NoneFailed => Unanswered \subseteq (IF pc = "receive" THEN {made} ELSE {})

IInv ==
    /\ TypeOK
    /\ OnePlace
    /\ FromDevice
    /\ Unsent
    /\ Numbered
    /\ OnlyCurrent
    /\ InStep
    /\ TakenOnce

=============================================================================
