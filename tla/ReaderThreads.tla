----------------------------- MODULE ReaderThreads -----------------------------
(***************************************************************************)
(* thtdcreader (thtdcreader.cxx), from the start of its two threads to the *)
(* end of main: avant reads blocks from the connection and sends them over *)
(* an inproc socket to rear, which writes them.  It is the forerunner of   *)
(* the data path of dtmain (Pipeline), but here both sockets and the       *)
(* connection belong to main: avant_run() connects the same socket again    *)
(* each time it is entered, rear_run() binds the same one, and main closes *)
(* and deletes the connection before it joins the threads.                 *)
(*                                                                         *)
(* What rear does with a block is SpillWriter; ZeroMQ is used as described *)
(* in Pipeline, and a socket that has connected n times has n pipes.       *)
(***************************************************************************)
EXTENDS Integers, Sequences, FiniteSets

CONSTANTS
    HighWater,      \* messages that fit into a pipe, 1000 by default
    MaxBlocks,      \* bound: no block is begun beyond this one
    MaxFaults       \* bound: failing allocations, reads, sends and recvs

ASSUME HighWaterAssumption == HighWater \in Nat \ {0}
ASSUME BoundsAssumption == MaxBlocks \in Nat /\ MaxFaults \in Nat

VARIABLES
    g_state,        \* written by main, polled by the threads
    main,           \* where main() is
    tcp,            \* the connection: "open", "closed", "deleted"
    avant, rear,    \* where the threads are
    g_avant_depth,  \* the counter of live buffers
    begun,          \* blocks begun so far; they are numbered
    buf,            \* {the block in avant's hands} or {}
    pipes,          \* what waits in each pipe of the sender
    bound,          \* the receiver has bound its endpoint
    held,           \* {the block in rear's message} or {}
    recorded,       \* the blocks written, in order
    leaked,         \* the blocks whose buffer nothing will free
    misused,        \* avant has used the connection after its deletion
    faults          \* failures so far

shared == <<g_state, main, tcp>>
avantVars == <<avant, begun, buf, leaked, misused, faults>>
rearVars == <<rear, bound, held, recorded>>
vars == <<shared, avantVars, rearVars, g_avant_depth, pipes>>

Init ==
    /\ g_state = "IDLE"
    /\ main = "start" /\ tcp = "open"
    /\ avant = "is_idle" /\ rear = "is_idle"
    /\ g_avant_depth = 0 /\ begun = 0
    /\ buf = {} /\ held = {} /\ leaked = {}
    /\ pipes = <<>> /\ recorded = <<>>
    /\ bound = FALSE /\ misused = FALSE
    /\ faults = 0

-----------------------------------------------------------------------------
(* main *)

SetState(here, s, next) ==
    /\ main = here
    /\ main' = next /\ g_state' = s
    /\ UNCHANGED <<tcp, avantVars, rearVars, g_avant_depth, pipes>>

\* Between them main sleeps for a second or two.
Sequencer ==
    \/ SetState("start", "RUNNING", "running")
    \/ SetState("running", "IDLE", "idle")
    \/ SetState("idle", "END", "end")

\* tcp->close(); delete tcp;
Disconnect(here, s, next) ==
    /\ main = here
    /\ main' = next /\ tcp' = s
    /\ UNCHANGED <<g_state, avantVars, rearVars, g_avant_depth, pipes>>

Join ==
    /\ main = "join" /\ avant = "ended" /\ rear = "ended"
    /\ main' = "exit"
    /\ UNCHANGED <<g_state, tcp, avantVars, rearVars, g_avant_depth, pipes>>

MainStep ==
    \/ Sequencer
    \/ Disconnect("end", "closed", "delete") \/ Disconnect("delete", "deleted", "join")
    \/ Join

-----------------------------------------------------------------------------
(* avant *)

\* The chain of ifs around avant_run() and rear_run(), which reads g_state
\* anew for each of its three tests.
AfterTest(pc, entry) ==
    CASE pc = "is_idle"    -> IF g_state = "IDLE" THEN "is_idle" ELSE "is_running"
      [] pc = "is_running" -> IF g_state = "RUNNING" THEN entry ELSE "is_end"
      [] pc = "is_end"     -> IF g_state = "END" THEN "ended" ELSE "is_idle"

Tests == {"is_idle", "is_running", "is_end"}

AvantTest ==
    /\ avant \in Tests
    /\ avant' = AfterTest(avant, "connect")
    /\ UNCHANGED <<shared, begun, buf, leaked, misused, faults, rearVars, g_avant_depth, pipes>>

AvantConnect ==
    /\ avant = "connect"
    /\ pipes' = Append(pipes, <<>>)
    /\ avant' = "check"
    /\ UNCHANGED <<shared, begun, buf, leaked, misused, faults, rearVars, g_avant_depth>>

\* if (g_state != RUNNING) break;
AvantCheck ==
    /\ avant = "check"
    /\ \/ g_state # "RUNNING" /\ avant' = "is_idle"
       \/ g_state = "RUNNING" /\ begun < MaxBlocks /\ avant' = "alloc"
    /\ UNCHANGED <<shared, begun, buf, leaked, misused, faults, rearVars, g_avant_depth, pipes>>

\* Mutant: the buffer is not counted.
AvantAllocUncounted ==
    /\ avant = "alloc"
    /\ avant' = "read"
    /\ begun' = begun + 1
    /\ buf' = {begun + 1}
    /\ UNCHANGED <<shared, leaked, misused, faults, rearVars, g_avant_depth, pipes>>

AvantAlloc ==
    /\ avant = "alloc"
    /\ avant' = "read"
    /\ begun' = begun + 1
    /\ buf' = {begun + 1}
    /\ g_avant_depth' = g_avant_depth + 1
    /\ UNCHANGED <<shared, leaked, misused, faults, rearVars, pipes>>

\* new throws: avant_run() returns, and is entered again while g_state stays.
AvantAllocFail ==
    /\ avant = "alloc"
    /\ faults < MaxFaults
    /\ faults' = faults + 1
    /\ avant' = "is_idle"
    /\ UNCHANGED <<shared, begun, buf, leaked, misused, rearVars, g_avant_depth, pipes>>

\* tcp.read() and tcp.gcount() come to their end, perhaps in freed memory.
AvantRead ==
    /\ avant = "read"
    /\ avant' = "send"
    /\ misused' = (misused \/ tcp = "deleted")
    /\ UNCHANGED <<shared, begun, buf, leaked, faults, rearVars, g_avant_depth, pipes>>

\* tcp.read() throws, certainly so if it calls recv() on the closed connection:
\* break, with the buffer neither freed nor sent.
AvantReadFail ==
    /\ avant = "read"
    /\ tcp # "open" \/ faults < MaxFaults
    /\ faults' = IF tcp = "open" THEN faults + 1 ELSE faults
    /\ misused' = (misused \/ tcp = "deleted")
    /\ avant' = "is_idle"
    /\ leaked' = leaked \union buf
    /\ buf' = {}
    /\ UNCHANGED <<shared, begun, rearVars, g_avant_depth, pipes>>

\* Into a pipe with room, of which there is one for every connect.
AvantSend ==
    /\ avant = "send"
    /\ \E r \in 1..Len(pipes) :
           /\ Len(pipes[r]) < HighWater
           /\ \E b \in buf : pipes' = [pipes EXCEPT ![r] = Append(@, b)]
    /\ buf' = {}
    /\ avant' = "check"
    /\ UNCHANGED <<shared, begun, leaked, misused, faults, rearVars, g_avant_depth>>

\* sender.send() throws, which is only printed; the message frees the buffer.
AvantSendFail ==
    /\ avant = "send"
    /\ faults < MaxFaults
    /\ faults' = faults + 1
    /\ buf' = {}
    /\ g_avant_depth' = g_avant_depth - 1
    /\ avant' = "check"
    /\ UNCHANGED <<shared, begun, leaked, misused, rearVars, pipes>>

-----------------------------------------------------------------------------
(* rear *)

RearTest ==
    /\ rear \in Tests
    /\ rear' = AfterTest(rear, "bind")
    /\ UNCHANGED <<shared, avantVars, bound, held, recorded, g_avant_depth, pipes>>

RearBind ==
    /\ rear = "bind"
    /\ bound' = TRUE
    /\ rear' = "check_state"
    /\ UNCHANGED <<shared, avantVars, held, recorded, g_avant_depth, pipes>>

\* Mutant: the commented-out test, which only looks at g_state.
RearCheckOnlyState ==
    /\ rear = "check_state"
    /\ rear' = IF g_state # "RUNNING" THEN "leave" ELSE "recv"
    /\ UNCHANGED <<shared, avantVars, bound, held, recorded, g_avant_depth, pipes>>

\* Mutant: the run is left when there is nothing to do.
RearCheckNoState ==
    /\ rear = "check_state"
    /\ rear' = "check_depth"
    /\ UNCHANGED <<shared, avantVars, bound, held, recorded, g_avant_depth, pipes>>

\* (g_state != RUNNING) && (g_avant_depth <= 0), read one after the other.
RearCheckState ==
    /\ rear = "check_state"
    /\ rear' = IF g_state # "RUNNING" THEN "check_depth" ELSE "recv"
    /\ UNCHANGED <<shared, avantVars, bound, held, recorded, g_avant_depth, pipes>>

RearCheckDepth ==
    /\ rear = "check_depth"
    /\ rear' = IF g_avant_depth <= 0 THEN "leave" ELSE "recv"
    /\ UNCHANGED <<shared, avantVars, bound, held, recorded, g_avant_depth, pipes>>

\* Mutant: the message stays in its pipe.
RearRecvAgain ==
    /\ rear = "recv"
    /\ \E r \in 1..Len(pipes) : pipes[r] # <<>> /\ held' = {Head(pipes[r])}
    /\ g_avant_depth' = g_avant_depth - Cardinality(held)
    /\ rear' = "write"
    /\ UNCHANGED <<shared, avantVars, bound, recorded, pipes>>

\* The message received before is freed, and the first of some pipe taken.
RearRecv ==
    /\ rear = "recv"
    /\ \E r \in 1..Len(pipes) :
           /\ pipes[r] # <<>>
           /\ held' = {Head(pipes[r])}
           /\ pipes' = [pipes EXCEPT ![r] = Tail(@)]
    /\ g_avant_depth' = g_avant_depth - Cardinality(held)
    /\ rear' = "write"
    /\ UNCHANGED <<shared, avantVars, bound, recorded>>

\* Mutant: nothing to receive leaves the last message as it is.
RearRecvNothingKept ==
    /\ rear = "recv"
    /\ \A r \in 1..Len(pipes) : pipes[r] = <<>>
    /\ rear' = "check_state"
    /\ UNCHANGED <<shared, avantVars, bound, held, recorded, pipes, g_avant_depth>>

\* ZMQ_NOBLOCK finds nothing.
RearRecvNothing ==
    /\ rear = "recv"
    /\ \A r \in 1..Len(pipes) : pipes[r] = <<>>
    /\ g_avant_depth' = g_avant_depth - Cardinality(held)
    /\ held' = {}
    /\ rear' = "check_state"
    /\ UNCHANGED <<shared, avantVars, bound, recorded, pipes>>

\* receiver.recv throws, whether or not a message waits, and may have freed
\* the last one before.
RearRecvFail ==
    /\ rear = "recv"
    /\ faults < MaxFaults
    /\ faults' = faults + 1
    /\ \/ held' = {} /\ g_avant_depth' = g_avant_depth - Cardinality(held)
       \/ UNCHANGED <<held, g_avant_depth>>
    /\ rear' = "check_state"
    /\ UNCHANGED <<shared, avant, begun, buf, leaked, misused, bound, recorded, pipes>>

RearWrite ==
    /\ rear = "write"
    /\ \E b \in held : recorded' = Append(recorded, b)
    /\ rear' = "check_state"
    /\ UNCHANGED <<shared, avantVars, bound, held, g_avant_depth, pipes>>

\* The message object goes with rear_run(), the receiver stays.
RearLeave ==
    /\ rear = "leave"
    /\ g_avant_depth' = g_avant_depth - Cardinality(held)
    /\ held' = {}
    /\ rear' = "is_idle"
    /\ UNCHANGED <<shared, avantVars, bound, recorded, pipes>>

-----------------------------------------------------------------------------
AvantStep ==
    AvantTest \/ AvantConnect \/ AvantCheck \/ AvantAlloc \/ AvantRead \/ AvantSend

AvantFault == AvantAllocFail \/ AvantReadFail \/ AvantSendFail

RearStep ==
    \/ RearTest \/ RearBind \/ RearCheckState \/ RearCheckDepth
    \/ RearRecv \/ RearRecvNothing \/ RearRecvFail \/ RearWrite \/ RearLeave

Next == MainStep \/ AvantStep \/ AvantFault \/ RearStep

Spec == Init /\ [][Next]_vars

\* Threads that can run do, and a read comes to its end some day.
FairSpec ==
    Spec /\ WF_vars(MainStep) /\ WF_vars(AvantStep \/ AvantFault) /\ WF_vars(RearStep)

-----------------------------------------------------------------------------
(* Correctness *)

InPipes == UNION {{pipes[r][k] : k \in 1..Len(pipes[r])} : r \in 1..Len(pipes)}

TypeOK ==
    /\ g_state \in {"IDLE", "RUNNING", "END"}
    /\ main \in {"start", "running", "idle", "end", "delete", "join", "exit"}
    /\ tcp \in {"open", "closed", "deleted"}
    /\ avant \in Tests \union {"connect", "check", "alloc", "read", "send", "ended"}
    /\ rear \in Tests \union {"bind", "check_state", "check_depth", "recv", "write", "leave", "ended"}
    /\ g_avant_depth \in Nat
    /\ begun \in Nat /\ faults \in Nat
    /\ buf \subseteq Nat /\ held \subseteq Nat /\ leaked \subseteq Nat
    /\ pipes \in Seq(Seq(Nat))
    /\ recorded \in Seq(Nat)
    /\ bound \in BOOLEAN /\ misused \in BOOLEAN

Live == buf \union InPipes \union held \union leaked

(***************************************************************************)
(* The atomic counter is the number of buffers that exist, whichever       *)
(* thread they are with and however many pipes they wait in.               *)
(***************************************************************************)
DepthAccounting == g_avant_depth = Cardinality(Live)

(***************************************************************************)
(* rear_run() binds its endpoint once: main sets RUNNING once, and rear    *)
(* leaves rear_run() only after that.  The second bind of a socket that    *)
(* stays open would throw, and end the program.                            *)
(***************************************************************************)
BindsOnce == rear = "bind" => ~bound

(***************************************************************************)
(* Blocks are written in the order they were read, as long as avant_run()  *)
(* is not entered a second time after a failure.                           *)
(***************************************************************************)
InOrder ==
    Len(pipes) <= 1 => \A m, n \in 1..Len(recorded) : m < n => recorded[m] < recorded[n]

(***************************************************************************)
(* When rear has left, what was read and not written is at most the block  *)
(* that avant began after rear's test of g_avant_depth - and what a        *)
(* failure has dropped.                                                    *)
(***************************************************************************)
AtMostOneLate ==
    rear = "ended" /\ bound => Cardinality(buf \union InPipes) <= 1

\* avant waits for room in a pipe that nobody empties any more.
Stranded ==
    /\ avant = "send" /\ rear = "ended"
    /\ \A r \in 1..Len(pipes) : Len(pipes[r]) >= HighWater

(***************************************************************************)
(* main comes to its end, unless a failed read has left a counted buffer    *)
(* behind, or rear has slept through the run and avant is stranded.        *)
(***************************************************************************)
MainEnds == (main = "join") ~> (main = "exit" \/ leaked # {} \/ (Stranded /\ ~bound))

(***************************************************************************)
(* The connection that avant has by reference (thtdcreader.cxx:427) exists *)
(* whenever avant uses it.                                                 *)
(***************************************************************************)
ConnectionExists == ~misused

-----------------------------------------------------------------------------
(* Why the above hold: the invariant ReaderThreadsProofs proves inductive *)

\* g_state follows main; until RUNNING rear has not moved.
Phases ==
    /\ g_state = "RUNNING" <=> main = "running"
    /\ main = "start" => g_state = "IDLE" /\ rear = "is_idle" /\ ~bound

\* rear has seen the counter at zero and left its run, or is about to.
Left == rear = "leave" \/ (bound /\ rear \in Tests \union {"ended"})

\* It gets there only after main has ended the run, for good.
LeftAfterRun ==
    rear = "check_depth" \/ Left => main \notin {"start", "running"}

\* avant holds a buffer exactly between the allocation and the send, and it is
\* the latest one; rear holds a message when it is about to write it.
Hands ==
    /\ buf # {} <=> avant \in {"read", "send"}
    /\ buf \subseteq {begun}
    /\ \A b, c \in held : b = c
    /\ rear = "write" => held # {}

\* No buffer has two owners.
OneOwner ==
    /\ buf \cap InPipes = {} /\ buf \cap held = {} /\ buf \cap leaked = {}
    /\ InPipes \cap held = {} /\ InPipes \cap leaked = {} /\ held \cap leaked = {}
    /\ Live \subseteq 1..begun
    /\ \A n \in 1..Len(recorded) : recorded[n] \in 1..begun

\* Every pipe is in the order of the blocks, and no block is in two of them.
Tidy(ps) ==
    /\ \A r \in 1..Len(ps) : \A i, j \in 1..Len(ps[r]) : i < j => ps[r][i] < ps[r][j]
    /\ \A r, s \in 1..Len(ps) : r # s =>
           \A i \in 1..Len(ps[r]), j \in 1..Len(ps[s]) : ps[r][i] # ps[s][j]

\* With one pipe, what is written is older than what is held, and that is older
\* than what follows.
Order ==
    Len(pipes) <= 1 =>
        /\ InOrder
        /\ \A n \in 1..Len(recorded) : \A b \in InPipes \union buf : recorded[n] < b
        /\ rear = "write" => \A h \in held :
               /\ \A n \in 1..Len(recorded) : recorded[n] < h
               /\ \A b \in InPipes \union buf : h < b

\* Once rear has left, avant begins at most the block it had looked for already.
LateInv ==
    Left =>
        /\ avant = "alloc" => buf \union InPipes = {}
        /\ \A b, c \in buf \union InPipes : b = c

IInv ==
    /\ TypeOK
    /\ Phases /\ LeftAfterRun /\ BindsOnce
    /\ Hands /\ OneOwner /\ Tidy(pipes)
    /\ IsFiniteSet(Live) /\ DepthAccounting
    /\ Order
    /\ LateInv

=============================================================================
