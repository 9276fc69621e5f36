------------------------------ MODULE Pipeline ------------------------------
(***************************************************************************)
(* The data path of dtavant after a good start: the thread of DTavant       *)
(* (dtavant.cxx) reads blocks from the detector and pushes them over an     *)
(* inproc ZeroMQ socket to the thread of DTrear (dtrear.cxx), which writes  *)
(* them to files, while main (dtmain.cxx) switches the shared c_state on    *)
(* the user's commands.                                                    *)
(*                                                                         *)
(* The block buffers are counted in the atomic g_avant_depth: DTavant       *)
(* increments it for every buffer it allocates and buf_free(), which        *)
(* ZeroMQ calls when it is finished with the message, decrements it.        *)
(* DTrear leaves its loop when the run is over and the counter is zero.    *)
(*                                                                         *)
(* A new PUSH socket is made for every st_running of DTavant, a new PULL    *)
(* socket for every one of DTrear.  Of libzmq the module models what the    *)
(* code relies on: connecting before the endpoint is bound is allowed;     *)
(* messages of one sender stay in order, several senders are served in any *)
(* order; a closed sender's messages are still delivered; closing the       *)
(* receiver drops the messages waiting for it and leaves its senders        *)
(* without a peer, where a send blocks.                                    *)
(***************************************************************************)
EXTENDS Naturals, Integers, Sequences, FiniteSets

CONSTANTS
    IsDummy,        \* --dummy: DTavant makes up its data, no read can fail
    QueLen,         \* how many messages fit between one sender and the receiver
    MaxBlocks,      \* bound: no block is begun beyond this one
    MaxCommands,    \* bound: run and idle commands of the user
    MaxFaults       \* bound: failing allocations, reads, sends and recvs

ASSUME IsDummyAssumption == IsDummy \in BOOLEAN
ASSUME QueLenAssumption == QueLen \in Nat \ {0}
ASSUME BoundsAssumption ==
    MaxBlocks \in Nat /\ MaxCommands \in Nat /\ MaxFaults \in Nat

VARIABLES
    c_state,        \* DAQTask::c_state
    main,           \* where main() is
    commands,       \* commands given so far
    avant,          \* where DTavant's thread is
    rear,           \* where DTrear's thread is
    g_avant_depth,  \* the counter of live buffers
    segs,           \* blocks begun so far; a block's seg is its number
    buf,            \* {the block DTavant is working on} or {}
    peer,           \* for each PUSH socket made so far, what its pipe leads to
    queue,          \* messages sent and not yet received
    held,           \* {the block in DTrear's message object} or {}
    leaked,         \* blocks whose buffer nothing will ever free
    recorded,       \* the blocks given to write_data, in order
    lost,           \* blocks dropped with the message that held them
    faults          \* failures so far

mainVars == <<c_state, main, commands>>
vars == <<mainVars, avant, rear, g_avant_depth, segs, buf, peer, queue, held,
          leaked, recorded, lost, faults>>

Block == [run : Nat, seg : Nat]
PeerState == {"pending", "attached", "closed"}

\* The PUSH socket in use (or the last one), by its number.
run == Len(peer)

\* Every buffer that exists.
Live == buf \union queue \union held \union leaked

Init ==
    /\ c_state = "INIT"
    /\ main = "idle"
    /\ commands = 0
    /\ avant = "switch" /\ rear = "switch"
    /\ g_avant_depth = 0
    /\ segs = 0
    /\ buf = {} /\ queue = {} /\ held = {} /\ leaked = {} /\ lost = {}
    /\ peer = <<>>
    /\ recorded = <<>>
    /\ faults = 0

-----------------------------------------------------------------------------
(* main() from the good start to its end *)

SetState(here, s, next) ==
    /\ main = here
    /\ main' = next
    /\ c_state' = s
    /\ UNCHANGED <<commands, avant, rear, g_avant_depth, segs, buf, peer,
                   queue, held, leaked, recorded, lost, faults>>

Boot ==
    \/ SetState("idle", "IDLE", "running")
    \/ SetState("running", "RUNNING", "console")

\* The user types run or idle.
Command ==
    /\ main = "console"
    /\ commands < MaxCommands
    /\ commands' = commands + 1
    /\ c_state' \in {"RUNNING", "IDLE"}
    /\ UNCHANGED <<main, avant, rear, g_avant_depth, segs, buf, peer, queue,
                   held, leaked, recorded, lost, faults>>

\* The user types end, stop, exit or q.
Quit == SetState("console", c_state, "stopping")

\* Mutant: the idle state before the end is left out.
StopAtOnce == SetState("stopping", "END", "join")

Stop ==
    \/ SetState("stopping", "IDLE", "ending")
    \/ SetState("ending", "END", "join")

Join ==
    /\ avant = "ended" /\ rear = "ended"
    /\ SetState("join", c_state, "exit")

-----------------------------------------------------------------------------
(* The state machine both threads run, around their st_running() *)

\* Where the switch on c_state leads; st_idle only sleeps.
AfterSwitch == IF c_state = "RUNNING" THEN "open" ELSE "test_end"
AfterTestEnd == IF c_state = "END" THEN "ended" ELSE "switch"

-----------------------------------------------------------------------------
(* DTavant's thread *)

AvantOuter ==
    /\ \/ avant = "switch" /\ avant' = AfterSwitch
       \/ avant = "test_end" /\ avant' = AfterTestEnd
    /\ UNCHANGED <<mainVars, rear, g_avant_depth, segs, buf, peer, queue, held,
                   leaked, recorded, lost, faults>>

\* DTrear's PULL socket exists.
IsBound == rear \notin {"switch", "test_end", "open", "ended"}

\* A PUSH socket is made and connected, whether or not a receiver is bound.
AvantOpen ==
    /\ avant = "open"
    /\ avant' = "check"
    /\ peer' = Append(peer, IF IsBound THEN "attached" ELSE "pending")
    /\ UNCHANGED <<mainVars, rear, g_avant_depth, segs, buf, queue, held,
                   leaked, recorded, lost, faults>>

\* if (c_state != SM_RUNNING) break; the socket is closed at the return.
AvantCheck ==
    /\ avant = "check"
    /\ \/ c_state # "RUNNING" /\ avant' = "test_end"
       \/ c_state = "RUNNING" /\ segs < MaxBlocks /\ avant' = "alloc"
    /\ UNCHANGED <<mainVars, rear, g_avant_depth, segs, buf, peer, queue, held,
                   leaked, recorded, lost, faults>>

\* Mutant: the counter is not incremented.
AvantAllocUncounted ==
    /\ avant = "alloc"
    /\ avant' = "read"
    /\ buf' = {[run |-> run, seg |-> segs + 1]}
    /\ segs' = segs + 1
    /\ UNCHANGED <<mainVars, rear, g_avant_depth, peer, queue, held, leaked,
                   recorded, lost, faults>>

\* A buffer is allocated and counted.
AvantAlloc ==
    /\ avant = "alloc"
    /\ avant' = "read"
    /\ buf' = {[run |-> run, seg |-> segs + 1]}
    /\ segs' = segs + 1
    /\ g_avant_depth' = g_avant_depth + 1
    /\ UNCHANGED <<mainVars, rear, peer, queue, held, leaked, recorded, lost,
                   faults>>

\* The allocation throws: return -1.
AvantAllocFail ==
    /\ avant = "alloc"
    /\ faults < MaxFaults
    /\ faults' = faults + 1
    /\ avant' = "test_end"
    /\ UNCHANGED <<mainVars, rear, g_avant_depth, segs, buf, peer, queue, held,
                   leaked, recorded, lost>>

\* The buffer is filled from the connection, or with the dummy pattern.
AvantRead ==
    /\ avant = "read"
    /\ avant' = "send"
    /\ UNCHANGED <<mainVars, rear, g_avant_depth, segs, buf, peer, queue, held,
                   leaked, recorded, lost, faults>>

\* tcp->read throws: break, with the buffer neither freed nor sent.
AvantReadFail ==
    /\ avant = "read"
    /\ ~IsDummy
    /\ faults < MaxFaults
    /\ faults' = faults + 1
    /\ avant' = "test_end"
    /\ leaked' = leaked \union buf
    /\ buf' = {}
    /\ UNCHANGED <<mainVars, rear, g_avant_depth, segs, peer, queue, held,
                   recorded, lost>>

\* The messages of one PUSH socket that wait in its pipe.
InPipe(r) == {b \in queue : b.run = r}

\* A send goes through when the socket has a pipe with room in it.
HasRoom == peer[run] # "closed" /\ Cardinality(InPipe(run)) < QueLen

AvantSend ==
    /\ avant = "send"
    /\ HasRoom
    /\ avant' = "check"
    /\ queue' = queue \union buf
    /\ buf' = {}
    /\ UNCHANGED <<mainVars, rear, g_avant_depth, segs, peer, held, leaked,
                   recorded, lost, faults>>

\* The receiver has closed and the sender's thread has not been told yet: the
\* message goes into a pipe that is being torn down, and buf_free() is called.
AvantSendLost ==
    /\ avant = "send"
    /\ peer[run] = "closed"
    /\ avant' = "check"
    /\ lost' = lost \union buf
    /\ buf' = {}
    /\ g_avant_depth' = g_avant_depth - 1
    /\ UNCHANGED <<mainVars, rear, segs, peer, queue, held, leaked, recorded,
                   faults>>

\* sender.send throws: return -1; the message object frees the buffer.
AvantSendFail ==
    /\ avant = "send"
    /\ faults < MaxFaults
    /\ faults' = faults + 1
    /\ avant' = "test_end"
    /\ lost' = lost \union buf
    /\ buf' = {}
    /\ g_avant_depth' = g_avant_depth - 1
    /\ UNCHANGED <<mainVars, rear, segs, peer, queue, held, leaked, recorded>>

-----------------------------------------------------------------------------
(* DTrear's thread *)

RearOuter ==
    /\ \/ rear = "switch" /\ rear' = AfterSwitch
       \/ rear = "test_end" /\ rear' = AfterTestEnd
    /\ UNCHANGED <<mainVars, avant, g_avant_depth, segs, buf, peer, queue, held,
                   leaked, recorded, lost, faults>>

\* A PULL socket is made and bound: senders that connected early are attached.
RearOpen ==
    /\ rear = "open"
    /\ rear' = "check_state"
    /\ peer' = [r \in 1..run |->
                   IF peer[r] = "pending" THEN "attached" ELSE peer[r]]
    /\ UNCHANGED <<mainVars, avant, g_avant_depth, segs, buf, queue, held,
                   leaked, recorded, lost, faults>>

\* (c_state != SM_RUNNING) && ...: the first operand.
RearCheckState ==
    /\ rear = "check_state"
    /\ rear' = IF c_state # "RUNNING" THEN "check_depth" ELSE "recv"
    /\ UNCHANGED <<mainVars, avant, g_avant_depth, segs, buf, peer, queue, held,
                   leaked, recorded, lost, faults>>

\* Mutant: the commented-out test, which only looks at c_state.
RearCheckDepthNot ==
    /\ rear = "check_depth"
    /\ rear' = "close"
    /\ UNCHANGED <<mainVars, avant, g_avant_depth, segs, buf, peer, queue, held,
                   leaked, recorded, lost, faults>>

\* Mutant: the counter is expected to go below zero.
RearCheckDepthBelow ==
    /\ rear = "check_depth"
    /\ rear' = IF g_avant_depth < 0 THEN "close" ELSE "recv"
    /\ UNCHANGED <<mainVars, avant, g_avant_depth, segs, buf, peer, queue, held,
                   leaked, recorded, lost, faults>>

\* ... && (g_avant_depth <= 0): the second operand, read later.
RearCheckDepth ==
    /\ rear = "check_depth"
    /\ rear' = IF g_avant_depth <= 0 THEN "close" ELSE "recv"
    /\ UNCHANGED <<mainVars, avant, g_avant_depth, segs, buf, peer, queue, held,
                   leaked, recorded, lost, faults>>

\* A received message replaces the one in the message object, which is freed
\* first, whether or not there is one to receive.
FreeHeld(n) == g_avant_depth' = g_avant_depth - Cardinality(held) - n

Receivable == {b \in queue : peer[b.run] = "attached"}

\* Mutant: any waiting message, whatever was sent before it.
RearRecvUnordered ==
    /\ rear = "recv"
    /\ \E b \in Receivable :
           /\ held' = {b}
           /\ queue' = queue \ {b}
    /\ rear' = "write"
    /\ FreeHeld(0)
    /\ UNCHANGED <<mainVars, avant, segs, buf, peer, leaked, recorded, lost,
                   faults>>

\* Mutant: the message stays in the pipe.
RearRecvKept ==
    /\ rear = "recv"
    /\ \E b \in Receivable :
           /\ \A c \in InPipe(b.run) : b.seg <= c.seg
           /\ held' = {b}
    /\ rear' = "write"
    /\ FreeHeld(0)
    /\ UNCHANGED <<mainVars, avant, segs, buf, peer, queue, leaked, recorded,
                   lost, faults>>

\* A message is there: the oldest of one of the attached senders.
RearRecv ==
    /\ rear = "recv"
    /\ \E b \in Receivable :
           /\ \A c \in InPipe(b.run) : b.seg <= c.seg
           /\ held' = {b}
           /\ queue' = queue \ {b}
    /\ rear' = "write"
    /\ FreeHeld(0)
    /\ UNCHANGED <<mainVars, avant, segs, buf, peer, leaked, recorded, lost,
                   faults>>

\* EAGAIN: usleep(100) and around again.
RearRecvNothing ==
    /\ rear = "recv"
    /\ Receivable = {}
    /\ rear' = "check_state"
    /\ FreeHeld(0)
    /\ held' = {}
    /\ UNCHANGED <<mainVars, avant, segs, buf, peer, queue, leaked, recorded,
                   lost, faults>>

\* receiver.recv throws, whether or not a message waits: around again.  The
\* call may have freed the old message before it failed.
RearRecvFail ==
    /\ rear = "recv"
    /\ faults < MaxFaults
    /\ faults' = faults + 1
    /\ rear' = "check_state"
    /\ \/ held' = {} /\ FreeHeld(0)
       \/ UNCHANGED <<held, g_avant_depth>>
    /\ UNCHANGED <<mainVars, avant, segs, buf, peer, queue, leaked, recorded, lost>>

\* write_data(): what becomes of the bytes is in SpillWriter.
RearWrite ==
    /\ rear = "write"
    /\ rear' = "check_state"
    /\ \E b \in held : recorded' = Append(recorded, b)
    /\ UNCHANGED <<mainVars, avant, g_avant_depth, segs, buf, peer, queue, held,
                   leaked, lost, faults>>

\* The message object and the PULL socket are destroyed, with everything that
\* has been sent to it meanwhile.
RearClose ==
    /\ rear = "close"
    /\ rear' = "test_end"
    /\ FreeHeld(Cardinality(Receivable))
    /\ held' = {}
    /\ queue' = queue \ Receivable
    /\ lost' = lost \union Receivable
    /\ peer' = [r \in 1..run |->
                   IF peer[r] = "attached" THEN "closed" ELSE peer[r]]
    /\ UNCHANGED <<mainVars, avant, segs, buf, leaked, recorded, faults>>

-----------------------------------------------------------------------------
MainStep == Boot \/ Stop \/ Join

\* The steps of DTavant that its thread takes when it can.
AvantStep ==
    AvantOuter \/ AvantOpen \/ AvantCheck \/ AvantAlloc \/ AvantRead \/ AvantSend

\* What may happen to it, and need not.
AvantFault == AvantAllocFail \/ AvantReadFail \/ AvantSendLost \/ AvantSendFail

RearStep ==
    \/ RearOuter \/ RearOpen \/ RearCheckState \/ RearCheckDepth
    \/ RearRecv \/ RearRecvNothing \/ RearRecvFail \/ RearWrite \/ RearClose

Next == MainStep \/ Command \/ Quit \/ AvantStep \/ AvantFault \/ RearStep

Spec == Init /\ [][Next]_vars

(***************************************************************************)
(* The operating system runs every thread that can run, and the detector   *)
(* delivers (a read ends).  The user need not type anything, and nothing   *)
(* forces a failure to happen.                                             *)
(***************************************************************************)
FairSpec ==
    /\ Spec
    /\ WF_vars(MainStep)
    /\ WF_vars(AvantStep)
    /\ WF_vars(RearStep)

-----------------------------------------------------------------------------
(* Correctness *)

MainPc == {"idle", "running", "console", "stopping", "ending", "join", "exit"}
OuterPc == {"switch", "test_end", "open", "ended"}
AvantPc == OuterPc \union {"check", "alloc", "read", "send"}
RearPc ==
    OuterPc \union {"check_state", "check_depth", "recv", "write", "close"}

TypeOK ==
    /\ c_state \in {"INIT", "IDLE", "RUNNING", "END"}
    /\ main \in MainPc
    /\ commands \in Nat
    /\ avant \in AvantPc
    /\ rear \in RearPc
    /\ g_avant_depth \in Int
    /\ segs \in Nat
    /\ buf \subseteq Block /\ queue \subseteq Block /\ held \subseteq Block
    /\ leaked \subseteq Block /\ lost \subseteq Block
    /\ peer \in Seq(PeerState)
    /\ recorded \in Seq(Block)
    /\ faults \in Nat

(***************************************************************************)
(* The counter the two threads and ZeroMQ share is exact: whatever the     *)
(* interleaving of allocations and buf_free() calls, g_avant_depth is the  *)
(* number of buffers that exist, wherever they are.                        *)
(***************************************************************************)
DepthAccounting == g_avant_depth = Cardinality(Live)

(***************************************************************************)
(* DTrear decides to leave its loop only when no buffer exists: none in    *)
(* DTavant's hands, none in a socket.  This is what the second operand at   *)
(* dtrear.cxx:145 is for, and it is read after the first one.              *)
(***************************************************************************)
DrainedBeforeLeaving ==
    [][rear = "check_depth" /\ rear' = "close" => Live = {}]_vars

\* The blocks on their way to the file.
Transit == buf \union queue \union (IF rear = "write" THEN held ELSE {})

\* The blocks handed to write_data so far.
Written == {recorded[i] : i \in 1..Len(recorded)}

(***************************************************************************)
(* Every block DTavant ever began has one fate: it is on its way, in the   *)
(* file (once), dropped with its message, or leaked.  None vanishes and    *)
(* none is written twice, also when sockets are closed and reopened.       *)
(***************************************************************************)
OneFate ==
    /\ {b.seg : b \in Transit \union leaked \union lost \union Written} = 1..segs
    /\ Cardinality(Transit) + Cardinality(leaked) + Cardinality(lost)
         + Len(recorded) = segs

(***************************************************************************)
(* The data path implements BlockRecorder: in particular the blocks of one *)
(* run are written in the order they were read, each at most once.         *)
(***************************************************************************)
Recorder == INSTANCE BlockRecorder WITH accepted <- segs, transit <- Transit

Implements == Recorder!Spec

InOrderOfRun == Recorder!InOrderOfRun

\* DTavant is in a send that no receiver will ever let go on.
Stranded ==
    /\ avant = "send"
    /\ ~HasRoom
    /\ peer[run] = "closed" \/ rear = "ended"

(***************************************************************************)
(* What main assumes when it joins the threads (dtmain.cxx:114-117, the    *)
(* "main end" it then prints), the race on the last send aside: the test   *)
(* on g_avant_depth lets DTrear out of its loop.                           *)
(***************************************************************************)
EndsUnlessStranded == (main = "join") ~> (main = "exit" \/ Stranded)

-----------------------------------------------------------------------------
(* Why DepthAccounting and the order hold: the invariant PipelineProofs     *)
(* proves inductive                                                        *)

AtMostOne(S) == S = {} \/ \E b \in S : S = {b}

\* DTavant holds a buffer exactly between the allocation and the send, and it
\* is the latest one; DTrear holds a message when it is about to write it.
Hands ==
    /\ buf # {} <=> avant \in {"read", "send"}
    /\ AtMostOne(buf) /\ AtMostOne(held)
    /\ rear = "write" => held # {}
    /\ \A b \in buf : b.seg = segs /\ b.run = run

\* No buffer has two owners.
OneOwner ==
    /\ buf \cap queue = {} /\ buf \cap held = {} /\ buf \cap leaked = {}
    /\ queue \cap held = {} /\ queue \cap leaked = {} /\ held \cap leaked = {}
    /\ \A b \in Live : b.seg \in 1..segs

\* The message about to be written is older than what follows it in its pipe.
HeldIsOldest ==
    rear = "write" => \A h \in held, c \in queue : h.run = c.run => h.seg <= c.seg

IInv ==
    /\ TypeOK
    /\ IsFiniteSet(Live)
    /\ Hands
    /\ OneOwner
    /\ HeldIsOldest
    /\ DepthAccounting

\* No block has two fates, as far as the count of them needs it.
FateInv ==
    /\ OneFate
    /\ IsFiniteSet(lost) /\ Transit \cap lost = {}

=============================================================================
