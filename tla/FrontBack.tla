------------------------------ MODULE FrontBack ------------------------------
(***************************************************************************)
(* The two program form of the recorder: fe processes (fe.cxx), one for    *)
(* each detector, push blocks over ZeroMQ to one back end, be (be.cxx) or   *)
(* benb (benb.cxx), which writes them to files.  The programs are started  *)
(* in any order, and neither loop has an end: a back end ends when it is    *)
(* killed or crashes, a front end also when a call fails.                  *)
(*                                                                         *)
(* Of libzmq the module models what the programs rely on: a socket that    *)
(* connects keeps its messages until there is somebody to take them, and   *)
(* connects again by itself; once handed over they are in the wire, that   *)
(* is, in the kernel or in the receiver, and are lost with it; a process    *)
(* that closes its socket and its context waits for its messages to leave. *)
(*                                                                         *)
(* zportname() names a Unix domain socket; a port above 1024 gives the     *)
(* name tcp://*:port, which serves for a bind only, so connections break    *)
(* with one of the two processes and not between them.                     *)
(***************************************************************************)
EXTENDS Naturals, Sequences, FiniteSets

CONSTANTS
    Fronts,         \* the detectors, with one fe at a time for each
    PipeLen,        \* how many messages a front end keeps for the back end
    WireLen,        \* how many more fit into the wire
    MaxBlocks,      \* bound: no block is begun beyond this one
    MaxStarts,      \* bound: fe processes started
    MaxKills,       \* bound: processes killed
    MaxFaults       \* bound: failing allocations, reads, sends and receives

ASSUME LengthsAssumption == PipeLen \in Nat \ {0} /\ WireLen \in Nat \ {0}
ASSUME BoundsAssumption ==
    /\ MaxBlocks \in Nat /\ MaxStarts \in Nat
    /\ MaxKills \in Nat /\ MaxFaults \in Nat

VARIABLES
    fe,         \* where the fe of each detector is; "off": there is none
    run,        \* its number among all fe processes started
    starts,     \* fe processes started so far
    accepted,   \* blocks begun so far, by all of them; a block's seg
    buf,        \* {the block each fe is working on} or {}
    pipe,       \* messages in the sockets of the front ends
    wire,       \* messages handed over and not yet received
    back,       \* where the back end is; "off": there is none
    program,    \* which of the two it is
    held,       \* {the block in its message object} or {}
    since,      \* the length of recorded when it was started
    recorded,   \* the blocks written by all back ends, in order
    lost,       \* blocks that went with a process
    kills, faults

feVars == <<fe, run, starts, accepted, buf>>
backVars == <<back, program, held, since, recorded>>
vars == <<feVars, pipe, wire, backVars, lost, kills, faults>>

Block == [run : Nat, seg : Nat]

Init ==
    /\ fe = [f \in Fronts |-> "off"]
    /\ run = [f \in Fronts |-> 0]
    /\ starts = 0 /\ accepted = 0
    /\ buf = [f \in Fronts |-> {}]
    /\ pipe = {} /\ wire = {} /\ lost = {}
    /\ back = "off" /\ program = "be"
    /\ held = {}
    /\ since = 0
    /\ recorded = <<>>
    /\ kills = 0 /\ faults = 0

OfRun(S, r) == {b \in S : b.run = r}

\* The block that the back end has received and not yet written.
InHand == IF back = "write" THEN held ELSE {}

\* The blocks of S that are next in the order of their senders.
Oldest(S) == {b \in S : \A c \in OfRun(S, b.run) : b.seg <= c.seg}

FeGoto(f, from, to) == fe[f] = from /\ fe' = [fe EXCEPT ![f] = to]

\* One more failure; which call fails is up to the action.
Fault == faults < MaxFaults /\ faults' = faults + 1

-----------------------------------------------------------------------------
(* fe *)

\* main() has its connection to the detector; reader() makes the PUSH socket
\* and connects it, whether or not a back end is there.
FeStart(f) ==
    /\ FeGoto(f, "off", "read")
    /\ starts < MaxStarts
    /\ starts' = starts + 1
    /\ run' = [run EXCEPT ![f] = starts + 1]
    /\ UNCHANGED <<accepted, buf, pipe, wire, backVars, lost, kills, faults>>

\* The next block of this detector: its buffer is allocated and filled; at the end of the stream
\* it stays empty, and is sent all the same.
FeRead(f) ==
    /\ FeGoto(f, "read", "send")
    /\ accepted < MaxBlocks
    /\ accepted' = accepted + 1
    /\ buf' = [buf EXCEPT ![f] = {[run |-> run[f], seg |-> accepted + 1]}]
    /\ UNCHANGED <<run, starts, pipe, wire, backVars, lost, kills, faults>>

\* The allocation throws (return -1) or tcp.read() does (break, and the buffer is
\* neither sent nor freed): the loop ends without another block.
FeReadFails(f) ==
    /\ FeGoto(f, "read", "linger")
    /\ Fault
    /\ UNCHANGED <<run, starts, accepted, buf, pipe, wire, backVars, lost, kills>>

HasRoom(f) == Cardinality(OfRun(pipe, run[f])) < PipeLen

\* Mutant: a send that does not wait; its EAGAIN is ignored and the block dropped.
FeSendNoWait(f) ==
    /\ FeGoto(f, "send", "read")
    /\ pipe' = IF HasRoom(f) THEN pipe \union buf[f] ELSE pipe
    /\ lost' = IF HasRoom(f) THEN lost ELSE lost \union buf[f]
    /\ buf' = [buf EXCEPT ![f] = {}]
    /\ UNCHANGED <<run, starts, accepted, wire, backVars, kills, faults>>

\* sender.send(message) waits for room.
FeSend(f) ==
    /\ FeGoto(f, "send", "read")
    /\ HasRoom(f)
    /\ pipe' = pipe \union buf[f]
    /\ buf' = [buf EXCEPT ![f] = {}]
    /\ UNCHANGED <<run, starts, accepted, wire, backVars, lost, kills, faults>>

\* reader() has returned and destroyed the socket and the context, which wait
\* until the pipe is empty; then the connection is closed and main() returns.
FeLeaves(f) ==
    /\ FeGoto(f, "linger", "off")
    /\ OfRun(pipe, run[f]) = {}
    /\ UNCHANGED <<run, starts, accepted, buf, pipe, wire, backVars, lost,
                   kills, faults>>

\* The process ends at once, with what it has not handed over to the kernel.
FeDies(f) ==
    /\ fe[f] # "off"
    /\ fe' = [fe EXCEPT ![f] = "off"]
    /\ \E cut \in 0..accepted :
           LET gone == OfRun(pipe, run[f])
                         \union {b \in OfRun(wire, run[f]) : b.seg > cut}
           IN /\ pipe' = pipe \ gone
              /\ wire' = wire \ gone
              /\ lost' = lost \union gone \union buf[f]
    /\ buf' = [buf EXCEPT ![f] = {}]
    /\ UNCHANGED <<run, starts, accepted, backVars>>

\* sender.send() throws zmq::error_t, which nobody catches.
FeAborts(f) == fe[f] = "send" /\ Fault /\ FeDies(f) /\ UNCHANGED kills

\* A user ends it with a signal.
Killed == kills < MaxKills /\ kills' = kills + 1

FeKilled(f) == Killed /\ FeDies(f) /\ UNCHANGED faults

-----------------------------------------------------------------------------
(* The ZeroMQ connection *)

\* The oldest message of a sender goes to the back end that is bound there.
HandOver ==
    /\ back # "off"
    /\ \E b \in Oldest(pipe) :
           /\ Cardinality(OfRun(wire, b.run)) < WireLen
           /\ pipe' = pipe \ {b}
           /\ wire' = wire \union {b}
    /\ UNCHANGED <<feVars, backVars, lost, kills, faults>>

-----------------------------------------------------------------------------
(* be and benb *)

\* Either program is started; it binds and opens its first file.
BackStart ==
    /\ back = "off"
    /\ back' = "recv"
    /\ program' \in {"be", "benb"}
    /\ held' = {}
    /\ since' = Len(recorded)
    /\ UNCHANGED <<feVars, pipe, wire, recorded, lost, kills, faults>>

\* Mutant: only the first sender is served.
BackRecvOne ==
    /\ back = "recv"
    /\ \E b \in Oldest(wire) :
           /\ b.run = 1
           /\ held' = {b}
           /\ wire' = wire \ {b}
    /\ back' = "write"
    /\ UNCHANGED <<feVars, pipe, program, since, recorded, lost, kills, faults>>

\* Mutant: the message stays where it was.
BackRecvKept ==
    /\ back = "recv"
    /\ \E b \in Oldest(wire) : held' = {b}
    /\ back' = "write"
    /\ UNCHANGED <<feVars, pipe, wire, program, since, recorded, lost, kills,
                   faults>>

\* A message is there: the oldest of one of the senders.
BackRecv ==
    /\ back = "recv"
    /\ \E b \in Oldest(wire) :
           /\ held' = {b}
           /\ wire' = wire \ {b}
    /\ back' = "write"
    /\ UNCHANGED <<feVars, pipe, program, since, recorded, lost, kills, faults>>

\* None is there: be waits in recv, benb sleeps and calls it again; either
\* way recv has emptied the message object.
BackRecvNothing ==
    /\ back = "recv"
    /\ wire = {}
    /\ held' = {}
    /\ UNCHANGED <<feVars, pipe, wire, back, program, since, recorded, lost,
                   kills, faults>>

\* recv throws.  benb goes around its loop.  be goes on as if there were a
\* message, with what the object holds: the last block or nothing at all.
BackRecvFails ==
    /\ back = "recv"
    /\ Fault
    /\ held' \in {held, {}}
    /\ back' = IF program = "benb" THEN "recv"
               ELSE IF held' = {} THEN "wild" ELSE "again"
    /\ UNCHANGED <<feVars, pipe, wire, program, since, recorded, lost, kills>>

\* The block goes to the file; how it is split is in SpillWriter.
BackWrite ==
    /\ back \in {"write", "again"}
    /\ back' = "recv"
    /\ \E b \in held : recorded' = Append(recorded, b)
    /\ UNCHANGED <<feVars, pipe, wire, program, held, since, lost, kills, faults>>

\* The process ends, with everything on its side of the connection.
BackDies ==
    /\ back # "off"
    /\ back' = "off"
    /\ held' = {}
    /\ wire' = {}
    /\ lost' = lost \union wire \union InHand
    /\ UNCHANGED <<feVars, pipe, program, since, recorded>>

\* message.size() - 4 of an empty message wraps around: the loop runs through
\* memory until it meets a page that is not there.
BackCrashes == back = "wild" /\ BackDies /\ UNCHANGED <<kills, faults>>

BackKilled == Killed /\ BackDies /\ UNCHANGED faults

-----------------------------------------------------------------------------
\* What a front end does by itself.
FeStep(f) == FeRead(f) \/ FeSend(f) \/ FeLeaves(f)

FeTrouble(f) == FeReadFails(f) \/ FeAborts(f) \/ FeKilled(f)

BackStep == BackRecv \/ BackRecvNothing \/ BackWrite \/ BackCrashes

BackTrouble == BackRecvFails \/ BackKilled

Next ==
    \/ \E f \in Fronts : FeStart(f) \/ FeStep(f) \/ FeTrouble(f)
    \/ HandOver
    \/ BackStart \/ BackStep \/ BackTrouble

Spec == Init /\ [][Next]_vars

(***************************************************************************)
(* Processes that are there run, their detectors send and the connection   *)
(* works.  Nobody need start a program, and nothing need fail.             *)
(***************************************************************************)
FairSpec ==
    /\ Spec
    /\ \A f \in Fronts : WF_vars(FeStep(f))
    /\ WF_vars(HandOver)
    /\ WF_vars(BackStep)

-----------------------------------------------------------------------------
(* Correctness *)

TypeOK ==
    /\ fe \in [Fronts -> {"off", "read", "send", "linger"}]
    /\ run \in [Fronts -> Nat]
    /\ starts \in Nat /\ accepted \in Nat
    /\ buf \in [Fronts -> SUBSET Block]
    /\ pipe \subseteq Block /\ wire \subseteq Block /\ held \subseteq Block
    /\ lost \subseteq Block
    /\ back \in {"off", "recv", "write", "again", "wild"}
    /\ program \in {"be", "benb"}
    /\ recorded \in Seq(Block)
    /\ since \in 0..Len(recorded)
    /\ kills \in Nat /\ faults \in Nat

Buffers == UNION {buf[f] : f \in Fronts}

\* The blocks on their way to the file.
Transit == Buffers \union pipe \union wire \union InHand

Recorder == INSTANCE BlockRecorder WITH transit <- Transit

(***************************************************************************)
(* Any number of front ends and back ends, one after another, implement    *)
(* BlockRecorder: no block is written twice, and those of one fe process   *)
(* in their order, whoever is killed and started again.  The one exception *)
(* is the step in which be, after a recv that throws (be.cxx:72-74), writes *)
(* the last block of the files once more.                                  *)
(***************************************************************************)
WrittenAgain ==
    /\ back = "again" /\ recorded # <<>>
    /\ recorded' = Append(recorded, recorded[Len(recorded)])
    /\ UNCHANGED <<accepted, Transit>>

Implements == Recorder!Init /\ [][Recorder!Next \/ WrittenAgain]_Recorder!vars

(***************************************************************************)
(* What one back end writes of one fe process is a piece of its stream     *)
(* without a gap: blocks are lost where a process ends, and never between   *)
(* two that are written.  Restarts of fe, failed sends, receives that      *)
(* throw and full pipes do not make a hole in a file.                      *)
(***************************************************************************)
GapOnlyAtRestart ==
    \A i, j \in (since + 1)..Len(recorded) :
        \A b \in OfRun(lost, recorded[i].run) :
            recorded[j].run = b.run =>
                ~(recorded[i].seg < b.seg /\ b.seg < recorded[j].seg)

\* Block s has been begun and is neither written nor lost.
OnItsWay(s) == \E b \in Transit : b.seg = s

(***************************************************************************)
(* While there is a back end, every block comes to its end: the file, or   *)
(* the end of the process that had it.  In particular a recv of benb that   *)
(* throws or finds nothing does not keep it from the next message.         *)
(***************************************************************************)
Delivered == \A s \in 1..MaxBlocks : OnItsWay(s) ~> (back = "off" \/ ~OnItsWay(s))

(***************************************************************************)
(* A front end whose loop ended after an error ends too, unless there is   *)
(* no back end to take what it has left: it waits for that without a limit. *)
(***************************************************************************)
FrontEnds == \A f \in Fronts : (fe[f] = "linger") ~> (back = "off" \/ fe[f] = "off")

-----------------------------------------------------------------------------
(* The inductive invariant of Implements and GapOnlyAtRestart *)

Written == {recorded[i] : i \in 1..Len(recorded)}

\* What the back end that was started last has written, and what it can still
\* come to write without anything more being handed over.
OfThisBack == {recorded[i] : i \in (since + 1)..Len(recorded)}
Arrived == OfThisBack \union InHand \union wire

\* Of one fe process, the blocks of S are older than those of T.
Before(S, T) == \A b \in S, c \in T : b.run = c.run => b.seg < c.seg

Alive(f) == fe[f] # "off"

\* Each fe has a number of its own, and a socket is there as long as its process.
OneRunEach ==
    /\ \A f \in Fronts : run[f] <= starts
    /\ \A f, g \in Fronts : Alive(f) /\ Alive(g) /\ run[f] = run[g] => f = g
    /\ \A f \in Fronts : \A b \in buf[f] : fe[f] = "send" /\ b.run = run[f]
    /\ \A b \in pipe : \E f \in Fronts : Alive(f) /\ b.run = run[f]

Numbered ==
    \A b \in Transit \union Written \union lost :
        b.run <= starts /\ b.seg <= accepted

\* The stages of the way to the file follow one another.
Fifo ==
    /\ Before(Written, Transit)
    /\ Before(InHand, wire \union pipe \union Buffers)
    /\ Before(wire, pipe \union Buffers)
    /\ Before(pipe, Buffers)

\* The message object has one block, which is the last one written unless back says
\* "write"; the wire ends with the back end.
BackHolds ==
    /\ \A b, c \in held : b = c
    /\ back \in {"recv", "again"} =>
           \A b \in held : since < Len(recorded) /\ b = recorded[Len(recorded)]
    /\ back = "off" => wire = {}

\* While an fe is there, what is lost of it is older than all that is not, but
\* for the files of earlier back ends.
LostBefore ==
    \A f \in Fronts : Alive(f) =>
        LET gone == OfRun(lost, run[f])
        IN /\ Before(gone, pipe \union Buffers)
           /\ back # "off" => Before(gone, Arrived)

\* Nothing lost is between two blocks of S.
NoGap(S) ==
    \A x, y \in S : \A b \in lost :
        b.run = x.run /\ b.run = y.run => ~(x.seg < b.seg /\ b.seg < y.seg)

IInv ==
    /\ TypeOK
    /\ OneRunEach
    /\ Numbered
    /\ Fifo
    /\ BackHolds
    /\ LostBefore
    /\ NoGap(OfThisBack)
    /\ back # "off" => NoGap(Arrived)

=============================================================================
