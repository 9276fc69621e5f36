------------------------------- MODULE Dtmain -------------------------------
(***************************************************************************)
(* dtmain from its first thread to its last: the run control of             *)
(* TaskControl around the data path of Pipeline.                           *)
(*                                                                         *)
(* Pipeline's variables are this module's too; TaskControl is an instance  *)
(* that shares c_state and, once the start is over, main.  While a task is *)
(* in st_running its place in there is Pipeline's avant or rear; everywhere *)
(* else its place is TaskControl's pc, and avant or rear only follows it.   *)
(*                                                                         *)
(* What the composition adds: the connection that DTavant's st_init made,  *)
(* or did not make, is the one its st_running reads from; an st_running    *)
(* ends when its code ends it; and the stop of the data path goes through  *)
(* the state machine that TaskControl describes.                           *)
(***************************************************************************)
EXTENDS Pipeline, Tasks

\* main's vector is {avant, rear}.
ASSUME TwoTasksAssumption == NTasks = 2 /\ Avants = {1}

Avant == 1
Rear == 2

VARIABLES
    m_is_done, m_is_good, pc, outcome,  \* of each task, as in TaskControl
    start,          \* where main() is before the run; then "over"
    k,              \* the task main's current loop looks at
    is_good_init,   \* main's local variable
    connected,      \* tcp points to a connection
    crashed         \* tcp was used although it does not

StartPc == {"run", "clear_done", "clear_good", "set_init", "wait", "collect",
            "decide", "failed"}

\* TaskControl's view of main: the locations of the start, then Pipeline's.
ControlMain == IF start = "over" THEN main ELSE start

Control == INSTANCE TaskControl WITH main <- ControlMain

taskVars == <<m_is_done, m_is_good, pc, outcome>>
allVars == <<vars, taskVars, start, k, is_good_init, connected, crashed>>

DtInit ==
    /\ Init
    /\ start = "run"
    /\ Control!Init
    /\ connected = FALSE
    /\ crashed = FALSE

-----------------------------------------------------------------------------
(* main() *)

\* Pipeline's variables that main does not assign.
dataVars == <<commands, avant, rear, g_avant_depth, segs, buf, peer, queue,
              held, leaked, recorded, lost, faults>>

\* From the first i->run() to the branch on is_good_init; the branch of a bad
\* start goes on to the joins at once.
Start ==
    /\ start # "over"
    /\ start' \in StartPc \union {"over"}
    /\ main' = IF start = "failed" THEN "join" ELSE main
    /\ Control!MainStep
    /\ UNCHANGED <<dataVars, connected, crashed>>

ControlAlone == UNCHANGED <<taskVars, start, k, is_good_init, connected, crashed>>

\* The two states main sets by itself, before and after its console.
Switches ==
    /\ start = "over"
    /\ Boot \/ Stop
    /\ ControlAlone

Console ==
    /\ start = "over"
    /\ Command \/ Quit
    /\ ControlAlone

\* The first thread is joined.
JoinFirst ==
    /\ start = "over"
    /\ k < NTasks
    /\ UNCHANGED <<vars, start, connected, crashed>>
    /\ Control!Join

\* The last one is: now both have ended.
JoinLast ==
    /\ start = "over"
    /\ k = NTasks
    /\ UNCHANGED <<start, connected, crashed>>
    /\ Join
    /\ Control!Join

-----------------------------------------------------------------------------
(* state_machine(), in the thread of task t *)

\* The two reads of c_state; Pipeline sees them too.
Outer(t, inner) ==
    /\ UNCHANGED <<start, connected, crashed>>
    /\ inner
    /\ Control!Switch(t) \/ Control!TestEnd(t)

\* st_init and st_idle, and the flag around them.  Only an st_init that makes a
\* connection assigns tcp; a second connection leaves the first one open.
OutsideOfRun(t) ==
    /\ UNCHANGED <<vars, start, crashed>>
    /\ \/ /\ Control!TestDone(t) \/ Control!SetDone(t) \/ Control!StIdle(t)
             \/ Control!InitFails(t)
          /\ UNCHANGED connected
       \/ /\ Control!InitSucceeds(t)
          /\ connected' = (connected \/ t \in Control!Connecting)

\* A step of st_running; the one that returns from it is the state machine's too.
Inside(t, place, inner) ==
    /\ pc[t] = "st_running"
    /\ UNCHANGED <<start, crashed, connected>>
    /\ inner
    /\ IF place' = "test_end" THEN Control!StRunning(t)
       ELSE UNCHANGED <<taskVars, k, is_good_init>>

-----------------------------------------------------------------------------
(* The two threads *)

CanRead == IsDummy \/ connected

\* What DTavant's st_running does when nothing fails.
AvantWork ==
    \/ AvantOpen \/ AvantCheck \/ AvantAlloc \/ AvantSend
    \/ CanRead /\ AvantRead

\* And what may happen to it.
AvantTrouble ==
    \/ AvantAllocFail \/ AvantSendLost \/ AvantSendFail
    \/ CanRead /\ AvantReadFail

\* tcp->read() through the pointer the constructor left uninitialised.
WildRead ==
    /\ pc[Avant] = "st_running"
    /\ avant = "read"
    /\ ~CanRead
    /\ crashed' = TRUE
    /\ UNCHANGED <<vars, taskVars, start, k, is_good_init, connected>>

AvantThread ==
    \/ Outer(Avant, AvantOuter)
    \/ OutsideOfRun(Avant)
    \/ Inside(Avant, avant, AvantWork)
    \/ WildRead

RearWork ==
    \/ RearOpen \/ RearCheckState \/ RearCheckDepth
    \/ RearRecv \/ RearRecvNothing \/ RearRecvFail \/ RearWrite \/ RearClose

RearThread ==
    \/ Outer(Rear, RearOuter)
    \/ OutsideOfRun(Rear)
    \/ Inside(Rear, rear, RearWork)

MainThread == Start \/ Switches \/ JoinFirst \/ JoinLast

DtNext ==
    /\ ~crashed
    /\ MainThread \/ Console \/ AvantThread \/ Inside(Avant, avant, AvantTrouble)
         \/ RearThread

DtSpec == DtInit /\ [][DtNext]_allVars

(***************************************************************************)
(* As in the two modules: the operating system runs every thread that can  *)
(* run, the detector delivers, and the user need not type anything.        *)
(***************************************************************************)
DtFairSpec ==
    /\ DtSpec
    /\ WF_allVars(~crashed /\ MainThread)
    /\ WF_allVars(~crashed /\ AvantThread)
    /\ WF_allVars(~crashed /\ RearThread)

-----------------------------------------------------------------------------
(* Correctness, next to Pipeline's properties *)

(***************************************************************************)
(* The whole program implements TaskControl: whatever the data path does,  *)
(* c_state, the flags and the places of the threads move as the run        *)
(* control says, at the boundaries of st_running in particular.            *)
(***************************************************************************)
ImplementsControl == Control!Spec

\* TaskControl's properties of the start, of the whole program.
InitQuiescent == Control!InitQuiescent
NoFalseAlarm == Control!NoFalseAlarm
OutcomeIsFinal == Control!OutcomeIsFinal

(***************************************************************************)
(* Every start is decided: main reaches its console, or has ended all      *)
(* threads and returns, also when the start itself fails.                  *)
(***************************************************************************)
StartIsDecided == Control!StartIsDecided

(***************************************************************************)
(* DTavant uses the pointer tcp only after a connection was stored in it,  *)
(* unless main overlooked that its last st_init failed (FailureNoticed of  *)
(* TaskControl): the second st_init a thread may run does not take away    *)
(* the connection the first one made.                                      *)
(***************************************************************************)
WildOnlyIfOverlooked ==
    crashed => outcome[Avant] = "fail" /\ m_is_good[Avant]

(***************************************************************************)
(* After the user's end command, or a start that failed, both threads end  *)
(* and main returns, unless DTavant is stranded in a send, a leaked buffer *)
(* keeps the counter up or the program has crashed.  The 10 us polls, the  *)
(* empty receives, the states that a thread sleeps through and the sockets *)
(* that are opened again make no thread wait for the other for ever.       *)
(***************************************************************************)
ProgramEnds ==
    (main = "join") ~> (main = "exit" \/ Stranded \/ leaked # {} \/ crashed)

-----------------------------------------------------------------------------
(* Why WildOnlyIfOverlooked holds: what PipelineProofs proves with it *)

\* If the last st_init of DTavant returned 0, there is a connection to read from.
ConnectionMade == outcome[Avant] = "ok" => CanRead

ConnectionInv == ConnectionMade /\ WildOnlyIfOverlooked

=============================================================================
