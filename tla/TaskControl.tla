----------------------------- MODULE TaskControl -----------------------------
(***************************************************************************)
(* The run control of dtavant: main() of dtmain.cxx and the state machine  *)
(* of daqtask.cxx that every task thread runs.                             *)
(*                                                                         *)
(* The threads share three plain (neither atomic nor locked) variables:    *)
(* the static c_state, and m_is_done and m_is_good of each task.  main     *)
(* starts the threads first and clears the two flags afterwards, so every  *)
(* step below that touches one of them is an action of its own.            *)
(*                                                                         *)
(* st_idle and st_running only appear here as the time a thread spends in  *)
(* them; what st_running does with the data is in Pipeline, and Dtmain     *)
(* puts the two together.                                                  *)
(***************************************************************************)
EXTENDS Tasks

CONSTANT
    IsDummy     \* the --dummy option: DTavant opens no TCP connection

\* The tasks whose st_init can fail.
Connecting == IF IsDummy THEN {} ELSE Avants

RunState == {"INIT", "IDLE", "RUNNING", "END"}

VARIABLES
    c_state,        \* DAQTask::c_state
    m_is_done,      \* m_is_done of each task
    m_is_good,      \* m_is_good of each task
    pc,             \* where the thread of each task is in state_machine()
    main,           \* where main() is
    k,              \* the task main's current loop looks at
    is_good_init,   \* main's local variable
    outcome         \* history: how the last st_init of each task ended

taskVars == <<m_is_done, m_is_good, pc, outcome>>
mainVars == <<main, k, is_good_init>>
vars == <<c_state, taskVars, mainVars>>

TaskPc == {"unborn", "switch", "test_done", "st_init", "set_done",
           "st_idle", "st_running", "test_end", "ended"}
MainPc == {"run", "clear_done", "clear_good", "set_init", "wait", "collect",
           "decide", "idle", "running", "console", "stopping", "ending",
           "failed", "join", "exit"}

(***************************************************************************)
(* A C++ object is built before any thread runs.  The constructor sets     *)
(* m_is_done and leaves m_is_good as it finds it.                          *)
(***************************************************************************)
Init ==
    /\ c_state = "INIT"
    /\ m_is_done = [t \in Task |-> FALSE]
    /\ m_is_good \in [Task -> BOOLEAN]
    /\ pc = [t \in Task |-> "unborn"]
    /\ outcome = [t \in Task |-> "none"]
    /\ main = "run"
    /\ k = 1
    /\ is_good_init = TRUE

-----------------------------------------------------------------------------
(* The thread of one task: state_machine() *)

Goto(t, from, to) == pc[t] = from /\ pc' = [pc EXCEPT ![t] = to]

\* switch (c_state): one read of the shared state chooses the branch.
Switch(t) ==
    /\ pc[t] = "switch"
    /\ pc' = [pc EXCEPT ![t] = CASE c_state = "INIT"    -> "test_done"
                                 [] c_state = "IDLE"    -> "st_idle"
                                 [] c_state = "RUNNING" -> "st_running"
                                 [] c_state = "END"     -> "test_end"]
    /\ UNCHANGED <<c_state, m_is_done, m_is_good, outcome, mainVars>>

\* Mutant: the thread initialises whatever m_is_done says.
TestDoneAlways(t) ==
    /\ Goto(t, "test_done", "st_init")
    /\ UNCHANGED <<c_state, m_is_done, m_is_good, outcome, mainVars>>

\* if (!m_is_done) st_init() else usleep(1000).
TestDone(t) ==
    /\ Goto(t, "test_done", IF m_is_done[t] THEN "set_done" ELSE "st_init")
    /\ UNCHANGED <<c_state, m_is_done, m_is_good, outcome, mainVars>>

\* st_init returns 0; it does not touch m_is_good.
InitSucceeds(t) ==
    /\ Goto(t, "st_init", "set_done")
    /\ outcome' = [outcome EXCEPT ![t] = "ok"]
    /\ UNCHANGED <<c_state, m_is_done, m_is_good, mainVars>>

\* The connection attempt throws: m_is_good = false; return 1.
InitFails(t) ==
    /\ t \in Connecting
    /\ Goto(t, "st_init", "set_done")
    /\ outcome' = [outcome EXCEPT ![t] = "fail"]
    /\ m_is_good' = [m_is_good EXCEPT ![t] = FALSE]
    /\ UNCHANGED <<c_state, m_is_done, mainVars>>

\* Mutant: m_is_done is never set.
SetDoneForgotten(t) ==
    /\ Goto(t, "set_done", "test_end")
    /\ UNCHANGED <<c_state, m_is_done, m_is_good, outcome, mainVars>>

\* m_is_done = true, after either branch.
SetDone(t) ==
    /\ Goto(t, "set_done", "test_end")
    /\ m_is_done' = [m_is_done EXCEPT ![t] = TRUE]
    /\ UNCHANGED <<c_state, m_is_good, outcome, mainVars>>

\* usleep(1); st_idle(): DTavant and DTrear sleep 100 ms and return.
StIdle(t) ==
    /\ Goto(t, "st_idle", "test_end")
    /\ UNCHANGED <<c_state, m_is_done, m_is_good, outcome, mainVars>>

(***************************************************************************)
(* st_running() returns.  DTrear's does so after it has seen c_state leave *)
(* SM_RUNNING, but c_state may be SM_RUNNING again by the time it returns;  *)
(* DTavant's also returns when an allocation, a read or a send fails.       *)
(* Which of these happens when is in Dtmain; here it is any time.          *)
(***************************************************************************)
StRunning(t) ==
    /\ Goto(t, "st_running", "test_end")
    /\ UNCHANGED <<c_state, m_is_done, m_is_good, outcome, mainVars>>

\* if (c_state == SM_END) break;  a second read of the shared state.
TestEnd(t) ==
    /\ Goto(t, "test_end", IF c_state = "END" THEN "ended" ELSE "switch")
    /\ UNCHANGED <<c_state, m_is_done, m_is_good, outcome, mainVars>>

\* The steps a thread takes by itself; none of them waits for data.
Advance(t) ==
    \/ Switch(t)
    \/ TestDone(t)
    \/ InitSucceeds(t)
    \/ InitFails(t)
    \/ SetDone(t)
    \/ StIdle(t)
    \/ TestEnd(t)

-----------------------------------------------------------------------------
(* main() *)

\* One iteration of a "for (auto &i : tasks)" loop of main at label "here".
Loop(here, next) ==
    /\ main = here
    /\ main' = IF k = NTasks THEN next ELSE here
    /\ k' = IF k = NTasks THEN 1 ELSE k + 1

\* A statement of main that assigns the shared state.
SetState(here, s, next) ==
    /\ main = here
    /\ main' = next
    /\ c_state' = s
    /\ UNCHANGED <<taskVars, k, is_good_init>>

\* i->run(&context): the thread exists and may run from here on.
Run ==
    /\ Loop("run", "clear_done")
    /\ pc' = [pc EXCEPT ![k] = "switch"]
    /\ UNCHANGED <<c_state, m_is_done, m_is_good, outcome, is_good_init>>

ClearIsDone ==
    /\ Loop("clear_done", "clear_good")
    /\ m_is_done' = [m_is_done EXCEPT ![k] = FALSE]
    /\ UNCHANGED <<c_state, m_is_good, pc, outcome, is_good_init>>

\* Mutant: m_is_good keeps what the constructor left in it.
ClearIsGoodForgotten ==
    /\ Loop("clear_good", "set_init")
    /\ UNCHANGED <<c_state, taskVars, is_good_init>>

\* clear_is_good() sets the flag to true.
ClearIsGood ==
    /\ Loop("clear_good", "set_init")
    /\ m_is_good' = [m_is_good EXCEPT ![k] = TRUE]
    /\ UNCHANGED <<c_state, m_is_done, pc, outcome, is_good_init>>

SetInit == SetState("set_init", "INIT", "wait")

\* Mutant: main does not wait for the task.
WaitNot ==
    /\ Loop("wait", "collect")
    /\ UNCHANGED <<c_state, taskVars, is_good_init>>

\* while (i->is_done() != true) usleep(10): blocks main on one task at a time.
Wait ==
    /\ m_is_done[k]
    /\ Loop("wait", "collect")
    /\ UNCHANGED <<c_state, taskVars, is_good_init>>

Collect ==
    /\ Loop("collect", "decide")
    /\ is_good_init' = (is_good_init /\ m_is_good[k])
    /\ UNCHANGED <<c_state, taskVars>>

\* if (is_good_init) ... else "Initialization fail!"
Decide ==
    /\ main = "decide"
    /\ main' = IF is_good_init THEN "idle" ELSE "failed"
    /\ UNCHANGED <<c_state, taskVars, k, is_good_init>>

SetIdle    == SetState("idle", "IDLE", "running")
SetRunning == SetState("running", "RUNNING", "console")

\* The console loop: run and idle set the state, four words leave the loop.
Command ==
    \/ SetState("console", "RUNNING", "console")
    \/ SetState("console", "IDLE", "console")
    \/ SetState("console", c_state, "stopping")

Stop == SetState("stopping", "IDLE", "ending")
End  == SetState("ending", "END", "join")
Fail == SetState("failed", "END", "join")

\* i->get_thread()->join(); main deletes the tasks when all have been joined.
Join ==
    /\ pc[k] = "ended"
    /\ Loop("join", "exit")
    /\ UNCHANGED <<c_state, taskVars, is_good_init>>

\* What main does without waiting for its user.
MainStep ==
    \/ Run \/ ClearIsDone \/ ClearIsGood \/ SetInit \/ Wait \/ Collect
    \/ Decide \/ SetIdle \/ SetRunning \/ Stop \/ End \/ Fail \/ Join

Next ==
    \/ \E t \in Task : Advance(t) \/ StRunning(t)
    \/ MainStep
    \/ Command

Spec == Init /\ [][Next]_vars

(***************************************************************************)
(* The operating system schedules every thread that can run: main and the   *)
(* threads keep stepping.  Nothing is assumed of the user (Command) nor of  *)
(* the end of st_running, which may have to wait for data.                 *)
(***************************************************************************)
FairSpec ==
    /\ Spec
    /\ WF_vars(MainStep)
    /\ \A t \in Task : WF_vars(Advance(t))

-----------------------------------------------------------------------------
(* Correctness *)

TypeOK ==
    /\ c_state \in RunState
    /\ m_is_done \in [Task -> BOOLEAN]
    /\ m_is_good \in [Task -> BOOLEAN]
    /\ pc \in [Task -> TaskPc]
    /\ outcome \in [Task -> {"none", "ok", "fail"}]
    /\ main \in MainPc
    /\ k \in Task
    /\ is_good_init \in BOOLEAN

\* Where main is once the wait loop has let it through.
AfterWait == {"collect", "decide", "idle", "running", "console", "stopping",
              "ending", "failed", "join", "exit"}

\* main has seen task t done in its wait loop.
Seen(t) == main \in AfterWait \/ (main = "wait" /\ t < k)

(***************************************************************************)
(* The wait loop of main is a barrier: although the threads start before   *)
(* main clears their flags, and may initialise twice because of it, no     *)
(* task is in st_init (connecting, or about to write m_is_good) once main  *)
(* has seen it done; in particular not when main reads m_is_good, and not  *)
(* after the start of the run.                                             *)
(***************************************************************************)
InitQuiescent == \A t \in Task : Seen(t) => pc[t] # "st_init" /\ m_is_done[t]

(***************************************************************************)
(* No task idles or takes data before an st_init of its own has returned:  *)
(* DTavant's st_running uses the connection st_init made.                  *)
(***************************************************************************)
RunsAfterInit ==
    \A t \in Task : pc[t] \in {"st_idle", "st_running"} => outcome[t] # "none"

(***************************************************************************)
(* main reports "Initialization fail!" only if the last st_init of some    *)
(* task did fail: neither the uninitialised m_is_good nor an st_init that  *)
(* was overtaken by main's clearing loops can raise a false alarm.         *)
(***************************************************************************)
NoFalseAlarm ==
    main = "failed" => \E t \in Task : outcome[t] = "fail"

(***************************************************************************)
(* What the branch on is_good_init is for (dtmain.cxx:85-89): the run      *)
(* starts only when every task initialised.  The code does not achieve it: *)
(* a thread started by run() may fail before clear_is_good() wipes the     *)
(* failure out.                                                            *)
(***************************************************************************)
FailureNoticed ==
    main \in {"idle", "running"} => \A t \in Task : outcome[t] = "ok"

(***************************************************************************)
(* Every start is decided: main reaches its console, or it has ended all   *)
(* threads and returns.  Twice-run initialisations do not make main wait   *)
(* for a flag that nobody sets again.                                      *)
(***************************************************************************)
StartIsDecided == <>(main \in {"console", "exit"})

(***************************************************************************)
(* Once main has seen a task done, the task's connection is the one the    *)
(* run will use: no later st_init replaces it or changes its outcome.      *)
(***************************************************************************)
OutcomeIsFinal ==
    [][\A t \in Task : Seen(t) => outcome'[t] = outcome[t]]_vars

-----------------------------------------------------------------------------
(* Why the above hold: the invariant TaskControlProofs proves inductive *)

\* Where main is until it lets the tasks leave the INIT state.
Starting == {"run", "clear_done", "clear_good", "set_init", "wait", "collect",
             "decide", "failed", "idle"}

\* Until then no thread has seen another state.
StartPhase ==
    main \in Starting =>
        /\ c_state = "INIT"
        /\ \A t \in Task : pc[t] \notin {"st_idle", "st_running", "ended"}

\* A set flag means a finished initialisation, and nobody is repeating it.
DoneMeansInitialised ==
    \A t \in Task :
        /\ m_is_done[t] => pc[t] # "st_init" /\ outcome[t] # "none"
        /\ pc[t] = "set_done" => outcome[t] # "none"

\* main has let the task through its wait loop only with the flag set, and
\* enters that loop at its first task.
SeenMeansDone ==
    /\ main = "set_init" => k = 1
    /\ \A t \in Task : Seen(t) => m_is_done[t]

\* main has set m_is_good of task t.
Cleared(t) ==
    \/ main \in {"set_init", "wait"} \union AfterWait
    \/ main = "clear_good" /\ t < k

\* From then on only a failed initialisation resets it, and it is the last one.
BadMeansFailed ==
    \A t \in Task :
        Cleared(t) /\ ~m_is_good[t] =>
            outcome[t] = "fail" /\ (m_is_done[t] \/ pc[t] = "set_done")

VerdictMeansBad ==
    /\ main = "failed" => ~is_good_init
    /\ ~is_good_init => main \in AfterWait /\ \E t \in Task : ~m_is_good[t]

IInv ==
    /\ TypeOK
    /\ StartPhase
    /\ DoneMeansInitialised
    /\ SeenMeansDone
    /\ BadMeansFailed
    /\ VerdictMeansBad

\* main has collected the flag of task t.
Collected(t) ==
    \/ main \in AfterWait \ {"collect"}
    \/ main = "collect" /\ t < k

\* A good verdict is that of every flag main has collected, and only after one
\* do the tasks leave the INIT state.
GoodVerdict ==
    /\ is_good_init => \A t \in Task : Collected(t) => m_is_good[t]
    /\ main = "idle" => is_good_init
    /\ main \in MainPc \ Starting /\ ~is_good_init =>
           c_state = "END" /\ main \in {"join", "exit"}

(***************************************************************************)
(* No thread is in st_idle or st_running (daqtask.cxx:101-108) of a start   *)
(* that main has found bad (dtmain.cxx:87-89): whoever runs, runs with all  *)
(* flags good.                                                             *)
(***************************************************************************)
RunsOnlyIfGood ==
    \A t \in Task : pc[t] \in {"st_idle", "st_running"} =>
        is_good_init /\ \A u \in Task : m_is_good[u]

=============================================================================
