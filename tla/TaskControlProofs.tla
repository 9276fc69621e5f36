-------------------------- MODULE TaskControlProofs --------------------------
(***************************************************************************)
(* Proofs about TaskControl, for any number of tasks, with or without a    *)
(* connection.  IInv is inductive; the safety properties follow from it.   *)
(***************************************************************************)
EXTENDS TaskControl, TLAPS

\* The initial states satisfy the invariant, whatever m_is_good holds.
LEMMA InitIInv == Init => IInv
<1> SUFFICES ASSUME Init PROVE IInv
    OBVIOUS
<1> USE NTasksAssumption DEF Init, Task
<1>1. TypeOK
    BY DEF TypeOK, RunState, TaskPc, MainPc
<1>2. StartPhase /\ DoneMeansInitialised /\ VerdictMeansBad
    BY DEF StartPhase, DoneMeansInitialised, VerdictMeansBad
<1>3. SeenMeansDone /\ BadMeansFailed
    BY DEF SeenMeansDone, Seen, BadMeansFailed, Cleared, AfterWait
<1>4. QED
    BY <1>1, <1>2, <1>3 DEF IInv

\* A step of one thread keeps the types and touches nothing of main's.
LEMMA TaskStepType ==
    ASSUME TypeOK, NEW t \in Task, Advance(t) \/ StRunning(t)
    PROVE  TypeOK'
<1> USE DEF TypeOK, TaskPc, RunState, Goto
<1>1. CASE Switch(t)
    BY <1>1 DEF Switch, mainVars
<1>2. CASE TestDone(t)
    BY <1>2 DEF TestDone, mainVars
<1>3. CASE InitSucceeds(t)
    BY <1>3 DEF InitSucceeds, mainVars
<1>4. CASE InitFails(t)
    BY <1>4 DEF InitFails, mainVars
<1>5. CASE SetDone(t)
    BY <1>5 DEF SetDone, mainVars
<1>6. CASE StIdle(t)
    BY <1>6 DEF StIdle, mainVars
<1>7. CASE StRunning(t)
    BY <1>7 DEF StRunning, mainVars
<1>8. CASE TestEnd(t)
    BY <1>8 DEF TestEnd, mainVars
<1>9. QED
    BY <1>1, <1>2, <1>3, <1>4, <1>5, <1>6, <1>7, <1>8 DEF Advance

\* A step of main keeps the types.
LEMMA MainStepType ==
    ASSUME TypeOK, MainStep \/ Command
    PROVE  TypeOK'
<1> USE NTasksAssumption DEF TypeOK, TaskPc, RunState, MainPc, Task, taskVars
<1>1. CASE Run
    BY <1>1 DEF Run, Loop
<1>2. CASE ClearIsDone
    BY <1>2 DEF ClearIsDone, Loop
<1>3. CASE ClearIsGood
    BY <1>3 DEF ClearIsGood, Loop
<1>4. CASE Wait \/ Join
    BY <1>4 DEF Wait, Join, Loop
<1>5. CASE Collect
    BY <1>5 DEF Collect, Loop
<1>6. CASE Decide
    BY <1>6 DEF Decide
<1>7. CASE SetInit \/ SetIdle \/ SetRunning \/ Stop \/ End \/ Fail \/ Command
    BY <1>7 DEF SetInit, SetIdle, SetRunning, Stop, End, Fail, Command, SetState
<1>8. QED
    BY <1>1, <1>2, <1>3, <1>4, <1>5, <1>6, <1>7 DEF MainStep

\* A step of one thread keeps the rest of the invariant.
LEMMA TaskStepIInv ==
    ASSUME IInv, NEW t \in Task, Advance(t) \/ StRunning(t)
    PROVE  IInv'
<1>1. TypeOK'
    BY TaskStepType DEF IInv
<1> USE DEF IInv, TypeOK, Goto, StartPhase, DoneMeansInitialised,
            SeenMeansDone, Seen, BadMeansFailed, Cleared, VerdictMeansBad,
            mainVars
<1>2. CASE Switch(t)
    <2>1. StartPhase'
        BY <1>2 DEF Switch, Starting
    <2>2. pc'[t] \notin {"st_init", "set_done"}
        BY <1>2 DEF Switch, RunState
    <2>3. \A u \in Task : u # t => pc'[u] = pc[u]
        BY <1>2 DEF Switch
    <2>4. UNCHANGED <<m_is_done, m_is_good, outcome, main, k, is_good_init>>
          /\ pc[t] = "switch"
        BY <1>2 DEF Switch
    <2>5. DoneMeansInitialised'
        BY <2>2, <2>3, <2>4
    <2>6. SeenMeansDone' /\ VerdictMeansBad'
        BY <2>4
    <2>7. BadMeansFailed'
        BY <2>2, <2>3, <2>4
    <2>8. QED
        BY <1>1, <2>1, <2>5, <2>6, <2>7 DEF IInv
<1>3. CASE TestDone(t)
    <2>1. StartPhase'
        BY <1>3 DEF TestDone
    <2>2. DoneMeansInitialised' /\ SeenMeansDone' /\ BadMeansFailed' /\ VerdictMeansBad'
        BY <1>3 DEF TestDone
    <2>3. QED
        BY <1>1, <2>1, <2>2 DEF IInv
<1>4. CASE InitSucceeds(t)
    <2>1. ~m_is_done[t]
        BY <1>4 DEF InitSucceeds
    <2>2. StartPhase' /\ DoneMeansInitialised' /\ SeenMeansDone' /\ VerdictMeansBad'
        BY <1>4 DEF InitSucceeds
    <2>3. BadMeansFailed'
        BY <1>4, <2>1 DEF InitSucceeds
    <2>4. QED
        BY <1>1, <2>2, <2>3 DEF IInv
<1>5. CASE InitFails(t)
    <2>1. StartPhase' /\ DoneMeansInitialised' /\ SeenMeansDone' /\ BadMeansFailed'
        BY <1>5 DEF InitFails
    <2>2. VerdictMeansBad'
        BY <1>5 DEF InitFails
    <2>3. QED
        BY <1>1, <2>1, <2>2 DEF IInv
<1>6. CASE SetDone(t)
    <2>1. StartPhase' /\ DoneMeansInitialised' /\ SeenMeansDone' /\ VerdictMeansBad'
        BY <1>6 DEF SetDone
    <2>2. BadMeansFailed'
        BY <1>6 DEF SetDone
    <2>3. QED
        BY <1>1, <2>1, <2>2 DEF IInv
<1>7. CASE StIdle(t) \/ StRunning(t)
    BY <1>1, <1>7 DEF StIdle, StRunning
<1>8. CASE TestEnd(t)
    BY <1>1, <1>8 DEF TestEnd, Starting
<1>9. QED
    BY <1>2, <1>3, <1>4, <1>5, <1>6, <1>7, <1>8 DEF Advance

\* A step of main keeps the rest of the invariant.
LEMMA MainStepIInv ==
    ASSUME IInv, MainStep \/ Command
    PROVE  IInv'
<1>1. TypeOK'
    BY MainStepType DEF IInv
<1> USE NTasksAssumption
    DEF IInv, TypeOK, StartPhase, DoneMeansInitialised, SeenMeansDone, Seen,
        BadMeansFailed, Cleared, VerdictMeansBad, Starting, AfterWait, Task,
        taskVars
<1>2. CASE Run
    BY <1>1, <1>2 DEF Run, Loop
<1>3. CASE ClearIsDone
    BY <1>1, <1>3 DEF ClearIsDone, Loop
<1>4. CASE ClearIsGood
    <2>1. StartPhase' /\ DoneMeansInitialised' /\ SeenMeansDone' /\ VerdictMeansBad'
        BY <1>4 DEF ClearIsGood, Loop
    <2>2. BadMeansFailed'
        BY <1>4 DEF ClearIsGood, Loop
    <2>3. QED
        BY <1>1, <2>1, <2>2 DEF IInv
<1>5. CASE Wait
    <2>1. StartPhase' /\ DoneMeansInitialised' /\ BadMeansFailed' /\ VerdictMeansBad'
        BY <1>5 DEF Wait, Loop
    <2>2. SeenMeansDone'
        BY <1>5 DEF Wait, Loop
    <2>3. QED
        BY <1>1, <2>1, <2>2 DEF IInv
<1>6. CASE Collect
    BY <1>1, <1>6 DEF Collect, Loop
<1>7. CASE Join
    BY <1>1, <1>7 DEF Join, Loop
<1>8. CASE Decide
    BY <1>1, <1>8 DEF Decide
<1>9. CASE SetInit \/ SetIdle \/ SetRunning \/ Stop \/ End \/ Fail \/ Command
    <2> USE DEF SetState
    <2>1. CASE SetInit
        BY <1>1, <2>1 DEF SetInit
    <2>2. CASE SetIdle
        BY <1>1, <2>2 DEF SetIdle
    <2>3. CASE SetRunning
        BY <1>1, <2>3 DEF SetRunning
    <2>4. CASE Stop \/ End
        BY <1>1, <2>4 DEF Stop, End
    <2>5. CASE Fail
        BY <1>1, <2>5 DEF Fail
    <2>6. CASE Command
        <3>1. main = "console" /\ main' \in {"console", "stopping"}
              /\ UNCHANGED <<m_is_done, m_is_good, pc, outcome, k, is_good_init>>
            BY <2>6 DEF Command
        <3>2. QED
            BY <1>1, <3>1
    <2>7. QED
        BY <1>9, <2>1, <2>2, <2>3, <2>4, <2>5, <2>6
<1>10. QED
    BY <1>2, <1>3, <1>4, <1>5, <1>6, <1>7, <1>8, <1>9 DEF MainStep

\* Nothing of the invariant changes when no variable does.
LEMMA StutterIInv == IInv /\ UNCHANGED vars => IInv'
BY DEF IInv, TypeOK, StartPhase, DoneMeansInitialised, SeenMeansDone, Seen,
       BadMeansFailed, Cleared, VerdictMeansBad, vars, taskVars, mainVars

LEMMA NextIInv == IInv /\ [Next]_vars => IInv'
BY TaskStepIInv, MainStepIInv, StutterIInv DEF Next

(***************************************************************************)
(* IInv holds in every reachable state of every instance.                  *)
(***************************************************************************)
THEOREM Invariance == Spec => []IInv
BY InitIInv, NextIInv, PTL DEF Spec

(***************************************************************************)
(* The variables of run control have their types.                          *)
(***************************************************************************)
THEOREM TypeCorrect == Spec => []TypeOK
<1>1. IInv => TypeOK
    BY DEF IInv
<1>2. QED
    BY <1>1, Invariance, PTL

(***************************************************************************)
(* main's wait loop (dtmain.cxx:84) is a barrier: no thread is in st_init   *)
(* once main has seen its task done.                                       *)
(***************************************************************************)
THEOREM InitBarrier == Spec => []InitQuiescent
<1>1. IInv => InitQuiescent
    BY DEF IInv, SeenMeansDone, DoneMeansInitialised, InitQuiescent
<1>2. QED
    BY <1>1, Invariance, PTL

(***************************************************************************)
(* No thread enters st_idle or st_running (daqtask.cxx:101-108) before an   *)
(* st_init of its task has returned.                                       *)
(***************************************************************************)
THEOREM NoRunBeforeInit == Spec => []RunsAfterInit
<1>1. IInv => RunsAfterInit
    <2> SUFFICES ASSUME IInv, NEW t \in Task, pc[t] \in {"st_idle", "st_running"}
                 PROVE  outcome[t] # "none"
        BY DEF RunsAfterInit
    <2>1. main \notin Starting
        BY DEF IInv, StartPhase
    <2>2. main \in AfterWait
        BY <2>1 DEF IInv, TypeOK, MainPc, Starting, AfterWait
    <2>3. m_is_done[t]
        BY <2>2 DEF IInv, SeenMeansDone, Seen
    <2>4. QED
        BY <2>3 DEF IInv, DoneMeansInitialised
<1>2. QED
    BY <1>1, Invariance, PTL

(***************************************************************************)
(* "Initialization fail!" (dtmain.cxx:110) is never a false alarm.          *)
(***************************************************************************)
THEOREM AlarmIsTrue == Spec => []NoFalseAlarm
<1>1. IInv => NoFalseAlarm
    BY DEF IInv, VerdictMeansBad, BadMeansFailed, Cleared, NoFalseAlarm
<1>2. QED
    BY <1>1, Invariance, PTL

(***************************************************************************)
(* After main has seen a task done no st_init of it runs again, so neither  *)
(* its connection nor the verdict on it changes.                           *)
(***************************************************************************)
THEOREM NoLateInit == Spec => OutcomeIsFinal
<1>1. IInv /\ [Next]_vars =>
        [\A t \in Task : Seen(t) => outcome'[t] = outcome[t]]_vars
    <2> SUFFICES ASSUME IInv, Next, NEW t \in Task, Seen(t)
                 PROVE  outcome'[t] = outcome[t]
        BY DEF vars
    <2>1. m_is_done[t] /\ pc[t] # "st_init"
        BY DEF IInv, SeenMeansDone, DoneMeansInitialised
    <2>2. CASE MainStep \/ Command
        BY <2>2 DEF MainStep, Command, Run, ClearIsDone, ClearIsGood, SetInit,
                    Wait, Collect, Decide, SetIdle, SetRunning, Stop, End,
                    Fail, Join, SetState, taskVars
    <2>3. ASSUME NEW u \in Task, Advance(u) \/ StRunning(u)
          PROVE  outcome'[t] = outcome[t]
        BY <2>1, <2>3 DEF IInv, TypeOK, Advance, StRunning, Switch, TestDone,
                          InitSucceeds, InitFails, SetDone, StIdle, TestEnd, Goto
    <2>4. QED
        BY <2>2, <2>3 DEF Next
<1>2. QED
    BY <1>1, Invariance, PTL DEF Spec, OutcomeIsFinal

-----------------------------------------------------------------------------
(* Who runs, runs after a good start *)

RunInv == GoodVerdict /\ RunsOnlyIfGood

\* A step of one thread: it can reset no flag that main has collected.
LEMMA TaskStepRunInv ==
    ASSUME IInv, RunInv, NEW t \in Task, Advance(t) \/ StRunning(t)
    PROVE  RunInv'
<1> USE DEF IInv, TypeOK
<1>1. UNCHANGED mainVars /\ c_state' = c_state
    BY DEF Advance, StRunning, Switch, TestDone, InitSucceeds, InitFails,
           SetDone, StIdle, TestEnd
<1>2. CASE InitFails(t)
    <2>1. ~Seen(t) /\ pc[t] = "st_init"
        BY <1>2 DEF InitFails, Goto, SeenMeansDone, DoneMeansInitialised
    <2>2. main \in Starting /\ ~Collected(t)
        BY <2>1 DEF Seen, MainPc, Starting, AfterWait, Collected
    <2>3. \A u \in Task : u # t => m_is_good'[u] = m_is_good[u]
        BY <1>2 DEF InitFails
    <2>4. GoodVerdict'
        BY <1>1, <2>2, <2>3 DEF RunInv, GoodVerdict, Collected, mainVars
    <2>5. \A u \in Task : pc'[u] \notin {"st_idle", "st_running"}
        BY <1>2, <2>2 DEF InitFails, Goto, StartPhase
    <2>6. QED
        BY <2>4, <2>5 DEF RunInv, RunsOnlyIfGood
<1>3. CASE Switch(t)
    <2>1. m_is_good' = m_is_good
        BY <1>3 DEF Switch
    <2>2. GoodVerdict'
        BY <1>1, <2>1 DEF RunInv, GoodVerdict, Collected, mainVars
    <2>3. ASSUME c_state \in {"IDLE", "RUNNING"}
          PROVE  is_good_init /\ \A u \in Task : m_is_good[u]
        <3>1. main \in MainPc \ Starting
            BY <2>3 DEF StartPhase
        <3>2. is_good_init
            BY <2>3, <3>1 DEF RunInv, GoodVerdict
        <3>3. main \in AfterWait \ {"collect"}
            BY <3>1 DEF MainPc, Starting, AfterWait
        <3>4. QED
            BY <3>2, <3>3 DEF RunInv, GoodVerdict, Collected
    <2>4. pc'[t] \in {"st_idle", "st_running"} => c_state \in {"IDLE", "RUNNING"}
        BY <1>3 DEF Switch, RunState
    <2>5. \A u \in Task : u # t => pc'[u] = pc[u]
        BY <1>3 DEF Switch
    <2>6. QED
        BY <1>1, <2>1, <2>2, <2>3, <2>4, <2>5
           DEF RunInv, RunsOnlyIfGood, mainVars
<1>4. ASSUME m_is_good' = m_is_good,
             pc'[t] \notin {"st_idle", "st_running"},
             \A u \in Task : u # t => pc'[u] = pc[u]
      PROVE  RunInv'
    BY <1>1, <1>4 DEF RunInv, GoodVerdict, RunsOnlyIfGood, Collected, mainVars
<1>5. QED
    BY <1>2, <1>3, <1>4 DEF Advance, StRunning, TestDone, InitSucceeds,
                            SetDone, StIdle, TestEnd, Goto

\* A step of main: it leaves the start with its verdict, and END with a bad one.
LEMMA MainStepRunInv ==
    ASSUME IInv, RunInv, MainStep \/ Command
    PROVE  RunInv'
<1> USE NTasksAssumption
    DEF IInv, TypeOK, RunInv, GoodVerdict, RunsOnlyIfGood, Collected, Starting,
        AfterWait, MainPc, StartPhase, Task, taskVars
<1>1. CASE Run \/ ClearIsDone \/ ClearIsGood
    <2>1. main' \notin AfterWait /\ main' \in Starting
          /\ \A u \in Task : pc'[u] \notin {"st_idle", "st_running"}
        BY <1>1 DEF Run, ClearIsDone, ClearIsGood, Loop
    <2>2. QED
        BY <2>1
<1>2. CASE Wait
    BY <1>2 DEF Wait, Loop
<1>3. CASE Collect
    BY <1>3 DEF Collect, Loop
<1>4. CASE Join
    BY <1>4 DEF Join, Loop
<1>5. CASE Decide
    BY <1>5 DEF Decide
<1>6. CASE SetInit \/ SetIdle
    BY <1>6 DEF SetInit, SetIdle, SetState
<1>7. CASE SetRunning \/ Stop
    BY <1>7 DEF SetRunning, Stop, SetState
<1>8. CASE End \/ Fail
    BY <1>8 DEF End, Fail, SetState
<1>9. CASE Command
    BY <1>9 DEF Command, SetState
<1>10. QED
    BY <1>1, <1>2, <1>3, <1>4, <1>5, <1>6, <1>7, <1>8, <1>9 DEF MainStep

(***************************************************************************)
(* No thread idles or runs (daqtask.cxx:101-108) unless main's verdict      *)
(* (dtmain.cxx:85-89) is good and every flag it was made from still is.     *)
(***************************************************************************)
THEOREM NoRunAfterBadStart == Spec => []RunsOnlyIfGood
<1>1. Init => RunInv
    BY DEF Init, RunInv, GoodVerdict, RunsOnlyIfGood, Collected, Starting, AfterWait
<1>2. IInv /\ RunInv /\ [Next]_vars => RunInv'
    <2>1. RunInv /\ UNCHANGED vars => RunInv'
        BY DEF RunInv, GoodVerdict, RunsOnlyIfGood, Collected, vars, taskVars,
               mainVars
    <2>2. QED
        BY <2>1, TaskStepRunInv, MainStepRunInv DEF Next
<1>3. RunInv => RunsOnlyIfGood
    BY DEF RunInv
<1>4. QED
    BY <1>1, <1>2, <1>3, Invariance, PTL DEF Spec

=============================================================================
