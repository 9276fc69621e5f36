-------------------------- MODULE ThreadController --------------------------
(***************************************************************************)
(* kol::ThreadController (kol/kolthread.cpp): an owner posts Thread         *)
(* objects, each runs in a thread of its own and is deleted by the          *)
(* controller when it has finished.  The thread that deletes an object is   *)
(* one more thread, which the finished thread creates for the purpose (its  *)
(* "deleter"), because the thread itself must be joined before its object   *)
(* may go.  A deleter is joined by the next one, the last by the owner.     *)
(*                                                                         *)
(* m_running and m_threadid are under m_mutex; m_delthreadid of an object   *)
(* is written by its thread and read by its deleter without it.  The owner  *)
(* is the only one who posts, and destroys the controller after its posts.  *)
(***************************************************************************)
EXTENDS Integers, FiniteSets

CONSTANTS
    Thread,     \* the Thread objects that are posted
    NoThread,   \* thread id 0
    MaxFaults   \* bound: thread creations that fail

ASSUME ThreadAssumption == NoThread \notin Thread
ASSUME FaultsAssumption == MaxFaults \in Nat

VARIABLES
    worker,         \* where the thread of each object is
    deleter,        \* where the deleter of each object is
    m_delthreadid,  \* of each object: its deleter, once it has been noted
    m_running,      \* the controller's count
    m_threadid,     \* the deleter to be joined next (named by its object)
    m_mutex,        \* the deleter that holds the mutex
    deleted,        \* the objects that have been deleted
    owner,          \* where the owner of the controller is
    current,        \* the object it posts
    posted,         \* the objects posted so far
    joins,          \* history: how often each deleter has been joined
    faults          \* failures so far

ctrlVars == <<m_running, m_threadid, m_mutex, deleted>>
ownerVars == <<owner, current, posted>>
vars == <<worker, deleter, m_delthreadid, ctrlVars, ownerVars, joins, faults>>

Id == Thread \union {NoThread}

Init ==
    /\ worker = [t \in Thread |-> "none"]
    /\ deleter = [t \in Thread |-> "none"]
    /\ m_delthreadid = [t \in Thread |-> NoThread]
    /\ m_running = 0
    /\ m_threadid = NoThread
    /\ m_mutex = NoThread
    /\ deleted = {}
    /\ owner = "ready"
    /\ current = NoThread
    /\ posted = {}
    /\ joins = [t \in Thread |-> 0]
    /\ faults = 0

\* pthread_join returns when the thread has ended.
JoinLast ==
    \/ m_threadid = NoThread /\ UNCHANGED joins
    \/ /\ m_threadid # NoThread
       /\ deleter[m_threadid] = "ended"
       /\ joins' = [joins EXCEPT ![m_threadid] = @ + 1]

Fault == faults < MaxFaults /\ faults' = faults + 1

-----------------------------------------------------------------------------
(* The owner: post(), and the destructor *)

\* p->start() creates the thread; post() does not look at what it returns.
Start(t) ==
    /\ owner = "ready" /\ t \notin posted
    /\ \/ worker' = [worker EXCEPT ![t] = "run"] /\ UNCHANGED faults
       \/ worker' = [worker EXCEPT ![t] = "failed"] /\ Fault
    /\ owner' = "count"
    /\ current' = t
    /\ posted' = posted \union {t}
    /\ UNCHANGED <<deleter, m_delthreadid, ctrlVars, joins>>

\* ++m_running under the mutex, when the thread may already be gone.
Count ==
    /\ owner = "count" /\ m_mutex = NoThread
    /\ m_running' = m_running + 1
    /\ owner' = "ready"
    /\ current' = NoThread
    /\ UNCHANGED <<worker, deleter, m_delthreadid, m_threadid, m_mutex, deleted,
                   posted, joins, faults>>

Destroy ==
    /\ owner = "ready"
    /\ owner' = "wait"
    /\ UNCHANGED <<worker, deleter, m_delthreadid, ctrlVars, current, posted,
                   joins, faults>>

\* Mutant: one thread fewer is waited for.
WaitForOneLess ==
    /\ owner = "wait" /\ m_mutex = NoThread
    /\ m_running \in {0, 1}
    /\ owner' = "join"
    /\ UNCHANGED <<worker, deleter, m_delthreadid, ctrlVars, current, posted,
                   joins, faults>>

\* while( numrunning() ) millisleep( 100 ): the count is read under the mutex.
Wait ==
    /\ owner = "wait" /\ m_mutex = NoThread
    /\ m_running = 0
    /\ owner' = "join"
    /\ UNCHANGED <<worker, deleter, m_delthreadid, ctrlVars, current, posted,
                   joins, faults>>

\* join(); closeid(); the controller is gone.
Leave ==
    /\ owner = "join"
    /\ JoinLast
    /\ m_threadid' = NoThread
    /\ owner' = "gone"
    /\ UNCHANGED <<worker, deleter, m_delthreadid, m_running, m_mutex, deleted,
                   current, posted, faults>>

-----------------------------------------------------------------------------
(* The thread of an object: start_routine() *)

WorkerTo(t, from, to) ==
    worker[t] = from /\ worker' = [worker EXCEPT ![t] = to]

RunEnds(t) ==
    /\ WorkerTo(t, "run", "done")
    /\ UNCHANGED <<deleter, m_delthreadid, ctrlVars, ownerVars, joins, faults>>

\* done() creates the deleter, which runs from here on.
Done(t) ==
    /\ WorkerTo(t, "done", "note")
    /\ \/ deleter' = [deleter EXCEPT ![t] = "lock"] /\ UNCHANGED faults
       \/ deleter' = [deleter EXCEPT ![t] = "failed"] /\ Fault
    /\ UNCHANGED <<m_delthreadid, ctrlVars, ownerVars, joins>>

\* p->delthreadid(tid), the last use of the object by its own thread.
Note(t) ==
    /\ WorkerTo(t, "note", "ended")
    /\ m_delthreadid' =
           [m_delthreadid EXCEPT ![t] = IF deleter[t] = "failed" THEN NoThread ELSE t]
    /\ UNCHANGED <<deleter, ctrlVars, ownerVars, joins, faults>>

-----------------------------------------------------------------------------
(* The deleter of an object: delthread() *)

DeleterTo(t, from, to) ==
    deleter[t] = from /\ deleter' = [deleter EXCEPT ![t] = to]

Lock(t) ==
    /\ m_mutex = NoThread
    /\ DeleterTo(t, "lock", "join_last")
    /\ m_mutex' = t
    /\ UNCHANGED <<worker, m_delthreadid, m_running, m_threadid, deleted,
                   ownerVars, joins, faults>>

\* Mutant: the last id is kept when the deleter's own is not known yet.
TakeIdIfKnown(t) ==
    /\ DeleterTo(t, "join_last", "join")
    /\ JoinLast
    /\ m_threadid' = IF m_delthreadid[t] = NoThread THEN m_threadid
                     ELSE m_delthreadid[t]
    /\ UNCHANGED <<worker, m_delthreadid, m_running, m_mutex, deleted, ownerVars,
                   faults>>

\* join(); closeid(); m_threadid = p->delthreadid(), which may still be 0.
TakeId(t) ==
    /\ DeleterTo(t, "join_last", "join")
    /\ JoinLast
    /\ m_threadid' = m_delthreadid[t]
    /\ UNCHANGED <<worker, m_delthreadid, m_running, m_mutex, deleted, ownerVars,
                   faults>>

\* Mutant: the object is deleted while its thread is still ending.
JoinNot(t) ==
    /\ DeleterTo(t, "join", "delete")
    /\ UNCHANGED <<worker, m_delthreadid, ctrlVars, ownerVars, joins, faults>>

\* p->join()
Join(t) ==
    /\ worker[t] = "ended"
    /\ DeleterTo(t, "join", "delete")
    /\ UNCHANGED <<worker, m_delthreadid, ctrlVars, ownerVars, joins, faults>>

\* Mutant: the count is not decremented.
DeleteUncounted(t) ==
    /\ DeleterTo(t, "delete", "unlock")
    /\ deleted' = deleted \union {t}
    /\ UNCHANGED <<worker, m_delthreadid, m_running, m_threadid, m_mutex,
                   ownerVars, joins, faults>>

\* delete p; --m_running
Delete(t) ==
    /\ DeleterTo(t, "delete", "unlock")
    /\ deleted' = deleted \union {t}
    /\ m_running' = m_running - 1
    /\ UNCHANGED <<worker, m_delthreadid, m_threadid, m_mutex, ownerVars, joins,
                   faults>>

\* Mutant: the mutex is left locked.
UnlockNot(t) ==
    /\ DeleterTo(t, "unlock", "ended")
    /\ UNCHANGED <<worker, m_delthreadid, ctrlVars, ownerVars, joins, faults>>

\* The last use of the controller by this object's threads.
Unlock(t) ==
    /\ DeleterTo(t, "unlock", "ended")
    /\ m_mutex' = NoThread
    /\ UNCHANGED <<worker, m_delthreadid, m_running, m_threadid, deleted,
                   ownerVars, joins, faults>>

-----------------------------------------------------------------------------
ThreadStep(t) ==
    \/ RunEnds(t) \/ Done(t) \/ Note(t)
    \/ Lock(t) \/ TakeId(t) \/ Join(t) \/ Delete(t) \/ Unlock(t)

OwnerStep == Count \/ Wait \/ Leave

Next == OwnerStep \/ Destroy \/ \E t \in Thread : Start(t) \/ ThreadStep(t)

Spec == Init /\ [][Next]_vars

(***************************************************************************)
(* Every thread that can run does, and run() of every object returns.  The *)
(* mutex needs no stronger fairness: each thread locks it once.            *)
(***************************************************************************)
FairSpec ==
    /\ Spec
    /\ WF_vars(OwnerStep)
    /\ \A t \in Thread : WF_vars(RunEnds(t) \/ Done(t) \/ Note(t))
    /\ \A t \in Thread :
           WF_vars(Lock(t) \/ TakeId(t) \/ Join(t) \/ Delete(t) \/ Unlock(t))

-----------------------------------------------------------------------------
(* Correctness *)

TypeOK ==
    /\ worker \in [Thread -> {"none", "run", "failed", "done", "note", "ended"}]
    /\ deleter \in [Thread -> {"none", "failed", "lock", "join_last", "join",
                               "delete", "unlock", "ended"}]
    /\ m_delthreadid \in [Thread -> Id]
    /\ m_running \in Int
    /\ m_threadid \in Id /\ m_mutex \in Id
    /\ deleted \subseteq Thread
    /\ owner \in {"ready", "count", "wait", "join", "gone"}
    /\ current \in Id
    /\ posted \subseteq Thread
    /\ joins \in [Thread -> Nat]
    /\ faults \in Nat

(***************************************************************************)
(* An object is deleted only when none of its two threads will touch it    *)
(* again: its own thread writes m_delthreadid after it has created the     *)
(* thread that deletes it, and only p->join() keeps the two apart.         *)
(***************************************************************************)
NoUseAfterDelete ==
    \A t \in deleted : worker[t] = "ended" /\ deleter[t] \in {"unlock", "ended"}

(***************************************************************************)
(* m_running is the number of objects counted and not yet deleted, though  *)
(* a thread may be counted after it was deleted and the count is negative   *)
(* meanwhile.                                                              *)
(***************************************************************************)
CountExact ==
    m_running = Cardinality(posted \ {current}) - Cardinality(deleted)

(***************************************************************************)
(* No thread outlives the controller that it still has to lock, unlock or  *)
(* count in: the destructor returns only after the last unlock, also of a  *)
(* deleter whose id was noted too late to be joined.                       *)
(***************************************************************************)
NoUseAfterDestroy ==
    owner = "gone" =>
        /\ m_mutex = NoThread
        /\ \A t \in posted : worker[t] = "ended" /\ deleter[t] = "ended"

(***************************************************************************)
(* The destructor leaves no object behind.                                 *)
(***************************************************************************)
AllDeleted == owner = "gone" => deleted = posted

(***************************************************************************)
(* No thread is joined twice, which pthread_join leaves undefined.         *)
(***************************************************************************)
JoinedOnce == \A t \in Thread : joins[t] <= 1

\* The objects no deleter will ever come for.
Orphans == {t \in Thread : worker[t] = "failed" \/ deleter[t] = "failed"}

(***************************************************************************)
(* The destructor ends, unless the creation of a thread failed: no deleter *)
(* waits for the mutex or for another thread for ever.  A failed creation  *)
(* leaves its object counted, and the destructor sleeps for ever.          *)
(***************************************************************************)
DestructorEnds == owner = "wait" ~> (owner = "gone" \/ Orphans # {})

-----------------------------------------------------------------------------
(* Why the above hold: the invariant KolProofs proves inductive *)

\* The parts of delthread() that hold the mutex.
Locked == {"join_last", "join", "delete", "unlock"}

\* How far the two threads of an object have come, relative to each other.
Stages ==
    \A t \in Thread :
        /\ t \notin posted => worker[t] = "none"
        /\ deleter[t] # "none" => worker[t] \in {"note", "ended"}
        /\ deleter[t] \in {"delete", "unlock", "ended"} => worker[t] = "ended"
        /\ t \in deleted <=> deleter[t] \in {"unlock", "ended"}

Exclusion == \A t \in Thread : m_mutex = t <=> deleter[t] \in Locked

Posting ==
    /\ owner = "count" => current \in posted
    /\ owner # "count" => current = NoThread

\* The destructor has seen the count at zero.
Drained == owner \in {"join", "gone"} => deleted = posted /\ m_mutex = NoThread

\* A deleter becomes m_threadid once, and is joined when it stops to be.
JoinState ==
    \A t \in Thread :
        /\ m_delthreadid[t] \in {t, NoThread}
        /\ m_threadid = t => joins[t] = 0
        /\ deleter[t] \in {"none", "failed", "lock", "join_last"} =>
               joins[t] = 0 /\ m_threadid # t

IInv ==
    /\ TypeOK
    /\ IsFiniteSet(posted)
    /\ Stages
    /\ Exclusion
    /\ Posting
    /\ Drained
    /\ CountExact
    /\ JoinState
    /\ JoinedOnce

=============================================================================
