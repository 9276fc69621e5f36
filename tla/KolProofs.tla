------------------------------ MODULE KolProofs ------------------------------
(***************************************************************************)
(* Proofs about the two classes of the kol library that own something of   *)
(* the system: ThreadController, for any set of Thread objects and any      *)
(* number of failing thread creations, and Descriptors, for any sets of    *)
(* objects, descriptors and files.                                         *)
(*                                                                         *)
(* ThreadController: the parts of IInv are shown to be kept one after      *)
(* another, each with one step per action that could disturb it; "the      *)
(* others" leave its variables alone.                                      *)
(*                                                                         *)
(* Descriptors: the argument is one about three effects.  An object        *)
(* without a descriptor gets one that is free, stays without, or closes    *)
(* its own.                                                                *)
(***************************************************************************)
EXTENDS ThreadController, Descriptors, FiniteSetTheorems, TLAPS

-----------------------------------------------------------------------------
(* ThreadController *)

LEMMA InitIInv == Init => IInv
<1> SUFFICES ASSUME Init PROVE IInv
    OBVIOUS
<1>1. TypeOK
    BY DEF Init, TypeOK, Id
<1>2. Stages /\ Exclusion /\ Posting /\ Drained
    BY ThreadAssumption DEF Init, Stages, Exclusion, Posting, Drained, Locked
<1>3. JoinState /\ JoinedOnce
    BY ThreadAssumption DEF Init, JoinState, JoinedOnce
<1>4. posted \ {current} = {} /\ IsFiniteSet(posted)
    BY FS_EmptySet DEF Init
<1>5. CountExact
    BY <1>4, FS_EmptySet DEF Init, CountExact
<1>6. QED
    BY <1>1, <1>2, <1>3, <1>4, <1>5 DEF IInv

-----------------------------------------------------------------------------
\* The steps of one object's threads, and the owner's.
LEMMA TypeStep ==
    ASSUME TypeOK, Next
    PROVE  TypeOK'
<1> USE DEF TypeOK, Id, ctrlVars, ownerVars
<1>1. CASE Destroy \/ Count \/ Wait
    BY <1>1 DEF Destroy, Count, Wait
<1>2. CASE Leave
    BY <1>2 DEF Leave, JoinLast
<1>3. ASSUME NEW t \in Thread, Start(t)
      PROVE  TypeOK'
    BY <1>3 DEF Start, Fault
<1>4. ASSUME NEW t \in Thread, RunEnds(t) \/ Done(t) \/ Note(t)
      PROVE  TypeOK'
    BY <1>4 DEF RunEnds, Done, Note, WorkerTo, Fault
<1>5. ASSUME NEW t \in Thread, Lock(t) \/ Join(t) \/ Delete(t) \/ Unlock(t)
      PROVE  TypeOK'
    BY <1>5 DEF Lock, Join, Delete, Unlock, DeleterTo
<1>6. ASSUME NEW t \in Thread, TakeId(t)
      PROVE  TypeOK'
    BY <1>6 DEF TakeId, DeleterTo, JoinLast
<1>7. QED
    BY <1>1, <1>2, <1>3, <1>4, <1>5, <1>6 DEF Next, OwnerStep, ThreadStep

LEMMA StagesStep ==
    ASSUME TypeOK, Stages, Next
    PROVE  Stages'
<1> USE DEF TypeOK, Stages, ctrlVars, ownerVars
<1>1. CASE Destroy \/ OwnerStep
    BY <1>1 DEF Destroy, OwnerStep, Count, Wait, Leave
<1>2. ASSUME NEW t \in Thread, Start(t)
      PROVE  Stages'
    BY <1>2 DEF Start
<1>3. ASSUME NEW t \in Thread, RunEnds(t) \/ Done(t) \/ Note(t)
      PROVE  Stages'
    BY <1>3 DEF RunEnds, Done, Note, WorkerTo
<1>4. ASSUME NEW t \in Thread, Lock(t) \/ TakeId(t) \/ Join(t) \/ Delete(t) \/ Unlock(t)
      PROVE  Stages'
    BY <1>4 DEF Lock, TakeId, Join, Delete, Unlock, DeleterTo
<1>5. QED
    BY <1>1, <1>2, <1>3, <1>4 DEF Next, ThreadStep

LEMMA ExclusionStep ==
    ASSUME TypeOK, Stages, Exclusion, Next
    PROVE  Exclusion'
<1> USE ThreadAssumption DEF TypeOK, Exclusion, Locked, ctrlVars, ownerVars
<1>1. CASE Destroy \/ OwnerStep
    BY <1>1 DEF Destroy, OwnerStep, Count, Wait, Leave
<1>2. ASSUME NEW t \in Thread, Start(t) \/ RunEnds(t) \/ Note(t)
      PROVE  Exclusion'
    BY <1>2 DEF Start, RunEnds, Note
<1>3. ASSUME NEW t \in Thread, Done(t)
      PROVE  Exclusion'
    BY <1>3 DEF Done, Stages, WorkerTo
<1>4. ASSUME NEW t \in Thread, Lock(t) \/ TakeId(t) \/ Join(t) \/ Delete(t) \/ Unlock(t)
      PROVE  Exclusion'
    BY <1>4 DEF Lock, TakeId, Join, Delete, Unlock, DeleterTo
<1>5. QED
    BY <1>1, <1>2, <1>3, <1>4 DEF Next, ThreadStep

-----------------------------------------------------------------------------
(* Counting *)

\* The objects deleted are posted ones; both sets are finite.
LEMMA Counted ==
    ASSUME IInv
    PROVE  /\ deleted \subseteq posted
           /\ IsFiniteSet(deleted) /\ IsFiniteSet(posted \ {current})
           /\ Cardinality(deleted) \in Nat /\ Cardinality(posted) \in Nat
           /\ Cardinality(posted \ {current}) \in Nat
<1>1. deleted \subseteq posted
    BY DEF IInv, TypeOK, Stages
<1>2. IsFiniteSet(posted)
    BY DEF IInv
<1>3. IsFiniteSet(deleted) /\ IsFiniteSet(posted \ {current})
    BY <1>1, <1>2, FS_Subset, FS_RemoveElement
<1>4. QED
    BY <1>1, <1>2, <1>3, FS_CardinalityType

LEMMA PostingStep ==
    ASSUME IInv, Next
    PROVE  Posting' /\ IsFiniteSet(posted')
<1> USE DEF IInv, TypeOK, Posting, ctrlVars, ownerVars
<1>1. CASE Destroy \/ OwnerStep
    BY <1>1 DEF Destroy, OwnerStep, Count, Wait, Leave
<1>2. ASSUME NEW t \in Thread, Start(t)
      PROVE  Posting' /\ IsFiniteSet(posted')
    BY <1>2, FS_AddElement DEF Start
<1>3. ASSUME NEW t \in Thread, ThreadStep(t)
      PROVE  UNCHANGED ownerVars
    BY <1>3 DEF ThreadStep, RunEnds, Done, Note, Lock, TakeId, Join, Delete, Unlock
<1>4. QED
    BY <1>1, <1>2, <1>3 DEF Next

LEMMA CountStep ==
    ASSUME IInv, Next
    PROVE  CountExact'
<1> USE Counted DEF CountExact
<1>1. CASE Destroy \/ Wait \/ Leave
    BY <1>1 DEF IInv, Destroy, Wait, Leave, ctrlVars
<1>2. CASE Count
    <2>1. current \in posted /\ posted' \ {current'} = posted
        BY <1>2, ThreadAssumption DEF Count, IInv, Posting, TypeOK
    <2>2. Cardinality(posted \ {current}) = Cardinality(posted) - 1
        BY <2>1, FS_RemoveElement DEF IInv
    <2>3. m_running' = m_running + 1 /\ deleted' = deleted
        BY <1>2 DEF Count
    <2>4. QED
        BY <2>1, <2>2, <2>3 DEF IInv, TypeOK
<1>3. ASSUME NEW t \in Thread, Start(t)
      PROVE  CountExact'
    <2>1. posted' \ {current'} = posted \ {current}
        BY <1>3, ThreadAssumption DEF Start, IInv, Posting, TypeOK
    <2>2. QED
        BY <1>3, <2>1 DEF Start, IInv, ctrlVars
<1>4. ASSUME NEW t \in Thread, Delete(t)
      PROVE  CountExact'
    <2>1. t \notin deleted
        BY <1>4 DEF Delete, DeleterTo, IInv, Stages
    <2>2. Cardinality(deleted') = Cardinality(deleted) + 1
        BY <1>4, <2>1, FS_AddElement DEF Delete
    <2>3. m_running' = m_running - 1 /\ UNCHANGED ownerVars
        BY <1>4 DEF Delete
    <2>4. QED
        BY <2>2, <2>3 DEF IInv, TypeOK, ownerVars
<1>5. ASSUME NEW t \in Thread,
             RunEnds(t) \/ Done(t) \/ Note(t) \/ Lock(t) \/ TakeId(t) \/ Join(t) \/ Unlock(t)
      PROVE  CountExact'
    <2>1. UNCHANGED <<m_running, deleted, ownerVars>>
        BY <1>5 DEF RunEnds, Done, Note, Lock, TakeId, Join, Unlock, ctrlVars
    <2>2. QED
        BY <2>1 DEF IInv, ownerVars
<1>6. QED
    BY <1>1, <1>2, <1>3, <1>4, <1>5 DEF Next, OwnerStep, ThreadStep

(***************************************************************************)
(* The count is zero only when every posted object has been deleted, and   *)
(* no deleter is left to lock the mutex.                                   *)
(***************************************************************************)
LEMMA DrainedStep ==
    ASSUME IInv, Next
    PROVE  Drained'
<1> USE DEF Drained
<1>1. CASE Count \/ Destroy
    BY <1>1 DEF Count, Destroy
<1>2. CASE Wait
    <2>1. posted \ {current} = posted
        BY <1>2, ThreadAssumption DEF Wait, IInv, Posting, TypeOK
    <2>2. Cardinality(posted) = Cardinality(deleted)
        BY <1>2, <2>1, Counted DEF Wait, IInv, CountExact
    <2>3. posted = deleted
        BY <2>2, Counted, FS_Subset DEF IInv
    <2>4. QED
        BY <1>2, <2>3 DEF Wait, ctrlVars
<1>3. CASE Leave
    BY <1>3 DEF Leave, IInv
<1>4. ASSUME NEW t \in Thread, Start(t)
      PROVE  Drained'
    BY <1>4 DEF Start
<1>5. ASSUME NEW t \in Thread, ThreadStep(t), owner \in {"join", "gone"}
      PROVE  UNCHANGED <<deleted, posted, m_mutex>>
    <2>1. deleted = posted /\ m_mutex # t
        BY <1>5, ThreadAssumption DEF IInv
    <2>2. deleter[t] \notin Locked \union {"lock"}
        BY <2>1 DEF IInv, Exclusion, Stages, Locked
    <2>3. QED
        BY <1>5, <2>2 DEF ThreadStep, RunEnds, Done, Note, Lock, TakeId, Join,
            Delete, Unlock, DeleterTo, Locked, ctrlVars, ownerVars
<1>6. ASSUME NEW t \in Thread, ThreadStep(t)
      PROVE  owner' = owner
    BY <1>6 DEF ThreadStep, RunEnds, Done, Note, Lock, TakeId, Join, Delete,
        Unlock, ownerVars
<1>7. QED
    BY <1>1, <1>2, <1>3, <1>4, <1>5, <1>6 DEF Next, OwnerStep, IInv

-----------------------------------------------------------------------------
LEMMA JoinStep ==
    ASSUME IInv, Next
    PROVE  JoinState' /\ JoinedOnce'
<1> USE ThreadAssumption DEF IInv, TypeOK, Id, JoinState, JoinedOnce
<1>1. CASE Destroy \/ Count \/ Wait
    BY <1>1 DEF Destroy, Count, Wait, ctrlVars
<1>2. CASE Leave
    BY <1>2 DEF Leave, JoinLast
<1>3. ASSUME NEW t \in Thread, Start(t) \/ RunEnds(t)
      PROVE  JoinState' /\ JoinedOnce'
    BY <1>3 DEF Start, RunEnds, ctrlVars
<1>4. ASSUME NEW t \in Thread, Done(t)
      PROVE  JoinState' /\ JoinedOnce'
    BY <1>4 DEF Done, WorkerTo, Stages, ctrlVars
<1>5. ASSUME NEW t \in Thread, Note(t)
      PROVE  JoinState' /\ JoinedOnce'
    BY <1>5 DEF Note, ctrlVars
<1>6. ASSUME NEW t \in Thread, TakeId(t)
      PROVE  JoinState' /\ JoinedOnce'
    BY <1>6 DEF TakeId, DeleterTo, JoinLast
<1>7. ASSUME NEW t \in Thread, Lock(t) \/ Join(t) \/ Delete(t) \/ Unlock(t)
      PROVE  JoinState' /\ JoinedOnce'
    BY <1>7 DEF Lock, Join, Delete, Unlock, DeleterTo, ctrlVars
<1>8. QED
    BY <1>1, <1>2, <1>3, <1>4, <1>5, <1>6, <1>7 DEF Next, OwnerStep, ThreadStep

-----------------------------------------------------------------------------
(***************************************************************************)
(* What the other theorems rest on: the stages of each thread and deleter, *)
(* the mutex, the count and the ids keep in step.                          *)
(***************************************************************************)
THEOREM Invariance == Spec => []IInv
<1>1. IInv /\ [Next]_vars => IInv'
    <2> SUFFICES ASSUME IInv, [Next]_vars PROVE IInv'
        OBVIOUS
    <2>1. CASE Next
        BY <2>1, TypeStep, StagesStep, ExclusionStep, PostingStep, CountStep,
           DrainedStep, JoinStep DEF IInv
    <2>2. CASE UNCHANGED vars
        BY <2>2 DEF vars, ctrlVars, ownerVars, IInv, TypeOK, Stages, Exclusion,
           Posting, Drained, CountExact, JoinState, JoinedOnce
    <2>3. QED
        BY <2>1, <2>2
<1>2. QED
    BY <1>1, InitIInv, PTL DEF Spec

(***************************************************************************)
(* No thread uses an object that has been deleted.                         *)
(***************************************************************************)
THEOREM ObjectsOutliveThreads == Spec => []NoUseAfterDelete
<1>1. IInv => NoUseAfterDelete
    BY DEF IInv, TypeOK, Stages, NoUseAfterDelete
<1>2. QED
    BY <1>1, Invariance, PTL

(***************************************************************************)
(* The destructor returns only when every object has been deleted and no   *)
(* thread will use the controller again.                                   *)
(***************************************************************************)
THEOREM ControllerOutlivesThreads == Spec => [](AllDeleted /\ NoUseAfterDestroy)
<1>1. ASSUME IInv
      PROVE  AllDeleted /\ NoUseAfterDestroy
    <2>1. CASE owner = "gone"
        <3>1. deleted = posted /\ m_mutex = NoThread
            BY <1>1, <2>1 DEF IInv, Drained
        <3>2. \A t \in posted : worker[t] = "ended" /\ deleter[t] = "ended"
            BY <1>1, <3>1, ThreadAssumption
               DEF IInv, TypeOK, Stages, Exclusion, Locked
        <3>3. QED
            BY <3>1, <3>2 DEF AllDeleted, NoUseAfterDestroy
    <2>2. QED
        BY <2>1 DEF AllDeleted, NoUseAfterDestroy
<1>2. QED
    BY <1>1, Invariance, PTL

(***************************************************************************)
(* No thread is joined twice.                                              *)
(***************************************************************************)
THEOREM NoDoubleJoin == Spec => []JoinedOnce
<1>1. IInv => JoinedOnce
    BY DEF IInv
<1>2. QED
    BY <1>1, Invariance, PTL

(***************************************************************************)
(* m_running is the number of posted objects that have not been deleted,   *)
(* whenever the owner is not inside post().                                *)
(***************************************************************************)
THEOREM CountIsExact == Spec => []CountExact
<1>1. IInv => CountExact
    BY DEF IInv
<1>2. QED
    BY <1>1, Invariance, PTL

-----------------------------------------------------------------------------
(* Descriptors *)

\* The object holds nothing that it could lose.
Empty(o) == doing[o] \in {"none", "assign", "create"}

\* No other object holds a free number, and an open one is held by another.
LEMMA EmptyHoldsNothing ==
    ASSUME SdIInv, NEW o \in Objects, Empty(o)
    PROVE  \A fd \in Fds : ~Holds(o, fd)
BY InvalidAssumption DEF SdIInv, SdTypeOK, Empty, Holds, Stale

LEMMA FreeIsHeldByNone ==
    ASSUME SdIInv, NEW fd \in Fds, table[fd] = Free, NEW p \in Objects
    PROVE  ~Holds(p, fd)
BY InvalidAssumption DEF SdIInv, OwnConnection, Holds

\* An empty object gets a descriptor.
LEMMA GetsKeeps ==
    ASSUME SdIInv, NEW o \in Objects, Empty(o), NEW file \in Conns, Gets(o, file), Exists(o),
           UNCHANGED <<then, source>>
    PROVE  SdIInv'
<1>1. PICK fd \in Fds : /\ table[fd] = Free
                        /\ table' = [table EXCEPT ![fd] = file]
                        /\ m_sd' = [m_sd EXCEPT ![o] = fd]
                        /\ own' = [own EXCEPT ![o] = file]
  BY DEF Gets
<1>2. file # Free
  BY FreeAssumption
<1>3. doing' = [doing EXCEPT ![o] = "idle"]
  BY DEF Exists
<1>4. SdTypeOK'
  BY <1>1, <1>3 DEF SdIInv, SdTypeOK, Phases
<1>5. \A p \in Objects \ {o} : /\ m_sd'[p] = m_sd[p] /\ own'[p] = own[p] /\ doing'[p] = doing[p]
                               /\ Stale(p)' <=> Stale(p)
                               /\ \A g \in Fds : Holds(p, g)' <=> Holds(p, g)
  BY <1>1, <1>3 DEF SdIInv, SdTypeOK, Stale, Holds
<1>6. m_sd'[o] = fd /\ own'[o] = file /\ doing'[o] = "idle" /\ table'[fd] = file
        /\ ~Stale(o)' /\ fd # Invalid
        /\ \A g \in Fds : Holds(o, g)' <=> g = fd
  BY <1>1, <1>3, InvalidAssumption DEF SdIInv, SdTypeOK, Stale, Holds
<1>7. \A g \in Fds \ {fd} : table'[g] = table[g]
  BY <1>1 DEF SdIInv, SdTypeOK
<1>8. \A p \in Objects : ~Holds(p, fd)
  BY <1>1, FreeIsHeldByNone
<1>9. OwnConnection'
  <2> SUFFICES ASSUME NEW p \in Objects, ~Stale(p)'
               PROVE  IF m_sd'[p] = Invalid THEN own'[p] = Free
                      ELSE table'[m_sd'[p]] = own'[p] /\ own'[p] # Free
    BY DEF OwnConnection
  <2>1. CASE p = o
    BY <1>2, <1>6, <2>1
  <2>2. CASE p # o
    <3>1. m_sd[p] # fd
      BY <1>5, <1>8, <2>2 DEF Holds
    <3>2. m_sd[p] = Invalid \/ m_sd[p] \in Fds \ {fd}
      BY <3>1 DEF SdIInv, SdTypeOK
    <3> QED BY <1>5, <1>7, <2>2, <3>2 DEF SdIInv, OwnConnection
  <2> QED BY <2>1, <2>2
<1>10. OneOwner'
  BY <1>5, <1>6, <1>8 DEF SdIInv, OneOwner
<1>11. NoLeak'
  <2> SUFFICES ASSUME NEW g \in Fds, table'[g] # Free
               PROVE  \E p \in Objects : Holds(p, g)' /\ doing'[p] # "none"
    BY DEF NoLeak
  <2>1. CASE g = fd
    BY <1>6, <2>1
  <2>2. CASE g # fd
    <3>1. PICK p \in Objects : Holds(p, g) /\ doing[p] # "none"
      BY <1>7, <2>2 DEF SdIInv, NoLeak
    <3>2. p # o
      BY <3>1, EmptyHoldsNothing
    <3> QED BY <1>5, <3>1, <3>2
  <2> QED BY <2>1, <2>2
<1>12. NothingOwned'
  BY <1>5, <1>6 DEF SdIInv, NothingOwned
<1> QED BY <1>4, <1>9, <1>10, <1>11, <1>12 DEF SdIInv

\* An object without a descriptor enters a member or leaves it without one.
LEMMA NoneKeeps ==
    ASSUME SdIInv, NEW o \in Objects,
           Empty(o) \/ m_sd[o] = Invalid,
           NEW phase \in Phases,
           doing' = [doing EXCEPT ![o] = phase],
           m_sd' = [m_sd EXCEPT ![o] = Invalid],
           own' = [own EXCEPT ![o] = Free],
           UNCHANGED <<table, then>>,
           source' \in [Objects -> Objects]
    PROVE  SdIInv'
<1>1. SdTypeOK'
  BY DEF SdIInv, SdTypeOK
<1>2. \A p \in Objects \ {o} : /\ m_sd'[p] = m_sd[p] /\ own'[p] = own[p] /\ doing'[p] = doing[p]
                               /\ Stale(p)' <=> Stale(p)
                               /\ \A g \in Fds : Holds(p, g)' <=> Holds(p, g)
  BY DEF SdIInv, SdTypeOK, Stale, Holds
<1>3. m_sd'[o] = Invalid /\ own'[o] = Free
  BY DEF SdIInv, SdTypeOK
<1>4. \A g \in Fds : ~Holds(o, g) /\ ~Holds(o, g)'
  BY <1>3, InvalidAssumption, EmptyHoldsNothing DEF Holds
<1>5. OwnConnection'
  BY <1>2, <1>3 DEF SdIInv, OwnConnection
<1>6. OneOwner'
  BY <1>2, <1>4 DEF SdIInv, OneOwner
<1>7. NoLeak'
  <2> SUFFICES ASSUME NEW g \in Fds, table[g] # Free
               PROVE  \E p \in Objects : Holds(p, g)' /\ doing'[p] # "none"
    BY DEF NoLeak
  <2>1. PICK p \in Objects : Holds(p, g) /\ doing[p] # "none"
    BY DEF SdIInv, NoLeak
  <2>2. p # o
    BY <1>4, <2>1
  <2> QED BY <1>2, <2>1, <2>2
<1>8. NothingOwned'
  BY <1>2, <1>3 DEF SdIInv, NothingOwned
<1> QED BY <1>1, <1>5, <1>6, <1>7, <1>8 DEF SdIInv

\* An object closes the descriptor it holds.
LEMMA CloseSocketKeeps ==
    ASSUME SdIInv, NEW o \in Objects, doing[o] = "idle", m_sd[o] # Invalid, CloseSocket(o),
           NEW phase \in {"reset", "create"},
           doing' = [doing EXCEPT ![o] = phase],
           UNCHANGED m_sd,
           then' \in [Objects -> {"none", "idle", "assign"}],
           source' \in [Objects -> Objects]
    PROVE  SdIInv'
<1> DEFINE fd == m_sd[o]
<1>1. fd \in Fds /\ Holds(o, fd)
  BY DEF SdIInv, SdTypeOK, Holds, Stale
<1>2. table' = [table EXCEPT ![fd] = Free] /\ own' = [own EXCEPT ![o] = Free]
  BY DEF CloseSocket
<1>3. SdTypeOK'
  BY <1>1, <1>2 DEF SdIInv, SdTypeOK, Phases
<1>4. \A p \in Objects \ {o} : /\ m_sd'[p] = m_sd[p] /\ own'[p] = own[p] /\ doing'[p] = doing[p]
                               /\ Stale(p)' <=> Stale(p)
                               /\ \A g \in Fds : Holds(p, g)' <=> Holds(p, g)
  BY <1>2 DEF SdIInv, SdTypeOK, Stale, Holds
<1>5. own'[o] = Free /\ doing'[o] = phase /\ Stale(o)' /\ \A g \in Fds : ~Holds(o, g)'
  BY <1>2 DEF SdIInv, SdTypeOK, Stale, Holds
<1>6. \A p \in Objects \ {o} : ~Holds(p, fd)
  BY <1>1 DEF SdIInv, OneOwner
<1>7. table'[fd] = Free /\ \A g \in Fds \ {fd} : table'[g] = table[g]
  BY <1>1, <1>2 DEF SdIInv, SdTypeOK
<1> HIDE DEF fd
<1>8. OwnConnection'
  <2> SUFFICES ASSUME NEW p \in Objects, ~Stale(p)'
               PROVE  IF m_sd'[p] = Invalid THEN own'[p] = Free
                      ELSE table'[m_sd'[p]] = own'[p] /\ own'[p] # Free
    BY DEF OwnConnection
  <2>1. p # o
    BY <1>5
  <2>2. m_sd[p] = Invalid \/ m_sd[p] \in Fds \ {fd}
    BY <1>4, <1>6, <2>1 DEF SdIInv, SdTypeOK, Holds
  <2> QED BY <1>4, <1>7, <2>1, <2>2 DEF SdIInv, OwnConnection
<1>9. OneOwner'
  BY <1>4, <1>5 DEF SdIInv, OneOwner
<1>10. NoLeak'
  <2> SUFFICES ASSUME NEW g \in Fds, table'[g] # Free
               PROVE  \E p \in Objects : Holds(p, g)' /\ doing'[p] # "none"
    BY DEF NoLeak
  <2>1. g # fd /\ table[g] # Free
    BY <1>7
  <2>2. PICK p \in Objects : Holds(p, g) /\ doing[p] # "none"
    BY <2>1 DEF SdIInv, NoLeak
  <2>3. p # o
    BY <1>1, <2>1, <2>2 DEF Holds
  <2> QED BY <1>4, <2>2, <2>3
<1>11. NothingOwned'
  BY <1>4, <1>5 DEF SdIInv, NothingOwned
<1> QED BY <1>3, <1>8, <1>9, <1>10, <1>11 DEF SdIInv

-----------------------------------------------------------------------------
(* The steps *)

LEMMA SdInitially == SdInit => SdIInv
<1> SUFFICES ASSUME SdInit PROVE SdIInv
  OBVIOUS
<1> USE DEF SdInit
<1>1. SdTypeOK
  BY DEF SdTypeOK, Phases
<1>2. \A o \in Objects : m_sd[o] = Invalid /\ own[o] = Free
  OBVIOUS
<1>3. OwnConnection /\ NoLeak /\ NothingOwned
  BY <1>2 DEF OwnConnection, NoLeak, NothingOwned
<1>4. OneOwner
  BY <1>2, InvalidAssumption DEF OneOwner, Holds
<1> QED BY <1>1, <1>3, <1>4 DEF SdIInv

LEMMA ConstructionKeeps ==
    ASSUME SdIInv, NEW o \in Objects, NEW p \in Objects,
           Construct(o) \/ ConstructNew(o) \/ ConstructCopy(o, p) \/ Accept(o, p)
    PROVE  SdIInv'
<1>1. Empty(o) /\ Exists(o) /\ UNCHANGED <<then, source>>
  BY DEF Construct, ConstructNew, ConstructCopy, Accept, Empty
<1>2. CASE GetsNone(o)
  BY <1>1, <1>2, NoneKeeps DEF GetsNone, Exists, Phases, SdIInv, SdTypeOK
<1>3. CASE Opens(o)
  BY <1>1, <1>3, GetsKeeps DEF Opens
<1>4. CASE DuplicateSocket(o, p)
  <2>1. table[m_sd[p]] \in Conns /\ Gets(o, table[m_sd[p]])
    BY <1>4 DEF DuplicateSocket, SdIInv, SdTypeOK
  <2> QED BY <1>1, <2>1, GetsKeeps
<1> QED BY <1>2, <1>3, <1>4 DEF Construct, ConstructNew, ConstructCopy, Accept

LEMMA CloseKeeps ==
    ASSUME SdIInv, NEW o \in Objects, NEW next \in {"none", "idle", "assign"},
           NEW p \in Objects, CloseThen(o, next, p)
    PROVE  SdIInv'
<1>1. doing[o] = "idle" /\ source' = [source EXCEPT ![o] = p]
        /\ source' \in [Objects -> Objects]
  BY DEF CloseThen, AtRest, SdIInv, SdTypeOK
<1>2. CASE m_sd[o] = Invalid
  <2>1. own[o] = Free
    BY <1>1, <1>2 DEF SdIInv, OwnConnection, Stale
  <2>2. m_sd' = [m_sd EXCEPT ![o] = Invalid] /\ own' = [own EXCEPT ![o] = Free]
    BY <1>2, <2>1 DEF CloseThen, SdIInv, SdTypeOK
  <2>3. doing' = [doing EXCEPT ![o] = next] /\ UNCHANGED <<table, then>> /\ next \in Phases
    BY <1>2 DEF CloseThen, Phases
  <2> QED BY <1>1, <1>2, <2>2, <2>3, NoneKeeps
<1>3. CASE m_sd[o] # Invalid
  <2>1. CloseSocket(o) /\ doing' = [doing EXCEPT ![o] = "reset"] /\ UNCHANGED m_sd
          /\ then' \in [Objects -> {"none", "idle", "assign"}]
    BY <1>3 DEF CloseThen, SdIInv, SdTypeOK
  <2> QED BY <1>1, <1>3, <2>1, CloseSocketKeeps
<1> QED BY <1>2, <1>3

LEMMA ResetKeeps ==
    ASSUME SdIInv, NEW o \in Objects, Reset(o)
    PROVE  SdIInv'
<1> USE DEF Reset
<1>1. m_sd'[o] = Invalid /\ doing'[o] = then[o] /\ own[o] = Free /\ Stale(o) /\ ~Stale(o)'
        /\ \A p \in Objects \ {o} : m_sd'[p] = m_sd[p] /\ doing'[p] = doing[p]
  BY DEF SdIInv, SdTypeOK, NothingOwned, Stale
<1>2. SdTypeOK'
  BY <1>1 DEF SdIInv, SdTypeOK, Phases
<1>3. \A p \in Objects : \A g \in Fds : Holds(p, g)' <=> Holds(p, g)
  BY <1>1, InvalidAssumption DEF Holds, Stale
<1>4. OwnConnection'
  BY <1>1 DEF SdIInv, OwnConnection, Stale
<1>5. OneOwner' /\ NothingOwned'
  BY <1>1, <1>3 DEF SdIInv, OneOwner, NothingOwned
<1>6. NoLeak'
  <2>1. \A p \in Objects : \A g \in Fds : Holds(p, g) => p # o
    BY <1>1 DEF Holds
  <2> QED BY <1>1, <1>3, <2>1 DEF SdIInv, NoLeak
<1> QED BY <1>2, <1>4, <1>5, <1>6 DEF SdIInv

LEMMA AssignCopyKeeps ==
    ASSUME SdIInv, NEW o \in Objects, AssignCopy(o)
    PROVE  SdIInv'
<1>1. Empty(o) /\ Exists(o) /\ UNCHANGED <<then, source>>
  BY DEF AssignCopy, Empty
<1>2. CASE DuplicateSocket(o, source[o])
  <2>1. table[m_sd[source[o]]] \in Conns /\ Gets(o, table[m_sd[source[o]]])
    BY <1>2 DEF DuplicateSocket, SdIInv, SdTypeOK
  <2> QED BY <1>1, <2>1, GetsKeeps
<1>3. CASE GetsNone(o)
  BY <1>1, <1>3, NoneKeeps DEF GetsNone, Exists, Phases, SdIInv, SdTypeOK
<1> QED BY <1>2, <1>3 DEF AssignCopy

LEMMA CreateKeeps ==
    ASSUME SdIInv, NEW o \in Objects, Create(o)
    PROVE  SdIInv'
<1>1. doing[o] = "idle" /\ doing' = [doing EXCEPT ![o] = "create"]
        /\ UNCHANGED <<m_sd, then, source>>
  BY DEF Create, AtRest
<1>2. CASE m_sd[o] = Invalid
  <2>1. own[o] = Free
    BY <1>1, <1>2 DEF SdIInv, OwnConnection, Stale
  <2>2. m_sd' = [m_sd EXCEPT ![o] = Invalid] /\ own' = [own EXCEPT ![o] = Free]
          /\ UNCHANGED table
    BY <1>1, <1>2, <2>1 DEF Create, SdIInv, SdTypeOK
  <2> QED BY <1>1, <1>2, <2>2, NoneKeeps DEF Phases, SdIInv, SdTypeOK
<1>3. CASE m_sd[o] # Invalid
  BY <1>1, <1>3, CloseSocketKeeps DEF Create, SdIInv, SdTypeOK
<1> QED BY <1>2, <1>3

LEMMA CreateSocketKeeps ==
    ASSUME SdIInv, NEW o \in Objects, CreateSocket(o)
    PROVE  SdIInv'
<1>1. Empty(o) /\ Exists(o) /\ UNCHANGED <<then, source>>
  BY DEF CreateSocket, Empty
<1>2. CASE Opens(o)
  BY <1>1, <1>2, GetsKeeps DEF Opens
<1>3. CASE GetsNone(o)
  BY <1>1, <1>3, NoneKeeps DEF GetsNone, Exists, Phases, SdIInv, SdTypeOK
<1> QED BY <1>2, <1>3 DEF CreateSocket

LEMMA SdInductive == SdIInv /\ [SdNext]_sdVars => SdIInv'
<1> SUFFICES ASSUME SdIInv, [SdNext]_sdVars PROVE SdIInv'
  OBVIOUS
<1>1. CASE SdNext
  <2>1. PICK o \in Objects :
            \/ Construct(o) \/ ConstructNew(o)
            \/ Close(o) \/ Destruct(o) \/ Reset(o)
            \/ AssignCopy(o)
            \/ Create(o) \/ CreateSocket(o)
            \/ \E p \in Objects : ConstructCopy(o, p) \/ Accept(o, p) \/ Assign(o, p)
    BY <1>1 DEF SdNext
  <2>2. CASE Construct(o) \/ ConstructNew(o)
    BY <2>2, ConstructionKeeps
  <2>3. CASE Close(o) \/ Destruct(o)
    BY <2>3, CloseKeeps DEF Close, Destruct
  <2>4. CASE Reset(o)
    BY <2>4, ResetKeeps
  <2>5. CASE AssignCopy(o)
    BY <2>5, AssignCopyKeeps
  <2>6. CASE Create(o) \/ CreateSocket(o)
    BY <2>6, CreateKeeps, CreateSocketKeeps
  <2>7. ASSUME NEW p \in Objects, ConstructCopy(o, p) \/ Accept(o, p) \/ Assign(o, p)
        PROVE  SdIInv'
    BY <2>7, ConstructionKeeps, CloseKeeps DEF Assign
  <2> QED BY <2>1, <2>2, <2>3, <2>4, <2>5, <2>6, <2>7
<1>2. CASE UNCHANGED sdVars
  BY <1>2 DEF sdVars, SdIInv, SdTypeOK, OwnConnection, OneOwner, Holds, Stale, NoLeak, NothingOwned
<1> QED BY <1>1, <1>2

LEMMA SdInvariant == SdSpec => []SdIInv
BY SdInitially, SdInductive, PTL DEF SdSpec

-----------------------------------------------------------------------------

(***************************************************************************)
(* The members and the kernel's table keep their types.                    *)
(***************************************************************************)
THEOREM SdTypeCorrect == SdSpec => []SdTypeOK
<1>1. SdIInv => SdTypeOK
  BY DEF SdIInv
<1> QED BY <1>1, SdInvariant, PTL

(***************************************************************************)
(* The descriptor of a Socket refers to its own connection or is invalid,  *)
(* whatever the other objects of the process open and close.               *)
(***************************************************************************)
THEOREM RefersToOwn == SdSpec => []OwnConnection
<1>1. SdIInv => OwnConnection
  BY DEF SdIInv
<1> QED BY <1>1, SdInvariant, PTL

(***************************************************************************)
(* Copies and moves never leave two objects with one descriptor.           *)
(***************************************************************************)
THEOREM NeverShared == SdSpec => []OneOwner
<1>1. SdIInv => OneOwner
  BY DEF SdIInv
<1> QED BY <1>1, SdInvariant, PTL

(***************************************************************************)
(* No descriptor stays open without an object that will close it.          *)
(***************************************************************************)
THEOREM NeverLeaked == SdSpec => []NoLeak
<1>1. SdIInv => NoLeak
  BY DEF SdIInv
<1> QED BY <1>1, SdInvariant, PTL

=============================================================================
