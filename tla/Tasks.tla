-------------------------------- MODULE Tasks --------------------------------
(***************************************************************************)
(* The tasks of dtmain: main's vector, in which a task is known by its     *)
(* position.                                                               *)
(***************************************************************************)
EXTENDS Naturals

CONSTANTS
    NTasks,     \* number of tasks in main's vector (2 in dtmain.cxx)
    Avants      \* the tasks that are DTavant objects; the others are DTrear

ASSUME NTasksAssumption == NTasks \in Nat \ {0}
ASSUME AvantsAssumption == Avants \subseteq 1..NTasks

Task == 1..NTasks

=============================================================================
