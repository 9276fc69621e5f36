---------------------------- MODULE MCDescriptors ----------------------------
(* Descriptors for TLC: any permutation of objects, of numbers and of files *)
(* is a symmetry, since none of them is ever compared but for equality.     *)
EXTENDS Descriptors, TLC

Symmetry == Permutations(Objects) \union Permutations(Fds) \union Permutations(Conns)
=============================================================================
