-------------------------- MODULE MCProjectControl --------------------------
(* TLC instances of ProjectControl. *)
EXTENDS ProjectControl, TLC

\* Slots, unborn processes and projects are interchangeable.
Symmetry == Permutations(Call) \cup Permutations(Pid) \cup Permutations(Project)

=============================================================================
