---- MODULE MCSnapshots ----
(* Snapshots on a small instance: writes, requests and projects are model values. *)
EXTENDS Snapshots, TLC

\* The module treats all writes alike, all projects and all requests.
Symmetry == Permutations(Write) \cup Permutations(Req) \cup Permutations(Scope)
====
