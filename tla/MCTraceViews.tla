---------------------------- MODULE MCTraceViews ----------------------------
(* TraceViews on a small instance: contracts and slots are model values. *)
EXTENDS TraceViews, TLC

\* The modules treat all contracts alike, and all slots.
Symmetry == Permutations(Contract) \cup Permutations(Slot)
=============================================================================
