--------------------------- MODULE MCChainIndexer ---------------------------
(* TLC instances of ChainIndexer. *)
EXTENDS ChainIndexer, TLC

\* Projects, streams and payloads are interchangeable.
Symmetry == Permutations(Scope) \cup Permutations(Stream) \cup Permutations(Payload)

=============================================================================
