--------------------------- MODULE MCExplorerSync ---------------------------
(* TLC instance of ExplorerSync. *)
EXTENDS ExplorerSync

CONSTANTS c1, c2, q1, q2

MCIdentity == {[chain |-> c1, port |-> q1], [chain |-> c2, port |-> q2]}

\* From a terminal on a LAN address, and in containers on a domain behind the front door.
MCWays ==
    { [stack |-> FALSE, host |-> "public", path |-> FALSE, door |-> FALSE],
      [stack |-> TRUE, host |-> "public", path |-> TRUE, door |-> TRUE] }
=============================================================================
