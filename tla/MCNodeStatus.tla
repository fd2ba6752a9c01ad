---- MODULE MCNodeStatus ----
(* NodeStatus on a small instance: two ports, the conventional one and another. *)
EXTENDS NodeStatus
====
