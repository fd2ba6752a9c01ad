--------------------------- MODULE MCAnvilProcess ---------------------------
(* TLC instance of AnvilProcess. *)
EXTENDS AnvilProcess
=============================================================================
