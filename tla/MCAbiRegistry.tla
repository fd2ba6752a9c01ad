---- MODULE MCAbiRegistry ----
(* AbiRegistry and the Database below it on a small instance: one block and one *)
(* project above an upgrade of any older file, one address and two lookups.     *)
EXTENDS AbiRegistry
====
