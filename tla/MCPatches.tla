---- MODULE MCPatches ----
(* Patches on a small instance: one token, one wallet, and an operation of each kind. *)
EXTENDS Patches, TLC
CONSTANTS t, h

FundNative   == [type |-> "fund_native", holder |-> h, amount |-> 2]
FundToken(s) == [type |-> "fund_erc20", token |-> t, holder |-> h, amount |-> 2, mappingSlot |-> s]
WriteOther   == [type |-> "storage_write", token |-> t, key |-> <<"vyper", 0, h>>, value |-> 2]
SetToken     == [type |-> "set_code", token |-> t, mode |-> "erc20", holder |-> h, amount |-> 2]
SetRuntime   == [type |-> "set_code", token |-> t, mode |-> "runtime", holder |-> h, amount |-> 0]

\* What a script cannot hold: code, and a slot that is given.
PostedOps == {FundToken(1), SetToken, SetRuntime}

\* Two operations in either order: calls fail before, between and after them.
ScriptedOps == {<<WriteOther, FundToken(None)>>, <<FundToken(None), FundNative>>}
====
