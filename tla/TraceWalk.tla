------------------------------ MODULE TraceWalk ------------------------------
(***************************************************************************)
(* The debugger's reading of an opcode trace, api/traceEntries.ts and      *)
(* api/traceAnalysis.ts of the explorer overlay: structLogsToEntries walks *)
(* the steps and says which contract each belongs to and what a slot held  *)
(* before a write, netStorageDiff, profileGas and analyzeRevert derive     *)
(* what the transaction changed, spent and died of.                        *)
(*                                                                         *)
(* A trace is what the EVM (external) logs while it executes, so every     *)
(* action executes one operation and walks the step it logs.  The call     *)
(* depth is the length of `frames`; memory, calldata and decoding are left *)
(* out.  An operation costs 1, a call 1 and the gas it forwards.           *)
(***************************************************************************)
EXTENDS Integers, SequencesExt

CONSTANTS
    Contract,
    Slot,
    Value,      \* what a slot may hold, 0 among it
    None,
    Gas,        \* gas of the transaction, which bounds the trace
    MaxDepth,   \* bound on the call depth
    Untracked   \* TRUE when programs use CREATE and CALLCODE too

ASSUME TraceAssumption ==
    /\ 0 \in Value /\ None \notin Value \cup [before : Value, after : Value]
    /\ Gas \in Nat \ {0} /\ MaxDepth \in Nat \ {0}
    /\ Untracked \in BOOLEAN

VARIABLES
    frames,         \* the calls under way: whose storage, gas left, storage on entry
    storage,        \* what the slots hold
    first,          \* what they held before the transaction
    outcome,
    met,            \* history: what has happened that the derived views pass over
    contextStack,   \* the walk's stack of contexts
    storageSeen,    \* the walk's memory of slots
    entry,          \* the last row of the trace log
    rows,           \* the rows of netStorageDiff
    execution,      \* gas that profileGas attributes
    blamed          \* depth of the step analyzeRevert finds, 0 for none

evm  == <<frames, storage, first, outcome, met>>
walk == <<contextStack, storageSeen, entry, rows, execution, blamed>>
vars == <<evm, walk>>

Storage == [Contract -> [Slot -> Value]]
Frame   == [owner : Contract, gas : 0..Gas, entry : Storage]
Outcome == {"running", "success", "revert", "invalid", "out-of-gas"}
Event   == {"reverted", "halted", "blind", "plain"}

\* Fields `owner` and `held` are what the EVM knows: whose storage the operation
\* ran on, and what the slot it writes held.
Entry   == [context : Contract, owner : Contract,
            previous : Value \cup {None}, held : Value \cup {None}]
DiffRow == [before : Value, after : Value]

TypeOK ==
    /\ frames \in Seq(Frame) /\ Len(frames) \in 1..MaxDepth
    /\ storage \in Storage /\ first \in Storage
    /\ outcome \in Outcome
    /\ met \subseteq Event
    /\ contextStack \in Seq(Contract) /\ Len(contextStack) \in 1..MaxDepth + 1
    /\ storageSeen \in [Contract \X Slot -> Value \cup {None}]
    /\ entry \in Entry
    /\ rows \in [Contract \X Slot -> DiffRow \cup {None}]
    /\ execution \in Nat
    /\ blamed \in 0..MaxDepth

Init ==
    /\ storage \in Storage /\ first = storage
    /\ \E root \in Contract :
         /\ frames = <<[owner |-> root, gas |-> Gas, entry |-> storage]>>
         /\ contextStack = <<root>>
         /\ entry = [context |-> root, owner |-> root, previous |-> None, held |-> None]
    /\ outcome = "running" /\ met = {}
    /\ storageSeen = [k \in Contract \X Slot |-> None]
    /\ rows = [k \in Contract \X Slot |-> None]
    /\ execution = 0 /\ blamed = 0

Depth == Len(frames)
Top   == frames[Depth]

-----------------------------------------------------------------------------
(* The walk over one step.                                                 *)

\* A drop of the depth means that calls returned.
Popped == IF Len(contextStack) > Depth THEN SubSeq(contextStack, 1, Depth) ELSE contextStack

Context == Popped[Len(Popped)]

Row(previous, held) ==
    [context |-> Context, owner |-> Top.owner, previous |-> previous, held |-> held]

PreviousUnseen(s, v) == {0, v, storage[Top.owner][s]}

\* What the last read or write of the slot says; else the step's own storage map,
\* in which the node may have nothing, the old value or the new one.
Previous(s, v) ==
    LET known == storageSeen[<<Context, s>>]
    IN  IF known # None THEN {known} ELSE {0, v, storage[Top.owner][s]}

CollapsedLast(s, previous, v) ==
    [rows EXCEPT ![<<Context, s>>] = [before |-> previous, after |-> v]]

\* One row of the diff per slot, from the first value before to the last after.
Collapsed(s, previous, v) ==
    LET old == rows[<<Context, s>>]
    IN  [rows EXCEPT ![<<Context, s>>] =
           [before |-> IF old = None THEN previous ELSE old.before, after |-> v]]

SelfCostWhole(cost, deeper, forwarded) == cost

\* A call's cost includes the gas it forwards, which the callee's own steps account
\* for: if the next step is deeper, its gas is taken off.
SelfCost(cost, deeper, forwarded) == IF deeper THEN cost - forwarded ELSE cost

-----------------------------------------------------------------------------
(* The EVM executes one operation and the walk reads its step.             *)

Runs(cost) == outcome = "running" /\ Top.gas >= cost

Spent(cost) == [frames EXCEPT ![Depth].gas = @ - cost]

\* Arithmetic, jumps, memory and logs.
Compute ==
    /\ Runs(1)
    /\ frames' = Spent(1)
    /\ contextStack' = Popped
    /\ entry' = Row(None, None)
    /\ execution' = execution + SelfCost(1, FALSE, 0)
    /\ UNCHANGED <<storage, first, outcome, met, storageSeen, rows, blamed>>

\* The loaded value is on the stack of the next step.
Load(s) ==
    /\ Runs(1)
    /\ frames' = Spent(1)
    /\ contextStack' = Popped
    /\ entry' = Row(None, None)
    /\ storageSeen' = [storageSeen EXCEPT ![<<Context, s>>] = storage[Top.owner][s]]
    /\ execution' = execution + SelfCost(1, FALSE, 0)
    /\ UNCHANGED <<storage, first, outcome, met, rows, blamed>>

Store(s, v) ==
    /\ Runs(1)
    /\ frames' = Spent(1)
    /\ storage' = [storage EXCEPT ![Top.owner][s] = v]
    /\ met' = IF storageSeen[<<Context, s>>] = None THEN met \cup {"blind"} ELSE met
    /\ contextStack' = Popped
    /\ storageSeen' = [storageSeen EXCEPT ![<<Context, s>>] = v]
    /\ \E previous \in Previous(s, v) :
         /\ entry' = Row(previous, storage[Top.owner][s])
         /\ rows' = Collapsed(s, previous, v)
    /\ execution' = execution + SelfCost(1, FALSE, 0)
    /\ UNCHANGED <<first, outcome, blamed>>

PushedTarget(op, to) == IF op = "CREATE" THEN Popped ELSE Append(Popped, to)

\* The walk pushes the target; for a DELEGATECALL, which keeps the caller's
\* storage, the context.  It pushes nothing for a CREATE.
Pushed(op, to) ==
    CASE op = "DELEGATECALL" -> Append(Popped, Context)
      [] op = "CREATE"       -> Popped
      [] OTHER               -> Append(Popped, to)

\* A STATICCALL is walked like a CALL.
Kind == {"CALL", "DELEGATECALL"} \cup (IF Untracked THEN {"CALLCODE", "CREATE"} ELSE {})

Call(op, to, forwarded) ==
    /\ Runs(1 + forwarded) /\ Depth < MaxDepth
    /\ frames' = Append(Spent(1 + forwarded),
         [owner |-> IF op \in {"CALL", "CREATE"} THEN to ELSE Top.owner,
          gas |-> forwarded, entry |-> storage])
    /\ contextStack' = Pushed(op, to)
    /\ entry' = Row(None, None)
    /\ execution' = execution + SelfCost(1 + forwarded, TRUE, forwarded)
    /\ UNCHANGED <<storage, first, outcome, met, storageSeen, rows, blamed>>

\* The target has no code to trace: an account, a precompile.
CallPlain(to, forwarded) ==
    /\ Runs(1 + forwarded)
    /\ frames' = Spent(1)
    /\ met' = met \cup {"plain"}
    /\ contextStack' = Pushed("CALL", to)
    /\ entry' = Row(None, None)
    /\ execution' = execution + SelfCost(1 + forwarded, FALSE, forwarded)
    /\ UNCHANGED <<storage, first, outcome, storageSeen, rows, blamed>>

\* The frame ends and hands `left` back to its caller.
Leave(left, end) ==
    IF Depth > 1
    THEN /\ frames' = [Front(frames) EXCEPT ![Depth - 1].gas = @ + left]
         /\ UNCHANGED outcome
    ELSE /\ frames' = [frames EXCEPT ![1].gas = left]
         /\ outcome' = end

\* RETURN and STOP.
Return ==
    /\ Runs(0)
    /\ Leave(Top.gas, "success")
    /\ contextStack' = Popped
    /\ entry' = Row(None, None)
    /\ UNCHANGED <<storage, first, met, storageSeen, rows, execution, blamed>>

\* analyzeRevert looks for the last REVERT or INVALID.
Blame == Depth

Revert ==
    /\ Runs(0)
    /\ Leave(Top.gas, "revert")
    /\ storage' = Top.entry
    /\ met' = met \cup {"reverted"}
    /\ contextStack' = Popped
    /\ entry' = Row(None, None)
    /\ blamed' = Blame
    /\ UNCHANGED <<first, storageSeen, rows, execution>>

\* INVALID, or an operation the gas does not pay for: all the gas is lost.
Halt(end) ==
    /\ Runs(0)
    /\ Leave(0, end)
    /\ storage' = Top.entry
    /\ met' = met \cup {"reverted", "halted"}
    /\ contextStack' = Popped
    /\ entry' = Row(None, None)
    /\ blamed' = IF end = "invalid" THEN Blame ELSE blamed
    /\ execution' = execution + 1
    /\ UNCHANGED <<first, storageSeen, rows>>

Next ==
    \/ Compute \/ Return \/ Revert
    \/ Halt("invalid") \/ Halt("out-of-gas")
    \/ \E s \in Slot : Load(s) \/ \E v \in Value : Store(s, v)
    \/ \E to \in Contract, g \in 1..Gas :
         CallPlain(to, g) \/ \E op \in Kind : Call(op, to, g)

Spec == Init /\ [][Next]_vars

-----------------------------------------------------------------------------
(* Properties.                                                             *)

\* "tracking the current call context so storage rows can say which contract they
\* touched" (traceEntries.ts): every row names the contract whose storage the step
\* ran on, through nested calls, delegate calls, calls of accounts and failures.
ContextIsTrue == entry.context = entry.owner

\* "value the slot held before this write" (traceEntries.ts): as long as no frame
\* was rolled back and a slot is read before it is written, the row of a write says
\* what the slot held, whichever frame wrote it last.
PreviousIsTrue == met \cap {"reverted", "blind"} = {} => entry.previous = entry.held

\* "what storage it actually changed" (traceAnalysis.ts): under the same condition
\* the diff has the slots that differ from before the transaction and no other, each
\* with its value before and its value now.
NetDiffIsTrue ==
    met \cap {"reverted", "blind"} = {} =>
        \A c \in Contract, s \in Slot :
            LET row == rows[<<c, s>>]
                shown == row # None /\ row.before # row.after
            IN  /\ shown <=> first[c][s] # storage[c][s]
                /\ shown => row = [before |-> first[c][s], after |-> storage[c][s]]

\* "where its gas went" (traceAnalysis.ts): while calls have code to trace and no
\* frame lost its gas, the attributed gas and the gas still in the frames are the
\* gas of the transaction: nothing is counted twice or not at all.
GasAdds ==
    met \cap {"plain", "halted"} = {} =>
        execution + FoldLeft(LAMBDA sum, f : sum + f.gas, 0, frames) = Gas

\* "Find the revert (or invalid opcode / gas exhaustion) that ended the transaction"
\* (traceAnalysis.ts:123): what failed in the transaction's own frame is blamed, none
\* (0: the last step, "out-of-gas") when it ran out of gas.  It is violated: the last
\* REVERT or INVALID is, one of a call the transaction survived as well.
FailureIsFound ==
    outcome \notin {"running", "success"} =>
        blamed = IF outcome = "out-of-gas" THEN 0 ELSE 1
=============================================================================
