------------------------------ MODULE TraceViews ------------------------------
(***************************************************************************)
(* From a trace to the page that shows it: the route                       *)
(* app/api/tx/[hash]/trace asks the node for the same execution twice, as  *)
(* an opcode trace and as a tree of calls, either of which may fail, and   *)
(* caches what it got; the hook api/useTxTrace.ts of the explorer overlay  *)
(* builds the rows of the page from the one or the other                   *)
(* (structLogsToEntries, callTraceToEntries) and asks for the ABIs of the  *)
(* addresses in them (collectAddresses).  The route app/api/explorer lists *)
(* the internal transactions of an address out of the same cache.          *)
(*                                                                         *)
(* The execution and the walk of its steps are those of TraceWalk; beside  *)
(* them grow the rows of calls the walk emits and the tree callTracer      *)
(* (external) reports.  Of a row, what says who called whom is kept.       *)
(***************************************************************************)
EXTENDS TraceWalk

CONSTANT Touching   \* bound: FALSE when pages are only opened for executions that use no storage

\* None is no contract and no source: an address is None where it is undefined, the
\* source where there is no trace.
ASSUME ViewsAssumption == Touching \in BOOLEAN /\ None \notin Contract \cup {"opcodes", "calls"}

VARIABLES
    log,    \* the rows structLogsToEntries emits for calls, in order
    tree,   \* callTracer's nodes, the root first; the calls of a node are indexes
    open,   \* the nodes whose calls are under way, from the root down
    made,   \* history: the calls the EVM made, in order
    cache,  \* the row of table tx_traces: which of the two traces it holds
    page    \* what the page shows

views    == <<log, tree, open, made, cache, page>>
viewVars == <<vars, views>>

TraceKind == {"CALL", "DELEGATECALL", "CREATE"}
Address  == Contract \cup {None}
CallRow  == [kind : TraceKind, from : Address, to : Address, depth : 1..MaxDepth + 1]
CallNode == [type : Kind, from : Address, to : Contract, calls : Seq(Nat)]
NoTrace  == [opcodes |-> FALSE, calls |-> FALSE]
NoPage   == [source |-> None, known |-> FALSE, rows |-> <<>>, addresses |-> {}]

ViewsTypeOK ==
    /\ TypeOK
    /\ log \in Seq(CallRow) /\ made \in Seq(CallRow)
    /\ tree \in Seq(CallNode) /\ open \in Seq(DOMAIN tree)
    /\ cache \in [opcodes : BOOLEAN, calls : BOOLEAN]
    /\ page.source \in {"opcodes", "calls", None} /\ page.known \in BOOLEAN
    /\ page.rows \in Seq(CallRow) /\ page.addresses \subseteq Contract

\* The sender is an account: no contract of the trace.
Sender == None
Call0(to) == [kind |-> "CALL", from |-> Sender, to |-> to, depth |-> 1]
Node(type, from, to) == [type |-> type, from |-> from, to |-> to, calls |-> <<>>]

ViewsInit ==
    /\ Init
    /\ log = <<>>
    /\ tree = <<Node("CALL", Sender, frames[1].owner)>> /\ open = <<1>>
    /\ made = <<Call0(frames[1].owner)>>
    /\ cache = NoTrace /\ page = NoPage

-----------------------------------------------------------------------------
(* The two traces of a call.                                               *)

classifyOp(op) == IF op = "CALLCODE" THEN "CALL" ELSE op

\* The walk's row of a call: called from the context, one level deeper when it is
\* shown under the row of the transaction.
CallEntry(op, to) ==
    [kind |-> classifyOp(op), from |-> Context, to |-> to, depth |-> Depth]

\* A CREATE has no target on the stack.
Emitted(op, to) ==
    Append(log, IF op = "CREATE" THEN [CallEntry(op, None) EXCEPT !.from = None] ELSE CallEntry(op, to))

Made(op, to) == Append(made, [kind |-> classifyOp(op), from |-> Top.owner, to |-> to, depth |-> Depth + 1])

\* callTracer's node of a call, among the calls of the node that makes it.
Traced(op, to) ==
    Append([tree EXCEPT ![Last(open)].calls = Append(@, Len(tree) + 1)], Node(op, Top.owner, to))

ViewedStep ==
    /\ Compute \/ \E s \in Slot : Load(s) \/ \E v \in Value : Store(s, v)
    /\ UNCHANGED views

ViewedCall(op, to, forwarded) ==
    /\ Call(op, to, forwarded)
    /\ log' = Emitted(op, to)
    /\ made' = Made(op, to)
    /\ tree' = Traced(op, to) /\ open' = Append(open, Len(tree) + 1)
    /\ UNCHANGED <<cache, page>>

ViewedPlain(to, forwarded) ==
    /\ CallPlain(to, forwarded)
    /\ log' = Emitted("CALL", to)
    /\ made' = Made("CALL", to)
    /\ tree' = Traced("CALL", to)
    /\ UNCHANGED <<open, cache, page>>

ViewedEnd ==
    /\ Return \/ Revert \/ Halt("invalid") \/ Halt("out-of-gas")
    /\ open' = IF Depth > 1 THEN Front(open) ELSE open
    /\ UNCHANGED <<log, tree, made, cache, page>>

-----------------------------------------------------------------------------
(* The page.                                                               *)

NodeRow(i, d) ==
    [kind |-> classifyOp(tree[i].type), from |-> tree[i].from, to |-> tree[i].to, depth |-> d]

\* Mutant: children are not shown deeper than their caller.
callTraceFlat(node, depth) ==
    LET entries[i \in DOMAIN tree] ==
          [d \in Nat |-> <<NodeRow(i, d)>>
             \o FlattenSeq([k \in DOMAIN tree[i].calls |-> entries[tree[i].calls[k]][d]])]
    IN  entries[node][depth]

\* The row of a node, then those of the calls it made, one level deeper.
callTraceToEntries(node, depth) ==
    LET entries[i \in DOMAIN tree] ==
          [d \in Nat |-> <<NodeRow(i, d)>>
             \o FlattenSeq([k \in DOMAIN tree[i].calls |-> entries[tree[i].calls[k]][d + 1]])]
    IN  entries[node][depth]

Deeper(calls) == [i \in DOMAIN calls |-> [calls[i] EXCEPT !.depth = @ + 1]]

\* If the transaction is known, its own call is the first row.
structLogsToEntries(known, root) ==
    IF known THEN <<Call0(root)>> \o Deeper(log) ELSE log

build(trace, known, root) ==
    CASE trace.opcodes -> structLogsToEntries(known, root)
      [] ~trace.opcodes /\ trace.calls -> callTraceToEntries(1, 1)
      [] OTHER -> <<>>

\* Targets of the rows, and contexts, which are targets or the root.
collectAddresses(entries, root) ==
    ({root} \cup {entries[i].to : i \in DOMAIN entries}) \ {None}

\* What the route answers: the cached row as it is, else what the node answers now.
Answer(opcodes, calls) == IF cache # NoTrace THEN cache ELSE [opcodes |-> opcodes, calls |-> calls]

\* The page of the transaction is opened, or opened again.  Each tracer may fail,
\* and so may the request for the transaction; the target is known to the page.
OpenPage ==
    /\ outcome # "running"
    /\ Touching \/ \A k \in DOMAIN storageSeen : storageSeen[k] = None
    /\ \E opcodes, calls, known \in BOOLEAN :
         LET trace   == Answer(opcodes, calls)
             root    == tree[1].to
             entries == build(trace, known, root)
         IN  /\ cache' = trace
             /\ page' = [source |-> IF trace.opcodes THEN "opcodes" ELSE IF trace.calls THEN "calls" ELSE None,
                         known |-> known, rows |-> entries,
                         addresses |-> collectAddresses(entries, root)]
    /\ UNCHANGED <<vars, log, tree, open, made>>

\* Of calls with their depth below the root, the internal ones that the address made or got.
Internal(calls, address) ==
    SelectSeq(calls, LAMBDA call : call.depth > 0 /\ address \in {call.from, call.to})

\* app/api/explorer, txlistinternal, of the transactions whose cached row has a tree.
internalTransfersFor(address) ==
    IF cache.calls THEN Internal(callTraceToEntries(1, 0), address) ELSE <<>>

ViewsNext ==
    \/ ViewedStep \/ ViewedEnd \/ OpenPage
    \/ \E to \in Contract, g \in 1..Gas :
         ViewedPlain(to, g) \/ \E op \in Kind : ViewedCall(op, to, g)

ViewsSpec == ViewsInit /\ [][ViewsNext]_viewVars

-----------------------------------------------------------------------------
(* Properties.                                                             *)

\* The rows of the page are the calls the EVM made, each under its caller: who was
\* called, from whose address, how deep, in which order.
RowsAreCalls ==
    CASE page.source = None -> page.rows = <<>>
      [] page.source = "opcodes" /\ ~page.known -> <<made[1]>> \o Deeper(page.rows) = made
      [] OTHER -> page.rows = made

\* The ABIs asked for cover every contract that was called.
AbisCoverCalls == page # NoPage /\ page.source # None => {made[i].to : i \in DOMAIN made} \subseteq page.addresses

\* The internal transactions of a contract are the calls it made and got, reverted ones too;
\* of a transaction that nobody has opened, or whose calls were not traced, there are none.
InternalsAreCalls ==
    \A c \in Contract :
        internalTransfersFor(c) =
            IF cache.calls THEN Internal([i \in DOMAIN made |-> [made[i] EXCEPT !.depth = @ - 1]], c)
            ELSE <<>>

\* "Either tracer can fail independently on a fork RPC - ask for both, keep what works"
\* (app/api/tx/[hash]/trace/route.ts): whichever trace the page is built from, it shows
\* the same calls, through calls that failed, delegate calls and calls of accounts, and so
\* does the list of internal transactions.
PageIsTrue == RowsAreCalls /\ AbisCoverCalls /\ InternalsAreCalls
=============================================================================
