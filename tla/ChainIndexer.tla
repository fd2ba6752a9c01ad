---------------------------- MODULE ChainIndexer ----------------------------
(***************************************************************************)
(* The live indexer: the poll of app/api/stream/route.ts, the rows it      *)
(* writes through lib/txStore.ts, and the reset that wipes them.           *)
(*                                                                         *)
(* Every open event stream polls on its own: it asks the node of the       *)
(* resolved project for the height, then for the new blocks, then for the  *)
(* receipts, and writes all rows in one transaction.  Each of the three    *)
(* answers arrives in a later turn of the event loop, however much the     *)
(* chain has changed since.  The nodes are the environment.  A block is    *)
(* its identity and at most one transaction; receipts and decoding are     *)
(* left out.                                                               *)
(***************************************************************************)
EXTENDS Integers, Sequences

CONSTANTS
    Scope,      \* projects, each with a node of its own
    Stream,     \* slots for open event streams
    Payload,    \* transactions a user sends
    None,
    Batch,      \* MAX_BLOCKS_PER_TICK
    MaxHeight,  \* bound on the height of a chain
    MaxMined,   \* bound on the blocks mined
    Shared,     \* TRUE when projects share chain id and accounts
    Rewinds     \* TRUE when chains are rolled back, as reverts and dry runs do

ASSUME IndexerAssumption ==
    /\ None \notin Scope
    /\ Batch \in Nat \ {0}
    /\ MaxHeight \in Nat /\ MaxMined \in Nat
    /\ Shared \in BOOLEAN /\ Rewinds \in BOOLEAN

VARIABLES
    chain,      \* chain[s][n]: the block at height n >= 1 of the node of s
    mined,      \* how many blocks were mined, which numbers them
    lost,       \* history: the (height, block) pairs that the chain of s lost to
                \* rollbacks since its last reset, or that polls carried over it
    up,         \* the projects whose node is running
    rows,       \* table blocks: rows[s][n], keyed by project and number
    txs,        \* table transactions, keyed by hash
    stream      \* the event streams

env  == <<chain, mined, up>>
vars == <<env, lost, rows, txs, stream>>

Height == 1..MaxHeight

\* The hash of a payload.  It covers the chain id and the sender, not the
\* project: projects on one chain id with the same accounts share hashes.
Hash(s, t) == <<IF Shared THEN None ELSE s, t>>

Hashes == (Scope \cup {None}) \X Payload

Block == [id : 1..MaxMined, tx : Hashes \cup {None}]

\* The absence of a row or a transaction is neither.
ASSUME NoneAssumption == None \notin Hashes \cup Block \cup (Scope \X Height)

\* `last` is lastBlock with -1 before the first answer, `key` the project of
\* lastKey, `got` the items of a batch, None where the node answers null or an
\* error.  Three fields are history of the cursor since it was last set to the
\* tip: `since`, that tip; `missed`, the heights it passed on a null item or whose
\* rows were wiped afterwards; `stale`, that the chain lost a block it has passed.
Closed == [open |-> FALSE, step |-> "idle", key |-> None, last |-> -1, since |-> -1,
           missed |-> {}, stale |-> FALSE, to |-> 0, got |-> {}]

StreamRecord ==
    [open : BOOLEAN, step : {"idle", "height", "blocks", "receipts"}, key : Scope \cup {None},
     last : -1..MaxHeight, since : -1..MaxHeight, missed : SUBSET Height, stale : BOOLEAN,
     to : 0..MaxHeight, got : SUBSET (Height \X (Block \cup {None}))]

TypeOK ==
    /\ chain \in [Scope -> Seq(Block)]
    /\ \A s \in Scope : Len(chain[s]) <= MaxHeight
    /\ mined \in 0..MaxMined
    /\ lost \in [Scope -> SUBSET (Height \X Block)]
    /\ up \subseteq Scope
    /\ rows \in [Scope -> [Height -> Block \cup {None}]]
    /\ txs \in [Hashes -> (Scope \X Height) \cup {None}]
    /\ stream \in [Stream -> StreamRecord]

Init ==
    /\ chain = [s \in Scope |-> <<>>]
    /\ mined = 0
    /\ lost = [s \in Scope |-> {}]
    /\ up = {}
    /\ rows = [s \in Scope |-> [n \in Height |-> None]]
    /\ txs = [h \in Hashes |-> None]
    /\ stream = [c \in Stream |-> Closed]

-----------------------------------------------------------------------------
(* The nodes.                                                              *)

Mine(s, t) ==
    /\ s \in up
    /\ Len(chain[s]) < MaxHeight /\ mined < MaxMined
    /\ t = None \/ \A n \in 1..Len(chain[s]) : chain[s][n].tx # Hash(s, t)
    /\ chain' = [chain EXCEPT ![s] =
         Append(@, [id |-> mined + 1, tx |-> IF t = None THEN None ELSE Hash(s, t)])]
    /\ mined' = mined + 1
    /\ UNCHANGED <<lost, up, rows, txs, stream>>

\* The node comes up with the state it dumped.
NodeStarts(s) ==
    /\ s \notin up
    /\ up' = up \cup {s}
    /\ UNCHANGED <<chain, mined, lost, rows, txs, stream>>

NodeStops(s) ==
    /\ s \in up
    /\ up' = up \ {s}
    /\ UNCHANGED <<chain, mined, lost, rows, txs, stream>>

\* The blocks of the chain of s, each with its height.
Pairs(s) == {<<n, chain[s][n]>> : n \in 1..Len(chain[s])}

\* evm_revert by /api/anvil/revert and /api/simulate, anvil_reset, or a crash that
\* loses what was not dumped.  None of them touches the tables.
Rewind(s, n) ==
    /\ Rewinds
    /\ n < Len(chain[s])
    /\ chain' = [chain EXCEPT ![s] = SubSeq(@, 1, n)]
    /\ lost' = [lost EXCEPT ![s] = @ \cup {e \in Pairs(s) : e[1] > n}]
    /\ stream' = [c \in Stream |->
         [stream[c] EXCEPT !.stale = @ \/ (stream[c].key = s /\ n < stream[c].last)]]
    /\ UNCHANGED <<mined, up, rows, txs>>

-----------------------------------------------------------------------------
(* The reset route.                                                        *)

\* DELETE FROM transactions WHERE project_id = s
TxsWithout(s) == [h \in Hashes |-> IF txs[h] # None /\ txs[h][1] = s THEN None ELSE txs[h]]

RowsLeft(s) == rows

\* DELETE FROM blocks WHERE project_id = s
RowsWithout(s) == [rows EXCEPT ![s] = [n \in Height |-> None]]

\* The blocks among the items of a batch.
Blocks(S) == {e \in S : e[2] # None}

\* What polls of s carry towards the index.
Carried(s) == UNION {Blocks(stream[c].got) : c \in {c \in Stream : stream[c].key = s}}

\* Rows and the state file go in the turn in which stopAnvil resolves.  A node
\* that is running now is one the server does not hold: it is not stopped, and its
\* chain stays.
Reset(s) ==
    /\ rows' = RowsWithout(s)
    /\ txs' = TxsWithout(s)
    /\ chain' = IF s \in up THEN chain ELSE [chain EXCEPT ![s] = <<>>]
    /\ lost' = [lost EXCEPT ![s] = Carried(s)]
    /\ stream' = [c \in Stream |->
         IF stream[c].key = s
         THEN [stream[c] EXCEPT !.missed = @ \cup (1..stream[c].last),
                                !.stale = @ \/ (s \notin up /\ stream[c].last > 0)]
         ELSE stream[c]]
    /\ UNCHANGED <<mined, up>>

-----------------------------------------------------------------------------
(* The poll.                                                               *)

Open(c) ==
    /\ stream[c] = Closed
    /\ stream' = [stream EXCEPT ![c].open = TRUE]
    /\ UNCHANGED <<env, lost, rows, txs>>

\* The client goes away.  A poll under way runs to its end all the same.
Close(c) ==
    /\ stream[c].open
    /\ stream' = [stream EXCEPT ![c] =
         IF @.step = "idle" THEN Closed ELSE [@ EXCEPT !.open = FALSE]]
    /\ UNCHANGED <<env, lost, rows, txs>>

\* The poll is over.
Rested(r) == IF r.open THEN [r EXCEPT !.step = "idle", !.got = {}, !.to = 0] ELSE Closed

\* The request is resolved to project s and its height is asked for.  Another
\* project than last time restarts the cursor.
Asks(r, s) ==
    [r EXCEPT !.step = "height", !.key = s,
              !.last = IF r.key = s THEN @ ELSE -1,
              !.missed = IF r.key = s THEN @ ELSE {},
              !.stale = @ /\ r.key = s]

PollBegins(c, s) ==
    /\ stream[c].open
    /\ stream[c].step = "idle"
    /\ stream' = [stream EXCEPT ![c] = Asks(@, s)]
    /\ UNCHANGED <<env, lost, rows, txs>>

\* There is a node to answer.
Reachable(c) == stream[c].key \in up

\* The last block fetched by this tick.
BatchEnd(last, current) == IF current < last + Batch THEN current ELSE last + Batch

AtTipStalled(r, current) ==
    IF r.open /\ r.last = -1
    THEN [Rested(r) EXCEPT !.last = current, !.since = current, !.missed = {}, !.stale = FALSE]
    ELSE Rested(r)

\* The cursor is set to the tip: on the first answer, and when the chain is
\* shorter than the cursor, which the client is told of by a "reset" event.
AtTip(r, current) ==
    IF r.open
    THEN [Rested(r) EXCEPT !.last = current, !.since = current, !.missed = {}, !.stale = FALSE]
    ELSE Closed

\* What a poll makes of the height.
Answered(r, current) ==
    CASE r.last = -1 \/ current < r.last -> AtTip(r, current)
      [] current = r.last                -> Rested(r)
      [] OTHER -> [r EXCEPT !.step = "blocks", !.to = BatchEnd(r.last, current)]

HeightArrives(c) ==
    /\ stream[c].step = "height"
    /\ Reachable(c)
    /\ stream' = [stream EXCEPT ![c] = Answered(@, Len(chain[@.key]))]
    /\ UNCHANGED <<env, lost, rows, txs>>

FetchedLate(r, N) ==
    {<<n, IF n \in N \/ n > Len(chain[r.key]) THEN None ELSE chain[r.key][n]>> :
       n \in (r.last + 2)..r.to}

\* The items of a batch: null for a block the node does not have any more, and for
\* the heights in N, which it answers with an error.
Fetched(r, N) ==
    {<<n, IF n \in N \/ n > Len(chain[r.key]) THEN None ELSE chain[r.key][n]>> :
       n \in (r.last + 1)..r.to}

BlocksArrive(c) ==
    /\ stream[c].step = "blocks"
    /\ Reachable(c)
    /\ \E N \in SUBSET ((stream[c].last + 1)..stream[c].to) :
         stream' = [stream EXCEPT ![c].step = "receipts", ![c].got = Fetched(stream[c], N)]
    /\ UNCHANGED <<env, lost, rows, txs>>

InsertBlocksOnly(s, S) ==
    /\ rows' = [rows EXCEPT ![s] = [n \in Height |->
         IF \E e \in S : e[1] = n THEN (CHOOSE e \in S : e[1] = n)[2] ELSE rows[s][n]]]
    /\ UNCHANGED txs

\* insertBlocksAndTxs for the records in S.
Insert(s, S) ==
    /\ rows' = [rows EXCEPT ![s] = [n \in Height |->
         IF \E e \in S : e[1] = n THEN (CHOOSE e \in S : e[1] = n)[2] ELSE rows[s][n]]]
    /\ txs' = [h \in Hashes |->
         IF \E e \in S : e[2].tx = h
         THEN <<s, (CHOOSE e \in S : e[2].tx = h)[1]>> ELSE txs[h]]

\* The cursor moves past a batch, null items included.
Written(r) ==
    IF r.open
    THEN [Rested(r) EXCEPT !.last = r.to,
            !.missed = r.missed \cup {e[1] : e \in r.got \ Blocks(r.got)}]
    ELSE Closed

ReceiptsArriveAnywhere(c) ==
    /\ stream[c].step = "receipts"
    /\ \E s \in Scope : Insert(s, Blocks(stream[c].got))
    /\ stream' = [stream EXCEPT ![c] = Written(@)]
    /\ UNCHANGED <<env, lost>>

\* The receipts are there, or there is nothing to ask for: the rows of the batch
\* are written, null items are skipped.
ReceiptsArrive(c) ==
    /\ stream[c].step = "receipts"
    /\ Insert(stream[c].key, Blocks(stream[c].got))
    /\ stream' = [stream EXCEPT ![c] = Written(@)]
    /\ UNCHANGED <<env, lost>>

\* A request fails or times out; the next tick tries again.
RequestFails(c) ==
    /\ stream[c].step # "idle"
    /\ stream' = [stream EXCEPT ![c] = Rested(@)]
    /\ UNCHANGED <<env, lost, rows, txs>>

-----------------------------------------------------------------------------
(* What the pages read.                                                    *)

\* blocks and transactions of a project, app/api/explorer/route.ts.
BlockList(s) == {n \in Height : rows[s][n] # None}
TxList(s)    == {h \in Hashes : txs[h] # None /\ txs[h][1] = s}

\* The block of a transaction, app/api/tx/[hash]/route.ts: the index, by hash alone,
\* else the node of s.
TxPage(s, h) ==
    IF txs[h] # None THEN txs[h][2]
    ELSE CHOOSE n \in 1..Len(chain[s]) : chain[s][n].tx = h

-----------------------------------------------------------------------------
Next ==
    \/ \E s \in Scope, t \in Payload \cup {None} : Mine(s, t)
    \/ \E s \in Scope : NodeStarts(s) \/ NodeStops(s) \/ Reset(s)
    \/ \E s \in Scope, n \in 0..MaxHeight : Rewind(s, n)
    \/ \E c \in Stream : Open(c) \/ Close(c)
    \/ \E c \in Stream, s \in Scope : PollBegins(c, s)
    \/ \E c \in Stream : HeightArrives(c) \/ BlocksArrive(c) \/ ReceiptsArrive(c)
    \/ \E c \in Stream : RequestFails(c)

Spec == Init /\ [][Next]_vars

\* The poll timer fires and a request is answered or fails.
Fairness ==
    \A c \in Stream :
        /\ WF_vars(\E s \in Scope : PollBegins(c, s))
        /\ WF_vars(HeightArrives(c) \/ BlocksArrive(c) \/ ReceiptsArrive(c) \/ RequestFails(c))

FairSpec == Spec /\ Fairness

-----------------------------------------------------------------------------
(* Properties.                                                             *)

Promise == INSTANCE BlockIndex WITH NoBlock <- None

\* The streams, polls, rollbacks and resets together do what BlockIndex promises: a
\* batch of rows, written long after its blocks were fetched, holds only blocks
\* that the project's own chain has or has lost, and after a reset only those that
\* some poll carried over it.
KeepsPromise == Promise!IndexSpec

\* A row of the index is what its project's own chain has at that height, or what
\* it lost there, to a rollback since the last reset or while a poll carried it
\* over the reset; and a transaction row names the height of a block like that
\* which holds the transaction.  So a row is never of another project, at another
\* height or from before a reset that no poll was under way in.
IndexExplained ==
    /\ Promise!BlocksExplained
    /\ \A s \in Scope, h \in Hashes :
         txs[h] # None /\ txs[h][1] = s =>
            \E e \in Pairs(s) \cup lost[s] : e[1] = txs[h][2] /\ e[2].tx = h

\* "Wipes indexed data": every row of the index is the block its chain has now.
RowsTrue ==
    \A s \in Scope : \A n \in Height : rows[s][n] # None => <<n, rows[s][n]>> \in Pairs(s)

\* What the pages say agrees, for a project whose chain has lost nothing: the list
\* of transactions has those of the blocks in the list of blocks, each at its
\* height, and no other; and the page of a transaction on the chain, indexed or
\* asked of the node, names its block.
PagesAreTrue ==
    \A s \in Scope : lost[s] = {} =>
        /\ {<<txs[h][2], h>> : h \in TxList(s)}
             = {<<n, rows[s][n].tx>> : n \in {m \in BlockList(s) : rows[s][m].tx # None}}
        /\ \A n \in 1..Len(chain[s]) : chain[s][n].tx # None => TxPage(s, chain[s][n].tx) = n

\* Between the tip at which its cursor was last set and the cursor, a stream has
\* left a row for every height: batches, failures, rollbacks and other streams
\* leave no gap but where the node answered null or an error, or a reset wiped.
CursorCovered ==
    \A c \in Stream :
        LET r == stream[c] IN
        r.key # None => \A n \in ((r.since + 1)..r.last) \ r.missed : rows[r.key][n] # None

\* "`reset` when the node restarts or the chain is wiped": a stream whose chain
\* lost a block that it has passed sends "reset" with the next height it learns.
NoSilentReset ==
    [][\A c \in Stream :
         stream[c].stale /\ stream[c].open /\ HeightArrives(c) => ~stream'[c].stale]_vars

\* A request of c fails in a step that no answer explains.
Unanswered(c) ==
    RequestFails(c) /\ ~(HeightArrives(c) \/ BlocksArrive(c) \/ ReceiptsArrive(c))

\* If a stream stays open on a running node and requests stop failing, it catches
\* up with the tip in the end.
FollowsTip ==
    \A c \in Stream, s \in Scope :
        /\ <>[](stream[c].open /\ s \in up)
        /\ <>[][~Unanswered(c)]_vars
        => <>[](stream[c].last = Len(chain[s]))

=============================================================================
