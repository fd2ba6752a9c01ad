----------------------------- MODULE BlockIndex -----------------------------
(***************************************************************************)
(* What the indexed history of a project promises, whatever polls, streams *)
(* and rollbacks lie behind it.  A row is stored for a block the project's *)
(* own chain has, or has lost.  A rollback leaves rows behind; a wipe      *)
(* leaves nothing but what a poll still carries.                           *)
(***************************************************************************)
EXTENDS Naturals, Sequences

CONSTANTS Scope,       \* the projects, each with its own node
          Block,       \* blocks
          NoBlock,     \* the absence of a row
          MaxHeight    \* bound on the height of a chain

VARIABLES chain,       \* chain[s][n] is the block at height n, without genesis
          lost,        \* lost[s]: the (height, block) pairs the chain has lost
          rows         \* rows[s][n] is the block stored under (s, n)

indexVars == <<chain, lost, rows>>

Height == 1..MaxHeight

EmptyRows == [n \in Height |-> NoBlock]

\* The blocks of the chain of s, each with its height.
Pairs(s) == {<<n, chain[s][n]>> : n \in 1..Len(chain[s])}

IndexInit ==
    /\ chain = [s \in Scope |-> <<>>]
    /\ lost = [s \in Scope |-> {}]
    /\ rows = [s \in Scope |-> EmptyRows]

\* The chain grows without a row for it.
Grow(s, b) ==
    /\ Len(chain[s]) < MaxHeight
    /\ chain' = [chain EXCEPT ![s] = Append(@, b)]
    /\ UNCHANGED <<lost, rows>>

\* The chain is cut to height n, and nothing tells the index.
RollBack(s, n) ==
    /\ chain' = [chain EXCEPT ![s] = SubSeq(@, 1, n)]
    /\ lost' = [lost EXCEPT ![s] = @ \cup {e \in Pairs(s) : e[1] > n}]
    /\ UNCHANGED rows

\* The rows go, and with them the chain unless its node is left running.  Only
\* the blocks in S, which polls carry, may come back.
Wipe(s, S) ==
    /\ chain' \in {chain, [chain EXCEPT ![s] = <<>>]}
    /\ lost' = [lost EXCEPT ![s] = S]
    /\ rows' = [rows EXCEPT ![s] = EmptyRows]

\* Rows are stored for blocks the chain has or has lost.
Store(s, S) ==
    /\ rows' = [rows EXCEPT ![s] = [n \in Height |->
         IF \E e \in S : e[1] = n THEN (CHOOSE e \in S : e[1] = n)[2] ELSE rows[s][n]]]
    /\ UNCHANGED <<chain, lost>>

IndexNext ==
    \E s \in Scope :
        \/ \E b \in Block : Grow(s, b)
        \/ \E n \in 0..Len(chain[s]) : RollBack(s, n)
        \/ \E S \in SUBSET (Pairs(s) \cup lost[s]) : Wipe(s, S) \/ Store(s, S)

IndexSpec == IndexInit /\ [][IndexNext]_indexVars

\* Every row of the index is the block its project's own chain has at that height,
\* or one it had there and lost: to a rollback since the last wipe, or to a wipe
\* that a poll carried it across.
BlocksExplained ==
    \A s \in Scope : \A n \in Height :
        rows[s][n] # NoBlock => <<n, rows[s][n]>> \in Pairs(s) \cup lost[s]

=============================================================================
