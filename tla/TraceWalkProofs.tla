--------------------------- MODULE TraceWalkProofs ---------------------------
(***************************************************************************)
(* Proofs about TraceWalk and TraceViews, for any contracts, slots and     *)
(* values, any gas and any call depth.  What the rows, the diff and the    *)
(* page show is proved as long as programs use no CREATE and no CALLCODE;  *)
(* types, gas and the list of internal transactions of all programs.       *)
(***************************************************************************)
EXTENDS TraceViews, SequenceTheorems, WellFoundedInduction, TLAPS

\* A frame as far as the walk is concerned; the bound of its gas is left out.
TracedFrame == [owner : Contract, gas : Int, entry : Storage]

Framed == frames \in Seq(TracedFrame) /\ Len(frames) >= 1

\* The walk's stack follows the EVM's frames: what is on it beyond the depth was
\* left, and is popped before it is looked at.
Follows ==
  /\ Framed
  /\ contextStack \in Seq(Contract) /\ Len(contextStack) >= Len(frames)
  /\ \A i \in 1..Len(frames) : contextStack[i] = frames[i].owner

Clean == met \cap {"reverted", "blind"} = {}

\* What the walk remembers of slots is what they hold, and the rows of the diff
\* span from the first value to the present one.
Remembers ==
  /\ \A c \in Contract, s \in Slot : storageSeen[<<c, s>>] \in {None, storage[c][s]}
  /\ \A c \in Contract, s \in Slot :
       IF rows[<<c, s>>] = None THEN storage[c][s] = first[c][s]
       ELSE rows[<<c, s>>] = [before |-> first[c][s], after |-> storage[c][s]]

Tables ==
  /\ storage \in Storage /\ first \in Storage
  /\ storageSeen \in [Contract \X Slot -> Value \cup {None}]
  /\ rows \in [Contract \X Slot -> DiffRow \cup {None}]

Inv ==
  /\ Follows /\ Tables
  /\ ContextIsTrue
  /\ Clean => Remembers /\ entry.previous = entry.held

(***************************************************************************)
(* The stack.                                                              *)
(***************************************************************************)

\* Popping leaves one context per frame, and the top one is the running frame's.
LEMMA PoppedFollows ==
  ASSUME Follows
  PROVE  /\ Popped \in Seq(Contract) /\ Len(Popped) = Depth
         /\ \A i \in 1..Depth : Popped[i] = frames[i].owner
         /\ Context = Top.owner /\ Context \in Contract
<1>1. Popped \in Seq(Contract) /\ Len(Popped) = Depth
        /\ \A i \in 1..Depth : Popped[i] = contextStack[i]
  BY SubSeqProperties DEF Popped, Depth, Follows, Framed
<1>. QED BY <1>1 DEF Context, Top, Depth, Follows, Framed

\* A frame replaced in place.
LEMMA Replaced ==
  ASSUME NEW q \in Seq(TracedFrame), NEW i \in 1..Len(q), NEW f \in TracedFrame, f.owner = q[i].owner
  PROVE  /\ [q EXCEPT ![i] = f] \in Seq(TracedFrame)
         /\ Len([q EXCEPT ![i] = f]) = Len(q)
         /\ \A j \in 1..Len(q) : [q EXCEPT ![i] = f][j].owner = q[j].owner
         /\ [q EXCEPT ![i] = f][i] = f /\ \A j \in (1..Len(q)) \ {i} : [q EXCEPT ![i] = f][j] = q[j]
OBVIOUS

\* The frame that runs.
LEMMA TopTyped ==
  ASSUME Framed
  PROVE  /\ Top \in TracedFrame /\ Top.gas \in Int /\ Top.entry \in Storage /\ Top.owner \in Contract
         /\ Depth \in Nat /\ Depth >= 1 /\ Depth = Len(frames) /\ frames[Depth] = Top
<1>1. Top \in TracedFrame
  BY DEF Top, Depth, Framed
<1>2. Depth \in Nat /\ Depth >= 1 /\ Depth = Len(frames) /\ frames[Depth] = Top
  BY DEF Top, Depth, Framed
<1>. QED BY <1>1, <1>2 DEF TracedFrame

\* Paying for an operation leaves the frames in place.
LEMMA SpentMakes ==
  ASSUME Framed, NEW cost \in Int
  PROVE  /\ Spent(cost) \in Seq(TracedFrame) /\ Len(Spent(cost)) = Depth
         /\ \A i \in 1..Depth : Spent(cost)[i].owner = frames[i].owner
         /\ Spent(cost)[Depth].gas = Top.gas - cost
         /\ \A i \in 1..(Depth - 1) : Spent(cost)[i] = frames[i]
<1>. DEFINE f == [Top EXCEPT !.gas = @ - cost]
<1>1. f \in TracedFrame /\ f.owner = Top.owner /\ f.gas = Top.gas - cost
  BY TopTyped DEF TracedFrame
<1>2. Spent(cost) = [frames EXCEPT ![Depth] = f]
  BY DEF Spent, Top
<1>3. Depth \in 1..Len(frames) /\ frames[Depth] = Top /\ Depth = Len(frames) /\ frames \in Seq(TracedFrame)
  BY TopTyped DEF Framed
<1>. HIDE DEF f
<1>4. /\ Spent(cost) \in Seq(TracedFrame) /\ Len(Spent(cost)) = Depth
      /\ \A i \in 1..Depth : Spent(cost)[i].owner = frames[i].owner
      /\ Spent(cost)[Depth] = f /\ \A j \in (1..Depth) \ {Depth} : Spent(cost)[j] = frames[j]
  BY <1>1, <1>2, <1>3, Replaced
<1>. QED BY <1>1, <1>3, <1>4

\* A frame that ends leaves its callers in place, and hands gas to the last.
LEMMA LeaveMakes ==
  ASSUME Framed, NEW left \in Int, NEW end, Leave(left, end)
  PROVE  /\ frames' \in Seq(TracedFrame) /\ Len(frames') \in 1..Depth
         /\ \A i \in 1..Len(frames') : frames'[i].owner = frames[i].owner
         /\ \/ /\ Depth > 1 /\ Len(frames') = Depth - 1 /\ outcome' = outcome
               /\ frames'[Depth - 1].gas = frames[Depth - 1].gas + left
               /\ \A i \in 1..(Depth - 2) : frames'[i] = frames[i]
            \/ Depth = 1 /\ Len(frames') = 1 /\ outcome' = end /\ frames'[1].gas = left
<1>. DEFINE caller == [frames[Depth - 1] EXCEPT !.gas = @ + left]
            root == [frames[1] EXCEPT !.gas = left]
<1>0. frames \in Seq(TracedFrame) /\ Depth \in Nat /\ Depth >= 1 /\ Len(frames) = Depth
  BY TopTyped DEF Framed
<1>1. CASE Depth > 1
  <2>1. frames[Depth - 1] \in TracedFrame
    BY <1>0, <1>1
  <2>2. /\ caller \in TracedFrame /\ caller.owner = frames[Depth - 1].owner
        /\ caller.gas = frames[Depth - 1].gas + left
    BY <2>1 DEF TracedFrame
  <2>3. /\ Front(frames) \in Seq(TracedFrame) /\ Len(Front(frames)) = Depth - 1
        /\ \A i \in 1..(Depth - 1) : Front(frames)[i] = frames[i]
    BY <1>0, <1>1, SubSeqProperties DEF Front
  <2>4. Depth - 1 \in 1..(Depth - 1)
    BY <1>0, <1>1
  <2>5. frames' = [Front(frames) EXCEPT ![Depth - 1] = caller] /\ outcome' = outcome
    BY <1>1, <2>3, <2>4 DEF Leave
  <2>. HIDE DEF caller
  <2>6. /\ frames' \in Seq(TracedFrame) /\ Len(frames') = Depth - 1
        /\ \A i \in 1..(Depth - 1) : frames'[i].owner = frames[i].owner
        /\ frames'[Depth - 1] = caller
        /\ \A i \in (1..(Depth - 1)) \ {Depth - 1} : frames'[i] = frames[i]
    BY <2>2, <2>3, <2>4, <2>5, Replaced
  <2>. QED BY <1>0, <1>1, <2>2, <2>5, <2>6
<1>2. CASE ~(Depth > 1)
  <2>1. frames[1] \in TracedFrame /\ 1 \in 1..Len(frames) /\ Depth = 1
    BY <1>0, <1>2
  <2>2. root \in TracedFrame /\ root.owner = frames[1].owner /\ root.gas = left
    BY <2>1 DEF TracedFrame
  <2>3. frames' = [frames EXCEPT ![1] = root] /\ outcome' = end
    BY <1>2 DEF Leave
  <2>. HIDE DEF root
  <2>4. frames' \in Seq(TracedFrame) /\ Len(frames') = 1 /\ frames'[1] = root
    <3>1. PICK i \in 1..Len(frames) : i = 1
      BY <2>1
    <3>2. frames' = [frames EXCEPT ![i] = root] /\ root.owner = frames[i].owner
      BY <2>2, <2>3, <3>1
    <3>3. frames' \in Seq(TracedFrame) /\ Len(frames') = Len(frames) /\ frames'[i] = root
      BY <1>0, <2>2, <3>2, Replaced
    <3>. QED BY <1>0, <2>1, <3>1, <3>3
  <2>5. \A i \in 1..1 : frames'[i].owner = frames[i].owner
    BY <2>2, <2>4
  <2>. QED BY <2>1, <2>2, <2>3, <2>4, <2>5
<1>. QED BY <1>1, <1>2

\* A walk that only pops keeps following when no frame is entered.
LEMMA PopKeepsFollowing ==
  ASSUME Follows, contextStack' = Popped,
         frames' \in Seq(TracedFrame), Len(frames') \in 1..Depth,
         \A i \in 1..Len(frames') : frames'[i].owner = frames[i].owner
  PROVE  Follows'
<1>1. /\ contextStack' \in Seq(Contract) /\ Len(contextStack') = Depth
      /\ \A i \in 1..Depth : contextStack'[i] = frames[i].owner
  BY PoppedFollows
<1>2. Depth \in Nat /\ Len(frames') \in Nat /\ Len(frames') >= 1 /\ Len(frames') <= Depth
  BY DEF Follows, Framed, Depth
<1>3. \A i \in 1..Len(frames') : contextStack'[i] = frames'[i].owner
  BY <1>1, <1>2
<1>. QED BY <1>1, <1>2, <1>3 DEF Follows, Framed, Depth

\* An operation that pays and neither enters nor ends a frame.
LEMMA SpentKeepsFollowing ==
  ASSUME Follows, NEW cost \in Int, frames' = Spent(cost), contextStack' = Popped
  PROVE  Follows'
<1>1. Depth \in 1..Depth
  BY DEF Follows, Framed, Depth
<1>2. /\ frames' \in Seq(TracedFrame) /\ Len(frames') = Depth
      /\ \A i \in 1..Depth : frames'[i].owner = frames[i].owner
  BY SpentMakes DEF Follows
<1>3. Len(frames') \in 1..Depth /\ \A i \in 1..Len(frames') : frames'[i].owner = frames[i].owner
  BY <1>1, <1>2
<1>. QED BY <1>2, <1>3, PopKeepsFollowing

(***************************************************************************)
(* Every operation keeps the invariant.                                    *)
(***************************************************************************)

\* Operations that neither write storage nor enter a frame.
LEMMA ComputeKeeps == ASSUME Inv, Compute PROVE Inv'
<1>1. Follows'
  BY SpentKeepsFollowing DEF Inv, Compute
<1>. QED BY <1>1, PoppedFollows DEF Inv, Compute, Row, ContextIsTrue, Tables, Clean, Remembers

\* A frame that ends well pops on the walk's next entry, not yet on this one.
LEMMA ReturnKeeps == ASSUME Inv, Return PROVE Inv'
<1>1. Top.gas \in Int
  BY TopTyped DEF Inv, Follows
<1>2. Follows'
  BY <1>1, LeaveMakes, PopKeepsFollowing DEF Inv, Return, Follows
<1>. QED BY <1>2, PoppedFollows DEF Inv, Return, Row, ContextIsTrue, Tables, Clean, Remembers

\* A call to an account without code pushes a context that no frame has; the next
\* entry's depth pops it.
LEMMA CallPlainKeeps ==
  ASSUME Inv, NEW to \in Contract, NEW g \in 1..Gas, CallPlain(to, g)
  PROVE  Inv'
<1>1. /\ frames' \in Seq(TracedFrame) /\ Len(frames') = Depth
      /\ \A i \in 1..Depth : frames'[i].owner = frames[i].owner
  BY SpentMakes DEF Inv, CallPlain, Follows
<1>2. contextStack' = Append(Popped, to)
  BY DEF CallPlain, Pushed
<1>3. Follows'
  BY <1>1, <1>2, PoppedFollows DEF Inv, Follows, Framed, Depth
<1>. QED BY <1>3, PoppedFollows DEF Inv, CallPlain, Row, ContextIsTrue, Tables, Clean, Remembers

\* Whatever a row of a write says the slot held is a value.
LEMMA PreviousTyped ==
  ASSUME Tables, Context \in Contract, Top.owner \in Contract, NEW s \in Slot, NEW v \in Value
  PROVE  Previous(s, v) \subseteq Value
BY TraceAssumption DEF Previous, Tables, Storage

\* Reads and writes keep the tables in shape, whatever contract a row goes to.
LEMMA LoadTables ==
  ASSUME Tables, Context \in Contract, Top.owner \in Contract, NEW s \in Slot, Load(s)
  PROVE  Tables'
BY DEF Tables, Load, Storage

LEMMA StoreTables ==
  ASSUME Tables, Context \in Contract, Top.owner \in Contract, NEW s \in Slot, NEW v \in Value, Store(s, v)
  PROVE  Tables'
<1>1. PICK p \in Previous(s, v) : rows' = Collapsed(s, p, v)
  BY DEF Store
<1>2. p \in Value
  BY PreviousTyped
<1>3. storage' \in Storage /\ first' \in Storage
  BY DEF Tables, Store, Storage
<1>4. storageSeen' \in [Contract \X Slot -> Value \cup {None}]
  BY DEF Tables, Store
<1>5. (IF rows[<<Context, s>>] = None THEN p ELSE rows[<<Context, s>>].before) \in Value
  BY <1>2 DEF Tables, DiffRow
<1>6. rows' \in [Contract \X Slot -> DiffRow \cup {None}]
  BY <1>1, <1>5 DEF Tables, Collapsed, DiffRow
<1>. QED BY <1>3, <1>4, <1>6 DEF Tables

\* A read remembers what the slot holds.
LEMMA LoadKeeps ==
  ASSUME Inv, NEW s \in Slot, Load(s)
  PROVE  Inv'
<1>1. Follows'
  <2>1. frames' = Spent(1) /\ contextStack' = Popped
    BY DEF Load
  <2>. QED BY <2>1, SpentKeepsFollowing DEF Inv
<1>2. Context = Top.owner /\ Context \in Contract
  BY PoppedFollows DEF Inv
<1>3. ContextIsTrue' /\ entry'.previous = entry'.held
  BY <1>2 DEF Load, Row, ContextIsTrue
<1>4. Tables'
  BY <1>2, LoadTables DEF Inv
<1>5. Clean' => Remembers'
  BY <1>2 DEF Inv, Clean, Remembers, Load, Tables
<1>. QED BY <1>1, <1>3, <1>4, <1>5 DEF Inv

\* A write to a slot that was seen shows what it held, and moves its row along.
LEMMA StoreKeeps ==
  ASSUME Inv, NEW s \in Slot, NEW v \in Value, Store(s, v)
  PROVE  Inv'
<1>1. Follows'
  <2>1. frames' = Spent(1) /\ contextStack' = Popped
    BY DEF Store
  <2>. QED BY <2>1, SpentKeepsFollowing DEF Inv
<1>2. Context = Top.owner /\ Context \in Contract
  BY PoppedFollows DEF Inv
<1>3. PICK p \in Previous(s, v) :
        /\ entry' = Row(p, storage[Top.owner][s])
        /\ rows' = Collapsed(s, p, v)
  BY DEF Store
<1>4. p \in Value
  BY <1>2, PreviousTyped DEF Inv
<1>5. ContextIsTrue'
  BY <1>2, <1>3 DEF Row, ContextIsTrue
<1>6. Tables'
  BY <1>2, StoreTables DEF Inv
<1>7. ASSUME Clean'
      PROVE  Remembers' /\ entry'.previous = entry'.held
  <2>1. Clean /\ storageSeen[<<Context, s>>] # None
    BY <1>7 DEF Clean, Store
  <2>2. p = storage[Context][s]
    BY <1>2, <2>1, <1>3 DEF Previous, Inv, Remembers
  <2>3. \A c \in Contract, t \in Slot :
          storage'[c][t] = IF c = Context /\ t = s THEN v ELSE storage[c][t]
    BY <1>2 DEF Store, Inv, Tables, Storage
  <2>4. \A c \in Contract, t \in Slot :
          storageSeen'[<<c, t>>] = IF c = Context /\ t = s THEN v ELSE storageSeen[<<c, t>>]
    BY <1>2 DEF Store, Inv, Tables
  <2>5. \A c \in Contract, t \in Slot :
          rows'[<<c, t>>] = IF c = Context /\ t = s
                            THEN [before |-> first[c][t], after |-> v]
                            ELSE rows[<<c, t>>]
    <3>0. IF rows[<<Context, s>>] = None THEN storage[Context][s] = first[Context][s]
          ELSE rows[<<Context, s>>] = [before |-> first[Context][s], after |-> storage[Context][s]]
      BY <1>2, <2>1 DEF Inv, Remembers
    <3>1. (IF rows[<<Context, s>>] = None THEN p ELSE rows[<<Context, s>>].before)
            = first[Context][s]
      BY <2>2, <3>0
    <3>. QED BY <1>2, <1>3, <3>1 DEF Collapsed, Inv, Tables
  <2>6. first' = first /\ Remembers
    BY <2>1 DEF Store, Inv
  <2>7. \A c \in Contract, t \in Slot : [before |-> first[c][t], after |-> v] # None
    BY TraceAssumption DEF Inv, Tables, Storage
  <2>8. \A c \in Contract, t \in Slot : storageSeen'[<<c, t>>] \in {None, storage'[c][t]}
    <3>1. SUFFICES ASSUME NEW c \in Contract, NEW t \in Slot
                   PROVE  storageSeen'[<<c, t>>] \in {None, storage'[c][t]}
      OBVIOUS
    <3>2. storageSeen[<<c, t>>] \in {None, storage[c][t]}
      BY <2>6 DEF Remembers
    <3>3. CASE c = Context /\ t = s
      BY <2>3, <2>4, <3>3
    <3>4. CASE ~(c = Context /\ t = s)
      BY <2>3, <2>4, <3>2, <3>4
    <3>. QED BY <3>3, <3>4
  <2>9. \A c \in Contract, t \in Slot :
          IF rows'[<<c, t>>] = None THEN storage'[c][t] = first[c][t]
          ELSE rows'[<<c, t>>] = [before |-> first[c][t], after |-> storage'[c][t]]
    <3>1. SUFFICES ASSUME NEW c \in Contract, NEW t \in Slot
                   PROVE  IF rows'[<<c, t>>] = None THEN storage'[c][t] = first[c][t]
                          ELSE rows'[<<c, t>>] = [before |-> first[c][t], after |-> storage'[c][t]]
      OBVIOUS
    <3>2. IF rows[<<c, t>>] = None THEN storage[c][t] = first[c][t]
          ELSE rows[<<c, t>>] = [before |-> first[c][t], after |-> storage[c][t]]
      BY <2>6 DEF Remembers
    <3>3. CASE c = Context /\ t = s
      BY <2>3, <2>5, <2>7, <3>3
    <3>4. CASE ~(c = Context /\ t = s)
      BY <2>3, <2>5, <3>2, <3>4
    <3>. QED BY <3>3, <3>4
  <2>10. entry'.previous = entry'.held
    BY <1>2, <1>3, <2>2 DEF Row
  <2>. QED BY <2>6, <2>8, <2>9, <2>10 DEF Remembers
<1>. QED BY <1>1, <1>5, <1>6, <1>7 DEF Inv

\* A call enters a frame whose context the walk pushes.
LEMMA CallKeeps ==
  ASSUME Inv, ~Untracked, NEW op \in Kind, NEW to \in Contract, NEW g \in 1..Gas, Call(op, to, g)
  PROVE  Inv'
<1>. DEFINE callee == [owner |-> IF op \in {"CALL", "CREATE"} THEN to ELSE Top.owner,
                       gas |-> g, entry |-> storage]
<1>1. op \in {"CALL", "DELEGATECALL"}
  BY DEF Kind
<1>2. /\ Popped \in Seq(Contract) /\ Len(Popped) = Depth
      /\ \A i \in 1..Depth : Popped[i] = frames[i].owner
      /\ Context = Top.owner /\ Context \in Contract
  BY PoppedFollows DEF Inv
<1>3. callee \in TracedFrame
  BY <1>2 DEF TracedFrame, Inv, Tables
<1>4. contextStack' = Append(Popped, callee.owner)
  BY <1>1, <1>2 DEF Call, Pushed
<1>5. /\ Spent(1 + g) \in Seq(TracedFrame) /\ Len(Spent(1 + g)) = Depth
      /\ \A i \in 1..Depth : Spent(1 + g)[i].owner = frames[i].owner
  BY SpentMakes DEF Inv, Follows
<1>6. frames' = Append(Spent(1 + g), callee)
  BY DEF Call
<1>7. Follows'
  <2>1. callee.owner \in Contract
    BY <1>3 DEF TracedFrame
  <2>. QED BY <1>2, <1>3, <1>4, <1>5, <1>6, <2>1 DEF Follows, Framed, Inv, Depth
<1>. QED BY <1>7, <1>2 DEF Inv, Call, Row, ContextIsTrue, Tables, Clean, Remembers

\* A frame that is rolled back restores storage, of which the walk knows nothing.
LEMMA RollbackKeeps ==
  ASSUME Inv, Revert \/ \E end \in Outcome : Halt(end)
  PROVE  Inv'
<1>1. Top.gas \in Int /\ Top.entry \in Storage
  BY TopTyped DEF Inv, Follows
<1>2. \E left \in Int, end \in Outcome : Leave(left, end)
  BY <1>1 DEF Revert, Halt, Outcome
<1>3. Follows'
  BY <1>2, LeaveMakes, PopKeepsFollowing DEF Inv, Revert, Halt, Follows
<1>4. Tables'
  BY <1>1 DEF Inv, Tables, Revert, Halt
<1>5. ~Clean'
  BY DEF Clean, Revert, Halt
<1>6. ContextIsTrue'
  BY PoppedFollows DEF Inv, Revert, Halt, Row, ContextIsTrue
<1>. QED BY <1>3, <1>4, <1>5, <1>6 DEF Inv

-----------------------------------------------------------------------------
\* A transaction begins with one frame and its contract on the walk's stack.
LEMMA InvInit == Init => Inv
<1>1. ASSUME Init PROVE Follows
  <2>1. PICK root \in Contract :
          /\ frames = <<[owner |-> root, gas |-> Gas, entry |-> storage]>>
          /\ contextStack = <<root>>
    BY <1>1 DEF Init
  <2>2. [owner |-> root, gas |-> Gas, entry |-> storage] \in TracedFrame
    BY <1>1, TraceAssumption DEF Init, TracedFrame
  <2>. QED BY <2>1, <2>2 DEF Follows, Framed
<1>. QED BY <1>1 DEF Init, Inv, Tables, ContextIsTrue, Remembers, Clean

\* Without CREATE and CALLCODE every operation keeps the invariant.
LEMMA InvNext ==
  ASSUME ~Untracked, Inv, [Next]_vars
  PROVE  Inv'
<1>1. CASE Compute  BY <1>1, ComputeKeeps
<1>2. CASE Return   BY <1>2, ReturnKeeps
<1>3. CASE Revert   BY <1>3, RollbackKeeps
<1>4. CASE Halt("invalid") \/ Halt("out-of-gas")
  BY <1>4, RollbackKeeps DEF Outcome
<1>5. ASSUME NEW s \in Slot, Load(s) PROVE Inv'
  BY <1>5, LoadKeeps
<1>6. ASSUME NEW s \in Slot, NEW v \in Value, Store(s, v) PROVE Inv'
  BY <1>6, StoreKeeps
<1>7. ASSUME NEW to \in Contract, NEW g \in 1..Gas, CallPlain(to, g) PROVE Inv'
  BY <1>7, CallPlainKeeps
<1>8. ASSUME NEW to \in Contract, NEW g \in 1..Gas, NEW op \in Kind, Call(op, to, g) PROVE Inv'
  BY <1>8, CallKeeps
<1>9. CASE UNCHANGED vars
  BY <1>9 DEF vars, evm, walk, Inv, Follows, Framed, Tables, ContextIsTrue, Clean, Remembers
<1>. QED BY <1>1, <1>2, <1>3, <1>4, <1>5, <1>6, <1>7, <1>8, <1>9 DEF Next

\* Rows of the diff that follow the slots say what changed.
LEMMA InvNetDiff == Inv => NetDiffIsTrue
<1>1. SUFFICES ASSUME Inv, Clean, NEW c \in Contract, NEW s \in Slot
               PROVE  LET row == rows[<<c, s>>]
                          shown == row # None /\ row.before # row.after
                      IN  /\ shown <=> first[c][s] # storage[c][s]
                          /\ shown => row = [before |-> first[c][s], after |-> storage[c][s]]
  BY DEF Clean, NetDiffIsTrue
<1>2. IF rows[<<c, s>>] = None THEN storage[c][s] = first[c][s]
      ELSE rows[<<c, s>>] = [before |-> first[c][s], after |-> storage[c][s]]
  BY <1>1 DEF Inv, Remembers
<1>. QED BY <1>2

\* Without CREATE and CALLCODE every row of the trace log names the contract whose
\* storage the step ran on.
THEOREM ContextsAreTrue == ASSUME ~Untracked PROVE Spec => []ContextIsTrue
<1>1. Inv /\ [Next]_vars => Inv'
  BY InvNext
<1>2. Inv => ContextIsTrue
  BY DEF Inv
<1>. QED BY InvInit, <1>1, <1>2, PTL DEF Spec

\* Until a frame is rolled back or a slot written unseen, a write's row shows what
\* the slot held before the write.
THEOREM PreviousValuesAreTrue == ASSUME ~Untracked PROVE Spec => []PreviousIsTrue
<1>1. Inv /\ [Next]_vars => Inv'
  BY InvNext
<1>2. Inv => PreviousIsTrue
  BY DEF Inv, PreviousIsTrue, Clean
<1>. QED BY InvInit, <1>1, <1>2, PTL DEF Spec

\* Until then too, the storage diff is what the transaction has changed so far.
THEOREM NetDiffsAreTrue == ASSUME ~Untracked PROVE Spec => []NetDiffIsTrue
<1>1. Inv /\ [Next]_vars => Inv'
  BY InvNext
<1>. QED BY InvInit, <1>1, InvNetDiff, PTL DEF Spec

(***************************************************************************)
(* The gas of the frames, summed.                                          *)
(***************************************************************************)

\* A set of numbers has a least one.
LEMMA LeastNatural ==
  ASSUME NEW S \in SUBSET Nat, S # {}
  PROVE  \E x \in S : \A y \in S : x <= y
<1>1. PICK x \in S : \A y \in S : ~ (<<y, x>> \in OpToRel(<, Nat))
  BY NatLessThanWellFounded, WFMin, Zenon
<1>2. \A y \in S : ~ (y < x)
  BY <1>1 DEF OpToRel
<1>. QED BY <1>2

\* The gas of the frames of q, summed as GasAdds does.
GasOf(q) == FoldLeft(LAMBDA sum, f : sum + f.gas, 0, q)

\* t[i] is the gas of the first i frames of q.
Totals(t, q, n) ==
  /\ t \in [0..n -> Int]
  /\ t[0] = 0 /\ \A i \in 1..n : t[i] = t[i - 1] + q[i].gas

\* The totals of any frames exist: no shortest prefix lacks them.
LEMMA TotalsExist ==
  ASSUME NEW n \in Nat, NEW q, \A i \in 1..n : q[i].gas \in Int
  PROVE  \E t : Totals(t, q, n)
<1>. DEFINE S == {k \in 0..n : ~ \E t : Totals(t, q, k)}
<1>1. SUFFICES ASSUME S # {} PROVE FALSE
  OBVIOUS
<1>2. PICK k \in S : \A j \in S : k <= j
  <2>1. S \in SUBSET Nat
    OBVIOUS
  <2>. HIDE DEF S
  <2>. QED BY <1>1, <2>1, LeastNatural
<1>3. k \in 0..n /\ ~ \E t : Totals(t, q, k)
  OBVIOUS
<1>4. CASE k = 0
  <2>1. Totals([i \in 0..0 |-> 0], q, 0)
    BY DEF Totals
  <2>. QED BY <1>3, <1>4, <2>1
<1>5. CASE k # 0
  <2>1. k - 1 \in 0..n /\ k - 1 \notin S
    BY <1>2, <1>3, <1>5
  <2>2. PICK t : Totals(t, q, k - 1)
    BY <2>1
  <2>. DEFINE u == [i \in 0..k |-> IF i = k THEN t[k - 1] + q[k].gas ELSE t[i]]
  <2>3. Totals(u, q, k)
    <3>1. t \in [0..(k - 1) -> Int] /\ t[0] = 0 /\ \A i \in 1..(k - 1) : t[i] = t[i - 1] + q[i].gas
      BY <2>2 DEF Totals
    <3>2. k \in 1..n /\ q[k].gas \in Int /\ t[k - 1] \in Int
      BY <1>3, <1>5, <3>1
    <3>3. u \in [0..k -> Int]
      BY <3>1, <3>2
    <3>4. u[0] = 0
      BY <3>1, <3>2
    <3>5. \A i \in 1..k : u[i] = u[i - 1] + q[i].gas
      BY <3>1, <3>2
    <3>. QED BY <3>3, <3>4, <3>5 DEF Totals
  <2>. QED BY <1>3, <2>3
<1>. QED BY <1>4, <1>5

\* A fold's table: what it makes of a set of positions it makes of the set without the last.
Folds(it, q, n) ==
  it = [s \in SUBSET (1..n) |-> IF s = {} THEN 0
                                ELSE LET x == Max(s) IN it[s \ {x}] + q[x].gas]

\* The greatest of numbers up to n, n among them.
LEMMA LastOf ==
  ASSUME NEW n \in Nat, NEW s \in SUBSET (1..n), n \in s
  PROVE  Max(s) = n
<1>1. \A y \in s : n >= y
  OBVIOUS
<1>2. \A x \in s : (\A y \in s : x >= y) => x = n
  OBVIOUS
<1>. QED BY <1>1, <1>2 DEF Max

\* The steps of a fold over n elements exist, by the same argument.
LEMMA FoldExists ==
  ASSUME NEW n \in Nat, NEW q
  PROVE  \E it : Folds(it, q, n)
<1>. DEFINE S == {k \in 0..n : ~ \E it : Folds(it, q, k)}
<1>1. SUFFICES ASSUME S # {} PROVE FALSE
  OBVIOUS
<1>2. PICK k \in S : \A j \in S : k <= j
  <2>1. S \in SUBSET Nat
    OBVIOUS
  <2>. HIDE DEF S
  <2>. QED BY <1>1, <2>1, LeastNatural
<1>3. k \in 0..n /\ ~ \E it : Folds(it, q, k)
  OBVIOUS
<1>4. CASE k = 0
  <2>. DEFINE it == [s \in SUBSET (1..0) |-> 0]
  <2>1. \A s \in SUBSET (1..0) : s = {}
    OBVIOUS
  <2>2. Folds(it, q, 0)
    BY <2>1 DEF Folds
  <2>. QED BY <1>3, <1>4, <2>2
<1>5. CASE k # 0
  <2>1. k - 1 \in 0..n /\ k - 1 \notin S
    BY <1>2, <1>3, <1>5
  <2>2. PICK it : Folds(it, q, k - 1)
    BY <2>1
  <2>. DEFINE new == [s \in SUBSET (1..k) |-> IF k \in s THEN it[s \ {k}] + q[k].gas ELSE it[s]]
              fold(s) == IF s = {} THEN 0 ELSE LET x == Max(s) IN new[s \ {x}] + q[x].gas
  <2>3. \A s \in SUBSET (1..(k - 1)) : s \in SUBSET (1..k) /\ k \notin s /\ new[s] = it[s]
    BY <1>3
  <2>4. ASSUME NEW s \in SUBSET (1..k) PROVE new[s] = fold(s)
    <3>1. CASE k \in s
      <4>1. Max(s) = k
        BY <1>3, <3>1, LastOf
      <4>2. s \ {k} \in SUBSET (1..(k - 1))
        BY <1>3
      <4>3. new[s \ {k}] = it[s \ {k}] /\ new[s] = it[s \ {k}] + q[k].gas
        BY <2>3, <3>1, <4>2
      <4>. HIDE DEF new
      <4>. QED BY <3>1, <4>1, <4>3
    <3>2. CASE k \notin s
      <4>1. s \in SUBSET (1..(k - 1))
        BY <1>3, <3>2
      <4>2. new[s] = it[s] /\ \A x : s \ {x} \in SUBSET (1..(k - 1)) /\ new[s \ {x}] = it[s \ {x}]
        BY <2>3, <4>1
      <4>3. it[s] = IF s = {} THEN 0 ELSE it[s \ {Max(s)}] + q[Max(s)].gas
        BY <2>2, <4>1 DEF Folds
      <4>. HIDE DEF new
      <4>. QED BY <4>2, <4>3
    <3>. QED BY <3>1, <3>2
  <2>5. new = [s \in SUBSET (1..k) |-> fold(s)]
    <3>1. \A s \in SUBSET (1..k) : new[s] = fold(s)
      BY <2>4
    <3>2. DOMAIN new = SUBSET (1..k) /\ new = [s \in DOMAIN new |-> new[s]]
      OBVIOUS
    <3>. HIDE DEF new, fold
    <3>. QED BY <3>1, <3>2
  <2>6. Folds(new, q, k)
    <3>. HIDE DEF new
    <3>. QED BY <2>5 DEF Folds
  <2>. QED BY <1>3, <2>6
<1>. QED BY <1>4, <1>5

\* The fold is the last total.
LEMMA GasIsTotal ==
  ASSUME NEW n \in Nat, NEW q, DOMAIN q = 1..n, NEW t, Totals(t, q, n)
  PROVE  GasOf(q) = t[n]
<1>. DEFINE it == CHOOSE it : Folds(it, q, n)
<1>1. GasOf(q) = it[1..n]
  BY DEF GasOf, FoldLeft, MapThenFoldSet, Folds
<1>2. Folds(it, q, n)
  BY FoldExists
<1>. HIDE DEF it
<1>. DEFINE S == {k \in 0..n : it[1..k] # t[k]}
<1>3. SUFFICES ASSUME S # {} PROVE FALSE
  BY <1>1
<1>4. PICK k \in S : \A j \in S : k <= j
  <2>1. S \in SUBSET Nat
    OBVIOUS
  <2>. HIDE DEF S
  <2>. QED BY <1>3, <2>1, LeastNatural
<1>5. k \in 0..n /\ it[1..k] # t[k] /\ 1..k \in SUBSET (1..n)
  OBVIOUS
<1>6. it[1..k] = IF 1..k = {} THEN 0 ELSE it[(1..k) \ {Max(1..k)}] + q[Max(1..k)].gas
  BY <1>2, <1>5 DEF Folds
<1>7. CASE k = 0
  <2>1. 1..k = {} /\ t[0] = 0
    BY <1>7 DEF Totals
  <2>. QED BY <1>5, <1>6, <1>7, <2>1
<1>8. CASE k # 0
  <2>1. k \in 1..k /\ 1..k # {} /\ k \in Nat
    BY <1>5, <1>8
  <2>2. Max(1..k) = k
    BY <2>1, LastOf
  <2>3. (1..k) \ {k} = 1..(k - 1)
    BY <2>1
  <2>4. k - 1 \in 0..n /\ k - 1 \notin S
    BY <1>4, <1>5, <1>8
  <2>5. it[1..(k - 1)] = t[k - 1]
    BY <2>4
  <2>6. it[1..k] = t[k - 1] + q[k].gas
    BY <1>6, <2>1, <2>2, <2>3, <2>5
  <2>7. t[k] = t[k - 1] + q[k].gas
    BY <1>5, <1>8 DEF Totals
  <2>. QED BY <1>5, <2>6, <2>7
<1>. QED BY <1>7, <1>8


\* One frame more adds its gas.
LEMMA GasExtends ==
  ASSUME NEW n \in Nat, NEW p, DOMAIN p = 1..n, NEW q, DOMAIN q = 1..(n + 1),
         \A i \in 1..(n + 1) : q[i].gas \in Int, \A i \in 1..n : p[i].gas = q[i].gas
  PROVE  GasOf(p) \in Int /\ GasOf(q) = GasOf(p) + q[n + 1].gas
<1>1. PICK t : Totals(t, q, n + 1)
  BY TotalsExist
<1>2. /\ t \in [0..(n + 1) -> Int] /\ t[0] = 0
      /\ \A i \in 1..(n + 1) : t[i] = t[i - 1] + q[i].gas
  BY <1>1 DEF Totals
<1>. DEFINE u == [i \in 0..n |-> t[i]]
<1>3. Totals(u, p, n)
  <2>1. u \in [0..n -> Int] /\ u[0] = 0
    BY <1>2
  <2>2. \A i \in 1..n : u[i] = u[i - 1] + p[i].gas
    BY <1>2
  <2>. QED BY <2>1, <2>2 DEF Totals
<1>4. GasOf(q) = t[n + 1]
  BY <1>1, GasIsTotal
<1>5. GasOf(p) = u[n] /\ u[n] = t[n] /\ t[n] \in Int
  <2>1. u[n] = t[n] /\ t[n] \in Int
    BY <1>2
  <2>2. GasOf(p) = u[n]
    <3>. HIDE DEF u
    <3>. QED BY <1>3, GasIsTotal
  <2>. QED BY <2>1, <2>2
<1>6. t[n + 1] = t[n] + q[n + 1].gas
  BY <1>2
<1>. QED BY <1>4, <1>5, <1>6

\* No frame has more than all have together.
LEMMA GasBounds ==
  ASSUME NEW n \in Nat, NEW q, DOMAIN q = 1..n, \A i \in 1..n : q[i].gas \in Nat
  PROVE  GasOf(q) \in Nat /\ \A i \in 1..n : q[i].gas <= GasOf(q)
<1>1. PICK t : Totals(t, q, n)
  BY TotalsExist
<1>2. /\ t \in [0..n -> Int] /\ t[0] = 0
      /\ \A i \in 1..n : t[i] = t[i - 1] + q[i].gas
  BY <1>1 DEF Totals
<1>. DEFINE Fits(k) == t[k] >= 0 /\ \A i \in 1..k : q[i].gas <= t[k]
            S == {k \in 0..n : ~ Fits(k)}
<1>3. S = {}
  <2>1. SUFFICES ASSUME S # {} PROVE FALSE
    OBVIOUS
  <2>2. PICK k \in S : \A j \in S : k <= j
    <3>1. S \in SUBSET Nat
      OBVIOUS
    <3>. HIDE DEF S
    <3>. QED BY <2>1, <3>1, LeastNatural
  <2>3. k \in 0..n /\ ~ Fits(k)
    OBVIOUS
  <2>4. k # 0
    BY <1>2, <2>3
  <2>5. k - 1 \in 0..n /\ k - 1 \notin S
    BY <2>2, <2>3, <2>4
  <2>6. Fits(k - 1)
    BY <2>5
  <2>7. k \in 1..n /\ t[k] = t[k - 1] + q[k].gas /\ q[k].gas \in Nat /\ t[k - 1] \in Int
    BY <1>2, <2>3, <2>4, <2>5
  <2>8. t[k] >= 0 /\ t[k] >= t[k - 1] /\ q[k].gas <= t[k]
    BY <2>6, <2>7
  <2>9. ASSUME NEW i \in 1..k PROVE q[i].gas <= t[k]
    <3>1. CASE i = k
      BY <2>8, <3>1
    <3>2. CASE i # k
      <4>1. i \in 1..(k - 1) /\ i \in 1..n
        BY <2>7, <3>2
      <4>2. q[i].gas <= t[k - 1] /\ q[i].gas \in Nat
        BY <2>6, <4>1
      <4>. QED BY <2>7, <4>2
    <3>. QED BY <3>1, <3>2
  <2>. QED BY <2>3, <2>8, <2>9
<1>4. GasOf(q) = t[n] /\ t[n] \in Int
  BY <1>1, <1>2, GasIsTotal
<1>5. Fits(n)
  BY <1>3
<1>. QED BY <1>4, <1>5

\* The gas of the frames is that of the callers and of the one that runs.
LEMMA GasOfSeq ==
  ASSUME NEW p \in Seq(TracedFrame), NEW q \in Seq(TracedFrame), NEW n \in Nat, NEW g,
         Len(p) = n, Len(q) = n + 1, q[n + 1].gas = g, \A i \in 1..n : p[i].gas = q[i].gas
  PROVE  GasOf(p) \in Int /\ GasOf(q) = GasOf(p) + g
<1>1. DOMAIN p = 1..n /\ DOMAIN q = 1..(n + 1)
  OBVIOUS
<1>2. \A i \in 1..(n + 1) : q[i].gas \in Int
  <2>1. \A i \in 1..(n + 1) : q[i] \in TracedFrame
    BY <1>1
  <2>. QED BY <2>1 DEF TracedFrame
<1>. QED BY <1>1, <1>2, GasExtends

\* No frames have no gas.
LEMMA GasOfNone == ASSUME NEW p \in Seq(TracedFrame), Len(p) = 0 PROVE GasOf(p) = 0
<1>. DEFINE t == [i \in 0..0 |-> 0]
<1>1. Totals(t, p, 0)
  BY DEF Totals
<1>2. t[0] = 0
  OBVIOUS
<1>. HIDE DEF t
<1>3. DOMAIN p = 1..0
  OBVIOUS
<1>. QED BY <1>1, <1>2, <1>3, GasIsTotal

\* Paying takes the cost off, and a frame that ends hands what is left to its caller.
LEMMA SpentGas ==
  ASSUME Framed, NEW cost \in Int
  PROVE  GasOf(frames) \in Int /\ GasOf(Spent(cost)) = GasOf(frames) - cost
<1>. DEFINE callers == SubSeq(frames, 1, Depth - 1)
<1>1. frames \in Seq(TracedFrame) /\ Len(frames) = Depth /\ Depth \in Nat /\ Depth >= 1 /\ Top.gas \in Int
  BY TopTyped DEF Framed
<1>2. /\ callers \in Seq(TracedFrame) /\ Len(callers) = Depth - 1
      /\ \A i \in 1..(Depth - 1) : callers[i] = frames[i]
  BY <1>1, SubSeqProperties
<1>. HIDE DEF callers
<1>3. PICK n \in Nat : n = Depth - 1
  BY <1>1
<1>4. /\ Len(callers) = n /\ Len(frames) = n + 1 /\ frames[n + 1].gas = Top.gas
      /\ \A i \in 1..n : callers[i].gas = frames[i].gas
  BY <1>1, <1>2, <1>3, TopTyped
<1>5. GasOf(callers) \in Int /\ GasOf(frames) = GasOf(callers) + Top.gas
  BY <1>1, <1>2, <1>3, <1>4, GasOfSeq, ZenonT(30)
<1>6. PICK q \in Seq(TracedFrame) : q = Spent(cost)
  BY SpentMakes
<1>7. Len(q) = n + 1 /\ q[n + 1].gas = Top.gas - cost /\ \A i \in 1..n : callers[i].gas = q[i].gas
  BY <1>1, <1>2, <1>3, <1>6, SpentMakes
<1>8. GasOf(q) = GasOf(callers) + (Top.gas - cost)
  BY <1>1, <1>2, <1>3, <1>7, GasOfSeq
<1>. QED BY <1>1, <1>5, <1>6, <1>8

\* A frame that ends leaves to its caller what is left of its gas.
LEMMA LeaveGas ==
  ASSUME Framed, NEW left \in Int, NEW end, Leave(left, end)
  PROVE  GasOf(frames) \in Int /\ GasOf(frames') = GasOf(frames) - Top.gas + left
<1>. DEFINE callers == SubSeq(frames, 1, Depth - 1)
            above   == SubSeq(frames, 1, Depth - 2)
<1>1. frames \in Seq(TracedFrame) /\ Len(frames) = Depth /\ Depth \in Nat /\ Depth >= 1 /\ Top.gas \in Int
  BY TopTyped DEF Framed
<1>2. /\ callers \in Seq(TracedFrame) /\ Len(callers) = Depth - 1
      /\ \A i \in 1..(Depth - 1) : callers[i] = frames[i]
  BY <1>1, SubSeqProperties
<1>. HIDE DEF callers
<1>3. PICK n \in Nat : n = Depth - 1
  BY <1>1
<1>4. /\ Len(callers) = n /\ Len(frames) = n + 1 /\ frames[n + 1].gas = Top.gas
      /\ \A i \in 1..n : callers[i].gas = frames[i].gas
  BY <1>1, <1>2, <1>3, TopTyped
<1>5. GasOf(callers) \in Int /\ GasOf(frames) = GasOf(callers) + Top.gas
  <2>1. callers \in Seq(TracedFrame) /\ frames \in Seq(TracedFrame)
    BY <1>1, <1>2
  <2>. QED BY <1>4, <2>1, GasOfSeq
<1>6. PICK q \in Seq(TracedFrame) : q = frames'
  BY LeaveMakes
<1>7. CASE /\ Depth > 1 /\ Len(frames') = Depth - 1
           /\ frames'[Depth - 1].gas = frames[Depth - 1].gas + left
           /\ \A i \in 1..(Depth - 2) : frames'[i] = frames[i]
  <2>1. /\ above \in Seq(TracedFrame) /\ Len(above) = Depth - 2
        /\ \A i \in 1..(Depth - 2) : above[i] = frames[i]
    BY <1>1, <1>7, SubSeqProperties
  <2>. HIDE DEF above
  <2>2. PICK m \in Nat : m = Depth - 2
    BY <1>1, <1>7
  <2>3. PICK g \in Int : g = frames[m + 1].gas
    <3>1. frames[m + 1] \in TracedFrame
      BY <1>1, <1>7, <2>2
    <3>. QED BY <3>1 DEF TracedFrame
  <2>4. m + 1 = Depth - 1 /\ 1..m = 1..(Depth - 2)
    BY <1>1, <2>2
  <2>5. GasOf(above) \in Int /\ GasOf(callers) = GasOf(above) + g
    <3>1. /\ Len(above) = m /\ Len(callers) = m + 1 /\ callers[m + 1].gas = g
          /\ \A i \in 1..m : above[i].gas = callers[i].gas
      BY <1>1, <1>2, <2>1, <2>2, <2>3
    <3>2. callers \in Seq(TracedFrame) /\ above \in Seq(TracedFrame)
      BY <1>2, <2>1
    <3>. QED BY <3>1, <3>2, GasOfSeq
  <2>6. GasOf(q) = GasOf(above) + (g + left)
    <3>1. /\ Len(above) = m /\ Len(q) = m + 1 /\ q[m + 1].gas = g + left
          /\ \A i \in 1..m : above[i].gas = q[i].gas
      BY <1>6, <1>7, <2>1, <2>2, <2>3, <2>4
    <3>. QED BY <2>1, <2>2, <3>1, GasOfSeq
  <2>. QED BY <1>1, <1>5, <1>6, <2>5, <2>6
<1>8. CASE Depth = 1 /\ Len(frames') = 1 /\ frames'[1].gas = left
  <2>1. GasOf(callers) = 0
    <3>1. Len(callers) = 0
      BY <1>2, <1>8
    <3>. QED BY <1>2, <3>1, GasOfNone
  <2>2. GasOf(q) = GasOf(callers) + left
    <3>1. /\ Len(callers) = n /\ Len(q) = n + 1 /\ q[n + 1].gas = left
          /\ \A i \in 1..n : callers[i].gas = q[i].gas
      BY <1>2, <1>3, <1>6, <1>8
    <3>. QED BY <1>2, <3>1, GasOfSeq
  <2>. QED BY <1>1, <1>5, <1>6, <2>1, <2>2
<1>. QED BY <1>7, <1>8, LeaveMakes

(***************************************************************************)
(* Types, gas and blame, whatever the programs call.                       *)
(***************************************************************************)

FramesTyped ==
  /\ Framed /\ Depth <= MaxDepth
  /\ \A i \in 1..Depth : frames[i].gas >= 0

StackTyped == contextStack \in Seq(Contract) /\ Len(contextStack) \in 1..MaxDepth + 1

TypeInv ==
  /\ FramesTyped /\ StackTyped /\ Tables
  /\ outcome \in Outcome /\ met \subseteq Event
  /\ entry \in Entry /\ execution \in Nat /\ blamed \in 0..MaxDepth

\* The frames never have more than the transaction, and what they lack of it is
\* attributed as long as no call of an account and no halted frame hides gas.
GasInv ==
  /\ GasOf(frames) <= Gas
  /\ met \cap {"plain", "halted"} = {} => execution + GasOf(frames) = Gas

\* The walk's context is a contract, and its rows are entries.
LEMMA WalkTyped ==
  ASSUME Framed, StackTyped
  PROVE  /\ Popped \in Seq(Contract) /\ Len(Popped) \in 1..Depth
         /\ Context \in Contract /\ Top.owner \in Contract
         /\ \A previous, held \in Value \cup {None} : Row(previous, held) \in Entry
         /\ Row(None, None) \in Entry
<1>1. Depth \in Nat /\ Depth >= 1 /\ Top.owner \in Contract
  BY TopTyped
<1>2. contextStack \in Seq(Contract) /\ Len(contextStack) >= 1 /\ Len(contextStack) \in Nat
  BY DEF StackTyped
<1>3. Popped \in Seq(Contract) /\ Len(Popped) \in 1..Depth
  <2>1. CASE Len(contextStack) > Depth
    BY <1>1, <1>2, <2>1, SubSeqProperties DEF Popped
  <2>2. CASE ~ (Len(contextStack) > Depth)
    BY <1>1, <1>2, <2>2 DEF Popped
  <2>. QED BY <2>1, <2>2
<1>4. Context \in Contract
  BY <1>1, <1>3 DEF Context
<1>5. \A previous, held \in Value \cup {None} : Row(previous, held) \in Entry
  BY <1>1, <1>4 DEF Row, Entry
<1>. QED BY <1>1, <1>3, <1>4, <1>5

\* What a step makes of the walk's stack.
LEMMA StackStep ==
  ASSUME FramesTyped, StackTyped,
         \/ contextStack' = Popped
         \/ \E op \in Kind, to \in Contract : contextStack' = Pushed(op, to)
         \/ \E to \in Contract : contextStack' = Pushed("CALL", to)
  PROVE  StackTyped'
<1>1. /\ Popped \in Seq(Contract) /\ Len(Popped) \in 1..Depth /\ Context \in Contract
      /\ Depth \in Nat /\ Depth <= MaxDepth /\ MaxDepth \in Nat
  BY WalkTyped, TopTyped, TraceAssumption DEF FramesTyped
<1>2. \/ contextStack' = Popped
      \/ \E c \in Contract : contextStack' = Append(Popped, c)
  BY <1>1 DEF Pushed, Kind
<1>3. CASE contextStack' = Popped
  BY <1>1, <1>3 DEF StackTyped
<1>4. ASSUME NEW c \in Contract, contextStack' = Append(Popped, c) PROVE StackTyped'
  BY <1>1, <1>4 DEF StackTyped
<1>. QED BY <1>2, <1>3, <1>4

\* An operation pays its cost.
LEMMA SpentStep ==
  ASSUME FramesTyped, NEW cost \in Nat, Top.gas >= cost, frames' = Spent(cost)
  PROVE  FramesTyped' /\ GasOf(frames) \in Int /\ GasOf(frames') = GasOf(frames) - cost
<1>1. Framed /\ Depth \in Nat /\ Depth >= 1 /\ Depth <= MaxDepth /\ Top.gas \in Int
  BY TopTyped DEF FramesTyped
<1>2. /\ frames' \in Seq(TracedFrame) /\ Len(frames') = Depth
      /\ frames'[Depth].gas = Top.gas - cost
      /\ \A i \in 1..(Depth - 1) : frames'[i] = frames[i]
  BY <1>1, SpentMakes
<1>3. ASSUME NEW i \in 1..Depth PROVE frames'[i].gas >= 0
  <2>1. CASE i = Depth
    BY <1>1, <1>2, <2>1
  <2>2. CASE i # Depth
    <3>1. i \in 1..(Depth - 1)
      BY <1>1, <2>2
    <3>. QED BY <1>2, <3>1 DEF FramesTyped
  <2>. QED BY <2>1, <2>2
<1>4. FramesTyped'
  <2>1. Depth' = Depth
    BY <1>2 DEF Depth
  <2>. QED BY <1>1, <1>2, <1>3, <2>1 DEF FramesTyped, Framed
<1>. QED BY <1>1, <1>4, SpentGas

\* A frame ends with some of its gas.
LEMMA LeaveStep ==
  ASSUME FramesTyped, outcome = "running", NEW left \in Nat, left <= Top.gas, NEW end, Leave(left, end)
  PROVE  /\ FramesTyped' /\ GasOf(frames) \in Int
         /\ GasOf(frames') = GasOf(frames) - Top.gas + left
         /\ \/ Depth > 1 /\ outcome' = "running"
            \/ Depth = 1 /\ outcome' = end
<1>1. Framed /\ Depth \in Nat /\ Depth >= 1 /\ Depth <= MaxDepth /\ Top.gas \in Int
  BY TopTyped DEF FramesTyped
<1>2. /\ frames' \in Seq(TracedFrame)
      /\ \/ /\ Depth > 1 /\ Len(frames') = Depth - 1 /\ outcome' = outcome
            /\ frames'[Depth - 1].gas = frames[Depth - 1].gas + left
            /\ \A i \in 1..(Depth - 2) : frames'[i] = frames[i]
         \/ Depth = 1 /\ Len(frames') = 1 /\ outcome' = end /\ frames'[1].gas = left
  BY <1>1, LeaveMakes
<1>3. ASSUME Depth > 1, Len(frames') = Depth - 1,
             frames'[Depth - 1].gas = frames[Depth - 1].gas + left,
             \A i \in 1..(Depth - 2) : frames'[i] = frames[i]
      PROVE  FramesTyped'
  <2>1. ASSUME NEW i \in 1..(Depth - 1) PROVE frames'[i].gas >= 0
    <3>0. frames[i] \in TracedFrame /\ frames[i].gas >= 0
      BY <1>1 DEF FramesTyped, Framed, Depth
    <3>1. CASE i = Depth - 1
      <4>1. PICK g \in Nat : g = frames[Depth - 1].gas
        BY <3>0, <3>1 DEF TracedFrame
      <4>. QED BY <1>3, <3>1, <4>1
    <3>2. CASE i # Depth - 1
      <4>1. i \in 1..(Depth - 2)
        BY <1>1, <3>2
      <4>. QED BY <1>3, <3>0, <4>1
    <3>. QED BY <3>1, <3>2
  <2>2. Depth' = Depth - 1
    BY <1>3 DEF Depth
  <2>3. Depth - 1 <= MaxDepth /\ Len(frames') >= 1
    BY <1>1, <1>3, TraceAssumption
  <2>4. \A i \in 1..Depth' : frames'[i].gas >= 0
    BY <2>1, <2>2
  <2>5. Depth' <= MaxDepth
    BY <2>2, <2>3
  <2>. QED BY <1>2, <2>3, <2>4, <2>5 DEF FramesTyped, Framed
<1>4. ASSUME Depth = 1, Len(frames') = 1, frames'[1].gas = left
      PROVE  FramesTyped'
  <2>1. Depth' = 1
    BY <1>4 DEF Depth
  <2>2. \A i \in 1..Depth' : frames'[i].gas >= 0
    BY <1>4, <2>1
  <2>3. Depth' <= MaxDepth /\ Len(frames') >= 1
    BY <1>4, <2>1, TraceAssumption
  <2>. QED BY <1>2, <2>2, <2>3 DEF FramesTyped, Framed
<1>5. GasOf(frames) \in Int /\ GasOf(frames') = GasOf(frames) - Top.gas + left
  BY <1>1, LeaveGas
<1>6. FramesTyped'
  BY <1>2, <1>3, <1>4
<1>. QED BY <1>2, <1>5, <1>6

\* A call pays what it costs and what it forwards, and enters a frame with that.
LEMMA CallStep ==
  ASSUME TypeInv, NEW op \in Kind, NEW to \in Contract, NEW g \in 1..Gas, Call(op, to, g)
  PROVE  FramesTyped' /\ GasOf(frames) \in Int /\ GasOf(frames') = GasOf(frames) - 1
<1>. DEFINE callee == [owner |-> IF op \in {"CALL", "CREATE"} THEN to ELSE Top.owner,
                       gas |-> g, entry |-> storage]
<1>1. /\ Framed /\ Depth \in Nat /\ Depth >= 1 /\ Depth < MaxDepth /\ Top.gas \in Int /\ Top.owner \in Contract
      /\ Top.gas >= 1 + g /\ g \in Nat /\ MaxDepth \in Nat
  BY TopTyped, TraceAssumption DEF TypeInv, FramesTyped, Call, Runs
<1>2. callee \in TracedFrame /\ callee.gas = g
  BY <1>1 DEF TracedFrame, TypeInv, Tables
<1>3. frames' = Append(Spent(1 + g), callee)
  BY DEF Call
<1>. HIDE DEF callee
<1>4. PICK q \in Seq(TracedFrame) : q = Spent(1 + g)
  BY <1>1, SpentMakes
<1>5. /\ Len(q) = Depth /\ q[Depth].gas = Top.gas - (1 + g)
      /\ \A i \in 1..(Depth - 1) : q[i] = frames[i]
  <2>1. PICK cost \in Int : cost = 1 + g
    BY <1>1
  <2>2. /\ Len(Spent(cost)) = Depth /\ Spent(cost)[Depth].gas = Top.gas - cost
        /\ \A i \in 1..(Depth - 1) : Spent(cost)[i] = frames[i]
    BY <1>1, SpentMakes
  <2>. QED BY <1>4, <2>1, <2>2
<1>6. PICK r \in Seq(TracedFrame) : r = frames'
  BY <1>2, <1>3, <1>4
<1>7. /\ Len(r) = Depth + 1 /\ r[Depth + 1].gas = g /\ \A i \in 1..Depth : r[i] = q[i]
  BY <1>1, <1>2, <1>3, <1>4, <1>5, <1>6
<1>8. ASSUME NEW i \in 1..(Depth + 1) PROVE r[i].gas >= 0
  <2>1. CASE i = Depth + 1
    BY <1>1, <1>7, <2>1
  <2>2. CASE i = Depth
    <3>1. r[i].gas = Top.gas - (1 + g)
      BY <1>1, <1>5, <1>7, <2>2
    <3>. QED BY <1>1, <3>1
  <2>3. CASE i # Depth /\ i # Depth + 1
    <3>1. i \in 1..(Depth - 1) /\ i \in 1..Depth
      BY <1>1, <2>3
    <3>2. r[i] = frames[i]
      BY <1>5, <1>7, <3>1
    <3>. QED BY <3>1, <3>2 DEF TypeInv, FramesTyped
  <2>. QED BY <2>1, <2>2, <2>3
<1>9. FramesTyped'
  <2>1. Depth' = Depth + 1
    BY <1>6, <1>7 DEF Depth
  <2>2. Depth + 1 <= MaxDepth /\ Len(frames') >= 1
    BY <1>1, <1>6, <1>7
  <2>. QED BY <1>6, <1>8, <2>1, <2>2 DEF FramesTyped, Framed
<1>10. GasOf(r) = GasOf(q) + g
  <2>1. \A i \in 1..Depth : q[i].gas = r[i].gas
    BY <1>7
  <2>. QED BY <1>1, <1>5, <1>7, <2>1, GasOfSeq
<1>11. GasOf(frames) \in Int /\ GasOf(q) = GasOf(frames) - (1 + g)
  BY <1>1, <1>4, SpentGas
<1>. QED BY <1>1, <1>6, <1>9, <1>10, <1>11

\* What every operation shares: it runs, and the walk reads its step.
LEMMA RunsTyped ==
  ASSUME TypeInv, NEW cost, Runs(cost)
  PROVE  /\ outcome = "running" /\ Top.gas >= cost /\ FramesTyped /\ StackTyped /\ Tables
         /\ Framed /\ Depth \in 1..MaxDepth /\ Top.gas \in Nat /\ Top.entry \in Storage
         /\ execution \in Nat /\ GasOf(frames) \in Int
<1>1. Framed /\ FramesTyped /\ StackTyped /\ Tables
  BY DEF TypeInv, FramesTyped
<1>2. Depth \in Nat /\ Depth >= 1 /\ Depth <= MaxDepth /\ Top.gas \in Int /\ frames[Depth] = Top
      /\ Top.entry \in Storage
  BY <1>1, TopTyped DEF FramesTyped
<1>3. Top.gas >= 0
  BY <1>1, <1>2 DEF FramesTyped
<1>4. GasOf(frames) \in Int
  BY <1>1, SpentGas
<1>. QED BY <1>1, <1>2, <1>3, <1>4, TraceAssumption DEF Runs, TypeInv

\* Of one step, from the parts it changes.
LEMMA Steps ==
  ASSUME TypeInv, GasInv, NEW spent \in Nat,
         FramesTyped', StackTyped', Tables', entry' \in Entry,
         outcome' \in Outcome, met' \subseteq Event, met \subseteq met',
         execution' \in Nat, blamed' \in 0..MaxDepth,
         GasOf(frames) \in Int, GasOf(frames') = GasOf(frames) - spent,
         met' \cap {"plain", "halted"} = {} => execution' = execution + spent
  PROVE  (TypeInv /\ GasInv)'
<1>1. TypeInv'
  BY DEF TypeInv
<1>2. GasOf(frames') <= Gas
  BY TraceAssumption DEF GasInv
<1>3. ASSUME met' \cap {"plain", "halted"} = {} PROVE execution' + GasOf(frames') = Gas
  <2>1. met \cap {"plain", "halted"} = {}
    BY <1>3
  <2>2. execution + GasOf(frames) = Gas /\ execution \in Nat
    BY <2>1 DEF GasInv, TypeInv
  <2>. QED BY <1>3, <2>2
<1>4. GasInv'
  BY <1>2, <1>3 DEF GasInv
<1>. QED BY <1>1, <1>4

\* Operations that pay and stay in their frame.
LEMMA PaysKeeps ==
  ASSUME TypeInv, GasInv,
         Compute \/ (\E s \in Slot : Load(s)) \/ \E s \in Slot, v \in Value : Store(s, v)
  PROVE  (TypeInv /\ GasInv)'
<1>1. /\ Runs(1) /\ frames' = Spent(1) /\ contextStack' = Popped
      /\ outcome' = outcome /\ blamed' = blamed
      /\ execution' = execution + SelfCost(1, FALSE, 0)
      /\ met' \in {met, met \cup {"blind"}}
  BY DEF Compute, Load, Store
<1>2. /\ outcome = "running" /\ Top.gas >= 1 /\ FramesTyped /\ StackTyped /\ Tables /\ Framed
      /\ execution \in Nat /\ Context \in Contract /\ Top.owner \in Contract
  BY <1>1, RunsTyped, WalkTyped
<1>3. FramesTyped' /\ GasOf(frames) \in Int /\ GasOf(frames') = GasOf(frames) - 1
  BY <1>1, <1>2, SpentStep
<1>4. StackTyped'
  BY <1>1, <1>2, StackStep
<1>5. execution' = execution + 1
  BY <1>1 DEF SelfCost
<1>6. Tables' /\ entry' \in Entry
  <2>1. CASE Compute
    BY <1>2, <2>1, WalkTyped DEF Compute, Tables
  <2>2. ASSUME NEW s \in Slot, Load(s) PROVE Tables' /\ entry' \in Entry
    BY <1>2, <2>2, LoadTables, WalkTyped DEF Load
  <2>3. ASSUME NEW s \in Slot, NEW v \in Value, Store(s, v) PROVE Tables' /\ entry' \in Entry
    <3>1. PICK p \in Previous(s, v) : entry' = Row(p, storage[Top.owner][s])
      BY <2>3 DEF Store
    <3>2. p \in Value \cup {None} /\ storage[Top.owner][s] \in Value \cup {None}
      BY <1>2, PreviousTyped DEF Tables, Storage
    <3>3. entry' \in Entry
      BY <1>2, <3>1, <3>2, WalkTyped
    <3>. QED BY <1>2, <2>3, <3>3, StoreTables
  <2>. QED BY <2>1, <2>2, <2>3
<1>7. met' \subseteq Event /\ met \subseteq met' /\ outcome' \in Outcome /\ blamed' \in 0..MaxDepth
  BY <1>1 DEF TypeInv, Event
<1>. QED BY <1>2, <1>3, <1>4, <1>5, <1>6, <1>7, Steps

\* A call keeps types and gas.
LEMMA EntersKeeps ==
  ASSUME TypeInv, GasInv, NEW to \in Contract, NEW g \in 1..Gas,
         CallPlain(to, g) \/ \E op \in Kind : Call(op, to, g)
  PROVE  (TypeInv /\ GasInv)'
<1>1. /\ Runs(1 + g) /\ entry' = Row(None, None)
      /\ outcome' = outcome /\ blamed' = blamed
      /\ UNCHANGED <<storage, first, storageSeen, rows>>
  BY DEF CallPlain, Call
<1>2. /\ outcome = "running" /\ Top.gas >= 1 + g /\ FramesTyped /\ StackTyped /\ Tables /\ Framed
      /\ execution \in Nat /\ g \in Nat /\ 1 + g \in Nat /\ Top.gas \in Nat
  BY <1>1, RunsTyped, TraceAssumption
<1>3. StackTyped'
  <2>1. \/ \E op \in Kind, c \in Contract : contextStack' = Pushed(op, c)
        \/ \E c \in Contract : contextStack' = Pushed("CALL", c)
    BY DEF CallPlain, Call
  <2>. QED BY <1>2, <2>1, StackStep
<1>4. FramesTyped' /\ GasOf(frames) \in Int /\ GasOf(frames') = GasOf(frames) - 1
  <2>1. CASE CallPlain(to, g)
    <3>1. frames' = Spent(1) /\ Top.gas >= 1
      BY <1>2, <2>1 DEF CallPlain
    <3>. QED BY <1>2, <3>1, SpentStep
  <2>2. ASSUME NEW op \in Kind, Call(op, to, g)
        PROVE  FramesTyped' /\ GasOf(frames) \in Int /\ GasOf(frames') = GasOf(frames) - 1
    BY <2>2, CallStep
  <2>. QED BY <2>1, <2>2
<1>5. /\ execution' \in Nat /\ met' \subseteq Event /\ met \subseteq met'
      /\ met' \cap {"plain", "halted"} = {} => execution' = execution + 1
  <2>1. CASE CallPlain(to, g)
    <3>1. met' = met \cup {"plain"} /\ execution' = execution + (1 + g)
      BY <2>1 DEF CallPlain, SelfCost
    <3>. QED BY <1>2, <3>1 DEF TypeInv, Event
  <2>2. ASSUME NEW op \in Kind, Call(op, to, g)
        PROVE  met' = met /\ execution' = execution + 1
    BY <1>2, <2>2 DEF Call, SelfCost
  <2>. QED BY <1>2, <2>1, <2>2 DEF TypeInv
<1>6. Tables' /\ entry' \in Entry
  BY <1>1, <1>2, WalkTyped DEF Tables
<1>7. outcome' \in Outcome /\ blamed' \in 0..MaxDepth
  BY <1>1 DEF TypeInv
<1>. QED BY <1>3, <1>4, <1>5, <1>6, <1>7, Steps

\* A frame that ends.  That of the transaction is at depth 1.
LEMMA LeavesKeeps ==
  ASSUME TypeInv, GasInv,
         Return \/ Revert \/ Halt("invalid") \/ Halt("out-of-gas")
  PROVE  (TypeInv /\ GasInv)'
<1>1. Runs(0) /\ entry' = Row(None, None) /\ contextStack' = Popped
      /\ UNCHANGED <<first, storageSeen, rows>>
      /\ storage' \in {storage, Top.entry}
  BY DEF Return, Revert, Halt
<1>2. /\ outcome = "running" /\ FramesTyped /\ StackTyped /\ Tables /\ Framed
      /\ Depth \in 1..MaxDepth /\ Top.gas \in Nat /\ Top.entry \in Storage /\ execution \in Nat
  BY <1>1, RunsTyped
<1>3. Tables' /\ entry' \in Entry
  BY <1>1, <1>2, WalkTyped DEF Tables
<1>4. StackTyped'
  BY <1>1, <1>2, StackStep
<1>5. ASSUME Leave(Top.gas, "success") \/ Leave(Top.gas, "revert")
      PROVE  FramesTyped' /\ GasOf(frames) \in Int /\ GasOf(frames') = GasOf(frames) - 0
  BY <1>2, <1>5, LeaveStep
<1>6. CASE Return
  <2>1. Leave(Top.gas, "success") /\ met' = met /\ execution' = execution /\ blamed' = blamed
    BY <1>6 DEF Return
  <2>2. outcome' \in {"running", "success"}
    BY <1>2, <2>1, LeaveStep
  <2>3. outcome' \in Outcome
    BY <2>2 DEF Outcome
  <2>4. met' \subseteq Event /\ met \subseteq met' /\ blamed' \in 0..MaxDepth /\ execution' = execution + 0
    BY <1>2, <2>1 DEF TypeInv
  <2>. QED BY <1>2, <1>3, <1>4, <1>5, <2>1, <2>3, <2>4, Steps
<1>7. CASE Revert
  <2>1. Leave(Top.gas, "revert") /\ met' = met \cup {"reverted"} /\ execution' = execution /\ blamed' = Depth
    BY <1>7 DEF Revert, Blame
  <2>2. \/ Depth > 1 /\ outcome' = "running"
        \/ Depth = 1 /\ outcome' = "revert"
    BY <1>2, <2>1, LeaveStep
  <2>3. outcome' \in Outcome
    BY <2>1, <2>2 DEF Outcome
  <2>4. met' \subseteq Event /\ met \subseteq met' /\ blamed' \in 0..MaxDepth /\ execution' = execution + 0
    BY <1>2, <2>1 DEF TypeInv, Event
  <2>. QED BY <1>2, <1>3, <1>4, <1>5, <2>1, <2>3, <2>4, Steps
<1>8. ASSUME NEW end \in {"invalid", "out-of-gas"}, Halt(end)
      PROVE  (TypeInv /\ GasInv)'
  <2>1. Leave(0, end) /\ met' = met \cup {"reverted", "halted"} /\ execution' = execution + 1
        /\ blamed' = IF end = "invalid" THEN Depth ELSE blamed
    BY <1>8 DEF Halt, Blame
  <2>2. /\ FramesTyped' /\ GasOf(frames) \in Int /\ GasOf(frames') = GasOf(frames) - Top.gas + 0
        /\ \/ Depth > 1 /\ outcome' = "running"
           \/ Depth = 1 /\ outcome' = end
    BY <1>2, <2>1, LeaveStep
  <2>3. outcome' \in Outcome
    BY <2>1, <2>2 DEF Outcome
  <2>4. met' \subseteq Event /\ met \subseteq met' /\ blamed' \in 0..MaxDepth /\ "halted" \in met'
    BY <1>2, <2>1 DEF TypeInv, Event
  <2>5. GasOf(frames') = GasOf(frames) - Top.gas /\ execution' \in Nat
    BY <1>2, <2>1, <2>2
  <2>6. ~ (met' \cap {"plain", "halted"} = {})
    BY <2>4
  <2>. QED BY <1>2, <1>3, <1>4, <2>2, <2>3, <2>4, <2>5, <2>6, Steps
<1>. QED BY <1>6, <1>7, <1>8

\* Types and gas when the transaction begins, and after every step.
LEMMA TypesInit == Init => TypeInv /\ GasInv
<1>. SUFFICES ASSUME Init PROVE TypeInv /\ GasInv
  OBVIOUS
<1>1. PICK root \in Contract :
        /\ frames = <<[owner |-> root, gas |-> Gas, entry |-> storage]>>
        /\ contextStack = <<root>>
        /\ entry = [context |-> root, owner |-> root, previous |-> None, held |-> None]
  BY DEF Init
<1>. DEFINE f == [owner |-> root, gas |-> Gas, entry |-> storage]
<1>2. f \in TracedFrame /\ f.gas = Gas
  BY TraceAssumption DEF TracedFrame, Init
<1>. HIDE DEF f
<1>3. frames = <<f>>
  BY <1>1 DEF f
<1>4. frames \in Seq(TracedFrame) /\ Len(frames) = 1 /\ frames[1] = f
  BY <1>2, <1>3
<1>5. FramesTyped
  BY <1>2, <1>4, TraceAssumption DEF FramesTyped, Framed, Depth
<1>6. StackTyped
  BY <1>1, TraceAssumption DEF StackTyped
<1>7. Tables
  BY DEF Init, Tables
<1>8. entry \in Entry
  BY <1>1 DEF Entry
<1>9. TypeInv
  BY <1>5, <1>6, <1>7, <1>8, TraceAssumption DEF TypeInv, Init, Outcome
<1>10. GasOf(frames) = Gas
  <2>1. PICK p \in Seq(TracedFrame) : Len(p) = 0
    <3>1. <<>> \in Seq(TracedFrame) /\ Len(<<>>) = 0
      OBVIOUS
    <3>. QED BY <3>1
  <2>2. GasOf(p) = 0
    BY <2>1, GasOfNone
  <2>3. PICK n \in Nat : n = 0
    OBVIOUS
  <2>4. GasOf(frames) = GasOf(p) + Gas
    <3>1. /\ Len(p) = n /\ Len(frames) = n + 1 /\ frames[n + 1].gas = Gas
          /\ \A i \in 1..n : p[i].gas = frames[i].gas
      BY <1>2, <1>4, <2>1, <2>3
    <3>. QED BY <1>4, <3>1, GasOfSeq
  <2>. QED BY <2>2, <2>4, TraceAssumption
<1>11. GasInv
  BY <1>10, TraceAssumption DEF GasInv, Init
<1>. QED BY <1>9, <1>11 DEF Init

LEMMA TypesNext ==
  ASSUME TypeInv, GasInv, [Next]_vars
  PROVE  (TypeInv /\ GasInv)'
<1>1. CASE Compute \/ (\E s \in Slot : Load(s)) \/ \E s \in Slot, v \in Value : Store(s, v)
  BY <1>1, PaysKeeps
<1>2. CASE Return \/ Revert \/ Halt("invalid") \/ Halt("out-of-gas")
  BY <1>2, LeavesKeeps
<1>3. ASSUME NEW to \in Contract, NEW g \in 1..Gas, CallPlain(to, g) \/ \E op \in Kind : Call(op, to, g)
      PROVE  (TypeInv /\ GasInv)'
  BY <1>3, EntersKeeps
<1>4. CASE UNCHANGED vars
  BY <1>4 DEF vars, evm, walk, TypeInv, FramesTyped, Framed, Depth, StackTyped, Tables, GasInv
<1>. QED BY <1>1, <1>2, <1>3, <1>4 DEF Next

LEMMA TypesAlways == Spec => [](TypeInv /\ GasInv)
BY TypesInit, TypesNext, PTL DEF Spec

\* The EVM's frames, the walk's stack, its memory and what is derived from them are
\* what the code takes them for, and no frame has more gas than the transaction.
THEOREM TypeCorrect == Spec => []TypeOK
<1>1. TypeInv /\ GasInv => TypeOK
  <2>. SUFFICES ASSUME TypeInv, GasInv PROVE TypeOK
    OBVIOUS
  <2>1. frames \in Seq(TracedFrame) /\ Len(frames) \in 1..MaxDepth /\ DOMAIN frames = 1..Len(frames)
    BY TraceAssumption DEF TypeInv, FramesTyped, Framed, Depth
  <2>2. ASSUME NEW i \in 1..Len(frames) PROVE frames[i] \in TracedFrame /\ frames[i].gas \in Nat
    <3>1. frames[i] \in TracedFrame /\ frames[i].gas >= 0
      BY <2>1 DEF TypeInv, FramesTyped, Depth
    <3>. QED BY <3>1 DEF TracedFrame
  <2>3. ASSUME NEW i \in 1..Len(frames) PROVE frames[i] \in Frame
    <3>1. GasOf(frames) \in Nat /\ frames[i].gas <= GasOf(frames)
      BY <2>1, <2>2, GasBounds
    <3>2. frames[i].gas \in 0..Gas
      BY <2>2, <3>1, TraceAssumption DEF GasInv
    <3>. QED BY <2>2, <3>2 DEF TracedFrame, Frame
  <2>4. frames \in Seq(Frame)
    BY <2>1, <2>3
  <2>. QED BY <2>1, <2>4 DEF TypeInv, StackTyped, Tables, TypeOK
<1>. QED BY <1>1, TypesAlways, PTL

\* While calls have code to trace and no frame halts, the gas profile and the gas
\* left in the frames are the gas of the transaction (traceAnalysis.ts).
THEOREM GasAddsUp == Spec => []GasAdds
<1>1. GasInv => GasAdds
  BY DEF GasInv, GasAdds, GasOf
<1>. QED BY <1>1, TypesAlways, PTL

(***************************************************************************)
(* callTracer's tree, for TraceViews.  It is proved as an arrangement of   *)
(* numbers: the calls in the order they were made, which of them each made *)
(* itself, how deep they are, and the last made under each.                *)
(***************************************************************************)

\* Of n calls in the order they were made, c[i] are those that i made itself, d[i] is
\* its depth and e[i] the last call made under it.
Spanned(n, c, d, e) ==
  /\ n \in Nat \ {0}
  /\ \A i \in 1..n :
       /\ c[i] \in Seq(1..n) /\ d[i] \in Nat /\ e[i] \in i..n
       /\ \A k \in 1..Len(c[i]) : c[i][k] > i /\ d[c[i][k]] = d[i] + 1
       /\ \A k \in 1..(Len(c[i]) - 1) : c[i][k + 1] = e[c[i][k]] + 1
       /\ Len(c[i]) = 0 => e[i] = i
       /\ Len(c[i]) > 0 => c[i][1] = i + 1 /\ e[i] = e[c[i][Len(c[i])]]

\* The calls under way, o, lead from the first down to the one that runs; each is the
\* last its caller made, and the last call was made under all of them.
UnderWay(n, c, d, e, o) ==
  /\ o \in Seq(1..n) /\ Len(o) >= 1 /\ o[1] = 1
  /\ \A k \in 1..Len(o) : e[o[k]] = n /\ d[o[k]] = k
  /\ \A k \in 1..(Len(o) - 1) : Len(c[o[k]]) > 0 /\ o[k + 1] = c[o[k]][Len(c[o[k]])]
  /\ \A i \in 1..n : \A k \in 1..Len(c[i]) :
       (\E m \in 1..Len(o) : c[i][k] = o[m]) => \E m \in 1..Len(o) : i = o[m]

\* The transaction's own call, under way.
LEMMA OneSpans ==
  ASSUME NEW c, c = [i \in 1..1 |-> <<>>], NEW d, d = [i \in 1..1 |-> 1]
  PROVE  \E e : Spanned(1, c, d, e) /\ UnderWay(1, c, d, e, <<1>>)
<1>. DEFINE e == [i \in 1..1 |-> 1]
<1>0. \A i \in 1..1 : i = 1
  OBVIOUS
<1>1. Spanned(1, c, d, e)
  BY <1>0 DEF Spanned
<1>2. UnderWay(1, c, d, e, <<1>>)
  BY <1>0 DEF UnderWay
<1>. QED BY <1>1, <1>2

\* A frame that returns is not under way any more.
LEMMA ReturnSpans ==
  ASSUME NEW n, NEW c, NEW d, NEW e, NEW o, Spanned(n, c, d, e), UnderWay(n, c, d, e, o), Len(o) > 1
  PROVE  UnderWay(n, c, d, e, Front(o)) /\ Len(Front(o)) = Len(o) - 1
<1>. DEFINE p == Front(o)
<1>1. /\ p \in Seq(1..n) /\ Len(p) = Len(o) - 1 /\ Len(o) \in Nat
      /\ \A i \in 1..(Len(o) - 1) : p[i] = o[i]
  <2>1. o \in Seq(1..n) /\ Len(o) \in Nat /\ 1 \in 1..(Len(o) + 1) /\ Len(o) - 1 \in 0..Len(o)
    BY DEF UnderWay
  <2>2. PICK m \in Int, l \in Int : m = 1 /\ l = Len(o) - 1 /\ \A i \in m..l : o[i] \in 1..n
    <3>1. \A i \in 1..Len(o) : o[i] \in 1..n
      BY <2>1, ElementOfSeq
    <3>. QED BY <2>1, <3>1
  <2>3. /\ SubSeq(o, m, l) \in Seq(1..n)
        /\ Len(SubSeq(o, m, l)) = IF m <= l THEN l - m + 1 ELSE 0
        /\ \A i \in 1..(l - m + 1) : SubSeq(o, m, l)[i] = o[m + i - 1]
    BY <2>2, SubSeqProperties
  <2>4. \A i \in 1..(Len(o) - 1) : o[1 + i - 1] = o[i]
    BY <2>1
  <2>. QED BY <2>1, <2>2, <2>3, <2>4 DEF Front
<1>. HIDE DEF p
<1>2. Len(p) >= 1 /\ p[1] = 1
  BY <1>1 DEF UnderWay
<1>3. \A k \in 1..Len(p) : e[p[k]] = n /\ d[p[k]] = k
  BY <1>1 DEF UnderWay
<1>4. \A k \in 1..(Len(p) - 1) : Len(c[p[k]]) > 0 /\ p[k + 1] = c[p[k]][Len(c[p[k]])]
  <2>1. SUFFICES ASSUME NEW k \in 1..(Len(p) - 1)
                 PROVE  Len(c[p[k]]) > 0 /\ p[k + 1] = c[p[k]][Len(c[p[k]])]
    OBVIOUS
  <2>2. k \in 1..(Len(o) - 1) /\ p[k] = o[k] /\ p[k + 1] = o[k + 1]
    BY <1>1
  <2>. QED BY <2>2 DEF UnderWay
<1>5. ASSUME NEW i \in 1..n, NEW m \in 1..Len(p), NEW k \in 1..Len(c[i]), c[i][k] = p[m]
      PROVE  \E j \in 1..Len(p) : i = p[j]
  <2>1. m \in 1..Len(o) /\ c[i][k] = o[m] /\ d[o[m]] = m
    BY <1>1, <1>5 DEF UnderWay
  <2>2. PICK j \in 1..Len(o) : i = o[j]
    BY <2>1 DEF UnderWay
  <2>3. d[c[i][k]] = d[i] + 1 /\ d[i] = j
    BY <2>2 DEF Spanned, UnderWay
  <2>4. j \in 1..Len(p)
    BY <1>1, <2>1, <2>3
  <2>. QED BY <1>1, <2>2, <2>4
<1>6. UnderWay(n, c, d, e, p)
  BY <1>1, <1>2, <1>3, <1>4, <1>5 DEF UnderWay
<1>. QED BY <1>1, <1>6 DEF p

\* A call that the running one makes: under way from then on, or, of an account, over.
LEMMA CallSpans ==
  ASSUME NEW n, NEW c, NEW d, NEW e, NEW o, Spanned(n, c, d, e), UnderWay(n, c, d, e, o),
         NEW c2, c2[n + 1] = <<>>, c2[o[Len(o)]] = Append(c[o[Len(o)]], n + 1),
         \A i \in 1..n : i # o[Len(o)] => c2[i] = c[i],
         NEW d2, d2[n + 1] = Len(o) + 1, \A i \in 1..n : d2[i] = d[i]
  PROVE  \E f : /\ Spanned(n + 1, c2, d2, f)
                /\ UnderWay(n + 1, c2, d2, f, o) /\ UnderWay(n + 1, c2, d2, f, Append(o, n + 1))
<1>. DEFINE f == [i \in 1..(n + 1) |-> IF i = n + 1 \/ (\E j \in 1..Len(o) : i = o[j]) THEN n + 1 ELSE e[i]]
            top == o[Len(o)]
            Open(i) == \E j \in 1..Len(o) : i = o[j]
<1>1. /\ n \in Nat /\ n >= 1 /\ Len(o) \in Nat /\ Len(o) >= 1 /\ o[1] = 1
      /\ \A k \in 1..Len(o) : o[k] \in 1..n /\ e[o[k]] = n /\ d[o[k]] = k
      /\ top \in 1..n /\ Open(top) /\ d[top] = Len(o) /\ e[top] = n
      /\ \A i \in 1..n : c[i] \in Seq(1..n) /\ Len(c[i]) \in Nat /\ d[i] \in Nat /\ e[i] \in i..n
  <2>1. n \in Nat /\ n >= 1 /\ \A i \in 1..n : c[i] \in Seq(1..n) /\ Len(c[i]) \in Nat /\ d[i] \in Nat /\ e[i] \in i..n
    BY SMTT(30) DEF Spanned
  <2>2. o \in Seq(1..n) /\ Len(o) \in Nat /\ Len(o) >= 1 /\ o[1] = 1 /\ Len(o) \in 1..Len(o)
    BY DEF UnderWay
  <2>3. \A k \in 1..Len(o) : o[k] \in 1..n /\ e[o[k]] = n /\ d[o[k]] = k
    <3>1. \A k \in 1..Len(o) : o[k] \in 1..n
      BY <2>2, ElementOfSeq
    <3>. QED BY <3>1 DEF UnderWay
  <2>. QED BY <2>1, <2>2, <2>3
<1>2. /\ f[n + 1] = n + 1
      /\ \A i \in 1..n : f[i] = IF Open(i) THEN n + 1 ELSE e[i]
      /\ \A i \in 1..(n + 1) : f[i] \in i..(n + 1)
  <2>1. n + 1 \in 1..(n + 1) /\ \A i \in 1..n : i \in 1..(n + 1) /\ i # n + 1
    BY <1>1
  <2>2. f[n + 1] = n + 1 /\ \A i \in 1..n : f[i] = IF Open(i) THEN n + 1 ELSE e[i]
    BY <2>1
  <2>3. \A i \in 1..n : e[i] \in i..(n + 1) /\ n + 1 \in i..(n + 1)
    BY <1>1, SMTT(30)
  <2>4. \A i \in 1..n : f[i] \in i..(n + 1)
    BY <2>2, <2>3
  <2>5. \A i \in 1..(n + 1) : i = n + 1 \/ i \in 1..n
    BY <1>1
  <2>6. f[n + 1] \in (n + 1)..(n + 1)
    BY <1>1, <2>2
  <2>. HIDE DEF f, Open
  <2>. QED BY <2>2, <2>4, <2>5, <2>6
<1>3. /\ c2[top] = Append(c[top], n + 1)
      /\ \A i \in 1..n : i # top => c2[i] = c[i]
  OBVIOUS
<1>4. \A i \in 1..(n + 1) : c2[i] \in Seq(1..(n + 1)) /\ d2[i] \in Nat
  <2>1. SUFFICES ASSUME NEW i \in 1..(n + 1) PROVE c2[i] \in Seq(1..(n + 1)) /\ d2[i] \in Nat
    OBVIOUS
  <2>2. CASE i = n + 1
    <3>1. c2[i] = <<>> /\ d2[i] = Len(o) + 1
      BY <2>2
    <3>. QED BY <1>1, <3>1
  <2>3. CASE i # n + 1
    <3>1. i \in 1..n
      BY <1>1, <2>3
    <3>2. c[i] \in Seq(1..(n + 1)) /\ d[i] \in Nat /\ n + 1 \in 1..(n + 1)
      <4>1. c[i] \in Seq(1..n) /\ 1..n \subseteq 1..(n + 1)
        BY <1>1, <3>1, SMTT(30)
      <4>. QED BY <1>1, <3>1, <4>1
    <3>3. c2[i] = c[i] \/ c2[i] = Append(c[i], n + 1)
      BY <1>3, <3>1
    <3>4. d2[i] = d[i] /\ Append(c[i], n + 1) \in Seq(1..(n + 1))
      BY <3>1, <3>2
    <3>. QED BY <3>2, <3>3, <3>4
  <2>. QED BY <2>2, <2>3
<1>5. \A i \in 1..n : Open(i) => i = top \/ \E j \in 1..(Len(o) - 1) : i = o[j]
  BY <1>1
\* Which calls of a call are under way.
<1>6. ASSUME NEW i \in 1..n, NEW k \in 1..Len(c[i])
      PROVE  /\ c[i][k] \in 1..n /\ d[c[i][k]] = d[i] + 1
             /\ k < Len(c[i]) => ~ Open(c[i][k])
             /\ i = top => ~ Open(c[i][k])
             /\ ~ Open(i) => ~ Open(c[i][k])
             /\ k = Len(c[i]) /\ Open(i) /\ i # top => Open(c[i][k])
  <2>1. c[i][k] \in 1..n /\ d[c[i][k]] = d[i] + 1 /\ c[i] \in Seq(1..n) /\ Len(c[i]) \in Nat
    <3>1. c[i] \in Seq(1..n) /\ Len(c[i]) \in Nat
      BY <1>1
    <3>2. c[i][k] \in 1..n
      BY <3>1, ElementOfSeq
    <3>. QED BY <3>1, <3>2 DEF Spanned
  <2>2. ASSUME k < Len(c[i]), Open(c[i][k]) PROVE FALSE
    <3>1. k \in 1..(Len(c[i]) - 1) /\ k + 1 \in 1..Len(c[i])
      BY <2>1, <2>2
    <3>2. c[i][k + 1] = e[c[i][k]] + 1
      BY <3>1 DEF Spanned
    <3>3. e[c[i][k]] = n
      <4>1. PICK j \in 1..Len(o) : c[i][k] = o[j]
        BY <2>2
      <4>2. e[o[j]] = n
        BY DEF UnderWay
      <4>. QED BY <4>1, <4>2
    <3>4. c[i][k + 1] \in 1..n
      <4>1. \A x \in 1..Len(c[i]) : c[i][x] \in 1..n
        BY <2>1, ElementOfSeq
      <4>. QED BY <3>1, <4>1
    <3>. QED BY <1>1, <3>2, <3>3, <3>4
  <2>3. ASSUME i = top, Open(c[i][k]) PROVE FALSE
    <3>1. PICK m \in 1..Len(o) : c[i][k] = o[m]
      BY <2>3
    <3>2. d[o[m]] = m /\ d[top] = Len(o) /\ Len(o) \in Nat
      BY <1>1
    <3>3. d[o[m]] = d[top] + 1
      BY <2>1, <2>3, <3>1
    <3>. HIDE DEF top
    <3>. QED BY <3>2, <3>3, m \in 1..Len(o)
  <2>4. ASSUME ~ Open(i), Open(c[i][k]) PROVE FALSE
    BY <2>4 DEF UnderWay
  <2>5. ASSUME k = Len(c[i]), Open(i), i # top PROVE Open(c[i][k])
    <3>1. PICK j \in 1..(Len(o) - 1) : i = o[j]
      BY <1>5, <2>5
    <3>2. j + 1 \in 1..Len(o)
      BY <1>1, <3>1
    <3>3. o[j + 1] = c[i][k]
      BY <2>5, <3>1, <3>2 DEF UnderWay
    <3>. QED BY <3>2, <3>3
  <2>. QED BY <2>1, <2>2, <2>3, <2>4, <2>5
<1>. HIDE DEF f, top, Open
<1>7. ASSUME NEW i \in 1..n, i # top
      PROVE  /\ \A k \in 1..Len(c2[i]) : c2[i][k] > i /\ d2[c2[i][k]] = d2[i] + 1
             /\ \A k \in 1..(Len(c2[i]) - 1) : c2[i][k + 1] = f[c2[i][k]] + 1
             /\ Len(c2[i]) = 0 => f[i] = i
             /\ Len(c2[i]) > 0 => c2[i][1] = i + 1 /\ f[i] = f[c2[i][Len(c2[i])]]
  <2>1. c2[i] = c[i] /\ d2[i] = d[i] /\ c[i] \in Seq(1..n) /\ Len(c[i]) \in Nat
    BY <1>1, <1>3, <1>7
  <2>2. \A k \in 1..Len(c[i]) : c[i][k] > i /\ d2[c[i][k]] = d2[i] + 1
    <3>1. \A k \in 1..Len(c[i]) : c[i][k] > i
      BY DEF Spanned
    <3>2. \A k \in 1..Len(c[i]) : d2[c[i][k]] = d[c[i][k]] /\ d[c[i][k]] = d[i] + 1
      BY <1>6
    <3>. QED BY <2>1, <3>1, <3>2
  <2>3. \A k \in 1..(Len(c[i]) - 1) : c[i][k + 1] = f[c[i][k]] + 1
    <3>1. SUFFICES ASSUME NEW k \in 1..(Len(c[i]) - 1) PROVE c[i][k + 1] = f[c[i][k]] + 1
      OBVIOUS
    <3>2. k \in 1..Len(c[i]) /\ k < Len(c[i])
      BY <2>1
    <3>3. f[c[i][k]] = e[c[i][k]]
      BY <1>2, <1>6, <3>2
    <3>4. c[i][k + 1] = e[c[i][k]] + 1
      BY DEF Spanned
    <3>. QED BY <3>3, <3>4
  <2>4. ASSUME Len(c[i]) = 0 PROVE f[i] = i
    <3>1. e[i] = i
      BY <2>4 DEF Spanned
    <3>2. ~ Open(i)
      <4>1. SUFFICES ASSUME NEW j \in 1..(Len(o) - 1), i = o[j] PROVE FALSE
        BY <1>5, <1>7
      <4>. QED BY <2>4, <4>1 DEF UnderWay
    <3>. QED BY <1>2, <3>1, <3>2
  <2>5. ASSUME Len(c[i]) > 0 PROVE c[i][1] = i + 1 /\ f[i] = f[c[i][Len(c[i])]]
    <3>1. c[i][1] = i + 1 /\ e[i] = e[c[i][Len(c[i])]] /\ Len(c[i]) \in 1..Len(c[i])
      <4>1. Len(c[i]) \in 1..Len(c[i])
        BY <2>1, <2>5
      <4>. QED BY <2>5, <4>1 DEF Spanned
    <3>2. Open(i) <=> Open(c[i][Len(c[i])])
      BY <1>6, <1>7, <3>1
    <3>3. c[i][Len(c[i])] \in 1..n
      BY <1>6, <3>1
    <3>. QED BY <1>2, <3>1, <3>2, <3>3
  <2>. QED BY <2>1, <2>2, <2>3, <2>4, <2>5
<1>8. LET b == c2[top]
      IN  /\ \A k \in 1..Len(b) : b[k] > top /\ d2[b[k]] = d2[top] + 1
          /\ \A k \in 1..(Len(b) - 1) : b[k + 1] = f[b[k]] + 1
          /\ Len(b) > 0 /\ b[1] = top + 1 /\ f[top] = f[b[Len(b)]]
  <2>. DEFINE a == c[top]
              b == c2[top]
  <2>1. a \in Seq(1..n) /\ Len(a) \in Nat /\ b = Append(a, n + 1)
    BY <1>1, <1>3
  <2>2. Len(b) = Len(a) + 1 /\ b[Len(b)] = n + 1 /\ \A k \in 1..Len(a) : b[k] = a[k]
    BY <2>1
  <2>3. d2[top] = Len(o) /\ f[top] = n + 1
    BY <1>1, <1>2
  <2>4. \A k \in 1..Len(a) : a[k] > top /\ a[k] \in 1..n /\ d2[a[k]] = d2[top] + 1 /\ f[a[k]] = e[a[k]]
    <3>1. SUFFICES ASSUME NEW k \in 1..Len(a)
                   PROVE  a[k] > top /\ a[k] \in 1..n /\ d2[a[k]] = d2[top] + 1 /\ f[a[k]] = e[a[k]]
      OBVIOUS
    <3>2. a[k] \in 1..n /\ d[a[k]] = d[top] + 1 /\ ~ Open(a[k])
      BY <1>1, <1>6
    <3>3. a[k] > top
      BY <1>1 DEF Spanned
    <3>. QED BY <1>1, <1>2, <3>2, <3>3
  <2>5. /\ \A k \in 1..(Len(a) - 1) : a[k + 1] = e[a[k]] + 1
        /\ Len(a) = 0 => top = n
        /\ Len(a) > 0 => a[1] = top + 1 /\ e[a[Len(a)]] = n
    BY <1>1 DEF Spanned
  <2>. HIDE DEF a, b
  <2>6. ASSUME NEW k \in 1..Len(b) PROVE b[k] > top /\ d2[b[k]] = d2[top] + 1
    <3>1. CASE k = Len(b)
      BY <1>1, <2>2, <2>3, <3>1
    <3>2. CASE k # Len(b)
      BY <2>1, <2>2, <2>4, <3>2
    <3>. QED BY <3>1, <3>2
  <2>7. ASSUME NEW k \in 1..(Len(b) - 1) PROVE b[k + 1] = f[b[k]] + 1
    <3>1. CASE k = Len(a)
      <4>1. b[k + 1] = n + 1 /\ b[k] = a[k] /\ f[a[k]] = n /\ k \in 1..Len(a)
        <5>1. Len(a) \in 1..Len(a) /\ k + 1 = Len(b)
          BY <2>1, <2>2, <3>1
        <5>. QED BY <2>2, <2>4, <2>5, <3>1, <5>1
      <4>. QED BY <1>1, <4>1
    <3>2. CASE k # Len(a)
      <4>1. k \in 1..(Len(a) - 1) /\ k \in 1..Len(a) /\ k + 1 \in 1..Len(a)
        BY <2>1, <2>2, <3>2
      <4>2. b[k + 1] = a[k + 1] /\ b[k] = a[k] /\ f[a[k]] = e[a[k]]
        BY <2>2, <2>4, <4>1
      <4>3. a[k + 1] = e[a[k]] + 1
        BY <2>5, <4>1
      <4>. QED BY <4>2, <4>3
    <3>. QED BY <3>1, <3>2
  <2>8. Len(b) > 0 /\ b[1] = top + 1 /\ f[top] = f[b[Len(b)]]
    <3>1. CASE Len(a) = 0
      BY <1>2, <2>1, <2>2, <2>3, <2>5, <3>1
    <3>2. CASE Len(a) > 0
      BY <1>2, <2>1, <2>2, <2>3, <2>5, <3>2
    <3>. QED BY <2>1, <3>1, <3>2
  <2>. QED BY <2>6, <2>7, <2>8 DEF b
<1>9. Spanned(n + 1, c2, d2, f)
  <2>1. \A i \in 1..(n + 1) :
          /\ c2[i] \in Seq(1..(n + 1)) /\ d2[i] \in Nat /\ f[i] \in i..(n + 1)
          /\ \A k \in 1..Len(c2[i]) : c2[i][k] > i /\ d2[c2[i][k]] = d2[i] + 1
          /\ \A k \in 1..(Len(c2[i]) - 1) : c2[i][k + 1] = f[c2[i][k]] + 1
          /\ Len(c2[i]) = 0 => f[i] = i
          /\ Len(c2[i]) > 0 => c2[i][1] = i + 1 /\ f[i] = f[c2[i][Len(c2[i])]]
    <3>1. SUFFICES ASSUME NEW i \in 1..(n + 1)
                   PROVE  /\ \A k \in 1..Len(c2[i]) : c2[i][k] > i /\ d2[c2[i][k]] = d2[i] + 1
                          /\ \A k \in 1..(Len(c2[i]) - 1) : c2[i][k + 1] = f[c2[i][k]] + 1
                          /\ Len(c2[i]) = 0 => f[i] = i
                          /\ Len(c2[i]) > 0 => c2[i][1] = i + 1 /\ f[i] = f[c2[i][Len(c2[i])]]
      BY <1>2, <1>4
    <3>2. CASE i = n + 1
      <4>1. c2[i] = <<>> /\ Len(c2[i]) = 0 /\ f[i] = i
        BY <1>2, <3>2
      <4>. QED BY <4>1
    <3>3. CASE i = top
      <4>1. Len(c2[i]) # 0
        BY <1>8, <3>3
      <4>. QED BY <1>8, <3>3, <4>1
    <3>4. CASE i # n + 1 /\ i # top
      <4>1. i \in 1..n
        BY <1>1, <3>4
      <4>. QED BY <1>7, <3>4, <4>1
    <3>. QED BY <3>2, <3>3, <3>4
  <2>2. n + 1 \in Nat \ {0}
    BY <1>1
  <2>. QED BY <2>1, <2>2 DEF Spanned
<1>10. ASSUME NEW i \in 1..(n + 1), NEW k \in 1..Len(c2[i])
       PROVE  Open(c2[i][k]) \/ c2[i][k] = n + 1 => Open(i)
  <2>1. CASE i = n + 1
    <3>1. c2[i] = <<>>
      BY <2>1
    <3>. QED BY <3>1
  <2>2. CASE i = top
    BY <1>1, <2>2
  <2>3. CASE i # n + 1 /\ i # top
    <3>1. i \in 1..n /\ c2[i] = c[i]
      BY <1>1, <1>3, <2>3
    <3>2. c[i][k] \in 1..n /\ (~ Open(i) => ~ Open(c[i][k])) /\ n \in Nat
      BY <1>1, <1>6, <3>1
    <3>3. c[i][k] # n + 1
      BY <3>2
    <3>. QED BY <3>1, <3>2, <3>3
  <2>. QED BY <2>1, <2>2, <2>3
<1>11. /\ \A k \in 1..Len(o) : f[o[k]] = n + 1 /\ d2[o[k]] = k
       /\ \A k \in 1..(Len(o) - 1) : Len(c2[o[k]]) > 0 /\ o[k + 1] = c2[o[k]][Len(c2[o[k]])]
       /\ Len(c2[top]) > 0 /\ n + 1 = c2[top][Len(c2[top])]
       /\ 1..n \subseteq 1..(n + 1) /\ n + 1 \in 1..(n + 1)
       /\ o \in Seq(1..(n + 1))
  <2>1. \A k \in 1..Len(o) : f[o[k]] = n + 1 /\ d2[o[k]] = k
    <3>1. SUFFICES ASSUME NEW k \in 1..Len(o) PROVE f[o[k]] = n + 1 /\ d2[o[k]] = k
      OBVIOUS
    <3>2. o[k] \in 1..n /\ d[o[k]] = k /\ Open(o[k])
      BY <1>1 DEF Open
    <3>. QED BY <1>2, <3>2
  <2>2. ASSUME NEW k \in 1..(Len(o) - 1)
        PROVE  Len(c2[o[k]]) > 0 /\ o[k + 1] = c2[o[k]][Len(c2[o[k]])]
    <3>1. k \in 1..Len(o) /\ k # Len(o)
      <4>1. Len(o) \in Nat
        BY <1>1
      <4>. QED BY <4>1
    <3>2. o[k] \in 1..n /\ d[o[k]] = k
      BY <1>1, <3>1
    <3>3. o[k] # top
      <4>1. d[top] = Len(o)
        BY <1>1
      <4>. QED BY <3>1, <3>2, <4>1
    <3>4. Len(c[o[k]]) > 0 /\ o[k + 1] = c[o[k]][Len(c[o[k]])]
      BY DEF UnderWay
    <3>5. c2[o[k]] = c[o[k]]
      BY <1>3, <3>2, <3>3
    <3>. QED BY <3>4, <3>5
  <2>3. Len(c2[top]) > 0 /\ n + 1 = c2[top][Len(c2[top])]
    <3>1. c[top] \in Seq(1..n)
      BY <1>1
    <3>. QED BY <1>3, <3>1
  <2>4. 1..n \subseteq 1..(n + 1) /\ n + 1 \in 1..(n + 1)
    BY <1>1
  <2>5. o \in Seq(1..(n + 1))
    <3>1. o \in Seq(1..n)
      BY DEF UnderWay
    <3>. QED BY <2>4, <3>1, SeqMonotonic
  <2>. QED BY <2>1, <2>2, <2>3, <2>4, <2>5
<1>12. UnderWay(n + 1, c2, d2, f, o)
  <2>1. o \in Seq(1..(n + 1)) /\ Len(o) >= 1 /\ o[1] = 1
    BY <1>1, <1>11
  <2>2. \A i \in 1..(n + 1) : \A k \in 1..Len(c2[i]) :
          (\E m \in 1..Len(o) : c2[i][k] = o[m]) => \E m \in 1..Len(o) : i = o[m]
    BY <1>10 DEF Open
  <2>. QED BY <1>11, <2>1, <2>2 DEF UnderWay
<1>13. UnderWay(n + 1, c2, d2, f, Append(o, n + 1))
  <2>. DEFINE p == Append(o, n + 1)
  <2>1. /\ p \in Seq(1..(n + 1)) /\ Len(p) = Len(o) + 1 /\ p[Len(o) + 1] = n + 1
        /\ \A k \in 1..Len(o) : p[k] = o[k]
    BY <1>11
  <2>. HIDE DEF p
  <2>2. Len(p) >= 1 /\ p[1] = 1
    BY <1>1, <2>1
  <2>3. ASSUME NEW k \in 1..Len(p) PROVE f[p[k]] = n + 1 /\ d2[p[k]] = k
    <3>1. CASE k = Len(o) + 1
      BY <1>2, <2>1, <3>1
    <3>2. CASE k # Len(o) + 1
      <4>1. k \in 1..Len(o)
        BY <1>1, <2>1, <3>2
      <4>. QED BY <1>11, <2>1, <4>1
    <3>. QED BY <3>1, <3>2
  <2>4. ASSUME NEW k \in 1..(Len(p) - 1)
        PROVE  Len(c2[p[k]]) > 0 /\ p[k + 1] = c2[p[k]][Len(c2[p[k]])]
    <3>1. k \in 1..Len(o) /\ p[k] = o[k]
      BY <1>1, <2>1
    <3>2. CASE k = Len(o)
      <4>1. p[k] = top /\ p[k + 1] = n + 1
        BY <2>1, <3>1, <3>2 DEF top
      <4>. QED BY <1>11, <4>1
    <3>3. CASE k # Len(o)
      <4>1. k \in 1..(Len(o) - 1) /\ p[k + 1] = o[k + 1]
        <5>1. Len(o) \in Nat /\ k \in 1..(Len(o) - 1)
          BY <1>1, <3>1, <3>3
        <5>. QED BY <2>1, <5>1
      <4>. QED BY <1>11, <3>1, <4>1
    <3>. QED BY <3>2, <3>3
  <2>5. ASSUME NEW i \in 1..(n + 1), NEW k \in 1..Len(c2[i]), NEW m \in 1..Len(p), c2[i][k] = p[m]
        PROVE  \E l \in 1..Len(p) : i = p[l]
    <3>1. Open(c2[i][k]) \/ c2[i][k] = n + 1
      <4>1. Len(o) \in Nat
        BY <1>1
      <4>2. m = Len(o) + 1 \/ m \in 1..Len(o)
        BY <2>1, <4>1
      <4>. QED BY <2>1, <2>5, <4>2 DEF Open
    <3>2. PICK l \in 1..Len(o) : i = o[l]
      BY <1>10, <3>1 DEF Open
    <3>3. l \in 1..Len(p) /\ p[l] = o[l]
      BY <1>1, <2>1
    <3>. QED BY <3>2, <3>3
  <2>6. UnderWay(n + 1, c2, d2, f, p)
    BY <2>1, <2>2, <2>3, <2>4, <2>5 DEF UnderWay
  <2>. QED BY <2>6 DEF p
<1>. QED BY <1>9, <1>12, <1>13

\* The partial concatenations of m sequences.
Concatenations(g, s, m) ==
  /\ g = [k \in 1..m |-> g[k]] /\ g[1] = s[1]
  /\ \A k \in 1..(m - 1) : g[k + 1] = g[k] \o s[k + 1]

\* Flattening makes the last of them.
LEMMA FlattenIs ==
  ASSUME NEW m \in Nat \ {0}, NEW s, Len(s) = m, NEW g, Concatenations(g, s, m)
  PROVE  FlattenSeq(s) = g[m]
<1>. DEFINE Flattens(f) == f = [k \in 1..m |-> IF k = 1 THEN s[k] ELSE f[k - 1] \o s[k]]
            f == CHOOSE f : Flattens(f)
<1>1. FlattenSeq(s) = f[m]
  BY DEF FlattenSeq
<1>2. Flattens(g)
  <2>1. ASSUME NEW k \in 1..m PROVE g[k] = IF k = 1 THEN s[k] ELSE g[k - 1] \o s[k]
    <3>1. CASE k = 1
      BY <3>1 DEF Concatenations
    <3>2. CASE k # 1
      <4>1. k - 1 \in 1..(m - 1) /\ (k - 1) + 1 = k
        BY <3>2
      <4>2. g[(k - 1) + 1] = g[k - 1] \o s[(k - 1) + 1]
        BY <4>1 DEF Concatenations
      <4>. QED BY <3>2, <4>1, <4>2
    <3>. QED BY <3>1, <3>2
  <2>. QED BY <2>1 DEF Concatenations
<1>3. Flattens(f)
  BY <1>2
<1>. HIDE DEF f
<1>. DEFINE S == {k \in 1..m : f[k] # g[k]}
<1>4. SUFFICES ASSUME S # {} PROVE FALSE
  BY <1>1
<1>5. PICK k \in S : \A j \in S : k <= j
  <2>1. S \in SUBSET Nat
    OBVIOUS
  <2>. HIDE DEF S
  <2>. QED BY <1>4, <2>1, LeastNatural
<1>6. k \in 1..m /\ f[k] # g[k]
  OBVIOUS
<1>7. f[k] = IF k = 1 THEN s[k] ELSE f[k - 1] \o s[k]
  BY <1>3, <1>6
<1>8. g[k] = IF k = 1 THEN s[k] ELSE g[k - 1] \o s[k]
  BY <1>2, <1>6
<1>9. k # 1
  BY <1>6, <1>7, <1>8
<1>10. k - 1 \in 1..m /\ k - 1 \notin S
  BY <1>5, <1>6, <1>9
<1>11. f[k - 1] = g[k - 1]
  BY <1>10
<1>. QED BY <1>6, <1>7, <1>8, <1>9, <1>11

\* Spans that follow each other make up one.
LEMMA Adjacent ==
  ASSUME NEW n \in Nat, NEW i \in 1..n, NEW S, NEW z \in Seq(S), Len(z) = n,
         NEW x \in 1..n, x > i, NEW b \in x..n, NEW y \in (b + 1)..n
  PROVE  SubSeq(z, i + 1, b) \o SubSeq(z, b + 1, y) = SubSeq(z, i + 1, y)
<1>1. PICK a \in 1..(Len(z) + 1) : a = i + 1
  OBVIOUS
<1>2. b \in (a - 1)..Len(z) /\ y \in b..Len(z)
  BY <1>1
<1>. QED BY <1>1, <1>2, ConcatAdjacentSubSeq

\* The spans of z of the calls in b.
Spans(z, b, e) == [k \in 1..Len(b) |-> SubSeq(z, b[k], e[b[k]])]

\* The spans of the calls that i made make up the span of i below itself.
LEMMA SpansFlatten ==
  ASSUME NEW n, NEW c, NEW d, NEW e, Spanned(n, c, d, e), NEW i \in 1..n,
         NEW S, NEW z \in Seq(S), Len(z) = n
  PROVE  FlattenSeq(Spans(z, c[i], e)) = SubSeq(z, i + 1, e[i])
<1>. DEFINE m == Len(c[i])
            s == Spans(z, c[i], e)
            g == [k \in 1..m |-> SubSeq(z, i + 1, e[c[i][k]])]
<1>1. /\ n \in Nat /\ c[i] \in Seq(1..n) /\ m \in Nat /\ e[i] \in i..n
      /\ \A k \in 1..m : c[i][k] > i /\ c[i][k] \in 1..n /\ e[c[i][k]] \in c[i][k]..n
      /\ \A k \in 1..(m - 1) : c[i][k + 1] = e[c[i][k]] + 1
      /\ m = 0 => e[i] = i
      /\ m > 0 => c[i][1] = i + 1 /\ e[i] = e[c[i][m]]
  <2>1. n \in Nat /\ c[i] \in Seq(1..n) /\ m \in Nat /\ e[i] \in i..n
    BY DEF Spanned
  <2>2. \A k \in 1..m : c[i][k] \in 1..n
    BY <2>1, ElementOfSeq
  <2>3. \A k \in 1..m : c[i][k] > i /\ c[i][k] \in 1..n /\ e[c[i][k]] \in c[i][k]..n
    BY <2>1, <2>2 DEF Spanned
  <2>. QED BY <2>1, <2>3 DEF Spanned
<1>2. s = [k \in 1..m |-> SubSeq(z, c[i][k], e[c[i][k]])] /\ DOMAIN s = 1..m /\ Len(s) = m
  BY <1>1 DEF Spans
<1>. HIDE DEF s
<1>3. CASE m = 0
  <2>1. FlattenSeq(s) = s
    BY <1>2, <1>3 DEF FlattenSeq
  <2>2. s = <<>>
    BY <1>2, <1>3
  <2>3. SubSeq(z, i + 1, i) = <<>>
    BY SubSeqEmpty
  <2>. QED BY <1>1, <1>3, <2>1, <2>2, <2>3 DEF s
<1>4. CASE m # 0
  <2>1. 1 \in 1..m /\ m \in 1..m /\ m \in Nat \ {0}
    BY <1>1, <1>4
  <2>2. g[1] = s[1]
    BY <1>1, <1>2, <1>4, <2>1
  <2>3. ASSUME NEW k \in 1..(m - 1) PROVE g[k + 1] = g[k] \o s[k + 1]
    <3>1. k \in 1..m /\ k + 1 \in 1..m
      BY <1>1
    <3>2. /\ c[i][k] > i /\ c[i][k] \in 1..n /\ e[c[i][k]] \in c[i][k]..n
          /\ e[c[i][k + 1]] \in c[i][k + 1]..n /\ c[i][k + 1] \in 1..n
          /\ c[i][k + 1] = e[c[i][k]] + 1 /\ n \in Nat
      BY <1>1, <3>1
    <3>4. SubSeq(z, i + 1, e[c[i][k]]) \o SubSeq(z, e[c[i][k]] + 1, e[c[i][k + 1]])
            = SubSeq(z, i + 1, e[c[i][k + 1]])
      <4>1. e[c[i][k + 1]] \in (e[c[i][k]] + 1)..n
        BY <3>2
      <4>2. PICK x \in 1..n : x = c[i][k] /\ x > i
        BY <3>2
      <4>3. PICK b \in x..n : b = e[c[i][k]]
        BY <3>2, <4>2
      <4>4. PICK y \in (b + 1)..n : y = e[c[i][k + 1]]
        BY <4>1, <4>3
      <4>5. SubSeq(z, i + 1, b) \o SubSeq(z, b + 1, y) = SubSeq(z, i + 1, y)
        <5>1. n \in Nat /\ x > i /\ Len(z) = n
          BY <3>2, <4>2
        <5>. QED BY <5>1, Adjacent
      <4>. QED BY <4>3, <4>4, <4>5
    <3>5. g[k + 1] = SubSeq(z, i + 1, e[c[i][k + 1]]) /\ g[k] = SubSeq(z, i + 1, e[c[i][k]])
      BY <3>1
    <3>6. s[k + 1] = SubSeq(z, c[i][k + 1], e[c[i][k + 1]])
      BY <1>2, <3>1
    <3>. HIDE DEF g, m
    <3>. QED BY <3>2, <3>4, <3>5, <3>6
  <2>4. g = [k \in 1..m |-> g[k]] /\ g[m] = SubSeq(z, i + 1, e[c[i][m]])
    BY <2>1
  <2>5. e[i] = e[c[i][m]]
    BY <1>1, <1>4
  <2>. HIDE DEF g, m
  <2>7. Concatenations(g, s, m)
    BY <2>2, <2>3, <2>4 DEF Concatenations
  <2>6. FlattenSeq(s) = g[m]
    BY <1>2, <2>1, <2>7, FlattenIs
  <2>. QED BY <2>4, <2>5, <2>6 DEF s
<1>. QED BY <1>3, <1>4

CallsOf(t) == [i \in DOMAIN t |-> t[i].calls]
DepthsOf(q) == [i \in DOMAIN q |-> q[i].depth]

\* callTracer's nodes are the calls the EVM made.
TreeInv ==
  /\ tree \in Seq(CallNode) /\ made \in Seq(CallRow) /\ Len(tree) = Len(made)
  /\ \A i \in 1..Len(made) :
       made[i] = [kind |-> classifyOp(tree[i].type), from |-> tree[i].from, to |-> tree[i].to,
                  depth |-> made[i].depth]
  /\ made[1] = Call0(tree[1].to)
  /\ Len(open) = Depth
  /\ \E e : /\ Spanned(Len(made), CallsOf(tree), DepthsOf(made), e)
            /\ UnderWay(Len(made), CallsOf(tree), DepthsOf(made), e, open)

ShownRow == [kind : TraceKind, from : Address, to : Address, depth : Int]

\* The calls made, shown deeper by off.
Shifted(off) == [i \in 1..Len(made) |-> [made[i] EXCEPT !.depth = @ + off]]

\* The rows at other depths.
LEMMA ShiftedTyped ==
  ASSUME made \in Seq(CallRow), NEW off \in Int
  PROVE  /\ Shifted(off) \in Seq(ShownRow) /\ Len(Shifted(off)) = Len(made)
         /\ \A i \in 1..Len(made) : Shifted(off)[i] = [made[i] EXCEPT !.depth = @ + off]
<1>1. Len(made) \in Nat
  OBVIOUS
<1>2. ASSUME NEW i \in 1..Len(made) PROVE [made[i] EXCEPT !.depth = @ + off] \in ShownRow
  <2>1. made[i] \in CallRow
    BY ElementOfSeq
  <2>2. made[i].depth \in Int
    BY <2>1, TraceAssumption DEF CallRow
  <2>. QED BY <2>1, <2>2 DEF CallRow, ShownRow
<1>. QED BY <1>1, <1>2 DEF Shifted

\* Where i's row is shown at depth x, its calls' are at x + 1.
LEMMA RowAndCalls ==
  ASSUME TreeInv, NEW e, Spanned(Len(made), CallsOf(tree), DepthsOf(made), e),
         NEW i \in 1..Len(made), NEW x \in Nat,
         NEW w, \A j \in 1..Len(made), y \in Nat : w[j][y] = SubSeq(Shifted(y - made[j].depth), j, e[j])
  PROVE  <<NodeRow(i, x)>> \o FlattenSeq([k \in DOMAIN tree[i].calls |-> w[tree[i].calls[k]][x + 1]])
           = SubSeq(Shifted(x - made[i].depth), i, e[i])
<1>. DEFINE off == x - made[i].depth
            z == Shifted(off)
            calls == tree[i].calls
            s == Spans(z, calls, e)
            r == [k \in DOMAIN calls |-> w[calls[k]][x + 1]]
<1>1. /\ \A j \in 1..Len(made) : made[j] \in CallRow /\ made[j].depth \in Int
      /\ Len(made) \in Nat /\ DOMAIN tree = 1..Len(made) /\ DOMAIN made = 1..Len(made)
  <2>1. \A j \in 1..Len(made) : made[j] \in CallRow
    BY ElementOfSeq DEF TreeInv
  <2>2. \A j \in 1..Len(made) : made[j].depth \in Int
    BY <2>1, TraceAssumption DEF CallRow
  <2>. QED BY <2>1, <2>2 DEF TreeInv
<1>2. off \in Int
  BY <1>1
<1>3. z \in Seq(ShownRow) /\ Len(z) = Len(made) /\ z[i] = NodeRow(i, x)
  <2>1. /\ z \in Seq(ShownRow) /\ Len(z) = Len(made) /\ z[i] = [made[i] EXCEPT !.depth = @ + off]
    BY <1>2, ShiftedTyped DEF TreeInv
  <2>2. made[i].depth + off = x
    BY <1>1
  <2>3. made[i] = [kind |-> classifyOp(tree[i].type), from |-> tree[i].from, to |-> tree[i].to,
                   depth |-> made[i].depth]
    BY DEF TreeInv
  <2>4. [made[i] EXCEPT !.depth = @ + off] = NodeRow(i, x)
    BY <2>2, <2>3 DEF NodeRow
  <2>. QED BY <2>1, <2>4
<1>4. CallsOf(tree)[i] = calls /\ \A j \in 1..Len(made) : DepthsOf(made)[j] = made[j].depth
  BY <1>1 DEF CallsOf, DepthsOf
<1>5. /\ calls \in Seq(1..Len(made)) /\ DOMAIN calls = 1..Len(calls) /\ e[i] \in i..Len(made)
      /\ \A k \in 1..Len(calls) : calls[k] \in 1..Len(made) /\ made[calls[k]].depth = made[i].depth + 1
  <2>1. calls \in Seq(1..Len(made)) /\ e[i] \in i..Len(made)
    BY <1>4 DEF Spanned
  <2>2. \A k \in 1..Len(calls) : calls[k] \in 1..Len(made)
    BY <2>1, ElementOfSeq
  <2>3. ASSUME NEW k \in 1..Len(calls) PROVE made[calls[k]].depth = made[i].depth + 1
    <3>1. DepthsOf(made)[calls[k]] = DepthsOf(made)[i] + 1
      BY <1>4 DEF Spanned
    <3>2. DepthsOf(made)[calls[k]] = made[calls[k]].depth /\ DepthsOf(made)[i] = made[i].depth
      BY <1>4, <2>2
    <3>. QED BY <3>1, <3>2
  <2>4. DOMAIN calls = 1..Len(calls)
    BY <2>1
  <2>. HIDE DEF calls
  <2>. QED BY <2>1, <2>2, <2>3, <2>4
<1>. HIDE DEF calls
<1>6. r = s
  <2>1. ASSUME NEW k \in 1..Len(calls) PROVE w[calls[k]][x + 1] = SubSeq(z, calls[k], e[calls[k]])
    <3>1. (x + 1) - made[calls[k]].depth = off
      <4>1. made[i].depth \in Int /\ made[calls[k]].depth = made[i].depth + 1
        BY <1>1, <1>5
      <4>2. PICK a \in Int : a = made[i].depth
        BY <4>1
      <4>3. off = x - a /\ made[calls[k]].depth = a + 1
        BY <4>1, <4>2
      <4>. HIDE DEF off
      <4>4. (x + 1) - (a + 1) = x - a
        BY <4>2, SMTT(30)
      <4>. QED BY <4>3, <4>4
    <3>2. calls[k] \in 1..Len(made) /\ x + 1 \in Nat
      BY <1>5
    <3>3. w[calls[k]][x + 1] = SubSeq(Shifted((x + 1) - made[calls[k]].depth), calls[k], e[calls[k]])
      BY <3>2
    <3>. HIDE DEF off
    <3>. QED BY <3>1, <3>3
  <2>. QED BY <1>5, <2>1 DEF Spans
<1>. HIDE DEF z, off
<1>7. FlattenSeq(s) = SubSeq(z, i + 1, e[i])
  <2>1. FlattenSeq(Spans(z, CallsOf(tree)[i], e)) = SubSeq(z, i + 1, e[i])
    BY <1>3, SpansFlatten
  <2>. QED BY <1>4, <2>1
<1>8. <<NodeRow(i, x)>> = SubSeq(z, i, i)
  <2>1. /\ SubSeq(z, i, i) \in Seq(ShownRow) /\ Len(SubSeq(z, i, i)) = 1 /\ SubSeq(z, i, i)[1] = z[i]
    <3>1. \A j \in i..i : z[j] \in ShownRow
      BY <1>1, <1>3, ElementOfSeq
    <3>. QED BY <3>1, SubSeqProperties
  <2>2. NodeRow(i, x) \in ShownRow
    BY <1>1, <1>3, ElementOfSeq
  <2>. QED BY <1>3, <2>1, <2>2, SeqEqual
<1>9. SubSeq(z, i, i) \o SubSeq(z, i + 1, e[i]) = SubSeq(z, i, e[i])
  <2>1. i \in 1..(Len(z) + 1) /\ i \in (i - 1)..Len(z) /\ e[i] \in i..Len(z)
    BY <1>1, <1>3, <1>5
  <2>. QED BY <1>3, <2>1, ConcatAdjacentSubSeq
<1>. HIDE DEF s, r, calls
<1>10. <<NodeRow(i, x)>> \o FlattenSeq(r) = SubSeq(z, i, e[i])
  BY <1>6, <1>7, <1>8, <1>9
<1>. QED BY <1>10 DEF r, z, off, calls

\* The rows built from callTracer's tree are the calls made, and, counted from the
\* transaction's own call as 0, their depths below it.
LEMMA WalkShows ==
  ASSUME TreeInv, NEW x \in {0, 1}
  PROVE  callTraceToEntries(1, x) = Shifted(x - 1)
<1>. DEFINE Body(f, i, y) == <<NodeRow(i, y)>>
                \o FlattenSeq([k \in DOMAIN tree[i].calls |-> f[tree[i].calls[k]][y + 1]])
            Unfolds(f) == f = [i \in DOMAIN tree |-> [y \in Nat |-> Body(f, i, y)]]
            g == CHOOSE f : Unfolds(f)
<1>1. callTraceToEntries(1, x) = g[1][x]
  BY DEF callTraceToEntries
<1>2. PICK e : /\ Spanned(Len(made), CallsOf(tree), DepthsOf(made), e)
               /\ UnderWay(Len(made), CallsOf(tree), DepthsOf(made), e, open)
  BY DEF TreeInv
<1>. DEFINE w == [i \in DOMAIN tree |-> [y \in Nat |-> SubSeq(Shifted(y - made[i].depth), i, e[i])]]
<1>3. DOMAIN tree = 1..Len(made) /\ Len(made) \in Nat /\ made \in Seq(CallRow)
  BY DEF TreeInv
<1>4. \A i \in 1..Len(made), y \in Nat : w[i][y] = SubSeq(Shifted(y - made[i].depth), i, e[i])
  BY <1>3
<1>5. \A i \in 1..Len(made), y \in Nat : w[i][y] = Body(w, i, y)
  <2>1. SUFFICES ASSUME NEW i \in 1..Len(made), NEW y \in Nat PROVE w[i][y] = Body(w, i, y)
    OBVIOUS
  <2>2. w[i][y] = SubSeq(Shifted(y - made[i].depth), i, e[i])
    BY <1>4
  <2>. HIDE DEF w
  <2>. QED BY <1>2, <1>4, <2>2, RowAndCalls
<1>6. Unfolds(w)
  <2>. HIDE DEF Body
  <2>. QED BY <1>3, <1>5
<1>7. Unfolds(g)
  <2>. HIDE DEF Unfolds, w
  <2>. QED BY <1>6
<1>. HIDE DEF g, w
<1>8. \A i \in 1..Len(made), y \in Nat : g[i][y] = Body(g, i, y)
  <2>. HIDE DEF Body
  <2>1. \A i \in 1..Len(made) : g[i] = [y \in Nat |-> Body(g, i, y)]
    BY <1>3, <1>7
  <2>. QED BY <2>1
\* No table but w: it says what a node has of what later nodes have.
<1>9. g[1][x] = w[1][x]
  <2>. DEFINE Differs(i) == \E y \in Nat : g[i][y] # w[i][y]
              S == {j \in 0..Len(made) - 1 : Differs(Len(made) - j)}
  <2>1. SUFFICES ASSUME S # {} PROVE FALSE
    <3>1. 1 \in 1..Len(made) /\ Len(made) - 1 \in 0..Len(made) - 1 /\ Len(made) - (Len(made) - 1) = 1
      BY <1>2, <1>3 DEF Spanned
    <3>2. x \in Nat
      OBVIOUS
    <3>3. ~ Differs(1)
      <4>1. Differs(Len(made) - (Len(made) - 1)) => Len(made) - 1 \in S
        BY <3>1
      <4>2. S = {} => ~ Differs(Len(made) - (Len(made) - 1))
        <5>. HIDE DEF S, Differs
        <5>. QED BY <4>1
      <4>. HIDE DEF Differs
      <4>. QED BY <3>1, <4>2
    <3>. QED BY <3>2, <3>3
  <2>2. PICK j \in S : \A l \in S : j <= l
    <3>1. S \in SUBSET Nat
      BY <1>3
    <3>. HIDE DEF S
    <3>. QED BY <2>1, <3>1, LeastNatural
  <2>3. PICK i \in 1..Len(made) : i = Len(made) - j /\ Differs(i)
    BY <1>3, <2>2
  <2>4. ASSUME NEW k \in 1..Len(made), k > i, NEW y \in Nat PROVE g[k][y] = w[k][y]
    <3>0. PICK n \in Nat : n = Len(made)
      BY <1>3
    <3>1. PICK l \in 0..n - 1 : l = n - k /\ n - l = k
      BY <3>0
    <3>2. l \notin S
      <4>1. ~ (j <= l)
        <5>1. j \in 0..n - 1 /\ i = n - j
          BY <2>3, <3>0
        <5>. QED BY <2>4, <3>0, <3>1, <5>1
      <4>. HIDE DEF S
      <4>. QED BY <2>2, <4>1
    <3>. QED BY <3>0, <3>1, <3>2
  <2>5. PICK y \in Nat : g[i][y] # w[i][y]
    BY <2>3
  <2>6. \A k \in DOMAIN tree[i].calls : tree[i].calls[k] \in 1..Len(made) /\ tree[i].calls[k] > i
    <3>1. CallsOf(tree)[i] = tree[i].calls
      BY <1>3 DEF CallsOf
    <3>2. tree[i].calls \in Seq(1..Len(made))
      BY <1>2, <3>1 DEF Spanned
    <3>3. \A k \in 1..Len(tree[i].calls) : tree[i].calls[k] \in 1..Len(made)
      BY <3>2, ElementOfSeq
    <3>4. \A k \in 1..Len(tree[i].calls) : tree[i].calls[k] > i
      BY <1>2, <3>1 DEF Spanned
    <3>5. DOMAIN tree[i].calls = 1..Len(tree[i].calls)
      BY <3>2
    <3>. QED BY <3>3, <3>4, <3>5
  <2>7. \A k \in DOMAIN tree[i].calls : g[tree[i].calls[k]][y + 1] = w[tree[i].calls[k]][y + 1]
    BY <2>4, <2>6
  <2>8. Body(g, i, y) = Body(w, i, y)
    BY <2>7
  <2>. HIDE DEF Body
  <2>. QED BY <1>5, <1>8, <2>5, <2>8
<1>10. w[1][x] = SubSeq(Shifted(x - 1), 1, Len(made))
  <2>1. 1 \in 1..Len(made) /\ x \in Nat /\ made[1].depth = 1
    BY <1>2, <1>3 DEF Spanned, TreeInv, Call0
  <2>2. 1 \in 1..Len(open) /\ open[1] = 1
    BY <1>2 DEF UnderWay
  <2>3. e[open[1]] = Len(made)
    BY <1>2, <2>2 DEF UnderWay
  <2>. QED BY <1>4, <2>1, <2>2, <2>3
<1>11. SubSeq(Shifted(x - 1), 1, Len(made)) = Shifted(x - 1)
  <2>. DEFINE z == Shifted(x - 1)
  <2>1. z \in Seq(ShownRow) /\ Len(z) = Len(made)
    BY <1>3, ShiftedTyped
  <2>. HIDE DEF z
  <2>2. \A i \in 1..Len(made) : z[i] \in ShownRow
    BY <2>1, ElementOfSeq
  <2>3. /\ SubSeq(z, 1, Len(made)) \in Seq(ShownRow)
        /\ Len(SubSeq(z, 1, Len(made))) = IF 1 <= Len(made) THEN Len(made) - 1 + 1 ELSE 0
        /\ \A i \in 1..(Len(made) - 1 + 1) : SubSeq(z, 1, Len(made))[i] = z[1 + i - 1]
    BY <1>3, <2>2, SubSeqProperties
  <2>4. Len(SubSeq(z, 1, Len(made))) = Len(made) /\ \A i \in 1..Len(made) : SubSeq(z, 1, Len(made))[i] = z[i]
    BY <1>3, <2>3
  <2>5. SubSeq(z, 1, Len(made)) = z
    BY <2>1, <2>3, <2>4, SeqEqual
  <2>. QED BY <2>5 DEF z
<1>. QED BY <1>1, <1>9, <1>10, <1>11

(***************************************************************************)
(* The page.  Logged relates the walk's rows to the calls of the EVM,      *)
(* TreeInv callTracer's tree, so each way to build a page shows the same.  *)
(***************************************************************************)

\* The rows of the walk are the calls but the transaction's own, one level higher.
Logged ==
  /\ Len(made) = Len(log) + 1
  /\ \A i \in 1..Len(log) : log[i] = [made[i + 1] EXCEPT !.depth = @ - 1]

ViewsTyped ==
  /\ log \in Seq([kind : TraceKind, from : Address, to : Address, depth : 1..MaxDepth])
  /\ cache \in [opcodes : BOOLEAN, calls : BOOLEAN]
  /\ page.source \in {"opcodes", "calls", None} /\ page.known \in BOOLEAN
  /\ page.rows \in Seq(CallRow) /\ page.addresses \subseteq Contract

\* No page is opened, and nothing cached, before the transaction has ended.
Unopened == outcome = "running" => page = NoPage /\ cache = NoTrace

\* What a call adds to the tree, and to the calls made.
LEMMA TracedKeeps ==
  ASSUME TreeInv, FramesTyped, Framed, NEW op \in Kind \cup {"CALL"}, NEW to \in Contract,
         tree' = Traced(op, to), made' = Made(op, to)
  PROVE  /\ tree' \in Seq(CallNode) /\ made' \in Seq(CallRow) /\ Len(tree') = Len(made')
         /\ Len(made') = Len(made) + 1 /\ \A i \in 1..Len(made) : made'[i] = made[i]
         /\ made'[Len(made) + 1] = [kind |-> classifyOp(op), from |-> Top.owner, to |-> to, depth |-> Depth + 1]
         /\ \A i \in 1..Len(made') :
              made'[i] = [kind |-> classifyOp(tree'[i].type), from |-> tree'[i].from, to |-> tree'[i].to,
                          depth |-> made'[i].depth]
         /\ made'[1] = Call0(tree'[1].to)
         /\ \E e : /\ Spanned(Len(made'), CallsOf(tree'), DepthsOf(made'), e)
                   /\ UnderWay(Len(made'), CallsOf(tree'), DepthsOf(made'), e, open)
                   /\ UnderWay(Len(made'), CallsOf(tree'), DepthsOf(made'), e, Append(open, Len(tree) + 1))
<1>. DEFINE n == Len(made)
            top == open[Len(open)]
            caller == [tree[top] EXCEPT !.calls = Append(@, n + 1)]
            node == Node(op, Top.owner, to)
            row == [kind |-> classifyOp(op), from |-> Top.owner, to |-> to, depth |-> Depth + 1]
            grown == [tree EXCEPT ![top] = caller]
<1>1. PICK e : Spanned(n, CallsOf(tree), DepthsOf(made), e) /\ UnderWay(n, CallsOf(tree), DepthsOf(made), e, open)
  BY DEF TreeInv
<1>2. /\ tree \in Seq(CallNode) /\ Len(tree) = n /\ made \in Seq(CallRow) /\ n \in Nat /\ n >= 1
      /\ Len(open) = Depth /\ made[1] = Call0(tree[1].to) /\ open \in Seq(1..n) /\ Len(open) >= 1
  BY <1>1 DEF TreeInv, Spanned, UnderWay
<1>3. top \in 1..n
  BY <1>2, ElementOfSeq
<1>4. /\ Top.owner \in Contract /\ Depth \in 1..MaxDepth /\ MaxDepth \in Nat
      /\ op \in {"CALL", "DELEGATECALL", "CALLCODE", "CREATE"}
  BY TopTyped, TraceAssumption DEF FramesTyped, Kind
<1>5. row \in CallRow /\ node \in CallNode /\ node.calls = <<>>
  <2>1. classifyOp(op) \in TraceKind
    BY <1>4 DEF classifyOp, TraceKind
  <2>2. Depth + 1 \in 1..(MaxDepth + 1) /\ Top.owner \in Address /\ to \in Address
    BY <1>4 DEF Address
  <2>3. op \in Kind
    BY DEF Kind
  <2>4. <<>> \in Seq(Nat)
    OBVIOUS
  <2>. QED BY <2>1, <2>2, <2>3, <2>4 DEF CallRow, CallNode, Node
<1>6. tree[top] \in CallNode /\ tree[top].calls \in Seq(Nat)
  <2>1. tree[top] \in CallNode
    BY <1>2, <1>3, ElementOfSeq
  <2>. QED BY <2>1 DEF CallNode
<1>7. /\ caller \in CallNode /\ caller.calls = Append(tree[top].calls, n + 1)
      /\ caller.type = tree[top].type /\ caller.from = tree[top].from /\ caller.to = tree[top].to
  <2>1. Append(tree[top].calls, n + 1) \in Seq(Nat)
    BY <1>2, <1>6
  <2>. QED BY <1>6, <2>1 DEF CallNode
<1>8. tree' = Append(grown, node) /\ made' = Append(made, row)
  BY <1>2 DEF Traced, Made, Last
<1>. HIDE DEF caller, node, row
<1>9. grown \in Seq(CallNode) /\ Len(grown) = n /\ grown[top] = caller
      /\ \A i \in 1..n : i # top => grown[i] = tree[i]
  BY <1>2, <1>3, <1>7
<1>. HIDE DEF grown
<1>10. /\ tree' \in Seq(CallNode) /\ Len(tree') = n + 1 /\ tree'[n + 1] = node /\ tree'[top] = caller
       /\ \A i \in 1..n : i # top => tree'[i] = tree[i]
  BY <1>2, <1>3, <1>5, <1>8, <1>9
<1>11. /\ made' \in Seq(CallRow) /\ Len(made') = n + 1 /\ made'[n + 1] = row
       /\ \A i \in 1..n : made'[i] = made[i]
  BY <1>2, <1>5, <1>8
<1>12. ASSUME NEW i \in 1..(n + 1)
       PROVE  made'[i] = [kind |-> classifyOp(tree'[i].type), from |-> tree'[i].from, to |-> tree'[i].to,
                          depth |-> made'[i].depth]
  <2>1. CASE i = n + 1
    BY <1>10, <1>11, <2>1 DEF node, row, Node
  <2>2. CASE i # n + 1
    <3>1. i \in 1..n /\ made'[i] = made[i]
      BY <1>2, <1>11, <2>2
    <3>2. tree'[i].type = tree[i].type /\ tree'[i].from = tree[i].from /\ tree'[i].to = tree[i].to
      BY <1>7, <1>10, <3>1
    <3>3. made[i] = [kind |-> classifyOp(tree[i].type), from |-> tree[i].from, to |-> tree[i].to,
                     depth |-> made[i].depth]
      BY <3>1 DEF TreeInv
    <3>. QED BY <3>1, <3>2, <3>3
  <2>. QED BY <2>1, <2>2
<1>13. made'[1] = Call0(tree'[1].to)
  <2>1. 1 \in 1..n /\ made'[1] = made[1]
    BY <1>2, <1>11
  <2>2. tree'[1].to = tree[1].to
    BY <1>7, <1>10, <2>1
  <2>. QED BY <1>2, <2>1, <2>2
<1>14. /\ CallsOf(tree')[n + 1] = <<>> /\ CallsOf(tree')[top] = Append(CallsOf(tree)[top], n + 1)
       /\ \A i \in 1..n : i # top => CallsOf(tree')[i] = CallsOf(tree)[i]
  <2>1. \A i \in 1..(n + 1) : CallsOf(tree')[i] = tree'[i].calls
    BY <1>2, <1>10 DEF CallsOf
  <2>2. \A i \in 1..n : CallsOf(tree)[i] = tree[i].calls
    BY <1>2 DEF CallsOf
  <2>3. n + 1 \in 1..(n + 1) /\ \A i \in 1..n : i \in 1..(n + 1)
    BY <1>2
  <2>4. CallsOf(tree')[n + 1] = <<>>
    BY <1>5, <1>10, <2>1, <2>3
  <2>5. CallsOf(tree')[top] = Append(CallsOf(tree)[top], n + 1)
    BY <1>3, <1>7, <1>10, <2>1, <2>2, <2>3
  <2>6. \A i \in 1..n : i # top => CallsOf(tree')[i] = CallsOf(tree)[i]
    BY <1>10, <2>1, <2>2, <2>3
  <2>. QED BY <2>4, <2>5, <2>6
<1>15. DepthsOf(made')[n + 1] = Len(open) + 1 /\ \A i \in 1..n : DepthsOf(made')[i] = DepthsOf(made)[i]
  <2>1. \A i \in 1..(n + 1) : DepthsOf(made')[i] = made'[i].depth
    BY <1>2, <1>11 DEF DepthsOf
  <2>2. \A i \in 1..n : DepthsOf(made)[i] = made[i].depth
    BY <1>2 DEF DepthsOf
  <2>3. row.depth = Len(open) + 1
    BY <1>2 DEF row
  <2>4. n + 1 \in 1..(n + 1) /\ \A i \in 1..n : i \in 1..(n + 1)
    BY <1>2
  <2>. QED BY <1>11, <2>1, <2>2, <2>3, <2>4
<1>16. \E f : /\ Spanned(n + 1, CallsOf(tree'), DepthsOf(made'), f)
              /\ UnderWay(n + 1, CallsOf(tree'), DepthsOf(made'), f, open)
              /\ UnderWay(n + 1, CallsOf(tree'), DepthsOf(made'), f, Append(open, n + 1))
  BY <1>1, <1>14, <1>15, CallSpans
<1>. QED BY <1>2, <1>10, <1>11, <1>12, <1>13, <1>16 DEF row

\* Entering a frame: the call is under way.
LEMMA CallKeepsTree ==
  ASSUME TreeInv, TypeInv, NEW op \in Kind, NEW to \in Contract, NEW g \in 1..Gas, ViewedCall(op, to, g)
  PROVE  TreeInv'
<1>1. FramesTyped /\ Framed
  BY DEF TypeInv, FramesTyped
<1>2. tree' = Traced(op, to) /\ made' = Made(op, to) /\ open' = Append(open, Len(tree) + 1)
  BY DEF ViewedCall
<1>3. Len(open') = Depth'
  <2>1. PICK p \in Seq(TracedFrame) : p = Spent(1 + g) /\ Len(p) = Depth
    <3>1. 1 + g \in Int
      BY TraceAssumption
    <3>. QED BY <1>1, <3>1, SpentMakes
  <2>2. \E f : frames' = Append(p, f)
    BY <2>1 DEF ViewedCall, Call
  <2>3. Depth' = Depth + 1
    BY <2>1, <2>2 DEF Depth
  <2>4. \E n : open \in Seq(1..n)
    BY DEF TreeInv, UnderWay
  <2>5. Len(open') = Len(open) + 1
    BY <1>2, <2>4
  <2>. QED BY <2>3, <2>5 DEF TreeInv
<1>. QED BY <1>1, <1>2, <1>3, TracedKeeps DEF TreeInv

\* A call of an account is over at once.
LEMMA PlainKeepsTree ==
  ASSUME TreeInv, TypeInv, NEW to \in Contract, NEW g \in 1..Gas, ViewedPlain(to, g)
  PROVE  TreeInv'
<1>1. FramesTyped /\ Framed
  BY DEF TypeInv, FramesTyped
<1>2. tree' = Traced("CALL", to) /\ made' = Made("CALL", to) /\ open' = open
  BY DEF ViewedPlain
<1>3. Depth' = Depth
  <2>1. Len(Spent(1)) = Depth /\ frames' = Spent(1)
    BY <1>1, SpentMakes DEF ViewedPlain, CallPlain
  <2>. QED BY <2>1 DEF Depth
<1>. QED BY <1>1, <1>2, <1>3, TracedKeeps DEF TreeInv

\* A frame that ends leaves the tree as it is.
LEMMA EndKeepsTree ==
  ASSUME TreeInv, TypeInv, ViewedEnd
  PROVE  TreeInv'
<1>1. FramesTyped /\ Framed /\ Top.gas \in Int
  BY TopTyped DEF TypeInv, FramesTyped
<1>2. UNCHANGED <<tree, made>> /\ open' = IF Depth > 1 THEN Front(open) ELSE open
  BY DEF ViewedEnd
<1>3. \/ Depth > 1 /\ Depth' = Depth - 1
      \/ Depth = 1 /\ Depth' = 1
  <2>1. \E left \in Int, end \in Outcome : Leave(left, end)
    BY <1>1 DEF ViewedEnd, Return, Revert, Halt, Outcome
  <2>. QED BY <1>1, <2>1, LeaveMakes DEF Depth
<1>4. PICK e : /\ Spanned(Len(made), CallsOf(tree), DepthsOf(made), e)
               /\ UnderWay(Len(made), CallsOf(tree), DepthsOf(made), e, open)
  BY DEF TreeInv
<1>5. Len(open') = Depth' /\ UnderWay(Len(made), CallsOf(tree), DepthsOf(made), e, open')
  <2>1. CASE Depth > 1
    <3>1. Len(open) > 1 /\ Len(open) = Depth
      BY <2>1 DEF TreeInv
    <3>2. /\ UnderWay(Len(made), CallsOf(tree), DepthsOf(made), e, Front(open))
          /\ Len(Front(open)) = Len(open) - 1
      BY <1>4, <3>1, ReturnSpans
    <3>. QED BY <1>2, <1>3, <2>1, <3>1, <3>2
  <2>2. CASE ~ (Depth > 1)
    BY <1>2, <1>3, <1>4, <2>2 DEF TreeInv
  <2>. QED BY <2>1, <2>2
<1>. QED BY <1>2, <1>4, <1>5 DEF TreeInv

\* The tree of the transaction's own call.
LEMMA TreeInit == ViewsInit => TreeInv
<1>. SUFFICES ASSUME ViewsInit PROVE TreeInv
  OBVIOUS
<1>1. PICK root \in Contract : frames = <<[owner |-> root, gas |-> Gas, entry |-> storage]>>
  BY DEF ViewsInit, Init
<1>. DEFINE node == Node("CALL", Sender, root)
            row == Call0(root)
<1>2. frames[1].owner = root /\ Depth = 1
  BY <1>1 DEF Depth
<1>3. tree = <<node>> /\ made = <<row>> /\ open = <<1>>
  BY <1>2 DEF ViewsInit
<1>4. node \in CallNode /\ node.calls = <<>> /\ row \in CallRow /\ row.depth = 1
  <2>1. None \in Address /\ root \in Address /\ 1 \in 1..(MaxDepth + 1)
    BY TraceAssumption DEF Address
  <2>. QED BY <2>1 DEF Node, CallNode, Kind, Sender, Call0, CallRow, TraceKind
<1>5. row = [kind |-> classifyOp(node.type), from |-> node.from, to |-> node.to, depth |-> row.depth]
      /\ row = Call0(node.to)
  BY DEF Node, Call0, classifyOp
<1>. HIDE DEF node, row
<1>6. tree \in Seq(CallNode) /\ made \in Seq(CallRow) /\ Len(tree) = 1 /\ Len(made) = 1 /\ Len(open) = 1
  BY <1>3, <1>4
<1>7. \A i \in 1..1 : i = 1
  OBVIOUS
<1>8. CallsOf(tree) = [i \in 1..1 |-> <<>>] /\ DepthsOf(made) = [i \in 1..1 |-> 1]
  BY <1>3, <1>4, <1>7 DEF CallsOf, DepthsOf
<1>9. \E e : /\ Spanned(1, CallsOf(tree), DepthsOf(made), e)
             /\ UnderWay(1, CallsOf(tree), DepthsOf(made), e, open)
  BY <1>3, <1>8, OneSpans
<1>. QED BY <1>2, <1>3, <1>5, <1>6, <1>7, <1>9 DEF TreeInv

\* Of the walk's rows, whatever the programs call.
LEMMA EmittedTyped ==
  ASSUME TypeInv, ViewsTyped, NEW op \in Kind \cup {"CALL"}, NEW to \in Contract, log' = Emitted(op, to)
  PROVE  /\ log' \in Seq([kind : TraceKind, from : Address, to : Address, depth : 1..MaxDepth])
         /\ Len(log') = Len(log) + 1 /\ \A i \in 1..Len(log) : log'[i] = log[i]
         /\ op # "CREATE" => log'[Len(log) + 1] = CallEntry(op, to)
<1>1. /\ Context \in Contract /\ Depth \in 1..MaxDepth
      /\ op \in {"CALL", "DELEGATECALL", "CALLCODE", "CREATE"}
  BY TopTyped, WalkTyped, TraceAssumption DEF TypeInv, FramesTyped, Kind
<1>2. classifyOp(op) \in TraceKind
  BY <1>1 DEF classifyOp, TraceKind
<1>. DEFINE Emits == [kind : TraceKind, from : Address, to : Address, depth : 1..MaxDepth]
            row == IF op = "CREATE" THEN [CallEntry(op, None) EXCEPT !.from = None] ELSE CallEntry(op, to)
<1>3. row \in Emits
  BY <1>1, <1>2 DEF CallEntry, Address
<1>4. log' = Append(log, row) /\ log \in Seq(Emits)
  BY DEF Emitted, ViewsTyped
<1>5. op # "CREATE" => row = CallEntry(op, to)
  OBVIOUS
<1>. HIDE DEF row, Emits
<1>6. log' \in Seq(Emits) /\ Len(log') = Len(log) + 1 /\ log'[Len(log) + 1] = row
      /\ \A i \in 1..Len(log) : log'[i] = log[i]
  BY <1>3, <1>4
<1>. QED BY <1>5, <1>6 DEF Emits

\* The rows of the opcode trace under the transaction's own are the calls made.
LEMMA LogIsMade ==
  ASSUME TreeInv, Logged, ViewsTyped
  PROVE  <<made[1]>> \o Deeper(log) = made
<1>. DEFINE d == Deeper(log)
<1>1. made \in Seq(CallRow) /\ Len(made) = Len(log) + 1 /\ Len(log) \in Nat /\ DOMAIN log = 1..Len(log)
  BY DEF TreeInv, Logged, ViewsTyped
<1>2. ASSUME NEW i \in 1..Len(log) PROVE [log[i] EXCEPT !.depth = @ + 1] = made[i + 1]
  <2>1. i + 1 \in 1..Len(made)
    BY <1>1
  <2>2. made[i + 1] \in CallRow
    BY <1>1, <2>1, ElementOfSeq
  <2>3. log[i] = [made[i + 1] EXCEPT !.depth = @ - 1]
    BY DEF Logged
  <2>. DEFINE m == made[i + 1]
  <2>4. m \in CallRow /\ log[i] = [m EXCEPT !.depth = @ - 1]
    BY <2>2, <2>3
  <2>. HIDE DEF m
  <2>5. PICK n \in Int : n = m.depth
    BY <2>4, TraceAssumption DEF CallRow
  <2>6. (n - 1) + 1 = n
    OBVIOUS
  <2>7. [log[i] EXCEPT !.depth = @ + 1] = [m EXCEPT !.depth = n]
    BY <2>4, <2>5, <2>6 DEF CallRow
  <2>8. [m EXCEPT !.depth = n] = m
    BY <2>4, <2>5 DEF CallRow
  <2>. QED BY <2>7, <2>8 DEF m
<1>3. Len(d) = Len(log) /\ \A i \in 1..Len(log) : d[i] = made[i + 1] /\ d[i] \in CallRow
  <2>1. d = [i \in 1..Len(log) |-> [log[i] EXCEPT !.depth = @ + 1]]
    BY <1>1 DEF Deeper
  <2>2. \A i \in 1..Len(log) : d[i] = made[i + 1]
    BY <1>2, <2>1
  <2>3. \A i \in 1..Len(log) : i + 1 \in 1..Len(made)
    BY <1>1
  <2>4. \A i \in 1..Len(log) : made[i + 1] \in CallRow
    BY <1>1, <2>3, ElementOfSeq
  <2>5. Len(d) = Len(log)
    BY <1>1, <2>1
  <2>. HIDE DEF d
  <2>. QED BY <2>2, <2>4, <2>5
<1>4. d \in Seq(CallRow)
  <2>1. d = [i \in 1..Len(log) |-> d[i]]
    BY <1>1 DEF Deeper
  <2>. HIDE DEF d
  <2>. QED BY <1>1, <1>3, <2>1
<1>. HIDE DEF d
<1>5. made[1] \in CallRow /\ <<made[1]>> \in Seq(CallRow) /\ Len(<<made[1]>>) = 1 /\ <<made[1]>>[1] = made[1]
  <2>1. 1 \in 1..Len(made)
    BY <1>1
  <2>. QED BY <1>1, <2>1, ElementOfSeq
<1>6. /\ <<made[1]>> \o d \in Seq(CallRow) /\ Len(<<made[1]>> \o d) = 1 + Len(log)
      /\ \A i \in 1..(1 + Len(log)) : (<<made[1]>> \o d)[i] = IF i <= 1 THEN <<made[1]>>[i] ELSE d[i - 1]
  BY <1>3, <1>4, <1>5, ConcatProperties
<1>7. ASSUME NEW i \in 1..(1 + Len(log)) PROVE (<<made[1]>> \o d)[i] = made[i]
  <2>1. CASE i = 1
    BY <1>5, <1>6, <2>1
  <2>2. CASE i # 1
    <3>1. i - 1 \in 1..Len(log) /\ (i - 1) + 1 = i /\ ~ (i <= 1)
      BY <1>1, <2>2
    <3>2. d[i - 1] = made[(i - 1) + 1]
      BY <1>3, <3>1
    <3>. QED BY <1>6, <3>1, <3>2
  <2>. QED BY <2>1, <2>2
<1>8. <<made[1]>> \o d = made
  BY <1>1, <1>6, <1>7, SeqEqual
<1>. QED BY <1>8 DEF d

\* Shown no deeper, the calls made are themselves.
LEMMA NotShifted == ASSUME TreeInv PROVE Shifted(0) = made
<1>1. made \in Seq(CallRow) /\ Len(made) \in Nat
  BY DEF TreeInv
<1>2. ASSUME NEW i \in 1..Len(made) PROVE [made[i] EXCEPT !.depth = @ + 0] = made[i]
  <2>. DEFINE m == made[i]
  <2>1. m \in CallRow
    BY <1>1, ElementOfSeq
  <2>. HIDE DEF m
  <2>2. PICK n \in Int : n = m.depth /\ n + 0 = n
    BY <2>1, TraceAssumption DEF CallRow
  <2>3. [m EXCEPT !.depth = @ + 0] = m
    BY <2>1, <2>2 DEF CallRow
  <2>. QED BY <2>3 DEF m
<1>3. made = [i \in 1..Len(made) |-> made[i]]
  BY <1>1
<1>4. Shifted(0) = [i \in 1..Len(made) |-> made[i]]
  BY <1>2 DEF Shifted
<1>. QED BY <1>3, <1>4

\* What the page that is opened shows.
LEMMA OpenShows ==
  ASSUME TreeInv, ViewsTyped, Logged, OpenPage
  PROVE  (RowsAreCalls /\ AbisCoverCalls)'
<1>1. PICK opcodes \in BOOLEAN, calls \in BOOLEAN, known \in BOOLEAN :
        LET trace   == Answer(opcodes, calls)
            root    == tree[1].to
            entries == build(trace, known, root)
        IN  /\ cache' = trace
            /\ page' = [source |-> IF trace.opcodes THEN "opcodes" ELSE IF trace.calls THEN "calls" ELSE None,
                        known |-> known, rows |-> entries,
                        addresses |-> collectAddresses(entries, root)]
  BY DEF OpenPage
<1>. DEFINE trace == Answer(opcodes, calls)
            root == tree[1].to
            entries == build(trace, known, root)
<1>2. /\ page'.source = IF trace.opcodes THEN "opcodes" ELSE IF trace.calls THEN "calls" ELSE None
      /\ page'.known = known /\ page'.rows = entries /\ page'.addresses = collectAddresses(entries, root)
  BY <1>1
<1>3. made' = made /\ made[1] = Call0(root) /\ <<made[1]>> \o Deeper(log) = made
  BY LogIsMade DEF OpenPage, TreeInv
<1>4. /\ trace.opcodes /\ known => entries = made
      /\ trace.opcodes /\ ~ known => entries = log
      /\ ~ trace.opcodes /\ trace.calls => entries = made
      /\ ~ trace.opcodes /\ ~ trace.calls => entries = <<>>
  <2>1. callTraceToEntries(1, 1) = made
    <3>1. PICK x \in {0, 1} : x = 1 /\ x - 1 = 0
      OBVIOUS
    <3>2. callTraceToEntries(1, x) = Shifted(x - 1)
      BY WalkShows
    <3>. QED BY <3>1, <3>2, NotShifted
  <2>. QED BY <1>3, <2>1 DEF build, structLogsToEntries
<1>5. None # "opcodes" /\ None # "calls" /\ None \notin Contract
  BY ViewsAssumption
<1>. HIDE DEF entries, trace
<1>6. RowsAreCalls'
  <2>1. CASE trace.opcodes /\ known
    <3>1. page'.source = "opcodes" /\ page'.known /\ page'.rows = made
      BY <1>2, <1>4, <2>1
    <3>. QED BY <1>3, <1>5, <3>1 DEF RowsAreCalls
  <2>2. CASE trace.opcodes /\ ~ known
    <3>1. page'.source = "opcodes" /\ ~ page'.known /\ page'.rows = log
      BY <1>2, <1>4, <2>2
    <3>2. <<made'[1]>> \o Deeper(page'.rows) = made'
      BY <1>3, <3>1
    <3>. QED BY <1>5, <3>1, <3>2 DEF RowsAreCalls
  <2>3. CASE ~ trace.opcodes /\ trace.calls
    <3>1. page'.source = "calls" /\ page'.rows = made
      BY <1>2, <1>4, <2>3
    <3>. QED BY <1>3, <1>5, <3>1 DEF RowsAreCalls
  <2>4. CASE ~ trace.opcodes /\ ~ trace.calls
    <3>1. page'.source = None /\ page'.rows = <<>>
      BY <1>2, <1>4, <2>4
    <3>. QED BY <1>5, <3>1 DEF RowsAreCalls
  <2>. QED BY <2>1, <2>2, <2>3, <2>4
<1>7. AbisCoverCalls'
  <2>1. SUFFICES ASSUME trace.opcodes \/ trace.calls, NEW i \in DOMAIN made
                 PROVE  made[i].to \in page'.addresses
    BY <1>2, <1>3 DEF AbisCoverCalls
  <2>2. i \in 1..Len(made) /\ made \in Seq(CallRow) /\ tree \in Seq(CallNode) /\ Len(tree) = Len(made)
        /\ DOMAIN made = 1..Len(made) /\ Len(made) = Len(log) + 1 /\ Len(log) \in Nat /\ DOMAIN log = 1..Len(log)
    BY DEF TreeInv, Logged, ViewsTyped
  <2>3. made[i].to \in Contract
    <3>1. tree[i] \in CallNode
      BY <2>2, ElementOfSeq
    <3>2. made[i] = [kind |-> classifyOp(tree[i].type), from |-> tree[i].from, to |-> tree[i].to,
                     depth |-> made[i].depth]
      BY <2>2 DEF TreeInv
    <3>3. made[i].to = tree[i].to
      BY <3>2
    <3>. QED BY <3>1, <3>3 DEF CallNode
  <2>4. made[i].to = root \/ \E j \in DOMAIN entries : made[i].to = entries[j].to
    <3>1. CASE i = 1
      BY <1>3, <3>1 DEF Call0
    <3>2. CASE i # 1
      <4>1. entries = made \/ entries = log
        BY <1>4, <2>1
      <4>2. CASE entries = made
        BY <2>2, <4>2
      <4>3. CASE entries = log
        <5>1. i - 1 \in 1..Len(log) /\ (i - 1) + 1 = i
          BY <2>2, <3>2
        <5>2. log[i - 1] = [made[(i - 1) + 1] EXCEPT !.depth = @ - 1]
          BY <5>1 DEF Logged
        <5>3. made[i] \in CallRow
          BY <2>2, ElementOfSeq
        <5>4. log[i - 1].to = made[i].to
          BY <5>1, <5>2, <5>3 DEF CallRow
        <5>. QED BY <2>2, <4>3, <5>1, <5>4
      <4>. QED BY <4>1, <4>2, <4>3
    <3>. QED BY <3>1, <3>2
  <2>. QED BY <1>2, <1>5, <2>3, <2>4 DEF collectAddresses
<1>. QED BY <1>6, <1>7

\* The types of what the page that is opened shows, whatever the programs call.
LEMMA OpenTyped ==
  ASSUME TreeInv, ViewsTyped, OpenPage
  PROVE  ViewsTyped'
<1>1. PICK opcodes \in BOOLEAN, calls \in BOOLEAN, known \in BOOLEAN :
        LET trace   == Answer(opcodes, calls)
            root    == tree[1].to
            entries == build(trace, known, root)
        IN  /\ cache' = trace
            /\ page' = [source |-> IF trace.opcodes THEN "opcodes" ELSE IF trace.calls THEN "calls" ELSE None,
                        known |-> known, rows |-> entries,
                        addresses |-> collectAddresses(entries, root)]
  BY DEF OpenPage
<1>. DEFINE trace == Answer(opcodes, calls)
            root == tree[1].to
            entries == build(trace, known, root)
<1>2. trace \in [opcodes : BOOLEAN, calls : BOOLEAN]
  BY DEF Answer, ViewsTyped
<1>3. root \in Contract /\ Call0(root) = made[1] /\ made[1] \in CallRow /\ made \in Seq(CallRow)
  <2>1. made \in Seq(CallRow) /\ Len(made) \in Nat /\ Len(made) >= 1 /\ tree \in Seq(CallNode) /\ Len(tree) = Len(made)
    BY DEF TreeInv, Spanned
  <2>2. 1 \in 1..Len(made)
    BY <2>1
  <2>3. tree[1] \in CallNode /\ made[1] \in CallRow
    BY <2>1, <2>2, ElementOfSeq
  <2>. QED BY <2>1, <2>3 DEF CallNode, TreeInv
<1>4. log \in Seq(CallRow) /\ Deeper(log) \in Seq(CallRow)
  <2>. DEFINE Emits == [kind : TraceKind, from : Address, to : Address, depth : 1..MaxDepth]
  <2>1. log \in Seq(Emits) /\ Len(log) \in Nat /\ DOMAIN log = 1..Len(log)
    BY DEF ViewsTyped
  <2>2. MaxDepth \in Nat
    BY TraceAssumption
  <2>3. Emits \subseteq CallRow
    BY <2>2 DEF CallRow
  <2>4. log \in Seq(CallRow)
    <3>. HIDE DEF Emits
    <3>. QED BY <2>1, <2>3, SeqMonotonic
  <2>5. ASSUME NEW i \in 1..Len(log) PROVE [log[i] EXCEPT !.depth = @ + 1] \in CallRow
    <3>. DEFINE m == log[i]
    <3>1. m \in Emits
      <4>. HIDE DEF Emits
      <4>. QED BY <2>1, ElementOfSeq
    <3>. HIDE DEF m
    <3>2. m.depth + 1 \in 1..(MaxDepth + 1)
      BY <2>2, <3>1
    <3>3. [m EXCEPT !.depth = @ + 1] \in CallRow
      BY <3>1, <3>2 DEF CallRow
    <3>. QED BY <3>3 DEF m
  <2>6. Deeper(log) \in Seq(CallRow)
    BY <2>1, <2>5 DEF Deeper
  <2>. QED BY <2>4, <2>6
<1>5. entries \in Seq(CallRow)
  <2>1. callTraceToEntries(1, 1) = made
    <3>1. PICK x \in {0, 1} : x = 1 /\ x - 1 = 0
      OBVIOUS
    <3>2. callTraceToEntries(1, x) = Shifted(x - 1)
      BY WalkShows
    <3>. QED BY <3>1, <3>2, NotShifted
  <2>2. <<Call0(root)>> \o Deeper(log) \in Seq(CallRow)
    <3>1. <<made[1]>> \in Seq(CallRow)
      BY <1>3
    <3>. QED BY <1>3, <1>4, <3>1, ConcatProperties
  <2>3. <<>> \in Seq(CallRow)
    OBVIOUS
  <2>. QED BY <1>3, <1>4, <2>1, <2>2, <2>3 DEF build, structLogsToEntries
<1>. HIDE DEF entries, trace
<1>6. collectAddresses(entries, root) \subseteq Contract
  <2>1. \A i \in DOMAIN entries : entries[i].to \in Contract \cup {None}
    <3>1. DOMAIN entries = 1..Len(entries)
      BY <1>5
    <3>2. \A i \in DOMAIN entries : entries[i] \in CallRow
      BY <1>5, <3>1, ElementOfSeq
    <3>. QED BY <3>2 DEF CallRow, Address
  <2>. QED BY <1>3, <2>1 DEF collectAddresses
<1>7. /\ page'.source = IF trace.opcodes THEN "opcodes" ELSE IF trace.calls THEN "calls" ELSE None
      /\ page'.known = known /\ page'.rows = entries /\ page'.addresses = collectAddresses(entries, root)
      /\ cache' = trace /\ log' = log
  BY <1>1 DEF entries, trace, OpenPage
<1>. QED BY <1>2, <1>5, <1>6, <1>7 DEF ViewsTyped

-----------------------------------------------------------------------------
\* Of every program: types, and callTracer's tree.
Viewed == TypeInv /\ GasInv /\ TreeInv /\ ViewsTyped

\* The views do not disturb the walk.
LEMMA ViewsStepWalks ==
  ASSUME [ViewsNext]_viewVars
  PROVE  [Next]_vars
<1>1. CASE ViewedStep
  BY <1>1 DEF ViewedStep, Next
<1>2. CASE ViewedEnd
  BY <1>2 DEF ViewedEnd, Next
<1>3. CASE OpenPage
  BY <1>3 DEF OpenPage
<1>4. ASSUME NEW to \in Contract, NEW g \in 1..Gas, ViewedPlain(to, g)
      PROVE  Next
  BY <1>4 DEF ViewedPlain, Next
<1>5. ASSUME NEW to \in Contract, NEW g \in 1..Gas, NEW op \in Kind, ViewedCall(op, to, g)
      PROVE  Next
  BY <1>5 DEF ViewedCall, Next
<1>6. CASE UNCHANGED viewVars
  BY <1>6 DEF viewVars
<1>. QED BY <1>1, <1>2, <1>3, <1>4, <1>5, <1>6 DEF ViewsNext

\* Types and tree when the transaction begins, and after every step.
LEMMA ViewedInit == ViewsInit => Viewed
<1>. SUFFICES ASSUME ViewsInit PROVE Viewed
  OBVIOUS
<1>1. Init
  BY DEF ViewsInit
<1>2. ViewsTyped
  <2>1. <<>> \in Seq([kind : TraceKind, from : Address, to : Address, depth : 1..MaxDepth]) /\ <<>> \in Seq(CallRow)
    OBVIOUS
  <2>. QED BY <2>1 DEF ViewsInit, ViewsTyped, NoPage, NoTrace
<1>. QED BY <1>1, <1>2, TypesInit, TreeInit DEF Viewed

LEMMA ViewedNext ==
  ASSUME Viewed, [ViewsNext]_viewVars
  PROVE  Viewed'
<1>1. (TypeInv /\ GasInv)'
  BY ViewsStepWalks, TypesNext DEF Viewed
<1>2. TreeInv' /\ ViewsTyped'
  <2>1. CASE ViewedStep \/ UNCHANGED viewVars
    <3>1. UNCHANGED views
      BY <2>1 DEF ViewedStep, viewVars
    <3>2. Depth' = Depth
      <4>1. CASE UNCHANGED viewVars
        BY <4>1 DEF viewVars, vars, evm, Depth
      <4>2. CASE ViewedStep
        <5>1. frames' = Spent(1) /\ Framed
          BY <4>2 DEF ViewedStep, Compute, Load, Store, Viewed, TypeInv, FramesTyped
        <5>2. Len(frames') = Depth
          BY <5>1, SpentMakes
        <5>. QED BY <5>2 DEF Depth
      <4>. QED BY <2>1, <4>1, <4>2
    <3>. QED BY <3>1, <3>2 DEF views, Viewed, TreeInv, ViewsTyped
  <2>2. CASE ViewedEnd
    BY <2>2, EndKeepsTree DEF Viewed, ViewedEnd, ViewsTyped
  <2>3. CASE OpenPage
    <3>1. UNCHANGED <<tree, made, open, frames>>
      BY <2>3 DEF OpenPage, vars, evm
    <3>2. TreeInv'
      BY <3>1 DEF Viewed, TreeInv, Depth
    <3>. QED BY <2>3, <3>2, OpenTyped DEF Viewed
  <2>4. ASSUME NEW to \in Contract, NEW g \in 1..Gas, ViewedPlain(to, g)
        PROVE  TreeInv' /\ ViewsTyped'
    <3>1. TreeInv'
      BY <2>4, PlainKeepsTree DEF Viewed
    <3>2. log' = Emitted("CALL", to) /\ UNCHANGED <<cache, page>>
      BY <2>4 DEF ViewedPlain
    <3>3. ViewsTyped'
      BY <3>2, EmittedTyped DEF Viewed, ViewsTyped
    <3>. QED BY <3>1, <3>3
  <2>5. ASSUME NEW to \in Contract, NEW g \in 1..Gas, NEW op \in Kind, ViewedCall(op, to, g)
        PROVE  TreeInv' /\ ViewsTyped'
    <3>1. TreeInv'
      BY <2>5, CallKeepsTree DEF Viewed
    <3>2. log' = Emitted(op, to) /\ UNCHANGED <<cache, page>>
      BY <2>5 DEF ViewedCall
    <3>3. ViewsTyped'
      BY <3>2, EmittedTyped DEF Viewed, ViewsTyped
    <3>. QED BY <3>1, <3>3
  <2>. QED BY <2>1, <2>2, <2>3, <2>4, <2>5 DEF ViewsNext
<1>. QED BY <1>1, <1>2 DEF Viewed

\* The list of an account is taken from the tree, one level less deep than the page's rows.
LEMMA TreeListsCalls ==
  ASSUME TreeInv
  PROVE  InternalsAreCalls
<1>. DEFINE lower == [i \in DOMAIN made |-> [made[i] EXCEPT !.depth = @ - 1]]
<1>1. made \in Seq(CallRow) /\ DOMAIN made = 1..Len(made)
  BY DEF TreeInv
<1>2. ASSUME NEW i \in 1..Len(made)
      PROVE  [made[i] EXCEPT !.depth = @ + (0 - 1)] = [made[i] EXCEPT !.depth = @ - 1]
  <2>. DEFINE m == made[i]
  <2>1. m \in CallRow
    BY <1>1, ElementOfSeq
  <2>. HIDE DEF m
  <2>2. PICK n \in Int : n = m.depth /\ n + (0 - 1) = n - 1
    BY <2>1, TraceAssumption DEF CallRow
  <2>3. [m EXCEPT !.depth = @ + (0 - 1)] = [m EXCEPT !.depth = @ - 1]
    BY <2>1, <2>2 DEF CallRow
  <2>. QED BY <2>3 DEF m
<1>3. Shifted(0 - 1) = lower
  BY <1>1, <1>2 DEF Shifted
<1>4. callTraceToEntries(1, 0) = lower
  <2>1. PICK x \in {0, 1} : x = 0 /\ x - 1 = 0 - 1
    OBVIOUS
  <2>2. callTraceToEntries(1, x) = Shifted(x - 1)
    BY WalkShows
  <2>. QED BY <1>3, <2>1, <2>2
<1>. HIDE DEF lower
<1>5. ASSUME NEW c \in Contract
      PROVE  internalTransfersFor(c) = IF cache.calls THEN Internal(lower, c) ELSE <<>>
  BY <1>4 DEF internalTransfersFor
<1>. QED BY <1>5 DEF InternalsAreCalls, lower

-----------------------------------------------------------------------------
\* Of programs whose contexts the walk follows: the rows, and the page.
PageInv == Logged /\ Unopened /\ RowsAreCalls /\ AbisCoverCalls

\* Before it is opened a page has no rows, and asks for no ABI.
LEMMA NothingShown == page = NoPage => RowsAreCalls /\ AbisCoverCalls
<1>. SUFFICES ASSUME page = NoPage PROVE RowsAreCalls /\ AbisCoverCalls
  OBVIOUS
<1>1. None # "opcodes" /\ page.source = None /\ page.rows = <<>>
  BY ViewsAssumption DEF NoPage
<1>2. RowsAreCalls
  BY <1>1 DEF RowsAreCalls
<1>. QED BY <1>2 DEF AbisCoverCalls

\* No rows, and no page, when the transaction begins.
LEMMA PageInit == ViewsInit => PageInv
<1>. SUFFICES ASSUME ViewsInit PROVE PageInv
  OBVIOUS
<1>1. PICK root \in Contract : made = <<Call0(root)>>
  <2>1. PICK root \in Contract : frames = <<[owner |-> root, gas |-> Gas, entry |-> storage]>>
    BY DEF ViewsInit, Init
  <2>2. frames[1].owner = root
    BY <2>1
  <2>. QED BY <2>2 DEF ViewsInit
<1>2. Len(made) = 1 /\ log = <<>> /\ page = NoPage /\ cache = NoTrace
  BY <1>1 DEF ViewsInit
<1>3. Logged
  BY <1>2 DEF Logged
<1>. QED BY <1>2, <1>3, NothingShown DEF PageInv, Unopened

\* No page shows a call that is still under way.
LEMMA NoPageYet ==
  ASSUME Unopened, outcome = "running", UNCHANGED <<cache, page>>
  PROVE  Unopened' /\ RowsAreCalls' /\ AbisCoverCalls'
<1>1. page' = NoPage /\ cache' = NoTrace
  BY DEF Unopened
<1>2. RowsAreCalls' /\ AbisCoverCalls'
  <2>1. None # "opcodes" /\ page'.source = None /\ page'.rows = <<>>
    BY <1>1, ViewsAssumption DEF NoPage
  <2>2. RowsAreCalls'
    BY <2>1 DEF RowsAreCalls
  <2>. QED BY <1>1, <2>2 DEF AbisCoverCalls
<1>. QED BY <1>1, <1>2 DEF Unopened

\* A call's row names the contract it was made from, which is the walk's context.
LEMMA CallLogged ==
  ASSUME Logged, Viewed, Inv, NEW op \in Kind \cup {"CALL"}, op \notin {"CREATE"}, NEW to \in Contract,
         log' = Emitted(op, to), made' = Made(op, to), tree' = Traced(op, to)
  PROVE  Logged'
<1>1. /\ log' \in Seq([kind : TraceKind, from : Address, to : Address, depth : 1..MaxDepth])
      /\ Len(log') = Len(log) + 1 /\ \A i \in 1..Len(log) : log'[i] = log[i]
      /\ log'[Len(log) + 1] = CallEntry(op, to)
  BY EmittedTyped DEF Viewed
<1>2. /\ Len(made') = Len(made) + 1 /\ \A i \in 1..Len(made) : made'[i] = made[i]
      /\ made'[Len(made) + 1] = [kind |-> classifyOp(op), from |-> Top.owner, to |-> to, depth |-> Depth + 1]
  <2>1. FramesTyped /\ Framed
    BY DEF Viewed, TypeInv, FramesTyped
  <2>. QED BY <2>1, TracedKeeps DEF Viewed
<1>3. Context = Top.owner /\ Depth \in Nat /\ Len(log) \in Nat
  BY PoppedFollows, TopTyped DEF Viewed, ViewsTyped, TypeInv, FramesTyped, Inv
<1>4. CallEntry(op, to) = [made'[Len(made) + 1] EXCEPT !.depth = @ - 1]
  <2>1. (Depth + 1) - 1 = Depth
    BY <1>3
  <2>2. [made'[Len(made) + 1] EXCEPT !.depth = @ - 1]
          = [kind |-> classifyOp(op), from |-> Top.owner, to |-> to, depth |-> (Depth + 1) - 1]
    BY <1>2
  <2>. QED BY <1>3, <2>1, <2>2 DEF CallEntry
<1>5. ASSUME NEW i \in 1..Len(log') PROVE log'[i] = [made'[i + 1] EXCEPT !.depth = @ - 1]
  <2>1. CASE i = Len(log) + 1
    <3>1. i + 1 = Len(made) + 1
      BY <1>3, <2>1 DEF Logged
    <3>. QED BY <1>1, <1>4, <2>1, <3>1
  <2>2. CASE i # Len(log) + 1
    <3>1. i \in 1..Len(log) /\ i + 1 \in 1..Len(made)
      BY <1>1, <1>3, <2>2 DEF Logged
    <3>2. log[i] = [made[i + 1] EXCEPT !.depth = @ - 1]
      BY <3>1 DEF Logged
    <3>. QED BY <1>1, <1>2, <3>1, <3>2
  <2>. QED BY <2>1, <2>2
<1>. QED BY <1>1, <1>2, <1>3, <1>5 DEF Logged

\* Without CREATE and CALLCODE every step keeps rows and page true.
LEMMA PageNext ==
  ASSUME ~Untracked, Viewed, Inv, PageInv, [ViewsNext]_viewVars
  PROVE  PageInv'
<1>1. CASE ViewedStep
  <2>1. outcome = "running" /\ UNCHANGED <<log, made, cache, page>>
    BY <1>1 DEF ViewedStep, Compute, Load, Store, Runs, views
  <2>. QED BY <2>1, NoPageYet DEF PageInv, Logged
<1>2. CASE ViewedEnd
  <2>1. outcome = "running" /\ UNCHANGED <<log, made, cache, page>>
    BY <1>2 DEF ViewedEnd, Return, Revert, Halt, Runs
  <2>. QED BY <2>1, NoPageYet DEF PageInv, Logged
<1>3. CASE OpenPage
  <2>1. outcome' # "running" /\ UNCHANGED <<log, made>>
    BY <1>3 DEF OpenPage, vars, evm
  <2>2. RowsAreCalls' /\ AbisCoverCalls'
    BY <1>3, OpenShows DEF Viewed, PageInv
  <2>. QED BY <2>1, <2>2 DEF PageInv, Logged, Unopened
<1>4. ASSUME NEW to \in Contract, NEW g \in 1..Gas, ViewedPlain(to, g)
      PROVE  PageInv'
  <2>1. /\ outcome = "running" /\ UNCHANGED <<cache, page>>
        /\ log' = Emitted("CALL", to) /\ made' = Made("CALL", to) /\ tree' = Traced("CALL", to)
    BY <1>4 DEF ViewedPlain, CallPlain, Runs
  <2>. QED BY <2>1, CallLogged, NoPageYet DEF PageInv
<1>5. ASSUME NEW to \in Contract, NEW g \in 1..Gas, NEW op \in Kind, ViewedCall(op, to, g)
      PROVE  PageInv'
  <2>1. /\ outcome = "running" /\ UNCHANGED <<cache, page>>
        /\ log' = Emitted(op, to) /\ made' = Made(op, to) /\ tree' = Traced(op, to)
    BY <1>5 DEF ViewedCall, Call, Runs
  <2>2. op # "CREATE"
    BY DEF Kind
  <2>. QED BY <2>1, <2>2, CallLogged, NoPageYet DEF PageInv
<1>6. CASE UNCHANGED viewVars
  BY <1>6 DEF viewVars, vars, evm, views, PageInv, Logged, Unopened, RowsAreCalls, AbisCoverCalls
<1>. QED BY <1>1, <1>2, <1>3, <1>4, <1>5, <1>6 DEF ViewsNext

LEMMA ViewedAlways == ViewsSpec => []Viewed
<1>1. Viewed /\ [ViewsNext]_viewVars => Viewed'
  BY ViewedNext
<1>. QED BY ViewedInit, <1>1, PTL DEF ViewsSpec

\* The route, the page and the list of an account only read the trace: whatever they
\* show, the execution and the walk over its steps are those of TraceWalk.
THEOREM ViewsWalk == ViewsSpec => Spec
<1>1. ViewsInit => Init
  BY DEF ViewsInit
<1>2. [ViewsNext]_viewVars => [Next]_vars
  BY ViewsStepWalks
<1>. QED BY <1>1, <1>2, PTL DEF ViewsSpec, Spec

\* The rows of the trace, callTracer's nodes and their calls, the cached traces, and the
\* page's source, rows and addresses are what the route, the hook and the page take them for.
THEOREM ViewsTypeCorrect == ViewsSpec => []ViewsTypeOK
<1>1. Viewed /\ TypeOK => ViewsTypeOK
  <2>. SUFFICES ASSUME Viewed, TypeOK PROVE ViewsTypeOK
    OBVIOUS
  <2>1. made \in Seq(CallRow) /\ tree \in Seq(CallNode) /\ open \in Seq(1..Len(tree)) /\ DOMAIN tree = 1..Len(tree)
    BY DEF Viewed, TreeInv, UnderWay
  <2>2. log \in Seq(CallRow)
    <3>. DEFINE Emits == [kind : TraceKind, from : Address, to : Address, depth : 1..MaxDepth]
    <3>1. log \in Seq(Emits)
      BY DEF Viewed, ViewsTyped
    <3>2. Emits \subseteq CallRow
      BY TraceAssumption DEF CallRow
    <3>. HIDE DEF Emits
    <3>. QED BY <3>1, <3>2, SeqMonotonic
  <2>. QED BY <2>1, <2>2 DEF Viewed, ViewsTyped, ViewsTypeOK
<1>. QED BY <1>1, ViewedAlways, ViewsWalk, TypeCorrect, PTL

\* Whatever the programs call, CREATE and CALLCODE included, the internal transactions the
\* explorer lists of a contract (app/api/explorer) are the calls it made and got, reverted
\* ones too, in the order the EVM made them and as deep as it made them.
THEOREM InternalsAreTheCalls == ViewsSpec => []InternalsAreCalls
<1>1. Viewed => InternalsAreCalls
  BY TreeListsCalls DEF Viewed
<1>. QED BY <1>1, ViewedAlways, PTL

\* Without CREATE and CALLCODE a page shows the calls the EVM made, each under its caller,
\* whichever tracer failed and whether or not the transaction is known, asks for the ABI of
\* every contract called, and the list of an account agrees with it: for any contracts, gas
\* and depth of calls (app/api/tx/[hash]/trace, api/useTxTrace.ts, api/traceEntries.ts).
THEOREM PagesShowTheCalls == ASSUME ~Untracked PROVE ViewsSpec => []PageIsTrue
<1>1. ViewsInit => Inv
  BY InvInit DEF ViewsInit
<1>2. Viewed /\ Inv /\ PageInv /\ [ViewsNext]_viewVars => (Viewed /\ Inv /\ PageInv)'
  BY ViewedNext, ViewsStepWalks, InvNext, PageNext
<1>3. Viewed /\ PageInv => PageIsTrue
  BY TreeListsCalls DEF Viewed, PageInv, PageIsTrue
<1>. QED BY ViewedInit, <1>1, PageInit, <1>2, <1>3, PTL DEF ViewsSpec
=============================================================================
