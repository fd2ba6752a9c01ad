------------------------- MODULE ChainIndexerProofs -------------------------
(***************************************************************************)
(* Proofs about ChainIndexer, for any number of projects and streams, any  *)
(* batch size and any bounds, with and without rollbacks and shared        *)
(* hashes.                                                                 *)
(***************************************************************************)
EXTENDS ChainIndexer, SequenceTheorems, TLAPS

(***************************************************************************)
(* Types.                                                                  *)
(***************************************************************************)

\* A block is mined on top of the others.
LEMMA AppendTyped ==
  ASSUME NEW s \in Seq(Block), NEW b \in Block
  PROVE  /\ Append(s, b) \in Seq(Block)
         /\ Len(Append(s, b)) = Len(s) + 1
         /\ \A n \in 1..Len(s) : Append(s, b)[n] = s[n]
OBVIOUS

\* A chain cut short is the beginning of that chain.
LEMMA PrefixTyped ==
  ASSUME NEW s \in Seq(Block), NEW n \in 0..Len(s)
  PROVE  /\ SubSeq(s, 1, n) \in Seq(Block)
         /\ Len(SubSeq(s, 1, n)) = n
         /\ \A i \in 1..n : SubSeq(s, 1, n)[i] = s[i]
<1>1. n \in Int /\ \A i \in 1..n : s[i] \in Block
  OBVIOUS
<1>. QED BY <1>1, SubSeqProperties

\* The blocks of a chain come with their heights.
LEMMA PairsTyped ==
  ASSUME TypeOK, NEW s \in Scope
  PROVE  Pairs(s) \in SUBSET (Height \X Block)
<1>1. chain[s] \in Seq(Block) /\ Len(chain[s]) <= MaxHeight
  BY DEF TypeOK
<1>2. \A n \in 1..Len(chain[s]) : n \in Height /\ chain[s][n] \in Block
  BY <1>1, IndexerAssumption DEF Height
<1>. QED BY <1>2 DEF Pairs

\* A poll under way has a project, a poll past its height has a cursor, and only
\* one that waits for receipts has items.  A cursor has a project and a tip that it
\* was set to.
Sound(r) ==
    /\ r.step # "idle" => r.key \in Scope
    /\ r.step \in {"blocks", "receipts"} => r.last >= 0
    /\ r.step # "receipts" => r.got = {}
    /\ r.last >= 0 => r.key \in Scope /\ r.since >= 0

Asking == \A c \in Stream : Sound(stream[c])

SoundRecord == {r \in StreamRecord : Sound(r)}

\* The items of a batch have heights past the cursor.
LEMMA FetchedTyped ==
  ASSUME TypeOK, NEW r \in SoundRecord, r.step = "blocks", NEW N
  PROVE  Fetched(r, N) \in SUBSET (Height \X (Block \cup {None}))
<1>. DEFINE s == chain[r.key]
<1>1. /\ r.key \in Scope /\ r.last \in Int /\ r.last >= 0
      /\ r.to \in Int /\ r.to <= MaxHeight
  BY DEF SoundRecord, Sound, StreamRecord
<1>2. s \in Seq(Block) /\ Len(s) \in Nat
  BY <1>1 DEF TypeOK
<1>3. ASSUME NEW n \in (r.last + 1)..r.to
      PROVE  n \in Height /\ (n <= Len(s) => s[n] \in Block)
  BY <1>1, <1>2, IndexerAssumption DEF Height
<1>4. ASSUME NEW n \in (r.last + 1)..r.to
      PROVE  (IF n \in N \/ n > Len(s) THEN None ELSE s[n]) \in Block \cup {None}
  BY <1>1, <1>2, <1>3
<1>. QED BY <1>3, <1>4 DEF Fetched

\* The records of a batch come with their heights.
LEMMA BlocksTyped ==
  ASSUME NEW S \in SUBSET (Height \X (Block \cup {None}))
  PROVE  Blocks(S) \in SUBSET (Height \X Block)
BY DEF Blocks

\* The two INSERTs write rows of the tables' types.
LEMMA InsertTyped ==
  ASSUME TypeOK, NEW s \in Scope, NEW S \in SUBSET (Height \X Block), Insert(s, S)
  PROVE  /\ rows' \in [Scope -> [Height -> Block \cup {None}]]
         /\ txs' \in [Hashes -> (Scope \X Height) \cup {None}]
<1>. USE DEF TypeOK, Insert
<1>1. ASSUME NEW n \in Height, \E e \in S : e[1] = n
      PROVE  (CHOOSE e \in S : e[1] = n)[2] \in Block
  BY <1>1
<1>2. ASSUME NEW h \in Hashes, \E e \in S : e[2].tx = h
      PROVE  (CHOOSE e \in S : e[2].tx = h)[1] \in Height
  BY <1>2
<1>. QED BY <1>1, <1>2

\* A slot without a stream is a sound record.
LEMMA ClosedTyped == Closed \in SoundRecord
BY IndexerAssumption DEF Closed, StreamRecord, SoundRecord, Sound

\* So is a stream whose poll is over,
LEMMA RestedTyped ==
  ASSUME NEW r \in SoundRecord
  PROVE  /\ Rested(r) \in SoundRecord
         /\ Rested(r) = Closed \/ /\ Rested(r).key = r.key /\ Rested(r).last = r.last
                                  /\ Rested(r).since = r.since /\ Rested(r).missed = r.missed
         /\ Rested(r).step = "idle" /\ Rested(r).got = {}
<1>1. [r EXCEPT !.step = "idle", !.got = {}, !.to = 0] \in SoundRecord
  <2>1. 0 \in 0..MaxHeight
    BY IndexerAssumption
  <2>. QED BY <2>1 DEF StreamRecord, SoundRecord, Sound
<1>2. CASE r.open
  <2>1. Rested(r) = [r EXCEPT !.step = "idle", !.got = {}, !.to = 0]
    BY <1>2 DEF Rested
  <2>. QED BY <1>1, <2>1 DEF SoundRecord, StreamRecord
<1>3. CASE ~r.open
  BY <1>3, ClosedTyped DEF Rested, Closed
<1>. QED BY <1>2, <1>3

\* and one whose cursor was set to the tip.
LEMMA AtTipTyped ==
  ASSUME NEW r \in SoundRecord, r.step = "height", NEW n \in 0..MaxHeight
  PROVE  /\ AtTip(r, n) \in SoundRecord
         /\ AtTip(r, n) = Closed \/ AtTip(r, n).since = AtTip(r, n).last
         /\ AtTip(r, n).step = "idle" /\ AtTip(r, n).got = {}
<1>. DEFINE o == [r EXCEPT !.step = "idle", !.got = {}, !.to = 0,
                           !.last = n, !.since = n, !.missed = {}, !.stale = FALSE]
<1>1. o \in SoundRecord /\ o.since = o.last /\ o.step = "idle" /\ o.got = {}
  <2>1. n \in -1..MaxHeight /\ 0 \in 0..MaxHeight /\ n >= 0
    BY IndexerAssumption
  <2>2. r.key \in Scope
    BY DEF SoundRecord, Sound
  <2>. QED BY <2>1, <2>2 DEF StreamRecord, SoundRecord, Sound
<1>2. CASE r.open
  <2>1. AtTip(r, n) = o
    BY <1>2 DEF AtTip, Rested, SoundRecord, StreamRecord
  <2>. QED BY <1>1, <2>1
<1>3. CASE ~r.open
  BY <1>3, ClosedTyped DEF AtTip, Closed
<1>. QED BY <1>2, <1>3

\* A batch ends at a height of the chain.
LEMMA BatchEndTyped ==
  ASSUME NEW last \in 0..MaxHeight, NEW n \in 0..MaxHeight, last < n
  PROVE  BatchEnd(last, n) \in 0..MaxHeight
BY IndexerAssumption DEF BatchEnd

\* A stream whose cursor stays where it is on the same project.
SameCursor(r, q) ==
    /\ q.key = r.key /\ q.last = r.last /\ q.since = r.since /\ q.missed = r.missed

\* A stream without a cursor to speak of: it has none, or it was just set.
FreshCursor(q) == q.last = -1 \/ q.since = q.last

\* The outcomes of a height are sound; none has items.
LEMMA AnsweredTyped ==
  ASSUME NEW r \in SoundRecord, r.step = "height", NEW n \in 0..MaxHeight
  PROVE  /\ Answered(r, n) \in SoundRecord
         /\ FreshCursor(Answered(r, n)) \/ SameCursor(r, Answered(r, n))
         /\ Answered(r, n).step # "receipts" /\ Answered(r, n).got = {}
<1>. DEFINE batch == [r EXCEPT !.step = "blocks", !.to = BatchEnd(r.last, n)]
            Wanted(q) == /\ q \in SoundRecord
                         /\ FreshCursor(q) \/ SameCursor(r, q)
                         /\ q.step # "receipts" /\ q.got = {}
<1>1. r.last \in -1..MaxHeight /\ n \in Int
  BY DEF StreamRecord, SoundRecord
<1>2. FreshCursor(Closed)
  BY DEF FreshCursor, Closed
<1>3. Wanted(AtTip(r, n))
  BY <1>2, AtTipTyped DEF FreshCursor
<1>4. Wanted(Rested(r))
  BY <1>2, RestedTyped DEF SameCursor
<1>5. CASE r.last = -1 \/ n <= r.last
  <2>1. Answered(r, n) \in {AtTip(r, n), Rested(r)}
    BY <1>1, <1>5 DEF Answered
  <2>. QED BY <1>3, <1>4, <2>1
<1>6. CASE ~(r.last = -1 \/ n <= r.last)
  <2>1. r.last \in 0..MaxHeight /\ r.last < n
    BY <1>1, <1>6
  <2>2. BatchEnd(r.last, n) \in 0..MaxHeight
    BY <2>1, BatchEndTyped
  <2>3. r.got = {} /\ r.key \in Scope
    BY DEF SoundRecord, Sound
  <2>4. ASSUME NEW k \in 0..MaxHeight
        PROVE  Wanted([r EXCEPT !.step = "blocks", !.to = k])
    <3>. DEFINE q == [r EXCEPT !.step = "blocks", !.to = k]
    <3>1. q \in StreamRecord
      BY DEF StreamRecord, SoundRecord
    <3>2. SameCursor(r, q) /\ q.step = "blocks" /\ q.got = {}
      BY <2>3 DEF StreamRecord, SoundRecord, SameCursor
    <3>3. Sound(q)
      BY <2>1, <2>3, <3>2 DEF SoundRecord, Sound, SameCursor
    <3>. QED BY <3>1, <3>2, <3>3 DEF SoundRecord
  <2>5. Answered(r, n) = batch
    BY <2>1 DEF Answered
  <2>. QED BY <2>2, <2>4, <2>5
<1>. QED BY <1>5, <1>6

\* A poll that has asked for the height is sound.
LEMMA AsksTyped ==
  ASSUME NEW r \in SoundRecord, r.step = "idle", NEW s \in Scope
  PROVE  /\ Asks(r, s) \in SoundRecord
         /\ FreshCursor(Asks(r, s)) \/ SameCursor(r, Asks(r, s))
         /\ Asks(r, s).step # "receipts" /\ Asks(r, s).got = {}
<1>. DEFINE l == IF r.key = s THEN r.last ELSE -1
            M == IF r.key = s THEN r.missed ELSE {}
            b == r.stale /\ r.key = s
            q == [r EXCEPT !.step = "height", !.key = s, !.last = l, !.missed = M, !.stale = b]
<1>1. /\ r.got = {} /\ r.last \in -1..MaxHeight /\ r.stale \in BOOLEAN
      /\ r.missed \in SUBSET Height /\ -1 \in -1..MaxHeight
      /\ r.last >= 0 => r.since >= 0
  BY IndexerAssumption DEF SoundRecord, Sound, StreamRecord
<1>2. l \in -1..MaxHeight /\ M \in SUBSET Height /\ b \in BOOLEAN /\ (l >= 0 => r.since >= 0)
  BY <1>1
<1>3. Asks(r, s) = q
  BY DEF Asks
<1>4. r.key # s => l = -1
  OBVIOUS
<1>5. r.key = s => l = r.last /\ M = r.missed
  OBVIOUS
<1>. HIDE DEF l, M, b
<1>6. /\ q \in StreamRecord /\ q.step = "height" /\ q.key = s /\ q.last = l
      /\ q.since = r.since /\ q.missed = M /\ q.got = {}
  BY <1>1, <1>2 DEF SoundRecord, StreamRecord
<1>. HIDE DEF q
<1>7. Sound(q)
  BY <1>2, <1>6 DEF Sound
<1>. QED BY <1>3, <1>4, <1>5, <1>6, <1>7 DEF SoundRecord, FreshCursor, SameCursor

\* So is one whose rows are written.
LEMMA WrittenTyped ==
  ASSUME NEW r \in SoundRecord, r.step = "receipts"
  PROVE  /\ Written(r) \in SoundRecord
         /\ Written(r).step # "receipts" /\ Written(r).got = {}
         /\ \/ Written(r) = Closed
            \/ /\ Written(r).key = r.key /\ Written(r).since = r.since /\ Written(r).last = r.to
               /\ Written(r).missed = r.missed \cup {e[1] : e \in r.got \ Blocks(r.got)}
<1>. DEFINE M == r.missed \cup {e[1] : e \in r.got \ Blocks(r.got)}
            o == [r EXCEPT !.step = "idle", !.got = {}, !.to = 0, !.last = r.to, !.missed = M]
<1>1. /\ r.to \in 0..MaxHeight /\ r.key \in Scope /\ r.since >= 0
      /\ r.got \in SUBSET (Height \X (Block \cup {None})) /\ r.missed \in SUBSET Height
  BY DEF SoundRecord, Sound, StreamRecord
<1>2. M \in SUBSET Height
  BY <1>1
<1>3. r.to \in -1..MaxHeight /\ 0 \in 0..MaxHeight
  BY <1>1, IndexerAssumption
<1>. HIDE DEF M
<1>4. o \in SoundRecord /\ o.key = r.key /\ o.since = r.since /\ o.last = r.to /\ o.missed = M
      /\ o.step = "idle" /\ o.got = {}
  BY <1>1, <1>2, <1>3 DEF SoundRecord, Sound, StreamRecord
<1>5. CASE r.open
  <2>1. Written(r) = o
    BY <1>5 DEF Written, Rested, SoundRecord, StreamRecord, M
  <2>. QED BY <1>4, <2>1 DEF M
<1>6. CASE ~r.open
  BY <1>6, ClosedTyped DEF Written, Closed
<1>. QED BY <1>5, <1>6

\* The initial state is typed.
LEMMA TypeInit == Init => TypeOK /\ Asking
<1>1. <<>> \in Seq(Block) /\ Len(<<>>) = 0
  OBVIOUS
<1>2. Closed \in StreamRecord /\ Sound(Closed)
  BY ClosedTyped DEF SoundRecord
<1>. QED BY <1>1, <1>2, IndexerAssumption DEF Init, TypeOK, Asking

\* What is mined is a block, and it goes on top of its chain.
LEMMA MineAppends ==
  ASSUME TypeOK, NEW s \in Scope, NEW t \in Payload \cup {None}, Mine(s, t)
  PROVE  \E b \in Block : chain' = [chain EXCEPT ![s] = Append(chain[s], b)]
<1>1. Hash(s, t) \in Hashes \/ t = None
  BY DEF Hash, Hashes
<1>2. [id |-> mined + 1, tx |-> IF t = None THEN None ELSE Hash(s, t)] \in Block
  BY <1>1, IndexerAssumption DEF Mine, Block, TypeOK
<1>. QED BY <1>2 DEF Mine

\* What a step makes of a stream.  Its poll goes on without a new answer, and only
\* a wipe of its project's rows adds to what it missed;
GoesOn(r, q) ==
    /\ q.step = r.step /\ q.key = r.key /\ q.last = r.last /\ q.since = r.since
    /\ q.to = r.to /\ q.got = r.got /\ r.missed \subseteq q.missed

Misses(r, M, b) == [r EXCEPT !.missed = r.missed \cup M, !.stale = b]

\* or it holds nothing and its cursor stays, is new or is gone;
LetsGo(r, q) == q.step # "receipts" /\ q.got = {} /\ (FreshCursor(q) \/ SameCursor(r, q))

\* or it has just the blocks of a batch,
Fetches(r, q, S) ==
    /\ q \in SoundRecord /\ SameCursor(r, q) /\ q.to = r.to
    /\ q.step = "receipts" /\ q.got = S

HasFetched(c) ==
    /\ stream[c].step = "blocks"
    /\ \E N : Fetches(stream[c], stream'[c], Fetched(stream[c], N))
    /\ UNCHANGED <<chain, lost, rows>>

\* or has just written its rows.
HasWritten(c) ==
    /\ stream[c].step = "receipts"
    /\ Insert(stream[c].key, Blocks(stream[c].got))
    /\ stream'[c] = Written(stream[c])
    /\ UNCHANGED <<chain, lost>>

Moves(c) ==
    \/ GoesOn(stream[c], stream'[c])
    \/ LetsGo(stream[c], stream'[c])
    \/ HasFetched(c)
    \/ HasWritten(c)

Streams == stream' \in [Stream -> SoundRecord] /\ \A c \in Stream : Moves(c)

\* A step of one stream moves that stream alone.
LEMMA OneMoves ==
  ASSUME TypeOK, Asking, NEW c \in Stream, NEW q \in SoundRecord,
         stream' = [stream EXCEPT ![c] = q],
         stream'[c] = q => Moves(c)
  PROVE  Streams
<1>1. stream \in [Stream -> SoundRecord]
  BY DEF TypeOK, Asking, SoundRecord
<1>2. stream' \in [Stream -> SoundRecord] /\ stream'[c] = q
  BY <1>1
<1>3. ASSUME NEW d \in Stream, d # c PROVE Moves(d)
  BY <1>1, <1>3 DEF Moves, GoesOn
<1>. QED BY <1>2, <1>3 DEF Streams

\* Every step moves every stream in one of these ways.
LEMMA StreamsMove ==
  ASSUME TypeOK, Asking, [Next]_vars
  PROVE  Streams
<1>1. stream \in [Stream -> SoundRecord]
  BY DEF TypeOK, Asking, SoundRecord
<1>2. ASSUME UNCHANGED stream PROVE Streams
  BY <1>1, <1>2 DEF Streams, Moves, GoesOn
<1>3. ASSUME NEW r \in SoundRecord, NEW b \in BOOLEAN, NEW M \in SUBSET Height
      PROVE  Misses(r, M, b) \in SoundRecord /\ GoesOn(r, Misses(r, M, b))
  <2>1. r.missed \cup M \in SUBSET Height
    BY DEF SoundRecord, StreamRecord
  <2>2. Misses(r, M, b) \in StreamRecord /\ GoesOn(r, Misses(r, M, b))
    BY <2>1 DEF SoundRecord, StreamRecord, GoesOn, Misses
  <2>3. Sound(Misses(r, M, b))
    BY <2>2 DEF SoundRecord, Sound, GoesOn
  <2>. QED BY <2>2, <2>3 DEF SoundRecord
<1>4. ASSUME NEW s \in Scope, Reset(s) PROVE Streams
  <2>1. ASSUME NEW c \in Stream
        PROVE  stream'[c] \in SoundRecord /\ GoesOn(stream[c], stream'[c])
    <3>1. CASE stream[c].key = s
      <4>. DEFINE b == stream[c].stale \/ (s \notin up /\ stream[c].last > 0)
      <4>1. (1..stream[c].last) \in SUBSET Height /\ b \in BOOLEAN
        BY <1>1, IndexerAssumption DEF SoundRecord, StreamRecord, Height
      <4>2. stream'[c] = Misses(stream[c], 1..stream[c].last, b)
        BY <1>4, <3>1 DEF Reset, Misses
      <4>. HIDE DEF b
      <4>. QED BY <1>1, <1>3, <4>1, <4>2
    <3>2. CASE stream[c].key # s
      BY <1>1, <1>4, <3>2 DEF Reset, GoesOn
    <3>. QED BY <3>1, <3>2
  <2>. QED BY <1>4, <2>1 DEF Reset, Streams, Moves
<1>5. ASSUME NEW s \in Scope, NEW n \in 0..MaxHeight, Rewind(s, n) PROVE Streams
  <2>1. ASSUME NEW c \in Stream
        PROVE  stream'[c] \in SoundRecord /\ GoesOn(stream[c], stream'[c])
    <3>. DEFINE b == stream[c].stale \/ (stream[c].key = s /\ n < stream[c].last)
    <3>1. b \in BOOLEAN
      BY <1>1 DEF SoundRecord, StreamRecord
    <3>2. stream'[c] = [stream[c] EXCEPT !.stale = b]
      BY <1>5 DEF Rewind
    <3>3. stream[c] = [stream[c] EXCEPT !.missed = stream[c].missed \cup {}]
      BY <1>1 DEF SoundRecord, StreamRecord
    <3>. HIDE DEF b
    <3>4. stream'[c] = Misses(stream[c], {}, b)
      BY <3>2, <3>3 DEF Misses
    <3>. QED BY <1>1, <1>3, <3>1, <3>4
  <2>. QED BY <1>5, <2>1 DEF Rewind, Streams, Moves
<1>6. ASSUME NEW c \in Stream, Open(c) PROVE Streams
  <2>1. Closed = stream[c] /\ [Closed EXCEPT !.open = TRUE] \in SoundRecord
    BY <1>6, ClosedTyped DEF Open, Closed, SoundRecord, StreamRecord, Sound
  <2>2. LetsGo(Closed, [Closed EXCEPT !.open = TRUE])
    BY DEF LetsGo, Closed, SameCursor
  <2>3. stream' = [stream EXCEPT ![c] = [Closed EXCEPT !.open = TRUE]]
    BY <1>6, <2>1 DEF Open
  <2>. QED BY <2>1, <2>2, <2>3, OneMoves DEF Moves
<1>7. ASSUME NEW c \in Stream, Close(c) PROVE Streams
  <2>1. CASE stream[c].step = "idle"
    <3>1. stream' = [stream EXCEPT ![c] = Closed]
      BY <1>7, <2>1 DEF Close
    <3>2. LetsGo(stream[c], Closed)
      BY DEF LetsGo, Closed, FreshCursor
    <3>. QED BY <3>1, <3>2, ClosedTyped, OneMoves DEF Moves
  <2>2. CASE stream[c].step # "idle"
    <3>1. stream' = [stream EXCEPT ![c] = [stream[c] EXCEPT !.open = FALSE]]
      BY <1>7, <2>2 DEF Close
    <3>2. /\ [stream[c] EXCEPT !.open = FALSE] \in StreamRecord
          /\ GoesOn(stream[c], [stream[c] EXCEPT !.open = FALSE])
      <4>1. PICK r \in StreamRecord : r = stream[c]
        BY <1>1 DEF SoundRecord
      <4>2. [r EXCEPT !.open = FALSE] \in StreamRecord
        BY DEF StreamRecord
      <4>3. GoesOn(r, [r EXCEPT !.open = FALSE])
        BY DEF StreamRecord, GoesOn
      <4>. QED BY <4>1, <4>2, <4>3
    <3>3. Sound([stream[c] EXCEPT !.open = FALSE])
      BY <1>1, <3>2 DEF SoundRecord, Sound, GoesOn
    <3>. QED BY <3>1, <3>2, <3>3, OneMoves DEF Moves, SoundRecord
  <2>. QED BY <2>1, <2>2
<1>8. ASSUME NEW c \in Stream, NEW s \in Scope, PollBegins(c, s) PROVE Streams
  <2>1. /\ Asks(stream[c], s) \in SoundRecord
        /\ LetsGo(stream[c], Asks(stream[c], s))
    BY <1>1, <1>8, AsksTyped DEF PollBegins, LetsGo
  <2>. QED BY <1>8, <2>1, OneMoves DEF PollBegins, Moves
<1>9. ASSUME NEW c \in Stream, HeightArrives(c) PROVE Streams
  <2>1. stream[c] \in SoundRecord /\ stream[c].step = "height" /\ stream[c].key \in Scope
    BY <1>1, <1>9 DEF HeightArrives, SoundRecord, Sound
  <2>2. PICK n \in 0..MaxHeight : n = Len(chain[stream[c].key])
    BY <2>1 DEF TypeOK
  <2>3. Answered(stream[c], n) \in SoundRecord /\ LetsGo(stream[c], Answered(stream[c], n))
    BY <2>1, AnsweredTyped DEF LetsGo
  <2>4. stream' = [stream EXCEPT ![c] = Answered(stream[c], n)]
    BY <1>9, <2>2 DEF HeightArrives
  <2>. QED BY <2>3, <2>4, OneMoves DEF Moves
<1>10. ASSUME NEW c \in Stream, BlocksArrive(c) PROVE Streams
  <2>1. stream[c] \in SoundRecord /\ stream[c].step = "blocks"
    BY <1>1, <1>10 DEF BlocksArrive
  <2>2. PICK N : stream' = [stream EXCEPT ![c].step = "receipts", ![c].got = Fetched(stream[c], N)]
    BY <1>10 DEF BlocksArrive
  <2>3. Fetched(stream[c], N) \in SUBSET (Height \X (Block \cup {None}))
    BY <2>1, FetchedTyped
  <2>4. ASSUME NEW S \in SUBSET (Height \X (Block \cup {None}))
        PROVE  Fetches(stream[c], [stream[c] EXCEPT !.step = "receipts", !.got = S], S)
    <3>. DEFINE q == [stream[c] EXCEPT !.step = "receipts", !.got = S]
    <3>1. /\ q \in StreamRecord /\ SameCursor(stream[c], q)
          /\ q.to = stream[c].to /\ q.step = "receipts" /\ q.got = S
      BY <2>1 DEF SoundRecord, StreamRecord, SameCursor
    <3>. HIDE DEF q
    <3>2. Sound(q)
      BY <2>1, <3>1 DEF SoundRecord, Sound, SameCursor
    <3>. QED BY <3>1, <3>2 DEF SoundRecord, Fetches, q
  <2>5. stream' = [stream EXCEPT ![c] =
                     [stream[c] EXCEPT !.step = "receipts", !.got = Fetched(stream[c], N)]]
    BY <1>1, <2>2
  <2>6. UNCHANGED <<chain, lost, rows>>
    BY <1>10 DEF BlocksArrive, env
  <2>7. PICK q : /\ q = [stream[c] EXCEPT !.step = "receipts", !.got = Fetched(stream[c], N)]
                 /\ Fetches(stream[c], q, Fetched(stream[c], N))
    BY <2>3, <2>4
  <2>8. q \in SoundRecord /\ stream' = [stream EXCEPT ![c] = q]
    BY <2>5, <2>7 DEF Fetches
  <2>9. stream'[c] = q => HasFetched(c)
    BY <2>1, <2>6, <2>7 DEF HasFetched
  <2>. QED BY <2>8, <2>9, OneMoves DEF Moves
<1>11. ASSUME NEW c \in Stream, ReceiptsArrive(c) PROVE Streams
  <2>1. stream[c] \in SoundRecord /\ stream[c].step = "receipts"
    BY <1>1, <1>11 DEF ReceiptsArrive
  <2>2. Written(stream[c]) \in SoundRecord
    BY <2>1, WrittenTyped
  <2>3. stream' = [stream EXCEPT ![c] = Written(stream[c])]
    BY <1>11 DEF ReceiptsArrive
  <2>4. Insert(stream[c].key, Blocks(stream[c].got)) /\ UNCHANGED <<chain, lost>>
    BY <1>11 DEF ReceiptsArrive, env
  <2>. QED BY <2>1, <2>2, <2>3, <2>4, OneMoves DEF Moves, HasWritten
<1>12. ASSUME NEW c \in Stream, RequestFails(c) PROVE Streams
  <2>1. Rested(stream[c]) \in SoundRecord /\ LetsGo(stream[c], Rested(stream[c]))
    BY <1>1, RestedTyped DEF LetsGo, SameCursor, FreshCursor, Closed
  <2>. QED BY <1>12, <2>1, OneMoves DEF RequestFails, Moves
<1>13. ASSUME NEW s \in Scope, NEW t \in Payload \cup {None}, Mine(s, t) PROVE Streams
  BY <1>2, <1>13 DEF Mine
<1>14. ASSUME NEW s \in Scope, NodeStarts(s) \/ NodeStops(s) PROVE Streams
  BY <1>2, <1>14 DEF NodeStarts, NodeStops
<1>15. CASE UNCHANGED vars
  BY <1>2, <1>15 DEF vars
<1>. QED
  BY <1>4, <1>5, <1>6, <1>7, <1>8, <1>9, <1>10, <1>11, <1>12, <1>13, <1>14, <1>15 DEF Next

\* Every step keeps the types.
LEMMA TypeNext ==
  ASSUME TypeOK, Asking, [Next]_vars
  PROVE  TypeOK' /\ Asking'
<1>. USE IndexerAssumption
<1>1. stream' \in [Stream -> StreamRecord] /\ Asking'
  BY StreamsMove DEF Streams, SoundRecord, Asking
<1>2. ASSUME NEW s \in Scope, NEW t \in Payload \cup {None}, Mine(s, t) PROVE TypeOK'
  <2>1. PICK b \in Block : chain' = [chain EXCEPT ![s] = Append(chain[s], b)]
    BY <1>2, MineAppends
  <2>2. chain' \in [Scope -> Seq(Block)] /\ \A o \in Scope : Len(chain'[o]) <= MaxHeight
    BY <1>2, <2>1, AppendTyped DEF Mine, TypeOK
  <2>. QED BY <1>1, <1>2, <2>2 DEF Mine, TypeOK
<1>3. ASSUME NEW s \in Scope, NodeStarts(s) \/ NodeStops(s) PROVE TypeOK'
  BY <1>1, <1>3 DEF NodeStarts, NodeStops, TypeOK
<1>4. ASSUME NEW s \in Scope, NEW n \in 0..MaxHeight, Rewind(s, n) PROVE TypeOK'
  <2>1. n \in 0..Len(chain[s])
    BY <1>4 DEF Rewind, TypeOK
  <2>2. SubSeq(chain[s], 1, n) \in Seq(Block) /\ Len(SubSeq(chain[s], 1, n)) = n
    BY <2>1, PrefixTyped DEF TypeOK
  <2>3. chain' \in [Scope -> Seq(Block)] /\ \A o \in Scope : Len(chain'[o]) <= MaxHeight
    BY <1>4, <2>2 DEF Rewind, TypeOK
  <2>4. lost' \in [Scope -> SUBSET (Height \X Block)]
    BY <1>4, PairsTyped DEF Rewind, TypeOK
  <2>. QED BY <1>1, <1>4, <2>3, <2>4 DEF Rewind, TypeOK
<1>5. ASSUME NEW s \in Scope, Reset(s) PROVE TypeOK'
  <2>1. rows' \in [Scope -> [Height -> Block \cup {None}]]
    BY <1>5 DEF Reset, RowsWithout, TypeOK
  <2>2. txs' \in [Hashes -> (Scope \X Height) \cup {None}]
    BY <1>5 DEF Reset, TxsWithout, TypeOK
  <2>3. Carried(s) \in SUBSET (Height \X Block)
    BY BlocksTyped DEF Carried, TypeOK, StreamRecord
  <2>4. chain' \in [Scope -> Seq(Block)] /\ \A o \in Scope : Len(chain'[o]) <= MaxHeight
    <3>1. <<>> \in Seq(Block) /\ Len(<<>>) = 0
      OBVIOUS
    <3>2. CASE s \in up
      BY <1>5, <3>2 DEF Reset, TypeOK
    <3>3. CASE s \notin up
      <4>1. chain' = [chain EXCEPT ![s] = <<>>]
        BY <1>5, <3>3 DEF Reset
      <4>2. chain' \in [Scope -> Seq(Block)] /\ \A o \in Scope : chain'[o] \in {chain[o], <<>>}
        BY <3>1, <4>1 DEF TypeOK
      <4>. QED BY <3>1, <4>2 DEF TypeOK
    <3>. QED BY <3>2, <3>3
  <2>5. lost' \in [Scope -> SUBSET (Height \X Block)]
    BY <1>5, <2>3 DEF Reset, TypeOK
  <2>. QED BY <1>1, <1>5, <2>1, <2>2, <2>4, <2>5 DEF Reset, TypeOK
<1>6. ASSUME NEW c \in Stream, ReceiptsArrive(c) PROVE TypeOK'
  <2>1. stream[c].key \in Scope /\ Blocks(stream[c].got) \in SUBSET (Height \X Block)
    BY <1>6, BlocksTyped DEF ReceiptsArrive, Asking, Sound, TypeOK, StreamRecord
  <2>2. /\ rows' \in [Scope -> [Height -> Block \cup {None}]]
        /\ txs' \in [Hashes -> (Scope \X Height) \cup {None}]
    BY <1>6, <2>1, InsertTyped DEF ReceiptsArrive
  <2>. QED BY <1>1, <1>6, <2>2 DEF ReceiptsArrive, env, TypeOK
<1>7. ASSUME UNCHANGED <<env, lost, rows, txs>> PROVE TypeOK'
  BY <1>1, <1>7 DEF TypeOK, env
<1>8. ASSUME UNCHANGED vars PROVE TypeOK'
  BY <1>7, <1>8 DEF vars
<1>9. ASSUME NEW c \in Stream,
             \/ Open(c) \/ Close(c) \/ HeightArrives(c) \/ BlocksArrive(c) \/ RequestFails(c)
             \/ \E s \in Scope : PollBegins(c, s)
      PROVE  TypeOK'
  BY <1>7, <1>9 DEF Open, Close, PollBegins, HeightArrives, BlocksArrive, RequestFails
<1>10. TypeOK'
  BY <1>2, <1>3, <1>4, <1>5, <1>6, <1>8, <1>9 DEF Next
<1>. QED BY <1>1, <1>10

\* Every variable keeps its type, whatever is rolled back and whatever answers
\* come late: a cursor never leaves the chain's range and a poll under way never
\* fetches past the bound.
THEOREM TypeCorrect == Spec => []TypeOK
<1>1. TypeOK /\ Asking /\ [Next]_vars => TypeOK' /\ Asking'
  BY TypeNext
<1>. QED BY <1>1, TypeInit, PTL DEF Spec

(***************************************************************************)
(* The invariant behind the refinement: what a poll carries, its project's *)
(* chain has or has lost.                                                  *)
(***************************************************************************)

Known(s) == Pairs(s) \cup lost[s]

Traced == \A c \in Stream, s \in Scope :
    stream[c].key = s => Blocks(stream[c].got) \subseteq Known(s)

\* Only a reset makes a project forget a block.
LEMMA KnownGrows ==
  ASSUME TypeOK, [Next]_vars, NEW s \in Scope, ~Reset(s)
  PROVE  Known(s) \subseteq Known(s)'
<1>1. ASSUME UNCHANGED <<chain, lost>> PROVE Known(s) \subseteq Known(s)'
  BY <1>1 DEF Known, Pairs
<1>2. chain[s] \in Seq(Block) /\ Len(chain[s]) \in Nat /\ lost \in [Scope -> SUBSET (Height \X Block)]
  BY DEF TypeOK
<1>3. ASSUME NEW o \in Scope, NEW t \in Payload \cup {None}, Mine(o, t)
      PROVE  Known(s) \subseteq Known(s)'
  <2>1. PICK b \in Block : chain' = [chain EXCEPT ![o] = Append(chain[o], b)]
    BY <1>3, MineAppends
  <2>2. /\ Len(chain[s]) <= Len(chain'[s]) /\ Len(chain'[s]) \in Nat
        /\ \A n \in 1..Len(chain[s]) : chain'[s][n] = chain[s][n]
    BY <1>2, <2>1, AppendTyped DEF TypeOK
  <2>3. ASSUME NEW n \in 1..Len(chain[s])
        PROVE  n \in 1..Len(chain'[s]) /\ <<n, chain[s][n]>> = <<n, chain'[s][n]>>
    BY <1>2, <2>2
  <2>. QED BY <1>3, <2>3 DEF Known, Pairs, Mine
<1>4. ASSUME NEW o \in Scope, NEW m \in 0..MaxHeight, Rewind(o, m)
      PROVE  Known(s) \subseteq Known(s)'
  <2>1. CASE o # s
    <3>1. chain'[s] = chain[s] /\ lost'[s] = lost[s]
      BY <1>2, <1>4, <2>1 DEF Rewind, TypeOK
    <3>. QED BY <3>1 DEF Known, Pairs
  <2>2. CASE o = s
    <3>1. m \in 0..Len(chain[s])
      BY <1>2, <1>4, <2>2 DEF Rewind
    <3>2. Len(chain'[s]) = m /\ \A n \in 1..m : chain'[s][n] = chain[s][n]
      BY <1>2, <1>4, <2>2, <3>1, PrefixTyped DEF Rewind, TypeOK
    <3>3. lost'[s] = lost[s] \cup {e \in Pairs(s) : e[1] > m}
      BY <1>2, <1>4, <2>2 DEF Rewind
    <3>4. ASSUME NEW n \in 1..Len(chain[s]), n <= m PROVE <<n, chain[s][n]>> \in Pairs(s)'
      BY <1>2, <3>1, <3>2, <3>4 DEF Pairs
    <3>5. ASSUME NEW n \in 1..Len(chain[s]), n > m PROVE <<n, chain[s][n]>> \in lost'[s]
      BY <3>3, <3>5 DEF Pairs
    <3>6. \A n \in 1..Len(chain[s]) : n <= m \/ n > m
      BY <1>2, <3>1
    <3>. QED BY <3>3, <3>4, <3>5, <3>6 DEF Known, Pairs
  <2>. QED BY <2>1, <2>2
<1>5. ASSUME NEW o \in Scope, Reset(o) PROVE Known(s) \subseteq Known(s)'
  <2>1. chain'[s] = chain[s] /\ lost'[s] = lost[s]
    BY <1>2, <1>5 DEF Reset, TypeOK
  <2>. QED BY <2>1 DEF Known, Pairs
<1>6. ASSUME NEW o \in Scope, NodeStarts(o) \/ NodeStops(o) PROVE Known(s) \subseteq Known(s)'
  BY <1>1, <1>6 DEF NodeStarts, NodeStops
<1>7. ASSUME NEW c \in Stream,
             \/ Open(c) \/ Close(c) \/ HeightArrives(c) \/ BlocksArrive(c) \/ ReceiptsArrive(c)
             \/ RequestFails(c) \/ \E o \in Scope : PollBegins(c, o)
      PROVE  Known(s) \subseteq Known(s)'
  BY <1>1, <1>7 DEF Open, Close, PollBegins, HeightArrives, BlocksArrive, ReceiptsArrive,
     RequestFails, env
<1>8. CASE UNCHANGED vars
  BY <1>1, <1>8 DEF vars, env
<1>. QED BY <1>3, <1>4, <1>5, <1>6, <1>7, <1>8 DEF Next

\* What a node answers, its chain has.
LEMMA FetchedKnown ==
  ASSUME TypeOK, NEW r \in SoundRecord, r.step = "blocks", NEW N
  PROVE  Blocks(Fetched(r, N)) \subseteq Pairs(r.key)
<1>1. r.last \in Int /\ r.last >= 0 /\ r.to \in Int /\ r.key \in Scope
  BY DEF SoundRecord, Sound, StreamRecord
<1>2. Len(chain[r.key]) \in Nat
  BY <1>1 DEF TypeOK
<1>3. ASSUME NEW n \in (r.last + 1)..r.to,
             (IF n \in N \/ n > Len(chain[r.key]) THEN None ELSE chain[r.key][n]) # None
      PROVE  /\ n \in 1..Len(chain[r.key])
             /\ (IF n \in N \/ n > Len(chain[r.key]) THEN None ELSE chain[r.key][n]) = chain[r.key][n]
  BY <1>1, <1>2, <1>3
<1>. QED BY <1>3 DEF Fetched, Blocks, Pairs

\* A reset remembers what the polls of its project carry.
LEMMA CarriedStays ==
  ASSUME TypeOK, NEW c \in Stream, NEW s \in Scope, stream[c].key = s, Reset(s)
  PROVE  Blocks(stream[c].got) \subseteq Known(s)'
<1>1. lost'[s] = Carried(s)
  BY DEF Reset, TypeOK
<1>2. Blocks(stream[c].got) \subseteq Carried(s)
  BY DEF Carried
<1>. QED BY <1>1, <1>2 DEF Known

\* What is carried stays known.
LEMMA TracedNext ==
  ASSUME TypeOK, Asking, Traced, [Next]_vars
  PROVE  Traced'
<1>. SUFFICES ASSUME NEW c \in Stream, NEW s \in Scope, stream'[c].key = s
              PROVE  Blocks(stream'[c].got) \subseteq Known(s)'
  BY DEF Traced
<1>1. stream[c] \in SoundRecord /\ Moves(c)
  BY StreamsMove DEF Streams, TypeOK, Asking, SoundRecord
<1>2. ASSUME stream'[c].got = {} PROVE Blocks(stream'[c].got) \subseteq Known(s)'
  BY <1>2 DEF Blocks
<1>3. CASE GoesOn(stream[c], stream'[c])
  <2>1. stream[c].key = s /\ stream'[c].got = stream[c].got
    BY <1>3 DEF GoesOn
  <2>2. CASE Reset(s)
    BY <2>1, <2>2, CarriedStays
  <2>3. CASE ~Reset(s)
    <3>1. Known(s) \subseteq Known(s)'
      BY <2>3, KnownGrows
    <3>. QED BY <2>1, <3>1 DEF Traced
  <2>. QED BY <2>2, <2>3
<1>4. CASE LetsGo(stream[c], stream'[c])
  BY <1>2, <1>4 DEF LetsGo
<1>5. CASE HasFetched(c)
  <2>1. PICK N : Fetches(stream[c], stream'[c], Fetched(stream[c], N))
    BY <1>5 DEF HasFetched
  <2>2. stream'[c].got = Fetched(stream[c], N) /\ stream[c].key = s
    BY <2>1 DEF Fetches, SameCursor
  <2>3. Blocks(Fetched(stream[c], N)) \subseteq Pairs(s)
    BY <1>1, <1>5, <2>2, FetchedKnown DEF HasFetched
  <2>4. Pairs(s) = Pairs(s)'
    BY <1>5 DEF HasFetched, Pairs
  <2>. QED BY <2>2, <2>3, <2>4 DEF Known
<1>6. CASE HasWritten(c)
  <2>1. Written(stream[c]).got = {}
    BY <1>1, <1>6, WrittenTyped DEF HasWritten
  <2>. QED BY <1>2, <1>6, <2>1 DEF HasWritten
<1>. QED BY <1>1, <1>3, <1>4, <1>5, <1>6 DEF Moves

Inv == TypeOK /\ Asking /\ Traced

\* The invariant holds at first, and for good.
LEMMA InvAlways == Spec => []Inv
<1>1. Init => Inv
  <2>1. Init => Traced
    BY DEF Init, Traced, Closed, Blocks
  <2>. QED BY <2>1, TypeInit DEF Inv
<1>2. Inv /\ [Next]_vars => Inv'
  BY TypeNext, TracedNext DEF Inv
<1>. QED BY <1>1, <1>2, PTL DEF Spec

(***************************************************************************)
(* The refinement.                                                         *)
(***************************************************************************)

\* Every step is a step of the promise or leaves its variables alone.
LEMMA StepKeepsPromise ==
  ASSUME Inv, [Next]_vars
  PROVE  [Promise!IndexNext]_(Promise!indexVars)
<1>. DEFINE Kept == [Promise!IndexNext]_(Promise!indexVars)
<1>. USE DEF Inv
<1>1. ASSUME UNCHANGED <<chain, lost, rows>> PROVE Kept
  BY <1>1 DEF Promise!indexVars
<1>2. ASSUME NEW s \in Scope, NEW t \in Payload \cup {None}, Mine(s, t) PROVE Kept
  <2>1. PICK b \in Block : chain' = [chain EXCEPT ![s] = Append(chain[s], b)]
    BY <1>2, MineAppends
  <2>2. Promise!Grow(s, b)
    BY <1>2, <2>1 DEF Mine, Promise!Grow
  <2>. QED BY <2>2 DEF Promise!IndexNext
<1>3. ASSUME NEW s \in Scope, NEW n \in 0..MaxHeight, Rewind(s, n) PROVE Kept
  <2>1. n \in 0..Len(chain[s])
    BY <1>3 DEF Rewind, TypeOK
  <2>2. Promise!RollBack(s, n)
    BY <1>3 DEF Rewind, Promise!RollBack, Pairs, Promise!Pairs
  <2>. QED BY <2>1, <2>2 DEF Promise!IndexNext
<1>4. ASSUME NEW s \in Scope, Reset(s) PROVE Kept
  <2>1. Carried(s) \in SUBSET (Promise!Pairs(s) \cup lost[s])
    BY DEF Traced, Known, Carried, Pairs, Promise!Pairs
  <2>2. Promise!Wipe(s, Carried(s))
    BY <1>4 DEF Reset, RowsWithout, Promise!Wipe, Promise!EmptyRows, Promise!Height, Height
  <2>. QED BY <2>1, <2>2 DEF Promise!IndexNext
<1>5. ASSUME NEW c \in Stream, ReceiptsArrive(c) PROVE Kept
  <2>1. PICK s \in Scope : s = stream[c].key
    BY <1>5 DEF ReceiptsArrive, Asking, Sound
  <2>2. Blocks(stream[c].got) \in SUBSET (Promise!Pairs(s) \cup lost[s])
    BY <2>1 DEF Traced, Known, Pairs, Promise!Pairs
  <2>3. Promise!Store(s, Blocks(stream[c].got))
    BY <1>5, <2>1 DEF ReceiptsArrive, Insert, env, Promise!Store, Promise!Height, Height
  <2>. QED BY <2>2, <2>3 DEF Promise!IndexNext
<1>6. ASSUME NEW c \in Stream,
             \/ Open(c) \/ Close(c) \/ HeightArrives(c) \/ BlocksArrive(c) \/ RequestFails(c)
             \/ \E s \in Scope : PollBegins(c, s)
      PROVE  Kept
  BY <1>1, <1>6 DEF Open, Close, PollBegins, HeightArrives, BlocksArrive, RequestFails, env
<1>7. ASSUME NEW s \in Scope, NodeStarts(s) \/ NodeStops(s) PROVE Kept
  BY <1>1, <1>7 DEF NodeStarts, NodeStops
<1>8. ASSUME UNCHANGED vars PROVE Kept
  BY <1>1, <1>8 DEF vars, env
<1>. QED BY <1>2, <1>3, <1>4, <1>5, <1>6, <1>7, <1>8 DEF Next

\* The streams, whatever their number and their timing, keep the promise of
\* BlockIndex across rollbacks and resets: what a batch writes, its project's chain
\* has or has lost, and a reset leaves nothing to come back but what polls carry.
THEOREM PollsKeepPromise == Spec => KeepsPromise
<1>1. Init => Promise!IndexInit
  BY DEF Init, Promise!IndexInit, Promise!EmptyRows, Promise!Height, Height
<1>2. Inv /\ [Next]_vars => [Promise!IndexNext]_(Promise!indexVars)
  BY StepKeepsPromise
<1>. QED BY <1>1, <1>2, InvAlways, PTL DEF Spec, KeepsPromise, Promise!IndexSpec

(***************************************************************************)
(* Every row is explained.                                                 *)
(***************************************************************************)

RowsKnown == \A s \in Scope, n \in Height : rows[s][n] # None => <<n, rows[s][n]>> \in Known(s)

TxsKnown == \A s \in Scope, h \in Hashes :
    txs[h] # None /\ txs[h][1] = s =>
        \E e \in Known(s) : e[1] = txs[h][2] /\ e[2].tx = h

Explained == RowsKnown /\ TxsKnown

\* Rows written for known blocks are explained.
LEMMA InsertExplains ==
  ASSUME TypeOK, Explained, NEW s \in Scope, NEW S \in SUBSET (Height \X Block), Insert(s, S),
         S \subseteq Known(s), UNCHANGED <<chain, lost>>
  PROVE  Explained'
<1>1. \A o \in Scope : Known(o)' = Known(o)
  BY DEF Known, Pairs
<1>2. ASSUME NEW o \in Scope, NEW n \in Height, rows'[o][n] # None
      PROVE  <<n, rows'[o][n]>> \in Known(o)
  <2>1. CASE o = s /\ \E e \in S : e[1] = n
    <3>1. PICK e \in S : e[1] = n /\ rows'[o][n] = e[2]
      BY <2>1 DEF Insert, TypeOK
    <3>2. e = <<n, rows'[o][n]>>
      BY <3>1
    <3>. QED BY <2>1, <3>2
  <2>2. CASE ~(o = s /\ \E e \in S : e[1] = n)
    <3>1. rows'[o][n] = rows[o][n]
      BY <2>2 DEF Insert, TypeOK
    <3>. QED BY <1>2, <3>1 DEF Explained, RowsKnown
  <2>. QED BY <2>1, <2>2
<1>3. ASSUME NEW o \in Scope, NEW h \in Hashes, txs'[h] # None, txs'[h][1] = o
      PROVE  \E e \in Known(o) : e[1] = txs'[h][2] /\ e[2].tx = h
  <2>1. CASE \E e \in S : e[2].tx = h
    <3>1. PICK e \in S : e[2].tx = h /\ txs'[h] = <<s, e[1]>>
      BY <2>1 DEF Insert
    <3>. QED BY <1>3, <3>1
  <2>2. CASE ~\E e \in S : e[2].tx = h
    <3>1. txs'[h] = txs[h]
      BY <2>2 DEF Insert
    <3>. QED BY <1>3, <3>1 DEF Explained, TxsKnown
  <2>. QED BY <2>1, <2>2
<1>. QED BY <1>1, <1>2, <1>3 DEF Explained, RowsKnown, TxsKnown

\* So are the rows that a reset leaves,
LEMMA ResetExplains ==
  ASSUME TypeOK, Explained, [Next]_vars, NEW s \in Scope, Reset(s)
  PROVE  Explained'
<1>1. ASSUME NEW o \in Scope, o # s PROVE Known(o) \subseteq Known(o)'
  <2>1. chain'[o] = chain[o] /\ lost'[o] = lost[o]
    BY <1>1 DEF Reset, TypeOK
  <2>. QED BY <2>1 DEF Known, Pairs
<1>2. ASSUME NEW o \in Scope, NEW n \in Height, rows'[o][n] # None
      PROVE  o # s /\ rows'[o][n] = rows[o][n]
  BY <1>2 DEF Reset, RowsWithout, TypeOK
<1>3. ASSUME NEW h \in Hashes, txs'[h] # None
      PROVE  txs'[h] = txs[h] /\ txs[h][1] # s
  BY <1>3 DEF Reset, TxsWithout
<1>4. RowsKnown'
  BY <1>1, <1>2 DEF Explained, RowsKnown
<1>5. TxsKnown'
  BY <1>1, <1>3 DEF Explained, TxsKnown
<1>. QED BY <1>4, <1>5 DEF Explained

\* and those that every other step leaves.
LEMMA ExplainedNext ==
  ASSUME Inv, Explained, [Next]_vars
  PROVE  Explained'
<1>. USE DEF Inv
<1>1. ASSUME NEW c \in Stream, ReceiptsArrive(c) PROVE Explained'
  <2>1. PICK s \in Scope : s = stream[c].key
    BY <1>1 DEF ReceiptsArrive, Asking, Sound
  <2>2. Blocks(stream[c].got) \in SUBSET (Height \X Block) /\ Blocks(stream[c].got) \subseteq Known(s)
    BY <2>1, BlocksTyped DEF Traced, TypeOK, StreamRecord
  <2>. QED BY <1>1, <2>1, <2>2, InsertExplains DEF ReceiptsArrive, env
<1>2. ASSUME UNCHANGED <<rows, txs>>, \A s \in Scope : ~Reset(s) PROVE Explained'
  <2>1. \A s \in Scope : Known(s) \subseteq Known(s)'
    BY <1>2, KnownGrows
  <2>2. RowsKnown'
    BY <1>2, <2>1 DEF Explained, RowsKnown
  <2>3. TxsKnown'
    BY <1>2, <2>1 DEF Explained, TxsKnown
  <2>. QED BY <2>2, <2>3 DEF Explained
<1>3. CASE \E s \in Scope : Reset(s)
  BY <1>3, ResetExplains
<1>4. CASE \E c \in Stream : ReceiptsArrive(c)
  BY <1>1, <1>4
<1>5. CASE ~(\E s \in Scope : Reset(s)) /\ ~(\E c \in Stream : ReceiptsArrive(c))
  <2>1. UNCHANGED <<rows, txs>>
    BY <1>5 DEF Next, vars, Mine, NodeStarts, NodeStops, Rewind, Open, Close, PollBegins,
       HeightArrives, BlocksArrive, RequestFails
  <2>. QED BY <1>2, <1>5, <2>1
<1>. QED BY <1>3, <1>4, <1>5

\* Every row of the index, of a block or of a transaction, is what its project's
\* own chain has at that height, or has lost to a rollback since the last reset or
\* while a poll carried it over the reset.
THEOREM RowsAreExplained == Spec => []IndexExplained
<1>1. Init => Explained
  BY DEF Init, Explained, RowsKnown, TxsKnown
<1>2. Inv /\ Explained /\ [Next]_vars => Explained'
  BY ExplainedNext
<1>3. Explained => IndexExplained
  BY DEF Explained, RowsKnown, TxsKnown, IndexExplained, Known, Pairs, Promise!BlocksExplained,
     Promise!Pairs, Promise!Height, Height
<1>. QED BY <1>1, <1>2, <1>3, InvAlways, PTL DEF Spec

(***************************************************************************)
(* Nothing below a cursor is forgotten.                                    *)
(***************************************************************************)

\* A batch has an item for every height past the cursor, and the heights below the
\* cursor have rows, the missed ones aside.
Full(r) == r.step = "receipts" => \A n \in (r.last + 1)..r.to : \E e \in r.got : e[1] = n

Covered(r) ==
    \A s \in Scope : r.key = s =>
        \A n \in ((r.since + 1)..r.last) \ r.missed : rows[s][n] # None

CoveredInv == \A c \in Stream : Full(stream[c]) /\ Covered(stream[c])

\* Rows are written over rows, and for every block of the batch there is one.
LEMMA InsertAdds ==
  ASSUME TypeOK, NEW s \in Scope, NEW S \in SUBSET (Height \X Block), Insert(s, S)
  PROVE  /\ \A o \in Scope, n \in Height : rows[o][n] # None => rows'[o][n] # None
         /\ \A e \in S : rows'[s][e[1]] # None
<1>1. ASSUME NEW n \in Height, \E e \in S : e[1] = n
      PROVE  (CHOOSE e \in S : e[1] = n)[2] \in Block
  BY <1>1
<1>2. None \notin Block
  BY NoneAssumption
<1>3. \A e \in S : e[1] \in Height
  OBVIOUS
<1>. QED BY <1>1, <1>2, <1>3 DEF Insert, TypeOK

\* There is an item for every height that was asked for.
LEMMA FetchedFull ==
  ASSUME NEW r, NEW N, NEW n \in (r.last + 1)..r.to
  PROVE  \E e \in Fetched(r, N) : e[1] = n
<1>. DEFINE e == <<n, IF n \in N \/ n > Len(chain[r.key]) THEN None ELSE chain[r.key][n]>>
<1>1. e \in Fetched(r, N)
  BY DEF Fetched
<1>2. e[1] = n
  OBVIOUS
<1>. HIDE DEF e
<1>. QED BY <1>1, <1>2

\* Only a reset removes rows, and only of its project.
LEMMA RowsStay ==
  ASSUME Inv, [Next]_vars, NEW s \in Scope, ~Reset(s), NEW n \in Height, rows[s][n] # None
  PROVE  rows'[s][n] # None
<1>. USE DEF Inv
<1>1. ASSUME NEW o \in Scope, Reset(o) PROVE rows'[s][n] # None
  BY <1>1 DEF Reset, RowsWithout, TypeOK
<1>2. ASSUME NEW c \in Stream, ReceiptsArrive(c) PROVE rows'[s][n] # None
  <2>1. PICK o \in Scope : o = stream[c].key
    BY <1>2 DEF ReceiptsArrive, Asking, Sound
  <2>2. Blocks(stream[c].got) \in SUBSET (Height \X Block)
    BY BlocksTyped DEF TypeOK, StreamRecord
  <2>3. Insert(o, Blocks(stream[c].got))
    BY <1>2, <2>1 DEF ReceiptsArrive
  <2>. QED BY <2>2, <2>3, InsertAdds
<1>3. CASE ~(\E o \in Scope : Reset(o)) /\ ~(\E c \in Stream : ReceiptsArrive(c))
  <2>1. UNCHANGED rows
    BY <1>3 DEF Next, vars, Mine, NodeStarts, NodeStops, Rewind, Open, Close, PollBegins,
       HeightArrives, BlocksArrive, RequestFails
  <2>. QED BY <2>1
<1>. QED BY <1>1, <1>2, <1>3

\* A stream whose cursor stays is covered as before, unless its rows are wiped.
LEMMA SameCovered ==
  ASSUME Inv, [Next]_vars, NEW c \in Stream, Covered(stream[c]),
         stream'[c].key = stream[c].key, stream'[c].last = stream[c].last,
         stream'[c].since = stream[c].since, stream[c].missed \subseteq stream'[c].missed,
         \A s \in Scope : Reset(s) => stream[c].key # s
  PROVE  Covered(stream[c])'
<1>1. stream[c] \in SoundRecord
  BY DEF Inv, TypeOK, Asking, SoundRecord
<1>2. stream[c].last \in -1..MaxHeight /\ stream[c].since \in -1..MaxHeight
      /\ (stream[c].last >= 0 => stream[c].since >= 0)
  BY <1>1 DEF SoundRecord, StreamRecord, Sound
<1>3. ASSUME NEW n \in (stream[c].since + 1)..stream[c].last PROVE n \in Height
  BY <1>2, <1>3, IndexerAssumption DEF Height
<1>4. ASSUME NEW s \in Scope, stream[c].key = s,
             NEW n \in ((stream[c].since + 1)..stream[c].last) \ stream'[c].missed
      PROVE  rows'[s][n] # None
  <2>1. ~Reset(s)
    BY <1>4
  <2>2. n \in Height /\ rows[s][n] # None
    BY <1>3, <1>4 DEF Covered
  <2>. QED BY <2>1, <2>2, RowsStay
<1>. QED BY <1>4 DEF Covered

\* Every step keeps both.
LEMMA CoveredNext ==
  ASSUME Inv, CoveredInv, [Next]_vars
  PROVE  CoveredInv'
<1>. SUFFICES ASSUME NEW c \in Stream PROVE Full(stream[c])' /\ Covered(stream[c])'
  BY DEF CoveredInv
<1>1. /\ stream[c] \in SoundRecord /\ stream'[c] \in SoundRecord /\ Moves(c)
      /\ Full(stream[c]) /\ Covered(stream[c])
  BY StreamsMove DEF Inv, Streams, TypeOK, Asking, SoundRecord, CoveredInv
<1>2. /\ stream'[c].last \in -1..MaxHeight /\ stream'[c].since \in -1..MaxHeight
      /\ stream[c].last \in -1..MaxHeight /\ stream[c].since \in -1..MaxHeight
      /\ stream[c].to \in 0..MaxHeight
      /\ stream[c].last >= 0 => stream[c].since >= 0
  BY <1>1 DEF SoundRecord, StreamRecord, Sound
<1>3. ASSUME FreshCursor(stream'[c]) PROVE Covered(stream[c])'
  <2>1. (stream'[c].since + 1)..stream'[c].last = {}
    BY <1>2, <1>3 DEF FreshCursor
  <2>. QED BY <2>1 DEF Covered
<1>4. CASE \E s \in Scope : Reset(s) /\ stream[c].key = s
  <2>1. PICK s \in Scope : Reset(s) /\ stream[c].key = s
    BY <1>4
  <2>2. /\ stream'[c].key = s /\ stream'[c].last = stream[c].last /\ stream'[c].to = stream[c].to
        /\ stream'[c].since = stream[c].since /\ stream'[c].got = stream[c].got
        /\ stream'[c].step = stream[c].step
        /\ 1..stream[c].last \subseteq stream'[c].missed
    BY <1>1, <2>1 DEF Reset, SoundRecord, StreamRecord
  <2>3. ((stream[c].since + 1)..stream[c].last) \subseteq 1..stream[c].last
    BY <1>2
  <2>4. ((stream'[c].since + 1)..stream'[c].last) \ stream'[c].missed = {}
    BY <2>2, <2>3
  <2>5. Covered(stream[c])'
    BY <2>4 DEF Covered
  <2>. QED BY <1>1, <2>2, <2>5 DEF Full
<1>5. CASE \A s \in Scope : Reset(s) => stream[c].key # s
  <2>1. ASSUME SameCursor(stream[c], stream'[c]) PROVE Covered(stream[c])'
    BY <1>1, <1>5, <2>1, SameCovered DEF SameCursor
  <2>2. CASE GoesOn(stream[c], stream'[c])
    BY <1>1, <1>5, <2>2, SameCovered DEF GoesOn, Full
  <2>3. CASE LetsGo(stream[c], stream'[c])
    BY <1>3, <2>1, <2>3 DEF LetsGo, Full
  <2>4. CASE HasFetched(c)
    <3>1. PICK N : Fetches(stream[c], stream'[c], Fetched(stream[c], N))
      BY <2>4 DEF HasFetched
    <3>2. SameCursor(stream[c], stream'[c]) /\ stream'[c].to = stream[c].to
          /\ stream'[c].got = Fetched(stream[c], N)
      BY <3>1 DEF Fetches
    <3>3. \A n \in (stream[c].last + 1)..stream[c].to : \E e \in Fetched(stream[c], N) : e[1] = n
      BY FetchedFull
    <3>. QED BY <2>1, <3>2, <3>3 DEF Full, SameCursor
  <2>5. CASE HasWritten(c)
    <3>. DEFINE r == stream[c]
    <3>1. r \in SoundRecord /\ r.step = "receipts" /\ r.key \in Scope /\ stream'[c] = Written(r)
      BY <1>1, <2>5 DEF HasWritten, SoundRecord, Sound
    <3>2. Full(stream[c])'
      BY <3>1, WrittenTyped DEF Full
    <3>3. CASE Written(r) = Closed
      BY <1>3, <3>1, <3>2, <3>3 DEF FreshCursor, Closed
    <3>4. CASE /\ Written(r).key = r.key /\ Written(r).since = r.since /\ Written(r).last = r.to
               /\ Written(r).missed = r.missed \cup {e[1] : e \in r.got \ Blocks(r.got)}
      <4>1. PICK s \in Scope : s = r.key
        BY <3>1
      <4>2. Insert(s, Blocks(r.got)) /\ Blocks(r.got) \in SUBSET (Height \X Block)
        BY <2>5, <3>1, <4>1, BlocksTyped DEF HasWritten, SoundRecord, StreamRecord
      <4>3. /\ \A n \in Height : rows[s][n] # None => rows'[s][n] # None
            /\ \A e \in Blocks(r.got) : rows'[s][e[1]] # None
        BY <4>2, InsertAdds DEF Inv
      <4>4. ASSUME NEW n \in (r.since + 1)..r.to, n \notin stream'[c].missed
            PROVE  rows'[s][n] # None
        <5>1. CASE n <= r.last
          <6>1. n \in ((r.since + 1)..r.last) \ r.missed /\ n \in Height
            BY <1>2, <3>1, <3>4, <4>4, <5>1, IndexerAssumption DEF Height
          <6>. QED BY <1>1, <4>1, <4>3, <6>1 DEF Covered
        <5>2. CASE n > r.last
          <6>1. n \in (r.last + 1)..r.to
            BY <1>2, <4>4, <5>2
          <6>2. PICK e \in r.got : e[1] = n
            BY <1>1, <3>1, <6>1 DEF Full
          <6>3. e \in Blocks(r.got)
            BY <3>1, <3>4, <4>4, <6>2
          <6>. QED BY <4>3, <6>2, <6>3
        <5>. QED BY <1>2, <4>4, <5>1, <5>2
      <4>5. stream'[c].key = s /\ stream'[c].since = r.since /\ stream'[c].last = r.to
        BY <3>1, <3>4, <4>1
      <4>6. Covered(stream[c])'
        BY <4>4, <4>5 DEF Covered
      <4>. QED BY <3>2, <4>6
    <3>. QED BY <3>1, <3>3, <3>4, WrittenTyped
  <2>. QED BY <1>1, <2>2, <2>3, <2>4, <2>5 DEF Moves
<1>. QED BY <1>4, <1>5

\* Between the tip at which its cursor was last set and the cursor, every height has
\* a row, but for those at which the node answered null or an error, and those
\* wiped since: no interleaving of batches, failures, rollbacks and other streams
\* leaves another gap.
THEOREM CursorStaysCovered == Spec => []CursorCovered
<1>1. Init => CoveredInv
  BY DEF Init, CoveredInv, Full, Covered, Closed
<1>2. Inv /\ CoveredInv /\ [Next]_vars => CoveredInv'
  BY CoveredNext
<1>3. Inv /\ CoveredInv => CursorCovered
  <2>. SUFFICES ASSUME Inv, CoveredInv, NEW c \in Stream, stream[c].key # None,
                       NEW n \in ((stream[c].since + 1)..stream[c].last) \ stream[c].missed
                PROVE  rows[stream[c].key][n] # None
    BY DEF CursorCovered
  <2>1. stream[c].key \in Scope
    BY DEF Inv, TypeOK, StreamRecord
  <2>. QED BY <2>1 DEF CoveredInv, Covered
<1>. QED BY <1>1, <1>2, <1>3, InvAlways, PTL DEF Spec

=============================================================================
