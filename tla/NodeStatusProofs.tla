------------------------- MODULE NodeStatusProofs -------------------------
(***************************************************************************)
(* Theorems about NodeStatus: type correctness, and that the page shows    *)
(* the newest answer and a true block time.  The second needs the sampled  *)
(* timestamps, which are read from neighbouring blocks unless a batch has  *)
(* holes.                                                                  *)
(***************************************************************************)
EXTENDS NodeStatus, FiniteSetTheorems, WellFoundedInduction, TLAPS

-----------------------------------------------------------------------------
(* The inductive invariants.                                               *)

Found  == [height : Nat, chain : Chain]
Aim    == [port : Port, chain : Chain, key : Key]
Probed(r) == r.found \cup {r.target.port, DefaultPort}

\* What is typed here does not depend on what the timestamps are.
IsStatus(s) == s \in [running : BOOLEAN, port : Port, chain : Chain,
                      observed : BOOLEAN, every : {s.every}, late : BOOLEAN]

IsWaiting(r)  == r \in [stage : {"free", "sent"}, outdated : BOOLEAN]
IsProbing(r)  == /\ r \in [stage : {"probing"}, outdated : BOOLEAN, target : Aim, found : SUBSET Port,
                           waits : SUBSET Port, probe : [Probed(r) -> Found \cup {None}]]
                 /\ r.waits \subseteq Probed(r)
IsBalance(r)  == r \in [stage : {"balance"}, outdated : BOOLEAN, key : Key, found : Found,
                        node : Port \X Chain, times : {r.times}]
IsAnswered(r) == /\ r \in [stage : {"answered"}, outdated : BOOLEAN, status : {r.status}]
                 /\ IsStatus(r.status)
IsRequest(r)  == IsWaiting(r) \/ IsProbing(r) \/ IsBalance(r) \/ IsAnswered(r)

TypeInv ==
    /\ node \in [Port -> Node \cup {None}]
    /\ \A p \in Port : node[p] # None => node[p] \in Node /\ Len(node[p].times) >= 1
    /\ instance \in [Key -> Config \cup {None}]
    /\ \A k \in Key : instance[k] # None => instance[k] \in Config
    /\ listing \in [found : SUBSET [port : Port, key : Key], fresh : BOOLEAN]
    /\ DOMAIN lastBlockTime = Port \X Chain
    /\ DOMAIN request = Slot
    /\ \A i \in Slot : IsRequest(request[i])
    /\ IsStatus(shown)
    /\ changes \in Nat /\ faults \in Nat

\* The effect's own poll is never out of date, and with it what the page shows.
Newest == ~request[0].outdated /\ ~shown.late

\* A node with a block time mines by it.
Mines ==
    \A p \in Port : node[p] # None /\ node[p].every # None =>
        \A j \in 1..Len(node[p].times) - 1 : node[p].times[j + 1] - node[p].times[j] = node[p].every

\* A block time that is right for the node on a port, or none.
Right(nodes, p, every) == nodes[p] # None /\ (nodes[p].every # None => every \in {nodes[p].every, None})

\* By stage, what a request has read, as long as the nodes are those of the start.
ReadsRight(nodes, r) ==
    /\ r.stage = "probing" => \A p \in DOMAIN r.probe : r.probe[p] # None => nodes[p] # None
    /\ r.stage = "balance" =>
         /\ nodes[r.node[1]] # None
         /\ nodes[r.node[1]].every # None /\ Len(r.times) >= 2 =>
              r.times[1] - r.times[2] = nodes[r.node[1]].every
    /\ r.stage = "answered" => (r.status.observed => Right(nodes, r.status.port, r.status.every))

Unchanging ==
    /\ \A k \in Key : instance[k] # None =>
         node[instance[k].port] # None /\ node[instance[k].port].every = instance[k].every
    /\ \A p \in Port, c \in Chain : node[p] # None => Right(node, p, lastBlockTime[<<p, c>>])
    /\ \A i \in Slot : ReadsRight(node, request[i])
    /\ shown.observed => Right(node, shown.port, shown.every)

BlockTimes == Mines /\ (changes = 0 => Unchanging)

-----------------------------------------------------------------------------
(* Sets of numbers.                                                        *)

LEMMA LeastNatural ==
    ASSUME NEW S \in SUBSET Nat, S # {}
    PROVE  \E x \in S : \A y \in S : x <= y
<1>1. PICK x \in S : \A y \in S : ~ (<<y, x>> \in OpToRel(<, Nat))
    BY NatLessThanWellFounded, WFMin, Zenon
<1>2. \A y \in S : ~ (y < x)
    BY <1>1 DEF OpToRel
<1> QED BY <1>2

LEMMA LeastIsIn ==
    ASSUME NEW S \in SUBSET Nat, S # {}
    PROVE  Min(S) \in S
BY LeastNatural DEF Min

LEMMA GreatestNatural ==
    ASSUME NEW S \in SUBSET Nat, S # {}, NEW m \in Nat, \A x \in S : x <= m
    PROVE  \E x \in S : \A y \in S : y <= x
<1> DEFINE T == {m - x : x \in S}
<1>1. T \in SUBSET Nat /\ T # {}
  <2>1. \A x \in S : m - x \in Nat
      OBVIOUS
  <2> QED BY <2>1
<1>2. PICK t \in T : \A u \in T : t <= u
    BY <1>1, LeastNatural
<1>3. PICK x \in S : t = m - x
    OBVIOUS
<1>4. ASSUME NEW y \in S PROVE y <= x
  <2>1. m - y \in T
      OBVIOUS
  <2>2. m - x <= m - y
      BY <1>2, <1>3, <2>1
  <2> QED BY <2>2
<1> QED BY <1>4

\* A set without holes is an interval.
LEMMA NoHoles ==
    ASSUME NEW S \in SUBSET Nat, NEW m \in Nat, \A x \in S : x <= m,
           \A a, c \in S, b \in Nat : a < b /\ b < c => b \in S
    PROVE  \E lo \in Nat, hi \in Nat : S = lo..hi
<1>1. CASE S = {}
  <2>1. S = 1..0
      BY <1>1
  <2> QED BY <2>1
<1>2. CASE S # {}
  <2>1. PICK lo \in S : \A y \in S : lo <= y
      BY <1>2, LeastNatural
  <2>2. PICK hi \in S : \A y \in S : y <= hi
      BY <1>2, GreatestNatural
  <2>3. ASSUME NEW b \in lo..hi PROVE b \in S
      BY <2>1, <2>2
  <2>4. ASSUME NEW b \in S PROVE b \in lo..hi
      BY <2>1, <2>2
  <2>5. S = lo..hi
      BY <2>3, <2>4
  <2> QED BY <2>5
<1> QED BY <1>1, <1>2

\* The blocks of an interval, newest first.
LEMMA NewestFirst ==
    ASSUME NEW lo \in Nat, NEW hi \in Nat
    PROVE  \E q \in [1..Cardinality(lo..hi) -> lo..hi] :
               /\ \A b \in lo..hi : \E j \in DOMAIN q : q[j] = b
               /\ \A j, k \in DOMAIN q : j < k => q[j] > q[k]
<1>1. Cardinality(lo..hi) = IF lo > hi THEN 0 ELSE hi - lo + 1
    BY FS_Interval
<1> DEFINE n == Cardinality(lo..hi)
           q == [j \in 1..n |-> hi - j + 1]
<1>2. q \in [1..n -> lo..hi]
    BY <1>1
<1>3. ASSUME NEW b \in lo..hi PROVE \E j \in DOMAIN q : q[j] = b
  <2>1. hi - b + 1 \in 1..n
      BY <1>1
  <2>2. q[hi - b + 1] = b
      BY <2>1
  <2> QED BY <2>1, <2>2
<1>4. \A j, k \in DOMAIN q : j < k => q[j] > q[k]
    BY <1>1
<1> QED BY <1>2, <1>3, <1>4

\* The first two timestamps of a sample without holes are of neighbouring blocks.
LEMMA FirstGap ==
    ASSUME NEW n \in Node, NEW e \in Nat, NEW lo \in Nat, NEW hi \in Nat, hi < Len(n.times),
           \A j \in 1..Len(n.times) - 1 : n.times[j + 1] - n.times[j] = e,
           Len(Timestamps(n, lo..hi)) >= 2
    PROVE  Timestamps(n, lo..hi)[1] - Timestamps(n, lo..hi)[2] = e
<1> DEFINE S   == lo..hi
           N   == Cardinality(S)
           Descends(q) == /\ \A b \in S : \E j \in DOMAIN q : q[j] = b
                          /\ \A j, k \in DOMAIN q : j < k => q[j] > q[k]
           ids == CHOOSE q \in [1..N -> S] : Descends(q)
           ts  == Timestamps(n, S)
<1>1. /\ ids \in [1..N -> S]
      /\ \A b \in S : \E j \in DOMAIN ids : ids[j] = b
      /\ \A j, k \in DOMAIN ids : j < k => ids[j] > ids[k]
  <2>1. \E q \in [1..N -> S] : Descends(q)
      BY NewestFirst
  <2>2. ids \in [1..N -> S] /\ Descends(ids)
    <3> HIDE DEF Descends, N, S
    <3> QED BY <2>1
  <2> QED BY <2>2
<1>2. ts = [j \in DOMAIN ids |-> n.times[ids[j] + 1]]
    BY DEF Timestamps
<1>3. N \in Nat /\ \A b \in S : b \in Nat /\ lo <= b /\ b <= hi
  <2>1. N = IF lo > hi THEN 0 ELSE hi - lo + 1
      BY FS_Interval
  <2>2. N \in Nat
    <3> HIDE DEF N
    <3> QED BY <2>1
  <2> QED BY <2>2
<1>4. \A b \in Int : lo <= b /\ b <= hi => b \in S
    OBVIOUS
<1>5. n.times \in Seq(Nat)
    BY DEF Node
<1> HIDE DEF S, N, ids, ts
<1>6. DOMAIN ids = 1..N
    BY <1>1
<1>7. ts = [j \in 1..N |-> n.times[ids[j] + 1]]
    BY <1>2, <1>6
<1>8. ASSUME NEW b \in S PROVE n.times[b + 1] \in Nat
  <2>1. b + 1 \in 1..Len(n.times)
      BY <1>3, <1>5
  <2> QED BY <1>5, <2>1
<1>9. ts \in Seq(Nat) /\ Len(ts) = N
  <2>1. \A j \in 1..N : n.times[ids[j] + 1] \in Nat
      BY <1>1, <1>8
  <2> QED BY <1>3, <1>7, <2>1
<1>10. N >= 2
    BY <1>9 DEF ts, S
<1>11. 1 \in 1..N /\ 2 \in 1..N
    BY <1>3, <1>10
<1>12. ids[1] \in S /\ ids[2] \in S /\ ids[1] > ids[2]
    BY <1>1, <1>6, <1>11
<1>13. ids[1] = ids[2] + 1
  <2>1. ids[1] \in Nat /\ ids[2] \in Nat /\ lo <= ids[2] /\ ids[1] <= hi
      BY <1>3, <1>12
  <2>2. SUFFICES ASSUME ids[1] > ids[2] + 1 PROVE FALSE
      BY <1>12, <2>1
  <2>3. ids[2] + 1 \in S
      BY <1>4, <2>1, <2>2
  <2>4. PICK j \in 1..N : ids[j] = ids[2] + 1
      BY <1>1, <1>6, <2>3
  <2>5. j # 1 /\ j # 2
      BY <2>1, <2>2, <2>4
  <2>6. j > 2
      BY <1>3, <2>5
  <2>7. ids[2] > ids[j]
      BY <1>1, <1>6, <1>11, <2>6
  <2> QED BY <2>1, <2>4, <2>7
<1>14. ts[1] = n.times[ids[1] + 1] /\ ts[2] = n.times[ids[2] + 1]
    BY <1>7, <1>11
<1>15. ids[2] + 1 \in 1..Len(n.times) - 1
    BY <1>3, <1>5, <1>12, <1>13
<1>16. n.times[(ids[2] + 1) + 1] - n.times[ids[2] + 1] = e
    BY <1>15
<1>17. ts[1] - ts[2] = e
    BY <1>13, <1>14, <1>16
<1> QED BY <1>17 DEF ts, S

-----------------------------------------------------------------------------
(* Lemmas about requests, listings and targets.                            *)

\* The stage tells what a request holds.
LEMMA StageHolds ==
    ASSUME NEW r, IsRequest(r)
    PROVE  /\ r.stage \in {"free", "sent", "probing", "balance", "answered"} /\ r.outdated \in BOOLEAN
           /\ r.stage \in {"free", "sent"} => IsWaiting(r)
           /\ r.stage = "probing" => IsProbing(r)
           /\ r.stage = "balance" => IsBalance(r)
           /\ r.stage = "answered" => IsAnswered(r)
<1>1. CASE IsWaiting(r)
  <2>1. r.stage \in {"free", "sent"} /\ r.outdated \in BOOLEAN
      BY <1>1 DEF IsWaiting
  <2> QED BY <1>1, <2>1
<1>2. CASE IsProbing(r)
  <2>1. r.stage = "probing" /\ r.outdated \in BOOLEAN
      BY <1>2 DEF IsProbing
  <2> QED BY <1>2, <2>1
<1>3. CASE IsBalance(r)
  <2>1. r.stage = "balance" /\ r.outdated \in BOOLEAN
      BY <1>3 DEF IsBalance
  <2> QED BY <1>3, <2>1
<1>4. CASE IsAnswered(r)
  <2>1. r.stage = "answered" /\ r.outdated \in BOOLEAN
      BY <1>4 DEF IsAnswered
  <2> QED BY <1>4, <2>1
<1> QED BY <1>1, <1>2, <1>3, <1>4 DEF IsRequest

LEMMA WaitingTyped ==
    /\ IsRequest(Free) /\ Free.stage = "free" /\ Free.outdated = FALSE
    /\ IsRequest(Asked) /\ Asked.stage = "sent" /\ Asked.outdated = FALSE
BY DEF Free, Asked, IsRequest, IsWaiting

\* A request that goes out of date is otherwise as it was.
LEMMA OutdatedTyped ==
    ASSUME NEW r, IsRequest(r)
    PROVE  /\ IsRequest([r EXCEPT !.outdated = TRUE])
           /\ [r EXCEPT !.outdated = TRUE].stage = r.stage
           /\ r.stage = "probing" => [r EXCEPT !.outdated = TRUE].probe = r.probe
           /\ r.stage = "balance" => /\ [r EXCEPT !.outdated = TRUE].node = r.node
                                     /\ [r EXCEPT !.outdated = TRUE].times = r.times
           /\ r.stage = "answered" => [r EXCEPT !.outdated = TRUE].status = r.status
<1> DEFINE s == [r EXCEPT !.outdated = TRUE]
<1>1. CASE r.stage \in {"free", "sent"}
  <2>1. IsWaiting(r)
      BY <1>1, StageHolds
  <2>2. IsWaiting(s) /\ s.stage = r.stage
      BY <2>1 DEF IsWaiting
  <2> QED BY <1>1, <2>2 DEF IsRequest
<1>2. CASE r.stage = "probing"
  <2>1. IsProbing(r)
      BY <1>2, StageHolds
  <2>2. /\ s.stage = "probing" /\ s.outdated = TRUE /\ s.target = r.target /\ s.found = r.found
        /\ s.waits = r.waits /\ s.probe = r.probe
        /\ s \in [stage : {"probing"}, outdated : BOOLEAN, target : Aim, found : SUBSET Port,
                  waits : SUBSET Port, probe : [Probed(r) -> Found \cup {None}]]
      BY <2>1 DEF IsProbing
  <2> HIDE DEF s
  <2>3. Probed(s) = Probed(r)
      BY <2>2 DEF Probed
  <2>4. r.waits \subseteq Probed(r)
      BY <2>1 DEF IsProbing
  <2>5. IsProbing(s)
      BY <2>2, <2>3, <2>4 DEF IsProbing
  <2> QED BY <1>2, <2>2, <2>5 DEF IsRequest, s
<1>3. CASE r.stage = "balance"
  <2>1. IsBalance(r)
      BY <1>3, StageHolds
  <2>2. /\ s.stage = "balance" /\ s.node = r.node /\ s.times = r.times
        /\ s \in [stage : {"balance"}, outdated : BOOLEAN, key : Key, found : Found,
                  node : Port \X Chain, times : {r.times}]
      BY <2>1 DEF IsBalance
  <2> HIDE DEF s
  <2>3. IsBalance(s)
      BY <2>2 DEF IsBalance
  <2> QED BY <1>3, <2>2, <2>3 DEF IsRequest, s
<1>4. CASE r.stage = "answered"
  <2>1. IsAnswered(r)
      BY <1>4, StageHolds
  <2>2. /\ s.stage = "answered" /\ s.status = r.status
        /\ s \in [stage : {"answered"}, outdated : BOOLEAN, status : {r.status}]
      BY <2>1 DEF IsAnswered
  <2> HIDE DEF s
  <2>3. IsAnswered(s)
      BY <2>1, <2>2 DEF IsAnswered
  <2> QED BY <1>4, <2>2, <2>3 DEF IsRequest, s
<1> QED BY <1>1, <1>2, <1>3, <1>4, StageHolds

LEMMA OwnerTyped ==
    ASSUME NEW p
    PROVE  Owner(p) \in Key
BY DEF Owner, Key

LEMMA ListedTyped ==
    ASSUME TypeInv
    PROVE  Listed \subseteq [port : Port, key : Key]
<1>1. CASE listing.fresh
    BY <1>1 DEF Listed, TypeInv
<1>2. CASE ~listing.fresh
    BY <1>2, OwnerTyped DEF Listed
<1> QED BY <1>1, <1>2

LEMMA LowestIsIn ==
    ASSUME NEW S, S \subseteq [port : Port, key : Key], S # {}
    PROVE  Lowest(S) \in S
<1> DEFINE P == {l.port : l \in S}
<1>1. P \in SUBSET Nat /\ P # {}
  <2>1. \A l \in S : l.port \in Nat
      BY StatusAssumption
  <2> QED BY <2>1
<1>2. PICK p \in P : \A q \in P : p <= q
    BY <1>1, LeastNatural
<1>3. PICK l \in S : l.port = p
    BY <1>2
<1>4. \A m \in S : l.port <= m.port
    BY <1>2, <1>3
<1> QED BY <1>4 DEF Lowest

LEMMA TargetTyped ==
    ASSUME TypeInv, NEW target \in Targets
    PROVE  target \in Aim
<1> DEFINE held  == {k \in Key : instance[k] # None}
           usual == {l \in Listed : l.port = DefaultPort}
<1>1. ASSUME NEW p \in Port, NEW c \in Chain, NEW k \in Key PROVE Target(p, c, k) \in Aim
    BY DEF Target, Aim
<1>2. ASSUME NEW l \in Listed PROVE Target(l.port, DefaultChain, l.key) \in Aim
    BY <1>1, ListedTyped, StatusAssumption
<1>3. CASE held # {}
  <2>1. PICK k \in held : target = Target(instance[k].port, instance[k].chain, k)
      BY <1>3 DEF Targets
  <2>2. instance[k].port \in Port /\ instance[k].chain \in Chain
      BY DEF TypeInv, Config
  <2> QED BY <1>1, <2>1, <2>2
<1>4. CASE held = {} /\ Listed # {}
  <2> DEFINE l == IF usual # {} THEN CHOOSE u \in usual : TRUE ELSE Lowest(Listed)
  <2>1. target = Target(l.port, DefaultChain, l.key)
      BY <1>4 DEF Targets
  <2>2. l \in Listed
    <3>1. CASE usual # {}
        BY <3>1
    <3>2. CASE usual = {}
      <4>1. Lowest(Listed) \in Listed
          BY <1>4, ListedTyped, LowestIsIn
      <4> QED BY <3>2, <4>1
    <3> QED BY <3>1, <3>2
  <2> HIDE DEF l
  <2> QED BY <1>2, <2>1, <2>2
<1>5. CASE held = {} /\ Listed = {}
  <2>1. target \in {Target(DefaultPort, DefaultChain, None)}
                   \cup {Target(p, c, k) : p \in Port, c \in Chain, k \in Project}
      BY <1>5 DEF Targets
  <2>2. None \in Key /\ Project \subseteq Key
      BY DEF Key
  <2> QED BY <1>1, <2>1, <2>2, StatusAssumption
<1> QED BY <1>3, <1>4, <1>5

\* The port that is taken for the node answered.
LEMMA FirstAnswerAlive ==
    ASSUME NEW r, r.found \in SUBSET Port, NEW alive, alive \subseteq Probed(r), alive # {}
    PROVE  FirstAnswer(r, alive) \in alive
<1>1. CASE r.target.port \in alive
    BY <1>1 DEF FirstAnswer
<1>2. CASE r.target.port \notin alive /\ r.found \cap alive # {}
  <2>1. r.found \cap alive \in SUBSET Nat
      BY StatusAssumption
  <2>2. Min(r.found \cap alive) \in r.found \cap alive
      BY <1>2, <2>1, LeastIsIn
  <2> QED BY <1>2, <2>2 DEF FirstAnswer
<1>3. CASE r.target.port \notin alive /\ r.found \cap alive = {}
    BY <1>3 DEF FirstAnswer, Probed
<1> QED BY <1>1, <1>2, <1>3

-----------------------------------------------------------------------------
(* What the steps of the handler make of their request.                    *)

\* The nodes are those of the start, with their block times.
Stays == ~Holes /\ Mines /\ changes = 0 /\ Unchanging

LEMMA RequestSet ==
    ASSUME TypeInv, NEW i \in Slot, NEW r, IsRequest(r), request' = [request EXCEPT ![i] = r]
    PROVE  /\ DOMAIN request' = Slot /\ \A j \in Slot : IsRequest(request'[j])
           /\ request'[i] = r /\ \A j \in Slot \ {i} : request'[j] = request[j]
<1>1. request'[i] = r /\ \A j \in Slot \ {i} : request'[j] = request[j]
    BY DEF TypeInv
<1>2. DOMAIN request' = Slot
    BY DEF TypeInv
<1>3. ASSUME NEW j \in Slot PROVE IsRequest(request'[j])
  <2>1. CASE j = i
      BY <1>1, <2>1
  <2>2. CASE j # i
      BY <1>1, <2>2 DEF TypeInv
  <2> QED BY <2>1, <2>2
<1> QED BY <1>1, <1>2, <1>3

LEMMA BeginMakes ==
    ASSUME TypeInv, NEW i \in Slot, Begin(i)
    PROVE  \E r : /\ IsRequest(r) /\ r.outdated = request[i].outdated /\ (Stays => ReadsRight(node, r))
                  /\ request' = [request EXCEPT ![i] = r]
<1>1. PICK target \in Targets :
         request' = [request EXCEPT ![i] =
            [stage |-> "probing", outdated |-> request[i].outdated, target |-> target,
             found |-> {l.port : l \in Listed},
             waits |-> {l.port : l \in Listed} \cup {target.port, DefaultPort},
             probe |-> [p \in {l.port : l \in Listed} \cup {target.port, DefaultPort} |-> None]]]
    BY DEF Begin, Goes
<1>2. target \in Aim /\ target.port \in Port
    BY TargetTyped DEF Aim
<1>3. request[i].outdated \in BOOLEAN
    BY StageHolds DEF TypeInv
<1>4. PICK F \in SUBSET Port : F = {l.port : l \in Listed}
    BY ListedTyped
<1> DEFINE W == F \cup {target.port, DefaultPort}
           r == [stage |-> "probing", outdated |-> request[i].outdated, target |-> target,
                 found |-> F, waits |-> W, probe |-> [p \in W |-> None]]
<1>5. request' = [request EXCEPT ![i] = r]
    BY <1>1, <1>4
<1>6. W \in SUBSET Port
    BY <1>2, StatusAssumption
<1>7. [p \in W |-> None] \in [W -> Found \cup {None}]
    OBVIOUS
<1>8. Probed(r) = W
    BY DEF Probed
<1> HIDE DEF W
<1>9. r \in [stage : {"probing"}, outdated : BOOLEAN, target : Aim, found : SUBSET Port,
             waits : SUBSET Port, probe : [W -> Found \cup {None}]] /\ r.waits = W
    BY <1>2, <1>3, <1>6, <1>7
<1>10. r.stage = "probing" /\ r.outdated = request[i].outdated /\ \A p \in W : r.probe[p] = None
    OBVIOUS
<1>11. DOMAIN r.probe = W
    OBVIOUS
<1> HIDE DEF r
<1>12. IsProbing(r)
    BY <1>8, <1>9 DEF IsProbing
<1>13. ReadsRight(node, r)
    BY <1>10, <1>11 DEF ReadsRight
<1> QED BY <1>5, <1>10, <1>12, <1>13 DEF IsRequest

LEMMA ProbePortMakes ==
    ASSUME TypeInv, NEW i \in Slot, NEW p \in Port, ProbePort(i, p)
    PROVE  \E r : /\ IsRequest(r) /\ r.outdated = request[i].outdated /\ (Stays => ReadsRight(node, r))
                  /\ request' = [request EXCEPT ![i] = r]
<1> DEFINE q == request[i]
<1>1. q.stage = "probing" /\ p \in q.waits /\ IsRequest(q)
    BY DEF ProbePort, TypeInv
<1>2. IsProbing(q)
    BY <1>1, StageHolds
<1>3. PICK x \in Found \cup {None} :
         /\ x # None => node[p] # None
         /\ request' = [request EXCEPT ![i].probe[p] = x, ![i].waits = @ \ {p}]
  <2> DEFINE height == Len(node[p].times) - 1
  <2>1. ASSUME node[p] # None
        PROVE  [height |-> height, chain |-> node[p].chain] \in Found
               /\ [height |-> height, chain |-> DefaultChain] \in Found
    <3>1. node[p] \in Node /\ Len(node[p].times) >= 1
        BY <2>1 DEF TypeInv
    <3>2. height \in Nat /\ node[p].chain \in Chain
        BY <3>1 DEF Node
    <3> HIDE DEF height
    <3> QED BY <3>2, StatusAssumption DEF Found
  <2>2. \/ request' = [request EXCEPT ![i].probe[p] = None, ![i].waits = @ \ {p}]
        \/ /\ node[p] # None
           /\ \/ request' = [request EXCEPT ![i].probe[p] = [height |-> height, chain |-> node[p].chain],
                                            ![i].waits = @ \ {p}]
              \/ request' = [request EXCEPT ![i].probe[p] = [height |-> height, chain |-> DefaultChain],
                                            ![i].waits = @ \ {p}]
      BY DEF ProbePort
  <2> HIDE DEF height
  <2> QED BY <2>1, <2>2
<1> DEFINE r == [q EXCEPT !.probe[p] = x, !.waits = @ \ {p}]
<1>4. request' = [request EXCEPT ![i] = r]
    BY <1>3 DEF TypeInv
<1>5. p \in Probed(q) /\ q.probe \in [Probed(q) -> Found \cup {None}]
    BY <1>1, <1>2 DEF IsProbing
<1>6. /\ r.stage = "probing" /\ r.outdated = q.outdated /\ r.target = q.target /\ r.found = q.found
      /\ r.waits = q.waits \ {p} /\ r.probe = [q.probe EXCEPT ![p] = x]
      /\ r \in [stage : {"probing"}, outdated : BOOLEAN, target : Aim, found : SUBSET Port,
                waits : SUBSET Port, probe : [Probed(q) -> Found \cup {None}]]
  <2>1. [q.probe EXCEPT ![p] = x] \in [Probed(q) -> Found \cup {None}]
      BY <1>5
  <2> QED BY <1>2, <2>1 DEF IsProbing
<1>7. r.waits \subseteq Probed(q)
    BY <1>2, <1>6 DEF IsProbing
<1> HIDE DEF r
<1>8. Probed(r) = Probed(q)
    BY <1>6 DEF Probed
<1>9. IsProbing(r)
    BY <1>6, <1>7, <1>8 DEF IsProbing
<1>10. ASSUME Stays PROVE ReadsRight(node, r)
  <2>1. \A o \in DOMAIN q.probe : q.probe[o] # None => node[o] # None
      BY <1>1, <1>10 DEF Stays, Unchanging, ReadsRight
  <2>2. \A o \in DOMAIN r.probe : o \in DOMAIN q.probe /\ (o # p => r.probe[o] = q.probe[o])
      BY <1>5, <1>6
  <2>3. r.probe[p] = x
      BY <1>5, <1>6
  <2> QED BY <1>3, <1>6, <2>1, <2>2, <2>3 DEF ReadsRight
<1> QED BY <1>4, <1>6, <1>9, <1>10 DEF IsRequest

\* The blocks that came back to a node that has up to the top of those the first batch asked for.
Sampled(got, height, top) ==
    LET held == {height - back : back \in 0..Samples - 1} \cap Nat \cap 0..top
    IN  got = held \/ got \in Partial(held)

\* The sample of a batch without holes is right for a node that mines at a block time.
LEMMA SampleRight ==
    ASSUME ~Holes, NEW n \in Node, Len(n.times) >= 1, NEW e \in Nat, NEW height \in Nat,
           \A j \in 1..Len(n.times) - 1 : n.times[j + 1] - n.times[j] = e,
           NEW got, Sampled(got, height, Len(n.times) - 1),
           Len(Timestamps(n, got)) >= 2
    PROVE  Timestamps(n, got)[1] - Timestamps(n, got)[2] = e
<1> DEFINE asked == {height - back : back \in 0..Samples - 1} \cap Nat
           held  == asked \cap 0..Len(n.times) - 1
           top   == Len(n.times) - 1
<1>1. top \in Nat
    BY DEF Node
<1>2. ASSUME NEW a \in held, NEW c \in held, NEW b \in Nat, a < b, b < c PROVE b \in held
  <2>1. PICK f, g \in 0..Samples - 1 : a = height - f /\ c = height - g
      OBVIOUS
  <2>2. height - b \in 0..Samples - 1 /\ b = height - (height - b)
      BY <1>2, <2>1, StatusAssumption
  <2>3. b \in asked
      BY <2>2
  <2>4. b \in 0..top
    <3>1. c \in 0..top
        OBVIOUS
    <3> QED BY <1>1, <1>2, <3>1
  <2> QED BY <2>3, <2>4
<1>3. \A b \in held : b \in Nat /\ b <= top
    BY <1>1
<1>4. got = held \/ got \in Partial(held)
    BY DEF Sampled
<1> HIDE DEF asked, held
<1>5. got \subseteq held /\ \A a, c \in got, b \in Nat : a < b /\ b < c => b \in got
  <2>1. CASE got = held
      BY <1>2, <2>1
  <2>2. CASE got \in Partial(held)
    <3>1. got \subseteq held /\ \A a, c \in got, b \in held : a < b /\ b < c => b \in got
        BY <2>2 DEF Partial
    <3> QED BY <1>2, <3>1
  <2> QED BY <1>4, <2>1, <2>2
<1>6. got \in SUBSET Nat /\ \A x \in got : x <= top
    BY <1>3, <1>5
<1> HIDE DEF top
<1>7. CASE got = {}
  <2>1. got = 1..0 /\ 0 < Len(n.times)
      BY <1>7 DEF Node
  <2> QED BY <2>1, FirstGap
<1>8. CASE got # {}
  <2>1. PICK lo \in Nat, hi \in Nat : got = lo..hi
      BY <1>1, <1>5, <1>6, NoHoles
  <2>2. lo <= hi
      BY <1>8, <2>1
  <2>3. hi < Len(n.times)
    <3>1. hi \in got
        BY <2>1, <2>2
    <3> QED BY <1>6, <3>1 DEF top, Node
  <2> QED BY <2>1, <2>3, FirstGap
<1> QED BY <1>7, <1>8

LEMMA ObserveMakes ==
    ASSUME TypeInv, NEW i \in Slot, Observe(i)
    PROVE  \E r : /\ IsRequest(r) /\ r.outdated = request[i].outdated /\ (Stays => ReadsRight(node, r))
                  /\ request' = [request EXCEPT ![i] = r]
<1> DEFINE q     == request[i]
           alive == {p \in DOMAIN q.probe : q.probe[p] # None}
           port  == FirstAnswer(q, alive)
           found == q.probe[port]
           n     == node[port]
           asked == {found.height - back : back \in 0..Samples - 1} \cap Nat
           held  == asked \cap 0..Len(n.times) - 1
           read(chain, got) == Goes(i, [stage |-> "balance", outdated |-> q.outdated,
                                        key |-> q.target.key, found |-> found,
                                        node |-> <<port, chain>>, times |-> Timestamps(n, got)])
<1>1. q.stage = "probing" /\ IsRequest(q)
    BY DEF Observe, TypeInv
<1>2. IsProbing(q) /\ q.outdated \in BOOLEAN
    BY <1>1, StageHolds
<1>3. /\ q.target \in Aim /\ q.found \in SUBSET Port /\ q.probe \in [Probed(q) -> Found \cup {None}]
      /\ Probed(q) \subseteq Port
  <2>1. q.target \in Aim /\ q.found \in SUBSET Port /\ q.probe \in [Probed(q) -> Found \cup {None}]
      BY <1>2 DEF IsProbing
  <2>2. Probed(q) \subseteq Port
      BY <2>1, StatusAssumption DEF Probed, Aim
  <2> QED BY <2>1, <2>2
<1>4. q.target.port \in Port /\ q.target.chain \in Chain /\ q.target.key \in Key
    BY <1>3 DEF Aim
<1>5. ASSUME alive # {}
      PROVE  port \in Port /\ port \in DOMAIN q.probe /\ q.probe[port] # None /\ found \in Found
             /\ found.chain \in Chain /\ found.height \in Nat
  <2>1. alive \subseteq Probed(q)
      BY <1>3
  <2>2. port \in alive
    <3> HIDE DEF alive
    <3> QED BY <1>3, <1>5, <2>1, FirstAnswerAlive
  <2> HIDE DEF port
  <2>3. found \in Found
      BY <1>3, <2>1, <2>2
  <2> QED BY <1>3, <2>1, <2>2, <2>3 DEF Found
<1>6. \/ /\ alive = {}
         /\ Answer(i, instance[q.target.key] # None, q.target.port, q.target.chain, FALSE, Remembered(q.target.key))
      \/ alive # {} /\ Answer(i, TRUE, port, found.chain, FALSE, Remembered(q.target.key))
      \/ /\ alive # {} /\ n # None
         /\ \E got, chain : /\ got = held \/ got \in Partial(held)
                            /\ chain \in {n.chain, found.chain} /\ read(chain, got)
    BY DEF Observe
<1> HIDE DEF alive
\* An answer without an observation says no block time.
<1>7. ASSUME NEW running \in BOOLEAN, NEW port_1 \in Port, NEW chain_1 \in Chain, NEW every,
             request' = [request EXCEPT ![i] =
                [stage |-> "answered", outdated |-> request[i].outdated,
                 status |-> [running |-> running, port |-> port_1, chain |-> chain_1,
                             observed |-> FALSE, every |-> every, late |-> FALSE]]]
      PROVE  \E r : /\ IsRequest(r) /\ r.outdated = request[i].outdated /\ (Stays => ReadsRight(node, r))
                    /\ request' = [request EXCEPT ![i] = r]
  <2> DEFINE s == [running |-> running, port |-> port_1, chain |-> chain_1,
                   observed |-> FALSE, every |-> every, late |-> FALSE]
  <2>1. IsStatus(s) /\ ~s.observed
      BY DEF IsStatus
  <2> DEFINE r == [stage |-> "answered", outdated |-> q.outdated, status |-> s]
  <2>2. request' = [request EXCEPT ![i] = r]
      BY <1>7
  <2> HIDE DEF s
  <2>3. IsAnswered(r) /\ r.stage = "answered" /\ r.outdated = q.outdated /\ r.status = s
      BY <1>2, <2>1 DEF IsAnswered
  <2> HIDE DEF r
  <2>4. ReadsRight(node, r)
      BY <2>1, <2>3 DEF ReadsRight
  <2> QED BY <2>2, <2>3, <2>4 DEF IsRequest
<1>8. CASE Answer(i, instance[q.target.key] # None, q.target.port, q.target.chain, FALSE, Remembered(q.target.key))
  <2>1. CASE instance[q.target.key] # None
    <3>1. (instance[q.target.key] # None) = TRUE
        BY <2>1
    <3>2. TRUE \in BOOLEAN
        OBVIOUS
    <3> QED BY <1>4, <1>7, <1>8, <3>1, <3>2 DEF Answer, Goes
  <2>2. CASE instance[q.target.key] = None
    <3>1. (instance[q.target.key] # None) = FALSE
        BY <2>2
    <3>2. FALSE \in BOOLEAN
        OBVIOUS
    <3> QED BY <1>4, <1>7, <1>8, <3>1, <3>2 DEF Answer, Goes
  <2> QED BY <2>1, <2>2
<1>9. CASE alive # {} /\ Answer(i, TRUE, port, found.chain, FALSE, Remembered(q.target.key))
  <2> HIDE DEF port, found
  <2>1. TRUE \in BOOLEAN
      OBVIOUS
  <2> QED BY <1>5, <1>7, <1>9, <2>1 DEF Answer, Goes
<1>10. CASE /\ alive # {} /\ n # None
            /\ \E got, chain : /\ got = held \/ got \in Partial(held)
                               /\ chain \in {n.chain, found.chain} /\ read(chain, got)
  <2>1. PICK got, chain : /\ got = held \/ got \in Partial(held)
                          /\ chain \in {n.chain, found.chain} /\ read(chain, got)
      BY <1>10
  <2>2. /\ port \in Port /\ found \in Found /\ found.chain \in Chain /\ found.height \in Nat
      BY <1>5, <1>10
  <2>3. n \in Node /\ Len(n.times) >= 1
    <3> HIDE DEF port
    <3> QED BY <1>10, <2>2 DEF TypeInv
  <2>4. chain \in Chain
      BY <2>1, <2>2, <2>3 DEF Node
  <2> DEFINE ts == Timestamps(n, got)
             r  == [stage |-> "balance", outdated |-> q.outdated, key |-> q.target.key, found |-> found,
                    node |-> <<port, chain>>, times |-> ts]
  <2>5. request' = [request EXCEPT ![i] = r]
      BY <2>1 DEF Goes
  <2>6. Stays /\ n.every # None /\ Len(ts) >= 2 => ts[1] - ts[2] = n.every
    <3> SUFFICES ASSUME Stays, n.every # None, Len(ts) >= 2 PROVE ts[1] - ts[2] = n.every
        OBVIOUS
    <3>1. PICK e \in Nat : e = n.every
        BY <2>3, StatusAssumption DEF Node
    <3>2. \A j \in 1..Len(n.times) - 1 : n.times[j + 1] - n.times[j] = e
      <4> HIDE DEF port
      <4> QED BY <1>10, <2>2, <3>1 DEF Stays, Mines
    <3>3. ~Holes
        BY DEF Stays
    <3>4. PICK m \in Node : m = n
        BY <2>3
    <3>5. PICK height \in Nat : height = found.height
        BY <2>2
    <3>6. Sampled(got, height, Len(m.times) - 1)
        BY <2>1, <3>4, <3>5 DEF Sampled
    <3>7. /\ Len(m.times) >= 1 /\ Len(Timestamps(m, got)) >= 2
          /\ \A j \in 1..Len(m.times) - 1 : m.times[j + 1] - m.times[j] = e
        BY <2>3, <3>2, <3>4
    <3>8. Timestamps(m, got)[1] - Timestamps(m, got)[2] = e
      <4> HIDE DEF n, found
      <4> QED BY <3>3, <3>6, <3>7, SampleRight
    <3> QED BY <3>1, <3>4, <3>8
  <2> HIDE DEF ts, port, found
  <2>7. /\ r \in [stage : {"balance"}, outdated : BOOLEAN, key : Key, found : Found,
                  node : Port \X Chain, times : {ts}]
        /\ r.stage = "balance" /\ r.outdated = q.outdated /\ r.node = <<port, chain>> /\ r.times = ts
      BY <1>2, <1>4, <2>2, <2>4
  <2> HIDE DEF r
  <2>8. IsBalance(r)
      BY <2>7 DEF IsBalance
  <2>9. r.node[1] = port
      BY <2>7
  <2>10. Stays => ReadsRight(node, r)
      BY <1>10, <2>6, <2>7, <2>9 DEF ReadsRight
  <2> QED BY <2>5, <2>7, <2>8, <2>10 DEF IsRequest
<1> QED BY <1>6, <1>8, <1>9, <1>10

\* What a sample says is right, be it measured or remembered.
LEMMA ReadingRight ==
    ASSUME TypeInv, NEW i \in Slot, request[i].stage = "balance", Stays
    PROVE  Right(node, request[i].node[1], Reading(i))
<1> DEFINE r == request[i]
           p == r.node[1]
<1>1. IsBalance(r) /\ ReadsRight(node, r)
    BY StageHolds DEF TypeInv, Stays, Unchanging
<1>2. r.node \in Port \X Chain
    BY <1>1 DEF IsBalance
<1>3. PICK c \in Chain : p \in Port /\ r.node = <<p, c>>
    BY <1>2
<1>4. node[p] # None /\ (node[p].every # None /\ Len(r.times) >= 2 => r.times[1] - r.times[2] = node[p].every)
    BY <1>1 DEF ReadsRight
<1>5. CASE Reading(i) = lastBlockTime[r.node]
  <2>1. Right(node, p, lastBlockTime[<<p, c>>])
      BY <1>3, <1>4 DEF Stays, Unchanging
  <2> QED BY <1>3, <1>5, <2>1
<1>6. CASE Reading(i) = InferBlockTime(r.times)
  <2>1. \/ InferBlockTime(r.times) = None
        \/ /\ Len(r.times) >= 2
           /\ InferBlockTime(r.times) = r.times[1] - r.times[1 + 1]
      BY DEF InferBlockTime
  <2> HIDE DEF p
  <2>2. node[p].every # None => Reading(i) \in {node[p].every, None}
      BY <1>4, <1>6, <2>1
  <2> QED BY <1>4, <2>2 DEF Right, p
<1> QED BY <1>5, <1>6 DEF Reading

LEMMA SettleMakes ==
    ASSUME TypeInv, NEW i \in Slot, Settle(i)
    PROVE  \E r : /\ IsRequest(r) /\ r.outdated = request[i].outdated /\ (Stays => ReadsRight(node, r))
                  /\ request' = [request EXCEPT ![i] = r]
<1> DEFINE q     == request[i]
           same  == instance[q.key] # None /\ instance[q.key].port = q.node[1]
           every == IF Reading(i) = None /\ same THEN Remembered(q.key) ELSE Reading(i)
<1>1. q.stage = "balance" /\ IsRequest(q) /\ Answer(i, TRUE, q.node[1], q.found.chain, TRUE, every)
    BY DEF Settle, TypeInv
<1>2. IsBalance(q) /\ q.outdated \in BOOLEAN
    BY <1>1, StageHolds
<1>3. q.key \in Key /\ q.node[1] \in Port /\ q.found.chain \in Chain
    BY <1>2 DEF IsBalance, Found
<1>4. Stays => Right(node, q.node[1], every)
  <2> SUFFICES ASSUME Stays PROVE Right(node, q.node[1], every)
      OBVIOUS
  <2>1. Right(node, q.node[1], Reading(i))
      BY <1>1, ReadingRight
  <2>2. CASE Reading(i) = None /\ same
    <3>1. every = instance[q.key].every
        BY <2>2 DEF Remembered
    <3>2. node[q.node[1]] # None /\ node[q.node[1]].every = instance[q.key].every
        BY <1>3, <2>2 DEF Stays, Unchanging
    <3> HIDE DEF every
    <3> QED BY <3>1, <3>2 DEF Right
  <2>3. CASE ~(Reading(i) = None /\ same)
    <3>1. every = Reading(i)
        BY <2>3
    <3> QED BY <2>1, <3>1
  <2> QED BY <2>2, <2>3
<1> HIDE DEF every
<1> DEFINE s == [running |-> TRUE, port |-> q.node[1], chain |-> q.found.chain,
                 observed |-> TRUE, every |-> every, late |-> FALSE]
<1>5. IsStatus(s) /\ s.port = q.node[1] /\ s.every = every
    BY <1>3 DEF IsStatus
<1> DEFINE r == [stage |-> "answered", outdated |-> q.outdated, status |-> s]
<1>6. request' = [request EXCEPT ![i] = r]
    BY <1>1 DEF Answer, Goes
<1> HIDE DEF s
<1>7. IsAnswered(r) /\ r.stage = "answered" /\ r.outdated = q.outdated /\ r.status = s
    BY <1>2, <1>5 DEF IsAnswered
<1> HIDE DEF r
<1>8. Stays => ReadsRight(node, r)
    BY <1>4, <1>5, <1>7 DEF ReadsRight
<1> QED BY <1>6, <1>7, <1>8 DEF IsRequest

-----------------------------------------------------------------------------
(* The initial state.                                                      *)

LEMMA GenesisTyped ==
    ASSUME NEW chain \in Chain, NEW every \in Every \cup {None}
    PROVE  /\ Genesis(chain, every) \in Node /\ Genesis(chain, every) # None
           /\ Genesis(chain, every).every = every
           /\ Genesis(chain, every).times = <<0>> /\ Len(Genesis(chain, every).times) = 1
<1>1. Genesis(chain, every) \in Node
    BY DEF Genesis, Node
<1> QED BY <1>1, StatusAssumption DEF Genesis

LEMMA InitHolds == Init => TypeInv /\ Newest /\ BlockTimes
<1> SUFFICES ASSUME Init PROVE TypeInv /\ Newest /\ BlockTimes
    OBVIOUS
<1>1. PICK g \in Config, kept \in SUBSET {None} :
         /\ node = [q \in Port |-> IF q = g.port THEN Genesis(g.chain, g.every) ELSE None]
         /\ instance = [k \in Key |-> IF k \in kept THEN g ELSE None]
    BY DEF Init
<1>2. g.port \in Port /\ g.chain \in Chain /\ g.every \in Every \cup {None}
    BY DEF Config
<1>3. PICK n \in Node : n = Genesis(g.chain, g.every)
    BY <1>2, GenesisTyped
<1>4. n # None /\ n.every = g.every /\ Len(n.times) = 1
    BY <1>2, <1>3, GenesisTyped
<1>5. /\ node \in [Port -> Node \cup {None}] /\ node[g.port] = n
      /\ \A p \in Port : node[p] # None => node[p] = n
    BY <1>1, <1>2, <1>3
<1>6. instance \in [Key -> Config \cup {None}] /\ \A k \in Key : instance[k] # None => instance[k] = g
    BY <1>1
<1>7. /\ DOMAIN request = Slot
      /\ \A i \in Slot : request[i] = Free
      /\ DOMAIN lastBlockTime = Port \X Chain
      /\ \A k \in Port \X Chain : lastBlockTime[k] = None
      /\ listing \in [found : SUBSET [port : Port, key : Key], fresh : BOOLEAN]
      /\ shown = NothingShown /\ changes \in Nat /\ faults \in Nat
    BY DEF Init
<1>8. IsStatus(shown) /\ ~shown.observed /\ ~shown.late
    BY <1>7, StatusAssumption DEF NothingShown, IsStatus
<1>9. \A i \in Slot : IsRequest(request[i]) /\ ReadsRight(node, request[i]) /\ ~request[i].outdated
    BY <1>7, WaitingTyped DEF ReadsRight
<1>10. TypeInv
  <2>1. ASSUME NEW p \in Port, node[p] # None PROVE node[p] \in Node /\ Len(node[p].times) >= 1
    <3>1. node[p] = n
        BY <1>5, <2>1
    <3>2. n.times = <<0>>
        BY <1>2, <1>3, GenesisTyped
    <3>3. Len(node[p].times) = 1
        BY <3>1, <3>2
    <3>4. node[p] \in Node
        BY <3>1
    <3> QED BY <3>3, <3>4
  <2>2. \A k \in Key : instance[k] # None => instance[k] \in Config
      BY <1>6
  <2> QED BY <1>5, <1>6, <1>7, <1>8, <1>9, <2>1, <2>2 DEF TypeInv
<1>11. Newest
    BY <1>8, <1>9, StatusAssumption DEF Newest, Slot
<1>12. Mines
    BY <1>4, <1>5 DEF Mines
<1>13. Unchanging
  <2>1. \A k \in Key : instance[k] # None =>
           node[instance[k].port] # None /\ node[instance[k].port].every = instance[k].every
      BY <1>4, <1>5, <1>6
  <2>2. ASSUME NEW p \in Port, NEW c \in Chain, node[p] # None PROVE Right(node, p, lastBlockTime[<<p, c>>])
    <3>1. <<p, c>> \in Port \X Chain
        OBVIOUS
    <3>2. lastBlockTime[<<p, c>>] = None
        BY <1>7, <3>1
    <3> QED BY <2>2, <3>2 DEF Right
  <2> QED BY <1>8, <1>9, <2>1, <2>2 DEF Unchanging
<1> QED BY <1>10, <1>11, <1>12, <1>13 DEF BlockTimes

-----------------------------------------------------------------------------
(* Steps: a node.                                                          *)

\* One node is another from now on.
LEMMA NodeSet ==
    ASSUME TypeInv, NEW p \in Port, NEW n, n # None => n \in Node /\ Len(n.times) >= 1,
           node' = [node EXCEPT ![p] = n]
    PROVE  /\ node' \in [Port -> Node \cup {None}]
           /\ \A q \in Port : node'[q] # None => node'[q] \in Node /\ Len(node'[q].times) >= 1
           /\ node'[p] = n /\ \A q \in Port \ {p} : node'[q] = node[q]
<1>1. node \in [Port -> Node \cup {None}]
    BY DEF TypeInv
<1>2. n \in Node \cup {None}
    OBVIOUS
<1>3. node' \in [Port -> Node \cup {None}] /\ node'[p] = n /\ \A q \in Port \ {p} : node'[q] = node[q]
    BY <1>1, <1>2
<1>4. ASSUME NEW q \in Port, node'[q] # None PROVE node'[q] \in Node /\ Len(node'[q].times) >= 1
  <2>1. CASE q = p
      BY <1>3, <1>4, <2>1
  <2>2. CASE q # p
      BY <1>3, <1>4, <2>2 DEF TypeInv
  <2> QED BY <2>1, <2>2
<1> QED BY <1>3, <1>4

\* A node that mines by its block time.
Mining(n) == n # None /\ n.every # None =>
                 \A j \in 1..Len(n.times) - 1 : n.times[j + 1] - n.times[j] = n.every

LEMMA MinesSet ==
    ASSUME TypeInv, Mines, NEW p \in Port, NEW n, Mining(n),
           node'[p] = n, \A q \in Port \ {p} : node'[q] = node[q]
    PROVE  Mines'
<1>1. \A q \in Port : Mining(node[q])
    BY DEF Mines, Mining
<1>2. \A q \in Port : Mining(node'[q])
    BY <1>1
<1> QED BY <1>2 DEF Mines, Mining

LEMMA NoneMining == Mining(None)
BY DEF Mining

LEMMA GenesisMining ==
    ASSUME NEW chain \in Chain, NEW every \in Every \cup {None}
    PROVE  Mining(Genesis(chain, every))
<1>1. PICK n \in Node : n = Genesis(chain, every)
    BY GenesisTyped
<1>2. Len(n.times) = 1
    BY <1>1, GenesisTyped
<1>3. Mining(n)
    BY <1>2 DEF Mining
<1> QED BY <1>1, <1>3

\* A node with one block more.
LEMMA MineMakes ==
    ASSUME TypeInv, NEW p \in Port, Mine(p)
    PROVE  \E n \in Node : /\ Len(n.times) >= 1 /\ n.every = node[p].every
                           /\ node[p] # None /\ node' = [node EXCEPT ![p] = n]
                           /\ (Mining(node[p]) => Mining(n))
<1> DEFINE m == node[p]
<1>1. PICK gap \in (IF node[p].every = None THEN Gap ELSE {node[p].every}) :
         node' = [node EXCEPT ![p].times = Append(@, @[Len(@)] + gap)]
    BY DEF Mine
<1>2. m # None /\ m \in Node /\ Len(m.times) >= 1
    BY DEF Mine, TypeInv
<1>3. m.times \in Seq(Nat) /\ Len(m.times) \in Nat /\ m.every \in Every \cup {None}
    BY <1>2 DEF Node
<1>4. gap \in Nat /\ (m.every # None => gap = m.every)
    BY <1>1, <1>3, StatusAssumption
<1> DEFINE last  == m.times[Len(m.times)]
           times == Append(m.times, last + gap)
           n     == [m EXCEPT !.times = times]
<1>5. node' = [node EXCEPT ![p] = n]
    BY <1>1 DEF TypeInv
<1>6. last \in Nat
    BY <1>2, <1>3
<1>7. /\ times \in Seq(Nat) /\ Len(times) = Len(m.times) + 1
      /\ times[Len(m.times) + 1] = last + gap /\ \A j \in 1..Len(m.times) : times[j] = m.times[j]
  <2>1. last + gap \in Nat
      BY <1>4, <1>6
  <2> HIDE DEF last, m
  <2> QED BY <1>3, <2>1
<1> HIDE DEF times
<1>8. n \in Node /\ n.every = m.every /\ n.times = times
    BY <1>2, <1>7 DEF Node
<1> HIDE DEF n
<1>9. ASSUME Mining(m) PROVE Mining(n)
  <2> SUFFICES ASSUME n.every # None, NEW j \in 1..Len(n.times) - 1
               PROVE  n.times[j + 1] - n.times[j] = n.every
      BY DEF Mining
  <2>1. j \in 1..Len(m.times)
      BY <1>3, <1>7, <1>8
  <2>2. CASE j = Len(m.times)
    <3>1. times[j + 1] = last + gap /\ times[j] = last
        BY <1>7, <2>1, <2>2
    <3>2. gap = n.every
        BY <1>4, <1>8
    <3> QED BY <1>4, <1>6, <1>8, <3>1, <3>2
  <2>3. CASE j # Len(m.times)
    <3>1. j \in 1..Len(m.times) - 1 /\ j + 1 \in 1..Len(m.times)
        BY <1>3, <2>1, <2>3
    <3>2. m.times[j + 1] - m.times[j] = m.every
        BY <1>2, <1>8, <1>9, <3>1 DEF Mining
    <3>3. times[j + 1] = m.times[j + 1] /\ times[j] = m.times[j]
        BY <1>7, <2>1, <3>1
    <3> QED BY <1>8, <3>2, <3>3
  <2> QED BY <2>2, <2>3
<1>10. Len(n.times) >= 1
    BY <1>3, <1>7, <1>8
<1> QED BY <1>2, <1>5, <1>8, <1>9, <1>10

-----------------------------------------------------------------------------
(* Steps: who changes what.                                                *)

LEMMA WhoMoves ==
    ASSUME [Next]_vars
    PROVE  /\ \/ UNCHANGED request
              \/ Reload \/ Ask
              \/ \E i \in Slot : Refetch(i) \/ Fail(i) \/ Deliver(i)
              \/ \E i \in Slot : Begin(i) \/ Observe(i) \/ Settle(i) \/ \E p \in Port : ProbePort(i, p)
           /\ UNCHANGED shown \/ \E i \in Slot : Deliver(i)
           /\ \/ UNCHANGED world
              \/ \E p \in Port :
                   \/ Mine(p) \/ KillByHand(p)
                   \/ \E c \in Chain, e \in Every \cup {None} : StartByHand(p, c, e)
              \/ \E k \in Key : Exit(k) \/ StopManaged(k) \/ \E g \in Config : StartManaged(k, g)
              \/ Reload
           /\ \/ UNCHANGED lastBlockTime
              \/ Reload
              \/ \E i \in Slot : Settle(i)
           /\ UNCHANGED listing \/ Reload \/ ExpireListing \/ \E i \in Slot : Begin(i)
           /\ faults' \in {faults, faults + 1}
<1>1. CASE UNCHANGED vars
    BY <1>1 DEF vars, world, caches
<1>2. ASSUME NEW p \in Port, Mine(p) \/ KillByHand(p) \/ \E c \in Chain, e \in Every \cup {None} : StartByHand(p, c, e)
      PROVE  UNCHANGED <<request, shown, lastBlockTime, listing, faults>>
  <2>1. CASE Mine(p)
      BY <2>1 DEF Mine, caches
  <2>2. CASE KillByHand(p)
      BY <2>2 DEF KillByHand, caches
  <2>3. ASSUME NEW c \in Chain, NEW e \in Every \cup {None}, StartByHand(p, c, e)
        PROVE  UNCHANGED <<request, shown, lastBlockTime, listing, faults>>
      BY <2>3 DEF StartByHand, caches
  <2> QED BY <1>2, <2>1, <2>2, <2>3
<1>3. ASSUME NEW k \in Key, Exit(k) \/ StopManaged(k) \/ \E g \in Config : StartManaged(k, g)
      PROVE  UNCHANGED <<request, shown, lastBlockTime, listing, faults>>
  <2>1. CASE Exit(k)
      BY <2>1 DEF Exit, caches
  <2>2. CASE StopManaged(k)
      BY <2>2 DEF StopManaged
  <2>3. ASSUME NEW g \in Config, StartManaged(k, g)
        PROVE  UNCHANGED <<request, shown, lastBlockTime, listing, faults>>
      BY <2>3 DEF StartManaged
  <2> QED BY <1>3, <2>1, <2>2, <2>3
<1>4. CASE Reload
    BY <1>4 DEF Reload
<1>5. CASE ExpireListing
    BY <1>5 DEF ExpireListing, world
<1>6. CASE Ask
    BY <1>6 DEF Ask, world, caches
<1>7. ASSUME NEW i \in Slot, Refetch(i) \/ Fail(i) \/ Deliver(i)
      PROVE  UNCHANGED <<world, lastBlockTime, listing>> /\ faults' \in {faults, faults + 1}
             /\ (UNCHANGED shown \/ Deliver(i))
  <2>1. CASE Refetch(i)
      BY <2>1 DEF Refetch, Fault, world, caches
  <2>2. CASE Fail(i)
      BY <2>2 DEF Fail, Fault, world, caches
  <2>3. CASE Deliver(i)
      BY <2>3 DEF Deliver, caches
  <2> QED BY <1>7, <2>1, <2>2, <2>3
<1>8. ASSUME NEW i \in Slot, Begin(i)
      PROVE  UNCHANGED <<world, lastBlockTime, shown, faults>>
    BY <1>8 DEF Begin
<1>9. ASSUME NEW i \in Slot, NEW p \in Port, ProbePort(i, p)
      PROVE  UNCHANGED <<world, lastBlockTime, listing, shown>> /\ faults' \in {faults, faults + 1}
    BY <1>9 DEF ProbePort, Fault, caches
<1>10. ASSUME NEW i \in Slot, Observe(i)
       PROVE  UNCHANGED <<world, lastBlockTime, listing, shown>> /\ faults' \in {faults, faults + 1}
    BY <1>10 DEF Observe, Fault, caches
<1>11. ASSUME NEW i \in Slot, Settle(i)
       PROVE  UNCHANGED <<world, listing, shown, faults>>
    BY <1>11 DEF Settle
<1>12. CASE Environment
  <2>1. CASE \E p \in Port : Mine(p) \/ KillByHand(p) \/ \E c \in Chain, e \in Every \cup {None} : StartByHand(p, c, e)
      BY <1>2, <2>1
  <2>2. CASE \E k \in Key : StopManaged(k) \/ \E g \in Config : StartManaged(k, g)
      BY <1>3, <2>2
  <2> QED BY <1>4, <1>12, <2>1, <2>2 DEF Environment
<1>13. CASE \E k \in Key : Exit(k)
    BY <1>3, <1>13
<1>14. CASE \E i \in Slot : Refetch(i) \/ Fail(i) \/ Serve(i)
  <2>1. PICK i \in Slot : Refetch(i) \/ Fail(i) \/ Serve(i)
      BY <1>14
  <2>2. CASE Refetch(i) \/ Fail(i) \/ Deliver(i)
      BY <1>7, <2>2
  <2>3. CASE Begin(i)
      BY <1>8, <2>3
  <2>4. CASE \E p \in Port : ProbePort(i, p)
      BY <1>9, <2>4
  <2>5. CASE Observe(i)
      BY <1>10, <2>5
  <2>6. CASE Settle(i)
      BY <1>11, <2>6
  <2> QED BY <2>1, <2>2, <2>3, <2>4, <2>5, <2>6 DEF Serve
<1> QED BY <1>1, <1>4, <1>5, <1>6, <1>12, <1>13, <1>14 DEF Next

-----------------------------------------------------------------------------
(* Steps: the requests and the page.                                       *)

LEMMA RequestsStep ==
    ASSUME TypeInv, Newest, [Next]_vars
    PROVE  /\ DOMAIN request' = Slot /\ \A j \in Slot : IsRequest(request'[j])
           /\ ~request'[0].outdated
           /\ Stays => \A j \in Slot : ReadsRight(node, request'[j])
<1>0. /\ 0 \in Slot /\ DOMAIN request = Slot /\ ~request[0].outdated
      /\ \A j \in Slot : IsRequest(request[j]) /\ (Stays => ReadsRight(node, request[j]))
    BY StatusAssumption DEF TypeInv, Newest, Slot, Stays, Unchanging
<1>1. IsRequest(Free) /\ ~Free.outdated /\ ReadsRight(node, Free)
    BY WaitingTyped DEF ReadsRight
<1>2. IsRequest(Asked) /\ ~Asked.outdated /\ ReadsRight(node, Asked)
    BY WaitingTyped DEF ReadsRight
<1>3. CASE UNCHANGED request
    BY <1>0, <1>3
<1>4. CASE Reload
  <2>1. request' = [i \in Slot |-> Free]
      BY <1>4 DEF Reload
  <2> QED BY <1>0, <1>1, <2>1
<1>5. CASE Ask
  <2>1. request' = [request EXCEPT ![0] = Asked]
      BY <1>5 DEF Ask
  <2>2. request'[0] = Asked /\ \A j \in Slot \ {0} : request'[j] = request[j]
      BY <1>0, <2>1
  <2> QED BY <1>0, <1>2, <2>1, <2>2
<1>6. ASSUME NEW i \in Slot, Refetch(i)
      PROVE  /\ DOMAIN request' = Slot /\ request'[0] = Asked
             /\ \A j \in Slot \ {0} : request'[j] \in {request[j], request[0]}
  <2>1. request' = [request EXCEPT ![0] = Asked, ![i] = request[0]] /\ i # 0
      BY <1>6 DEF Refetch
  <2> QED BY <1>0, <2>1
<1>7. ASSUME NEW i \in Slot, Fail(i)
      PROVE  /\ DOMAIN request' = Slot
             /\ \A j \in Slot : request'[j] \in {request[j], Free}
  <2>1. request' = [request EXCEPT ![i] = Free]
      BY <1>7 DEF Fail
  <2> QED BY <1>0, <2>1
<1>8. ASSUME NEW i \in Slot, Deliver(i)
      PROVE  /\ DOMAIN request' = Slot /\ request'[0] \in {request[0], Free}
             /\ \A j \in Slot : request'[j] \in {request[j], Free, [request[j] EXCEPT !.outdated = TRUE]}
  <2>1. CASE i = 0
    <3>1. request' = [j \in Slot |-> IF j = 0 \/ ~InFlight(j) THEN Free
                                     ELSE [request[j] EXCEPT !.outdated = TRUE]]
        BY <1>8, <2>1 DEF Deliver
    <3> QED BY <1>0, <3>1
  <2>2. CASE i # 0
    <3>1. request' = [request EXCEPT ![i] = Free]
        BY <1>8, <2>2 DEF Deliver
    <3> QED BY <1>0, <3>1
  <2> QED BY <2>1, <2>2
<1>9. ASSUME NEW j \in Slot
      PROVE  /\ IsRequest([request[j] EXCEPT !.outdated = TRUE])
             /\ Stays => ReadsRight(node, [request[j] EXCEPT !.outdated = TRUE])
  <2> DEFINE r == request[j]
             s == [r EXCEPT !.outdated = TRUE]
  <2>1. /\ IsRequest(s) /\ s.stage = r.stage
        /\ r.stage = "probing" => s.probe = r.probe
        /\ r.stage = "balance" => s.node = r.node /\ s.times = r.times
        /\ r.stage = "answered" => s.status = r.status
      BY <1>0, OutdatedTyped
  <2>2. Stays => ReadsRight(node, r)
      BY <1>0
  <2> HIDE DEF s, r
  <2>3. Stays => ReadsRight(node, s)
      BY <2>1, <2>2 DEF ReadsRight
  <2> QED BY <2>1, <2>3 DEF s, r
<1>10. CASE \E i \in Slot : Refetch(i) \/ Fail(i) \/ Deliver(i)
  <2>1. PICK i \in Slot : Refetch(i) \/ Fail(i) \/ Deliver(i)
      BY <1>10
  <2>2. CASE Refetch(i)
    <3>1. DOMAIN request' = Slot /\ request'[0] = Asked
          /\ \A j \in Slot \ {0} : request'[j] \in {request[j], request[0]}
        BY <1>6, <2>2
    <3> QED BY <1>0, <1>2, <3>1
  <2>3. CASE Fail(i)
    <3>1. DOMAIN request' = Slot /\ \A j \in Slot : request'[j] \in {request[j], Free}
        BY <1>7, <2>3
    <3> QED BY <1>0, <1>1, <3>1
  <2>4. CASE Deliver(i)
    <3>1. DOMAIN request' = Slot /\ request'[0] \in {request[0], Free}
          /\ \A j \in Slot : request'[j] \in {request[j], Free, [request[j] EXCEPT !.outdated = TRUE]}
        BY <1>8, <2>4
    <3> QED BY <1>0, <1>1, <1>9, <3>1
  <2> QED BY <2>1, <2>2, <2>3, <2>4
<1>11. CASE \E i \in Slot : Begin(i) \/ Observe(i) \/ Settle(i) \/ \E p \in Port : ProbePort(i, p)
  <2>1. PICK i \in Slot : Begin(i) \/ Observe(i) \/ Settle(i) \/ \E p \in Port : ProbePort(i, p)
      BY <1>11
  <2>2. PICK r : /\ IsRequest(r) /\ r.outdated = request[i].outdated /\ (Stays => ReadsRight(node, r))
                 /\ request' = [request EXCEPT ![i] = r]
      BY <2>1, BeginMakes, ObserveMakes, SettleMakes, ProbePortMakes
  <2>3. /\ DOMAIN request' = Slot /\ \A j \in Slot : IsRequest(request'[j])
        /\ request'[i] = r /\ \A j \in Slot \ {i} : request'[j] = request[j]
      BY <2>2, RequestSet
  <2> QED BY <1>0, <2>2, <2>3
<1> QED BY <1>3, <1>4, <1>5, <1>10, <1>11, WhoMoves

LEMMA ShownStep ==
    ASSUME TypeInv, Newest, [Next]_vars
    PROVE  /\ IsStatus(shown') /\ ~shown'.late
           /\ Stays => (shown'.observed => Right(node, shown'.port, shown'.every))
<1>1. CASE UNCHANGED shown
    BY <1>1 DEF TypeInv, Newest, Stays, Unchanging
<1>2. ASSUME NEW i \in Slot, Deliver(i), shown' # shown
      PROVE  /\ IsStatus(shown') /\ ~shown'.late
             /\ Stays => (shown'.observed => Right(node, shown'.port, shown'.every))
  <2> DEFINE r == request[0]
             s == r.status
  <2>1. r.stage = "answered" /\ shown' = [s EXCEPT !.late = r.outdated]
      BY <1>2 DEF Deliver
  <2>2. IsRequest(r) /\ ~r.outdated /\ (Stays => ReadsRight(node, r))
      BY StatusAssumption DEF TypeInv, Newest, Slot, Stays, Unchanging
  <2>3. IsStatus(s) /\ r.outdated = FALSE
      BY <2>1, <2>2, StageHolds DEF IsAnswered
  <2> HIDE DEF s
  <2>4. shown' = [s EXCEPT !.late = FALSE]
      BY <2>1, <2>3
  <2> DEFINE t == [s EXCEPT !.late = FALSE]
  <2>5. t \in [running : BOOLEAN, port : Port, chain : Chain, observed : BOOLEAN, every : {s.every}, late : BOOLEAN]
        /\ t.port = s.port /\ t.every = s.every /\ t.observed = s.observed /\ t.late = FALSE
      BY <2>3 DEF IsStatus
  <2> HIDE DEF t
  <2>6. IsStatus(t)
      BY <2>5 DEF IsStatus
  <2>7. Stays => (s.observed => Right(node, s.port, s.every))
      BY <2>1, <2>2 DEF ReadsRight, s
  <2>8. shown' = t
      BY <2>4 DEF t
  <2> QED BY <2>5, <2>6, <2>7, <2>8
<1> QED BY <1>1, <1>2, WhoMoves

-----------------------------------------------------------------------------
(* Steps: the nodes, the handles and the caches.                           *)

\* The same nodes with the same block times.
SameTimes(m, n) ==
    \A p \in Port : /\ m[p] # None <=> n[p] # None
                    /\ n[p] # None => n[p].every = m[p].every

LEMMA ReadsKept ==
    ASSUME NEW m, NEW n, SameTimes(m, n)
    PROVE  /\ \A p \in Port : \A every : Right(m, p, every) => Right(n, p, every)
           /\ \A r : IsRequest(r) /\ ReadsRight(m, r) => ReadsRight(n, r)
<1>1. ASSUME NEW p \in Port, NEW every, Right(m, p, every) PROVE Right(n, p, every)
    BY <1>1 DEF Right, SameTimes
<1>2. ASSUME NEW r, IsRequest(r), ReadsRight(m, r) PROVE ReadsRight(n, r)
  <2>1. ASSUME r.stage = "probing", NEW p \in DOMAIN r.probe, r.probe[p] # None PROVE n[p] # None
    <3>1. IsProbing(r)
        BY <1>2, <2>1, StageHolds
    <3>2. r.target \in Aim /\ r.found \subseteq Port /\ DOMAIN r.probe = Probed(r)
        BY <3>1 DEF IsProbing
    <3>3. p \in Port
        BY <2>1, <3>2, StatusAssumption DEF Probed, Aim
    <3>4. m[p] # None
        BY <1>2, <2>1 DEF ReadsRight
    <3> QED BY <3>3, <3>4 DEF SameTimes
  <2>2. ASSUME r.stage = "balance"
        PROVE  /\ n[r.node[1]] # None
               /\ n[r.node[1]].every # None /\ Len(r.times) >= 2 =>
                    r.times[1] - r.times[2] = n[r.node[1]].every
    <3>1. IsBalance(r)
        BY <1>2, <2>2, StageHolds
    <3>2. PICK p \in Port : p = r.node[1]
        BY <3>1 DEF IsBalance
    <3>3. m[p] # None /\ (m[p].every # None /\ Len(r.times) >= 2 => r.times[1] - r.times[2] = m[p].every)
        BY <1>2, <2>2, <3>2 DEF ReadsRight
    <3>4. n[p] # None /\ n[p].every = m[p].every
        BY <3>3 DEF SameTimes
    <3> QED BY <3>2, <3>3, <3>4
  <2>3. ASSUME r.stage = "answered", r.status.observed PROVE Right(n, r.status.port, r.status.every)
    <3>1. IsStatus(r.status)
        BY <1>2, <2>3, StageHolds DEF IsAnswered
    <3>2. r.status.port \in Port
        BY <3>1 DEF IsStatus
    <3>3. Right(m, r.status.port, r.status.every)
        BY <1>2, <2>3 DEF ReadsRight
    <3> QED BY <1>1, <3>2, <3>3
  <2> QED BY <2>1, <2>2, <2>3 DEF ReadsRight
<1> QED BY <1>1, <1>2

NodesTyped ==
    /\ node \in [Port -> Node \cup {None}]
    /\ \A p \in Port : node[p] # None => node[p] \in Node /\ Len(node[p].times) >= 1
HandlesTyped ==
    /\ instance \in [Key -> Config \cup {None}]
    /\ \A k \in Key : instance[k] # None => instance[k] \in Config

\* What a step of the world leaves of it.
Left == /\ NodesTyped' /\ HandlesTyped' /\ (Mines => Mines')
        /\ \/ changes' = changes /\ SameTimes(node, node')
              /\ \A k \in Key : instance'[k] # None => instance'[k] = instance[k]
           \/ changes' = changes + 1

\* A step that puts a node on a port or takes it away.
LEMMA PortSet ==
    ASSUME TypeInv, NEW p \in Port, NEW n, n = None \/ \E g \in Config : n = Genesis(g.chain, g.every),
           node' = [node EXCEPT ![p] = n]
    PROVE  NodesTyped' /\ (Mines => Mines')
<1>1. (n # None => n \in Node /\ Len(n.times) >= 1) /\ Mining(n)
  <2>1. CASE n = None
      BY <2>1, NoneMining
  <2>2. ASSUME NEW g \in Config, n = Genesis(g.chain, g.every)
        PROVE  (n # None => n \in Node /\ Len(n.times) >= 1) /\ Mining(n)
    <3>1. g.chain \in Chain /\ g.every \in Every \cup {None}
        BY DEF Config
    <3>2. n \in Node /\ Len(n.times) = 1 /\ Mining(n)
        BY <2>2, <3>1, GenesisTyped, GenesisMining
    <3> QED BY <3>2
  <2> QED BY <2>1, <2>2
<1>2. /\ NodesTyped'
      /\ node'[p] = n /\ \A q \in Port \ {p} : node'[q] = node[q]
    BY <1>1, NodeSet DEF NodesTyped
<1> QED BY <1>1, <1>2, MinesSet

LEMMA HandleSet ==
    ASSUME TypeInv, NEW k \in Key, NEW g \in Config \cup {None}, instance' = [instance EXCEPT ![k] = g]
    PROVE  HandlesTyped' /\ \A j \in Key : instance'[j] = IF j = k THEN g ELSE instance[j]
<1>1. \A j \in Key : instance'[j] = IF j = k THEN g ELSE instance[j]
    BY DEF TypeInv
<1>2. instance' \in [Key -> Config \cup {None}]
    BY DEF TypeInv
<1> QED BY <1>1, <1>2 DEF HandlesTyped, TypeInv

LEMMA WorldStep ==
    ASSUME TypeInv, [Next]_vars
    PROVE  Left
<1>1. NodesTyped /\ HandlesTyped /\ SameTimes(node, node)
    BY DEF TypeInv, NodesTyped, HandlesTyped, SameTimes
<1>2. CASE UNCHANGED world
  <2>1. node' = node /\ instance' = instance /\ changes' = changes
      BY <1>2 DEF world
  <2>2. NodesTyped' /\ HandlesTyped' /\ SameTimes(node, node') /\ (Mines => Mines')
      BY <1>1, <2>1 DEF NodesTyped, HandlesTyped, Mines
  <2> QED BY <2>1, <2>2 DEF Left
<1>3. ASSUME NEW p \in Port, Mine(p) PROVE Left
  <2>1. PICK n \in Node : /\ Len(n.times) >= 1 /\ n.every = node[p].every
                          /\ node[p] # None /\ node' = [node EXCEPT ![p] = n]
                          /\ (Mining(node[p]) => Mining(n))
      BY <1>3, MineMakes
  <2>2. NodesTyped' /\ node'[p] = n /\ \A q \in Port \ {p} : node'[q] = node[q]
      BY <2>1, NodeSet DEF NodesTyped
  <2>3. ASSUME Mines PROVE Mines'
    <3>1. Mining(node[p])
        BY <2>3 DEF Mines, Mining
    <3> QED BY <2>1, <2>2, <2>3, <3>1, MinesSet
  <2>4. n # None
      BY StatusAssumption
  <2>5. ASSUME NEW q \in Port
        PROVE (node[q] # None <=> node'[q] # None) /\ (node'[q] # None => node'[q].every = node[q].every)
    <3>1. CASE q = p
        BY <2>1, <2>2, <2>4, <3>1
    <3>2. CASE q # p
        BY <2>2, <3>2
    <3> QED BY <3>1, <3>2
  <2>6. SameTimes(node, node')
      BY <2>5 DEF SameTimes
  <2>7. instance' = instance /\ changes' = changes
      BY <1>3 DEF Mine
  <2>8. HandlesTyped'
      BY <1>1, <2>7 DEF HandlesTyped
  <2> QED BY <2>2, <2>3, <2>6, <2>7, <2>8 DEF Left
<1>4. ASSUME NEW p \in Port, KillByHand(p) PROVE Left
  <2>1. node' = [node EXCEPT ![p] = None] /\ instance' = instance /\ changes' = changes + 1
      BY <1>4 DEF KillByHand, Change
  <2>2. NodesTyped' /\ (Mines => Mines')
      BY <2>1, PortSet
  <2>3. HandlesTyped'
      BY <1>1, <2>1 DEF HandlesTyped
  <2> QED BY <2>1, <2>2, <2>3 DEF Left
<1>5. ASSUME NEW p \in Port, NEW c \in Chain, NEW e \in Every \cup {None}, StartByHand(p, c, e) PROVE Left
  <2>1. node' = [node EXCEPT ![p] = Genesis(c, e)] /\ instance' = instance /\ changes' = changes + 1
      BY <1>5 DEF StartByHand, Change
  <2>2. PICK g \in Config : g.chain = c /\ g.every = e
    <3>1. [port |-> p, chain |-> c, every |-> e] \in Config
        BY DEF Config
    <3> QED BY <3>1
  <2>3. NodesTyped' /\ (Mines => Mines')
      BY <2>1, <2>2, PortSet
  <2>4. HandlesTyped'
      BY <1>1, <2>1 DEF HandlesTyped
  <2> QED BY <2>1, <2>3, <2>4 DEF Left
<1>6. ASSUME NEW k \in Key, Exit(k) PROVE Left
  <2>1. instance' = [instance EXCEPT ![k] = None] /\ node' = node /\ changes' = changes
      BY <1>6 DEF Exit
  <2>2. HandlesTyped' /\ \A j \in Key : instance'[j] = IF j = k THEN None ELSE instance[j]
      BY <2>1, HandleSet
  <2>3. NodesTyped' /\ SameTimes(node, node') /\ (Mines => Mines')
      BY <1>1, <2>1 DEF NodesTyped, Mines
  <2> QED BY <2>1, <2>2, <2>3 DEF Left
<1>7. ASSUME NEW k \in Key, StopManaged(k) PROVE Left
  <2>1. /\ node' = [node EXCEPT ![instance[k].port] = None]
        /\ instance' = [instance EXCEPT ![k] = None] /\ changes' = changes + 1 /\ instance[k] # None
      BY <1>7 DEF StopManaged, Change
  <2>2. instance[k].port \in Port
      BY <2>1 DEF TypeInv, Config
  <2>3. NodesTyped' /\ (Mines => Mines')
      BY <2>1, <2>2, PortSet
  <2>4. HandlesTyped'
      BY <2>1, HandleSet
  <2> QED BY <2>1, <2>3, <2>4 DEF Left
<1>8. ASSUME NEW k \in Key, NEW g \in Config, StartManaged(k, g) PROVE Left
  <2>1. /\ node' = [node EXCEPT ![g.port] = Genesis(g.chain, g.every)]
        /\ instance' = [instance EXCEPT ![k] = g] /\ changes' = changes + 1
      BY <1>8 DEF StartManaged, Change
  <2>2. g.port \in Port
      BY DEF Config
  <2>3. NodesTyped' /\ (Mines => Mines')
      BY <2>1, <2>2, PortSet
  <2>4. HandlesTyped'
      BY <2>1, HandleSet
  <2> QED BY <2>1, <2>3, <2>4 DEF Left
<1>9. CASE Reload
  <2>1. node' = node /\ instance' = [k \in Key |-> None] /\ changes' = changes + 1
      BY <1>9 DEF Reload, Change
  <2>2. NodesTyped' /\ (Mines => Mines')
      BY <1>1, <2>1 DEF NodesTyped, Mines
  <2>3. HandlesTyped'
      BY <2>1 DEF HandlesTyped
  <2> QED BY <2>1, <2>2, <2>3 DEF Left
<1> QED BY <1>2, <1>3, <1>4, <1>5, <1>6, <1>7, <1>8, <1>9, WhoMoves

LEMMA CachesStep ==
    ASSUME TypeInv, [Next]_vars
    PROVE  /\ listing' \in [found : SUBSET [port : Port, key : Key], fresh : BOOLEAN]
           /\ DOMAIN lastBlockTime' = Port \X Chain
           /\ Stays => \A p \in Port, c \in Chain :
                          node[p] # None => Right(node, p, lastBlockTime'[<<p, c>>])
<1>1. listing' \in [found : SUBSET [port : Port, key : Key], fresh : BOOLEAN]
  <2>1. listing \in [found : SUBSET [port : Port, key : Key], fresh : BOOLEAN]
      BY DEF TypeInv
  <2>2. CASE UNCHANGED listing
      BY <2>1, <2>2
  <2>3. CASE Reload \/ ExpireListing
    <3>1. listing' = [listing EXCEPT !.fresh = FALSE]
        BY <2>3 DEF Reload, ExpireListing
    <3> QED BY <2>1, <3>1
  <2>4. ASSUME NEW i \in Slot, Begin(i)
        PROVE  listing' \in [found : SUBSET [port : Port, key : Key], fresh : BOOLEAN]
    <3>1. listing' = [found |-> Listed, fresh |-> TRUE]
        BY <2>4 DEF Begin
    <3> QED BY <3>1, ListedTyped
  <2> QED BY <2>2, <2>3, <2>4, WhoMoves
<1>2. DOMAIN lastBlockTime = Port \X Chain
      /\ (Stays => \A p \in Port, c \in Chain : node[p] # None => Right(node, p, lastBlockTime[<<p, c>>]))
    BY DEF TypeInv, Stays, Unchanging
<1>3. CASE UNCHANGED lastBlockTime
    BY <1>1, <1>2, <1>3
<1>4. CASE Reload
  <2>1. lastBlockTime' = [k \in Port \X Chain |-> None]
      BY <1>4 DEF Reload
  <2>2. ASSUME NEW p \in Port, NEW c \in Chain, node[p] # None PROVE Right(node, p, lastBlockTime'[<<p, c>>])
    <3>1. <<p, c>> \in Port \X Chain
        OBVIOUS
    <3>2. lastBlockTime'[<<p, c>>] = None
        BY <2>1, <3>1
    <3> QED BY <2>2, <3>2 DEF Right
  <2> QED BY <1>1, <2>1, <2>2
<1>5. ASSUME NEW i \in Slot, Settle(i)
      PROVE  /\ DOMAIN lastBlockTime' = Port \X Chain
             /\ Stays => \A p \in Port, c \in Chain :
                            node[p] # None => Right(node, p, lastBlockTime'[<<p, c>>])
  <2> DEFINE q == request[i]
             v == Reading(i)
  <2>1. q.stage = "balance" /\ lastBlockTime' = [lastBlockTime EXCEPT ![q.node] = v]
      BY <1>5 DEF Settle
  <2>2. DOMAIN lastBlockTime' = Port \X Chain
      BY <1>2, <2>1
  <2>3. ASSUME Stays, NEW p \in Port, NEW c \in Chain, node[p] # None
        PROVE  Right(node, p, lastBlockTime'[<<p, c>>])
    <3>1. <<p, c>> \in Port \X Chain
        OBVIOUS
    <3>2. Right(node, q.node[1], v)
        BY <2>1, <2>3, ReadingRight
    <3> HIDE DEF v, q
    <3>3. CASE <<p, c>> = q.node
      <4>1. lastBlockTime'[<<p, c>>] = v /\ q.node[1] = p
          BY <1>2, <2>1, <3>1, <3>3
      <4> QED BY <3>2, <4>1
    <3>4. CASE <<p, c>> # q.node
      <4>1. lastBlockTime'[<<p, c>>] = lastBlockTime[<<p, c>>]
          BY <1>2, <2>1, <3>1, <3>4
      <4> QED BY <1>2, <2>3, <4>1
    <3> QED BY <3>3, <3>4
  <2> QED BY <2>2, <2>3
<1> QED BY <1>1, <1>3, <1>4, <1>5, WhoMoves

-----------------------------------------------------------------------------
(* The theorems.                                                           *)

LEMMA TypeStep ==
    ASSUME TypeInv, Newest, [Next]_vars
    PROVE  TypeInv' /\ Newest'
<1>1. NodesTyped' /\ HandlesTyped' /\ changes' \in {changes, changes + 1}
    BY WorldStep DEF Left
<1>2. /\ listing' \in [found : SUBSET [port : Port, key : Key], fresh : BOOLEAN]
      /\ DOMAIN lastBlockTime' = Port \X Chain
    BY CachesStep
<1>3. DOMAIN request' = Slot /\ (\A j \in Slot : IsRequest(request'[j])) /\ ~request'[0].outdated
    BY RequestsStep
<1>4. IsStatus(shown') /\ ~shown'.late
    BY ShownStep
<1>5. faults' \in {faults, faults + 1}
    BY WhoMoves
<1>6. changes' \in Nat /\ faults' \in Nat
    BY <1>1, <1>5 DEF TypeInv
<1>7. TypeInv'
    BY <1>1, <1>2, <1>3, <1>4, <1>6 DEF TypeInv, NodesTyped, HandlesTyped
<1> QED BY <1>3, <1>4, <1>7 DEF Newest

LEMMA BlockTimesStep ==
    ASSUME ~Holes, TypeInv, Newest, BlockTimes, [Next]_vars
    PROVE  BlockTimes'
<1>1. Left
    BY WorldStep
<1>2. Mines'
    BY <1>1 DEF Left, BlockTimes
<1>3. ASSUME changes' = 0 PROVE Unchanging'
  <2>1. /\ changes = 0 /\ SameTimes(node, node')
        /\ \A k \in Key : instance'[k] # None => instance'[k] = instance[k]
      BY <1>1, <1>3 DEF Left, TypeInv
  <2>2. Stays
      BY <2>1 DEF Stays, BlockTimes
  <2>3. TypeInv'
      BY TypeStep
  <2>4. /\ \A p \in Port : \A every : Right(node, p, every) => Right(node', p, every)
        /\ \A r : IsRequest(r) /\ ReadsRight(node, r) => ReadsRight(node', r)
      BY <2>1, ReadsKept
  <2>5. ASSUME NEW k \in Key, instance'[k] # None
        PROVE  node'[instance'[k].port] # None /\ node'[instance'[k].port].every = instance'[k].every
    <3>1. PICK g : g = instance[k] /\ g = instance'[k] /\ g # None
        BY <2>1, <2>5
    <3>2. g.port \in Port
        BY <3>1 DEF TypeInv, Config
    <3>3. node[g.port] # None /\ node[g.port].every = g.every
        BY <2>2, <3>1 DEF Stays, Unchanging
    <3>4. node'[g.port] # None /\ node'[g.port].every = g.every
        BY <2>1, <3>2, <3>3 DEF SameTimes
    <3> QED BY <3>1, <3>4
  <2>6. ASSUME NEW p \in Port, NEW c \in Chain, node'[p] # None
        PROVE  Right(node', p, lastBlockTime'[<<p, c>>])
    <3>1. node[p] # None
        BY <2>1, <2>6 DEF SameTimes
    <3>2. Right(node, p, lastBlockTime'[<<p, c>>])
        BY <2>2, <3>1, CachesStep
    <3> QED BY <2>4, <3>2
  <2>7. ASSUME NEW j \in Slot PROVE ReadsRight(node', request'[j])
    <3>1. IsRequest(request'[j]) /\ ReadsRight(node, request'[j])
        BY <2>2, RequestsStep
    <3> QED BY <2>4, <3>1
  <2>8. shown'.observed => Right(node', shown'.port, shown'.every)
    <3>1. IsStatus(shown') /\ (shown'.observed => Right(node, shown'.port, shown'.every))
        BY <2>2, ShownStep
    <3>2. shown'.port \in Port
        BY <3>1 DEF IsStatus
    <3> QED BY <2>4, <3>1, <3>2
  <2> QED BY <2>5, <2>6, <2>7, <2>8 DEF Unchanging
<1> QED BY <1>2, <1>3 DEF BlockTimes

LEMMA TypedAlways == Spec => [](TypeInv /\ Newest)
<1>1. Init => TypeInv /\ Newest
    BY InitHolds
<1>2. TypeInv /\ Newest /\ [Next]_vars => (TypeInv /\ Newest)'
    BY TypeStep
<1> QED BY <1>1, <1>2, PTL DEF Spec

\* The nodes, the handles, the caches and the requests at every stage are what the
\* handlers take them for (status/route.ts, usePolledResource.ts).
THEOREM TypeCorrect == Spec => []TypeOK
<1>1. TypeInv => TypeOK
  <2> SUFFICES ASSUME TypeInv PROVE TypeOK
      OBVIOUS
  <2>1. ASSUME NEW i \in Slot
        PROVE  /\ request[i].stage \in {"free", "sent", "probing", "balance", "answered"}
               /\ request[i].stage = "probing" => request[i].waits \subseteq DOMAIN request[i].probe
    <3>1. IsRequest(request[i])
        BY DEF TypeInv
    <3>2. request[i].stage \in {"free", "sent", "probing", "balance", "answered"}
        BY <3>1, StageHolds
    <3>3. ASSUME request[i].stage = "probing" PROVE request[i].waits \subseteq DOMAIN request[i].probe
      <4>1. IsProbing(request[i])
          BY <3>1, <3>3, StageHolds
      <4> QED BY <4>1 DEF IsProbing
    <3> QED BY <3>2, <3>3
  <2>2. shown.port \in Port /\ shown.chain \in Chain /\ shown.late \in BOOLEAN
      BY DEF TypeInv, IsStatus
  <2>3. listing.fresh \in BOOLEAN /\ listing.found \subseteq [port : Port, key : Key]
      BY DEF TypeInv
  <2> QED BY <2>1, <2>2, <2>3 DEF TypeInv, TypeOK
<1> QED BY <1>1, TypedAlways, PTL

\* The page never goes back to an earlier answer, however the answers of stopped and
\* of restarted effects cross (usePolledResource.ts).
THEOREM NewestIsShown == Spec => []NewestAnswerShown
<1>1. Newest => NewestAnswerShown
    BY DEF Newest, NewestAnswerShown
<1> QED BY <1>1, TypedAlways, PTL

\* With that, the block time on the page of a node that was started with one is that or
\* none, through crossing requests, failed calls and short batches, when no batch lacks a
\* block between two others (nodeObserver.ts).  Nothing is said of a node that mines on
\* demand: the code may infer a block time of it (OnDemandStaysBlank).
THEOREM AnswersStayTrue ==
    ASSUME ~Holes
    PROVE  Spec => []AnswersAreTrue
<1>1. Init => BlockTimes
    BY InitHolds
<1>2. TypeInv /\ Newest /\ BlockTimes /\ [Next]_vars => BlockTimes'
    BY BlockTimesStep
<1>3. Newest /\ BlockTimes => AnswersAreTrue
    BY DEF Newest, BlockTimes, Unchanging, Right, AnswersAreTrue, NewestAnswerShown, BlockTimeIsTrue
<1> QED BY <1>1, <1>2, <1>3, TypedAlways, PTL DEF Spec

=============================================================================
