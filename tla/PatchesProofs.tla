--------------------------- MODULE PatchesProofs ---------------------------
(***************************************************************************)
(* Theorems about Patches: what a request keeps of the content while it    *)
(* probes, deploys and writes, stage by stage; from it, that a recorded    *)
(* patch is exact and a working token is kept.  That a script runs as it   *)
(* was shown rests on the ids of table patch_scripts.                      *)
(***************************************************************************)
EXTENDS Patches, TLAPS

-----------------------------------------------------------------------------
(* The inductive invariants.                                               *)

Stage == {"idle", "setBalance", "hasCode", "balanceOf", "ethCall", "traceCall", "setCode", "setSlots",
          "snapshot", "probeWrite", "probeRead", "probeClear", "revert", "setSlot", "writeSlot", "announce"}

Run == [stage : Stage, ops : Seq(Op), before : Content \cup {None}, lost : BOOLEAN,
        saved : Content \cup {None}, at : Nat, slot : Slot, todo : SUBSET Words]

Probing == {"probeWrite", "probeRead", "probeClear", "revert"}

\* The request under way has an operation.
RunTyped ==
    /\ run \in Run /\ history \in Seq(Op)
    /\ run.at <= LastProbe
    /\ run.stage = "idle" => run = Idle
    /\ run.stage # "idle" => run.ops # <<>> /\ run.before \in Content

\* By stage, the operations that get there.
OpFits ==
    /\ run.stage = "setBalance" => op.type = "fund_native"
    /\ run.stage = "writeSlot" => op.type = "storage_write"
    /\ run.stage \in {"hasCode", "balanceOf", "snapshot", "setSlot"} \cup Probing => op.type = "fund_erc20"
    /\ run.stage \in {"snapshot"} \cup Probing => op.mappingSlot = None
    /\ run.stage \in {"ethCall", "traceCall", "setCode", "setSlots"} => op.type \in {"fund_erc20", "set_code"}

TypeInv ==
    /\ content \in Content
    /\ scripts \subseteq Script /\ nextId \in 1..(MaxId + 1) /\ shown \subseteq Script
    /\ RunTyped /\ OpFits

\* An id names one script: of those shown, those in the table, and both.
IdsUnique ==
    /\ \A s \in scripts \cup shown : s.id < nextId
    /\ \A r \in scripts, s \in scripts \cup shown : r.id = s.id => r = s

\* No failure was passed over, and what the operation asks for can be done.
Clean == ~run.lost /\ Feasible(op, run.before)

\* An operation that is recorded has done what it says.
ExactStep == Len(history') > Len(history) /\ Clean => content' = Apply(op, run.before)

\* An operation that deploys has a constructor, except for code given as it is.
Builds   == op.type = "fund_erc20" \/ op.mode = "erc20"
Storing  == Constructed(op.holder, op.amount)

\* Without a failure it funds by deploying only where the content before it had no token.
NoToken  == op.type = "fund_erc20" /\ ~run.lost => run.before.code[op.token].kind # "token"
HasToken == run.before.code[op.token].kind \in {"token", "empty"}

Untouched == {"setBalance", "writeSlot", "hasCode", "balanceOf", "ethCall", "traceCall", "setCode", "snapshot"}

\* While it deploys.
Deploying ==
    /\ run.stage \in {"ethCall", "traceCall", "setCode", "setSlots"} => NoToken
    /\ run.stage \in {"ethCall", "traceCall", "setSlots"} => Builds
    /\ run.stage = "setCode" => run.todo = IF Builds THEN Storing ELSE {}
    /\ run.stage = "setSlots" =>
         /\ run.todo # {} /\ run.todo \subseteq Storing
         /\ content = Written(Installed(run.before, op.token), op.token, Storing \ run.todo)

\* The balance that a probe looks for, and the probe that finds it.
Balance(c) == balanceOf(c, op.token, op.holder)
Hit        == 2 * run.before.code[op.token].slot

\* While it probes, and the slot it then writes.
Searching ==
    /\ run.stage \in {"hasCode", "balanceOf", "snapshot"} => run.at = 0
    /\ run.stage \in {"snapshot", "setSlot"} \cup Probing => HasToken
    /\ run.stage \in Probing => run.saved \in {run.before, None} /\ content.code = run.before.code
    /\ run.stage \in Probing /\ Clean =>
         /\ run.stage \in {"probeWrite", "probeRead", "probeClear"} => run.at <= Hit
         /\ run.stage = "probeWrite" => Balance(content) # PROBE_AMOUNT
         /\ run.stage = "probeRead" => (Balance(content) = PROBE_AMOUNT <=> run.at = Hit)
         /\ run.stage = "probeClear" => Balance(content) # PROBE_AMOUNT /\ run.at # Hit
         /\ run.stage = "revert" => 2 * run.slot = Hit
    /\ run.stage = "setSlot" /\ ~run.lost =>
         /\ content = run.before
         /\ op.mappingSlot # None => run.slot = op.mappingSlot
         /\ op.mappingSlot = None /\ Clean => 2 * run.slot = Hit

ContentInv ==
    /\ run.stage \in Untouched => content = run.before
    /\ Deploying /\ Searching
    /\ run.stage = "announce" /\ Clean => content = Apply(op, run.before)

-----------------------------------------------------------------------------
(* Lemmas about operations and contents.                                   *)

\* An operation has the fields of its type.
LEMMA OpFields ==
    ASSUME NEW o \in Op
    PROVE  /\ o.type \in {"fund_native", "fund_erc20", "storage_write", "set_code"}
           /\ o.type = "fund_native" => o.holder \in Holder /\ o.amount \in Value
           /\ o.type = "fund_erc20" => /\ o.token \in Token /\ o.holder \in Holder /\ o.amount \in Value
                                       /\ o.mappingSlot \in Slot \cup {None}
           /\ o.type = "storage_write" => o.token \in Token /\ o.key \in Key /\ o.value \in Value
           /\ o.type = "set_code" => /\ o.token \in Token /\ o.mode \in {"erc20", "runtime"}
                                     /\ o.holder \in Holder /\ o.amount \in Value
<1>1. \/ o \in [type : {"fund_native"}, holder : Holder, amount : Value]
      \/ o \in [type : {"fund_erc20"}, token : Token, holder : Holder, amount : Value,
                mappingSlot : Slot \cup {None}]
      \/ o \in [type : {"storage_write"}, token : Token, key : Key, value : Value]
      \/ o \in [type : {"set_code"}, token : Token, mode : {"erc20", "runtime"}, holder : Holder, amount : Value]
    BY DEF Op
<1>2. CASE o \in [type : {"fund_native"}, holder : Holder, amount : Value]
    BY <1>2
<1>3. CASE o \in [type : {"fund_erc20"}, token : Token, holder : Holder, amount : Value,
                  mappingSlot : Slot \cup {None}]
    BY <1>3
<1>4. CASE o \in [type : {"storage_write"}, token : Token, key : Key, value : Value]
    BY <1>4
<1>5. CASE o \in [type : {"set_code"}, token : Token, mode : {"erc20", "runtime"}, holder : Holder, amount : Value]
    BY <1>5
<1> QED BY <1>1, <1>2, <1>3, <1>4, <1>5

\* Two contents are equal when their parts are.
LEMMA ContentEqual ==
    ASSUME NEW c \in Content, NEW d \in Content,
           c.code = d.code, c.storage = d.storage, c.native = d.native
    PROVE  c = d
BY DEF Content

\* A write changes the storage of one address, to what it was but for the words written.
LEMMA WrittenContent ==
    ASSUME NEW c \in Content, NEW t \in Token, NEW W \in SUBSET Words
    PROVE  /\ Written(c, t, W) \in Content
           /\ Written(c, t, W).code = c.code /\ Written(c, t, W).native = c.native
           /\ \A u \in Token \ {t} : Written(c, t, W).storage[u] = c.storage[u]
           /\ Written(c, t, W).storage[t] \in [Key -> Value]
           /\ \A k \in Key : Written(c, t, W).storage[t][k] =
                 IF \E w \in W : w.key = k THEN (CHOOSE w \in W : w.key = k).value ELSE c.storage[t][k]
<1> DEFINE g == [k \in Key |-> IF \E w \in W : w.key = k THEN (CHOOSE w \in W : w.key = k).value
                               ELSE c.storage[t][k]]
<1>1. Written(c, t, W) = [c EXCEPT !.storage[t] = g]
    BY DEF Written
<1>2. c.storage \in [Token -> [Key -> Value]] /\ c.storage[t] \in [Key -> Value]
    BY DEF Content
<1>3. g \in [Key -> Value]
  <2> SUFFICES ASSUME NEW k \in Key
               PROVE (IF \E w \in W : w.key = k THEN (CHOOSE w \in W : w.key = k).value
                      ELSE c.storage[t][k]) \in Value
    OBVIOUS
  <2>1. CASE \E w \in W : w.key = k
    <3>1. (CHOOSE w \in W : w.key = k) \in W
        BY <2>1
    <3> QED BY <2>1, <3>1 DEF Words
  <2>2. CASE ~\E w \in W : w.key = k
      BY <2>2, <1>2
  <2> QED BY <2>1, <2>2
<1>4. \A k \in Key : g[k] = IF \E w \in W : w.key = k THEN (CHOOSE w \in W : w.key = k).value
                            ELSE c.storage[t][k]
    OBVIOUS
<1> HIDE DEF g
<1>5. [c EXCEPT !.storage[t] = g] \in Content
    BY <1>2, <1>3 DEF Content
<1>6. /\ [c EXCEPT !.storage[t] = g].code = c.code /\ [c EXCEPT !.storage[t] = g].native = c.native
      /\ [c EXCEPT !.storage[t] = g].storage = [c.storage EXCEPT ![t] = g]
    BY DEF Content
<1> QED BY <1>1, <1>2, <1>3, <1>4, <1>5, <1>6

\* The part of it without the words.
LEMMA WrittenFrame ==
    ASSUME NEW c \in Content, NEW t \in Token, NEW W, W \subseteq Words
    PROVE  /\ Written(c, t, W) \in Content
           /\ Written(c, t, W).code = c.code /\ Written(c, t, W).native = c.native
           /\ \A u \in Token \ {t} : Written(c, t, W).storage[u] = c.storage[u]
           /\ Written(c, t, W).storage[t] \in [Key -> Value]
BY WrittenContent

\* Of words with different keys each is there afterwards, and every other key is as it was.
LEMMA WrittenWords ==
    ASSUME NEW c \in Content, NEW t \in Token, NEW W \in SUBSET Words,
           \A v, w \in W : v.key = w.key => v = w
    PROVE  /\ \A w \in W : Written(c, t, W).storage[t][w.key] = w.value
           /\ \A k \in Key : (\A w \in W : w.key # k) => Written(c, t, W).storage[t][k] = c.storage[t][k]
<1>1. ASSUME NEW w \in W PROVE Written(c, t, W).storage[t][w.key] = w.value
  <2>1. w.key \in Key
      BY DEF Words
  <2>2. (CHOOSE v \in W : v.key = w.key) = w
      OBVIOUS
  <2> QED BY <2>1, <2>2, WrittenContent
<1>2. ASSUME NEW k \in Key, \A w \in W : w.key # k
      PROVE  Written(c, t, W).storage[t][k] = c.storage[t][k]
    BY <1>2, WrittenContent
<1> QED BY <1>1, <1>2

LEMMA WordIsWord ==
    ASSUME NEW k \in Key, NEW v \in Value
    PROVE  {Word(k, v)} \in SUBSET Words /\ Word(k, v).key = k /\ Word(k, v).value = v
BY DEF Word, Words

\* One word.
LEMMA WrittenOne ==
    ASSUME NEW c \in Content, NEW t \in Token, NEW k \in Key, NEW v \in Value
    PROVE  /\ Written(c, t, {Word(k, v)}) \in Content
           /\ Written(c, t, {Word(k, v)}).code = c.code
           /\ Written(c, t, {Word(k, v)}).storage[t][k] = v
           /\ \A j \in Key \ {k} : Written(c, t, {Word(k, v)}).storage[t][j] = c.storage[t][j]
<1>1. {Word(k, v)} \in SUBSET Words /\ Word(k, v).key = k /\ Word(k, v).value = v
    BY WordIsWord
<1> DEFINE W == {Word(k, v)}
<1>2. \A w \in W : w.key = k /\ w.value = v
    BY <1>1
<1>3. \A x, w \in W : x.key = w.key => x = w
    OBVIOUS
<1>4. Word(k, v) \in W
    OBVIOUS
<1> HIDE DEF W
<1>5. /\ \A w \in W : Written(c, t, W).storage[t][w.key] = w.value
      /\ \A j \in Key : (\A w \in W : w.key # j) => Written(c, t, W).storage[t][j] = c.storage[t][j]
    BY <1>1, <1>3, WrittenWords DEF W
<1>6. Written(c, t, W) \in Content /\ Written(c, t, W).code = c.code
    BY <1>1, WrittenFrame DEF W
<1> QED BY <1>1, <1>2, <1>4, <1>5, <1>6 DEF W

\* Writing word after word is writing them together.
LEMMA WrittenTogether ==
    ASSUME NEW c \in Content, NEW t \in Token, NEW W \in SUBSET Words, NEW w \in Words, w \notin W,
           \A x, y \in W \cup {w} : x.key = y.key => x = y
    PROVE  Written(Written(c, t, W), t, {w}) = Written(c, t, W \cup {w})
<1> DEFINE V == W \cup {w}
           One == {w}
           d == Written(c, t, W)
           e == Written(d, t, One)
           f == Written(c, t, V)
<1>0. /\ V \subseteq Words /\ One \subseteq Words
      /\ \A x, y \in V : x.key = y.key => x = y
      /\ \A x, y \in One : x = y
      /\ W \subseteq V /\ w \in V /\ \A x \in V : x \in W \/ x = w
      /\ \A x \in One : x = w
      /\ w \in One
    OBVIOUS
<1> HIDE DEF V, One
<1>1. d \in Content /\ d.code = c.code /\ d.native = c.native /\ d.storage[t] \in [Key -> Value]
      /\ \A u \in Token \ {t} : d.storage[u] = c.storage[u]
    BY WrittenFrame
<1>2. /\ \A x \in W : d.storage[t][x.key] = x.value
      /\ \A k \in Key : (\A x \in W : x.key # k) => d.storage[t][k] = c.storage[t][k]
    BY WrittenWords
<1>3. f \in Content /\ f.code = c.code /\ f.native = c.native /\ f.storage[t] \in [Key -> Value]
      /\ \A u \in Token \ {t} : f.storage[u] = c.storage[u]
    BY <1>0, WrittenFrame
<1>4. /\ \A x \in V : f.storage[t][x.key] = x.value
      /\ \A k \in Key : (\A x \in V : x.key # k) => f.storage[t][k] = c.storage[t][k]
    BY <1>0, WrittenWords
<1> HIDE DEF d, f
<1>5. e \in Content /\ e.code = d.code /\ e.native = d.native /\ e.storage[t] \in [Key -> Value]
      /\ \A u \in Token \ {t} : e.storage[u] = d.storage[u]
    BY <1>0, <1>1, WrittenFrame
<1>6. /\ \A x \in One : e.storage[t][x.key] = x.value
      /\ \A k \in Key : (\A x \in One : x.key # k) => e.storage[t][k] = d.storage[t][k]
    BY <1>0, <1>1, WrittenWords
<1> HIDE DEF e
<1>7. ASSUME NEW k \in Key PROVE e.storage[t][k] = f.storage[t][k]
  <2>1. CASE k = w.key
      BY <2>1, <1>0, <1>4, <1>6
  <2>2. CASE k # w.key
    <3>1. e.storage[t][k] = d.storage[t][k]
        BY <2>2, <1>0, <1>6
    <3>2. CASE \E x \in W : x.key = k
        BY <3>1, <3>2, <1>0, <1>2, <1>4
    <3>3. CASE \A x \in W : x.key # k
        BY <2>2, <3>1, <3>3, <1>0, <1>2, <1>4
    <3> QED BY <3>2, <3>3
  <2> QED BY <2>1, <2>2
<1>8. e.storage[t] = f.storage[t]
    BY <1>3, <1>5, <1>7
<1>9. \A u \in Token : e.storage[u] = f.storage[u]
    BY <1>1, <1>3, <1>5, <1>8
<1>10. e.storage \in [Token -> [Key -> Value]] /\ f.storage \in [Token -> [Key -> Value]]
    BY <1>3, <1>5 DEF Content
<1>11. e.storage = f.storage
    BY <1>9, <1>10
<1>12. e.code = f.code /\ e.native = f.native
    BY <1>1, <1>3, <1>5
<1> QED BY <1>3, <1>5, <1>11, <1>12, ContentEqual DEF d, e, f, V, One

\* Writing nothing.
LEMMA WrittenNothing ==
    ASSUME NEW c \in Content, NEW t \in Token
    PROVE  Written(c, t, {}) = c
<1> DEFINE d == Written(c, t, {})
<1>1. d \in Content /\ d.code = c.code /\ d.native = c.native /\ d.storage[t] \in [Key -> Value]
      /\ \A u \in Token \ {t} : d.storage[u] = c.storage[u]
    BY WrittenFrame
<1>2. \A k \in Key : d.storage[t][k] = c.storage[t][k]
    BY WrittenWords
<1> HIDE DEF d
<1>3. c.storage \in [Token -> [Key -> Value]] /\ d.storage \in [Token -> [Key -> Value]]
    BY <1>1 DEF Content
<1>4. d.storage[t] = c.storage[t]
    BY <1>1, <1>2, <1>3
<1>5. \A u \in Token : d.storage[u] = c.storage[u]
    BY <1>1, <1>4
<1>6. d.storage = c.storage
    BY <1>3, <1>5
<1>7. d = c
    BY <1>1, <1>6, ContentEqual
<1> QED BY <1>7 DEF d

LEMMA InstalledContent ==
    ASSUME NEW c \in Content, NEW t \in Token
    PROVE  /\ Installed(c, t) \in Content
           /\ \A u \in Token \ {t} : Installed(c, t).code[u] = c.code[u]
<1>1. Mock \in Code
    BY PatchesAssumption DEF Mock, Code, Slot
<1> QED BY <1>1 DEF Installed, Content

\* The mock's two words have different keys.
LEMMA ConstructedWords ==
    ASSUME NEW h \in Holder, NEW amount \in Value
    PROVE  /\ Constructed(h, amount) \in SUBSET Words /\ Constructed(h, amount) # {}
           /\ \A x, y \in Constructed(h, amount) : x.key = y.key => x = y
<1>1. <<"solidity", 0, h>> \in Key /\ Supply \in Key
    BY PatchesAssumption DEF Key, Mapping, Slot
<1>2. <<"solidity", 0, h>> # Supply
    BY DEF Supply
<1> QED BY <1>1, <1>2 DEF Constructed, Word, Words

LEMMA ProbeKeys ==
    ASSUME NEW n \in Nat, n <= LastProbe, NEW h \in Holder
    PROVE  ProbeKey(n, h) \in Key /\ n \div 2 \in Slot
<1>1. n \div 2 \in Nat /\ n \div 2 <= MAX_SLOT
    BY PatchesAssumption DEF LastProbe
<1>2. n \div 2 \in Slot
    BY <1>1, PatchesAssumption DEF Slot
<1> QED BY <1>2 DEF ProbeKey, Key, Mapping

-----------------------------------------------------------------------------
(* Lemmas about requests.                                                  *)

LEMMA OpTyped ==
    ASSUME RunTyped, run.stage # "idle"
    PROVE  op \in Op /\ run.before \in Content /\ Tail(run.ops) \in Seq(Op)
BY DEF RunTyped, Run, op

LEMMA IdleTyped == Idle \in Run /\ Idle.at <= LastProbe /\ Idle.stage = "idle"
BY PatchesAssumption DEF Idle, Run, Stage, Slot, LastProbe

\* A request that begins is at the first stage of its first operation.
LEMMA BeginTyped ==
    ASSUME NEW ops \in Seq(Op), NEW c \in Content
    PROVE  /\ Begin(ops, c) \in Run /\ Begin(ops, c).at = 0
           /\ ops = <<>> => Begin(ops, c) = Idle
           /\ ops # <<>> => /\ Begin(ops, c).stage = FirstStage(Head(ops))
                            /\ FirstStage(Head(ops)) \in Untouched \ {"balanceOf", "traceCall", "snapshot"}
                            /\ Begin(ops, c).ops = ops /\ Begin(ops, c).before = c
                            /\ Begin(ops, c).todo = {}
<1>1. CASE ops = <<>>
    BY <1>1, IdleTyped DEF Begin, Idle
<1>2. CASE ops # <<>>
  <2> DEFINE first == FirstStage(Head(ops))
             r == [Idle EXCEPT !.stage = first, !.ops = ops, !.before = c]
  <2>1. Head(ops) \in Op
      BY <1>2
  <2>2. first \in Untouched \ {"balanceOf", "traceCall", "snapshot"}
      BY <2>1, OpFields DEF FirstStage, Untouched
  <2>3. first \in Stage
      BY <2>2 DEF Untouched, Stage
  <2>4. Begin(ops, c) = r
      BY <1>2 DEF Begin
  <2> HIDE DEF first
  <2>5. /\ r \in Run /\ r.at = 0 /\ r.stage = first /\ r.ops = ops /\ r.before = c /\ r.todo = {}
      BY <2>3, IdleTyped DEF Idle, Run
  <2> QED BY <1>2, <2>2, <2>4, <2>5 DEF first
<1> QED BY <1>1, <1>2

\* The operations at the stages fit when a request begins, and the content is that before it.
LEMMA BeginFits ==
    ASSUME NEW ops \in Seq(Op), NEW c \in Content, run' = Begin(ops, c), history' \in Seq(Op)
    PROVE  /\ RunTyped' /\ OpFits'
           /\ content' = c => ContentInv'
<1>1. CASE ops = <<>>
  <2>0. run' = Idle
      BY <1>1 DEF Begin
  <2>1. run' = Idle /\ run' \in Run /\ run'.stage = "idle" /\ run'.at <= LastProbe
      BY <2>0, IdleTyped
  <2>2. RunTyped' /\ OpFits'
      BY <2>1 DEF RunTyped, OpFits, Probing, Idle, LastProbe
  <2>3. ContentInv'
    <3>1. Deploying'
        BY <2>1 DEF Deploying
    <3>2. Searching'
        BY <2>1 DEF Searching, Probing
    <3> QED BY <2>1, <3>1, <3>2 DEF ContentInv, Untouched
  <2> QED BY <2>2, <2>3
<1>2. CASE ops # <<>>
  <2> DEFINE o == Head(ops)
  <2>1. o \in Op
      BY <1>2
  <2>2. /\ run' \in Run /\ run'.at = 0 /\ run'.ops = ops /\ run'.before = c /\ run'.todo = {}
        /\ run'.stage = FirstStage(o)
        /\ run'.stage \in Untouched \ {"balanceOf", "traceCall", "snapshot"}
      BY <1>2, BeginTyped
  <2>3. op' = o
      BY <2>2 DEF op
  <2>4. /\ run'.stage = "setBalance" => o.type = "fund_native"
        /\ run'.stage = "writeSlot" => o.type = "storage_write"
        /\ run'.stage = "hasCode" => o.type = "fund_erc20"
        /\ run'.stage \in {"ethCall", "setCode"} => o.type = "set_code"
        /\ run'.stage = "setCode" => o.mode = "runtime"
        /\ run'.stage = "ethCall" => o.mode = "erc20"
    <3> HIDE DEF o
    <3> QED BY <2>1, <2>2, OpFields DEF FirstStage
  <2> HIDE DEF o
  <2>5. 0 <= LastProbe
      BY PatchesAssumption DEF LastProbe
  <2>6. RunTyped'
      BY <1>2, <2>2, <2>5 DEF RunTyped, Probing, Untouched
  <2>7. OpFits'
      BY <2>2, <2>3, <2>4 DEF OpFits, Probing, Untouched
  <2>8. ASSUME content' = c PROVE ContentInv'
    <3>1. Deploying'
        BY <2>2, <2>3, <2>4 DEF Deploying, Builds, NoToken, Untouched
    <3>2. Searching'
        BY <2>2 DEF Searching, Probing, Untouched
    <3> QED BY <2>2, <2>8, <3>1, <3>2 DEF ContentInv, Untouched
  <2> QED BY <2>6, <2>7, <2>8
<1> QED BY <1>1, <1>2

\* Going to a stage changes nothing else of a request, but for a failure that is passed over.
LEMMA Going ==
    ASSUME run \in Run, NEW s \in Stage, Goto(s) \/ Miss(s)
    PROVE  /\ run' \in Run /\ run'.stage = s /\ run'.ops = run.ops /\ run'.before = run.before
           /\ run'.saved = run.saved /\ run'.at = run.at /\ run'.slot = run.slot /\ run'.todo = run.todo
           /\ op' = op
           /\ Goto(s) => run'.lost = run.lost
           /\ Miss(s) => run'.lost
BY DEF Goto, Miss, Run, op

\* An operation that is over is announced, or recorded and followed by the next.
LEMMA Recorded ==
    ASSUME RunTyped, run.stage # "idle", content' \in Content, Record
    PROVE  RunTyped' /\ OpFits' /\ ContentInv' /\ history' = Append(history, op)
<1>1. op \in Op /\ Tail(run.ops) \in Seq(Op)
    BY OpTyped
<1>2. history' \in Seq(Op) /\ history' = Append(history, op)
    BY <1>1 DEF Record, RunTyped
<1>3. run' = Begin(Tail(run.ops), content')
    BY DEF Record
<1>4. PICK c \in Content : c = content'
    OBVIOUS
<1>5. run' = Begin(Tail(run.ops), c)
    BY <1>3, <1>4
<1> QED BY <1>1, <1>2, <1>4, <1>5, BeginFits

LEMMA Closed ==
    ASSUME RunTyped, run.stage # "idle", content' \in Content, Close
    PROVE  /\ RunTyped' /\ OpFits'
           /\ \/ /\ Announced(op) /\ history' = history
                 /\ run'.stage = "announce" /\ op' = op /\ run'.before = run.before /\ run'.lost = run.lost
              \/ ~Announced(op) /\ ContentInv' /\ history' = Append(history, op)
<1>1. CASE Announced(op)
  <2>1. Goto("announce") /\ history' = history
      BY <1>1 DEF Close
  <2>2. run \in Run /\ "announce" \in Stage
      BY DEF RunTyped, Stage
  <2>3. /\ run' \in Run /\ run'.stage = "announce" /\ run'.ops = run.ops /\ run'.before = run.before
        /\ run'.at = run.at /\ op' = op /\ run'.lost = run.lost
      BY <2>1, <2>2, Going
  <2>4. RunTyped'
      BY <2>1, <2>3 DEF RunTyped, Probing
  <2>5. OpFits'
      BY <2>3 DEF OpFits, Probing
  <2> QED BY <1>1, <2>1, <2>3, <2>4, <2>5
<1>2. CASE ~Announced(op)
    BY <1>2, Recorded DEF Close
<1> QED BY <1>1, <1>2

LEMMA Ended ==
    ASSUME RunTyped, run' = Idle, history' = history
    PROVE  RunTyped' /\ OpFits' /\ ContentInv'
<1>1. run' \in Run /\ run'.stage = "idle" /\ run'.at <= LastProbe
    BY IdleTyped
<1>2. RunTyped' /\ OpFits'
    BY <1>1 DEF RunTyped, OpFits, Probing
<1>3. Deploying'
    BY <1>1 DEF Deploying
<1>4. Searching'
    BY <1>1 DEF Searching, Probing
<1> QED BY <1>1, <1>2, <1>3, <1>4 DEF ContentInv, Untouched

LEMMA GoingTyped ==
    ASSUME RunTyped, run.stage # "idle", NEW s \in Stage \ {"idle"}, Goto(s) \/ Miss(s), history' = history
    PROVE  RunTyped'
<1>1. run \in Run
    BY DEF RunTyped
<1>2. /\ run' \in Run /\ run'.stage = s /\ run'.ops = run.ops /\ run'.before = run.before
      /\ run'.saved = run.saved /\ run'.at = run.at
    BY <1>1, Going
<1> QED BY <1>2 DEF RunTyped

-----------------------------------------------------------------------------
(* Types: one lemma for the calls that write, one for those that do not.   *)

LEMMA WritesTyped ==
    ASSUME TypeInv,
           SetBalance \/ WriteSlot \/ SetCode \/ SetSlots \/ ProbeWrite \/ ProbeClear \/ Revert \/ SetSlot
    PROVE  content' \in Content /\ RunTyped' /\ OpFits'
<1> USE DEF TypeInv
<1>0. run \in Run /\ "idle" \in Stage
    BY DEF RunTyped, Stage
<1>1. ASSUME NEW last \in Content, Throw(last) PROVE content' \in Content /\ RunTyped' /\ OpFits'
    BY <1>1, Ended DEF Throw
<1>2. ASSUME NEW s \in {"revert", "probeRead", "probeWrite", "setSlot"}, run.stage \in Probing,
             Goto(s) \/ Miss(s), history' = history
      PROVE  RunTyped' /\ OpFits'
  <2>1. s \in Stage \ {"idle"}
      BY DEF Stage
  <2>2. run.stage # "idle"
      BY <1>2 DEF Probing
  <2>3. RunTyped'
      BY <1>2, <2>1, <2>2, GoingTyped
  <2>4. run'.stage = s /\ op' = op
      BY <1>0, <1>2, <2>1, Going
  <2> QED BY <1>2, <2>3, <2>4 DEF OpFits
<1>3. CASE SetBalance
  <2>1. run.stage = "setBalance"
      BY <1>3 DEF SetBalance
  <2>2. op \in Op /\ op.type = "fund_native"
      BY <2>1, OpTyped DEF OpFits
  <2>3. op.holder \in Holder /\ op.amount \in Value
      BY <2>2, OpFields
  <2>4. Funded \in Content
    <3> HIDE DEF op
    <3> QED BY <2>3 DEF Funded, Content
  <2>5. CASE content' = Funded /\ Close
      BY <2>1, <2>4, <2>5, Closed
  <2> QED BY <1>1, <1>3, <2>4, <2>5 DEF SetBalance
<1>4. CASE WriteSlot
  <2> DEFINE written == Written(content, op.token, {Word(op.key, op.value)})
  <2>1. run.stage = "writeSlot"
      BY <1>4 DEF WriteSlot
  <2>2. op \in Op /\ op.type = "storage_write"
      BY <2>1, OpTyped DEF OpFits
  <2>3. op.token \in Token /\ op.key \in Key /\ op.value \in Value
      BY <2>2, OpFields
  <2>4. written \in Content
      BY <2>3, WrittenOne
  <2>5. (content' = written /\ Close) \/ Throw(written)
      BY <1>4 DEF WriteSlot
  <2> HIDE DEF written
  <2>6. CASE content' = written /\ Close
      BY <2>1, <2>4, <2>6, Closed
  <2> QED BY <1>1, <2>4, <2>5, <2>6
<1>5. CASE SetCode
  <2>1. run.stage = "setCode"
      BY <1>5 DEF SetCode
  <2>2. op \in Op /\ op.type \in {"fund_erc20", "set_code"}
      BY <2>1, OpTyped DEF OpFits
  <2>3. op.token \in Token
      BY <2>2, OpFields
  <2>4. Installed(content, op.token) \in Content
      BY <2>3, InstalledContent
  <2>5. CASE /\ content' = Installed(content, op.token)
             /\ IF run.todo = {} THEN Close ELSE Goto("setSlots") /\ UNCHANGED history
    <3>1. CASE run.todo = {}
        BY <2>1, <2>4, <2>5, <3>1, Closed
    <3>2. CASE run.todo # {}
      <4>1. Goto("setSlots") /\ history' = history
          BY <2>5, <3>2
      <4>2. "setSlots" \in Stage \ {"idle"} /\ "setSlots" \notin Probing
          BY DEF Stage, Probing
      <4>3. RunTyped'
          BY <2>1, <4>1, <4>2, GoingTyped
      <4>4. run'.stage = "setSlots" /\ op' = op
          BY <1>0, <4>1, <4>2, Going
      <4> QED BY <2>2, <2>4, <2>5, <4>3, <4>4 DEF OpFits, Probing
    <3> QED BY <3>1, <3>2
  <2> QED BY <1>1, <1>5, <2>4, <2>5 DEF SetCode
<1>6. CASE SetSlots
  <2>1. run.stage = "setSlots"
      BY <1>6 DEF SetSlots
  <2>2. op \in Op /\ op.type \in {"fund_erc20", "set_code"}
      BY <2>1, OpTyped DEF OpFits
  <2>3. PICK w \in run.todo :
           \/ /\ content' = Written(content, op.token, {w})
              /\ IF run.todo = {w} THEN Close ELSE run' = [run EXCEPT !.todo = @ \ {w}] /\ UNCHANGED history
           \/ Throw(Written(content, op.token, {w}))
      BY <1>6 DEF SetSlots
  <2>4. op.token \in Token /\ {w} \subseteq Words
      BY <1>0, <2>2, OpFields DEF Run
  <2>5. Written(content, op.token, {w}) \in Content
      BY <2>4, WrittenFrame
  <2>6. CASE /\ content' = Written(content, op.token, {w})
             /\ IF run.todo = {w} THEN Close ELSE run' = [run EXCEPT !.todo = @ \ {w}] /\ UNCHANGED history
    <3>1. CASE run.todo = {w}
        BY <2>1, <2>5, <2>6, <3>1, Closed
    <3>2. CASE run.todo # {w}
      <4>1. run' = [run EXCEPT !.todo = @ \ {w}] /\ history' = history
          BY <2>6, <3>2
      <4>2. /\ run' \in Run /\ run'.stage = "setSlots" /\ run'.ops = run.ops /\ run'.before = run.before
            /\ run'.at = run.at /\ op' = op
          BY <1>0, <2>1, <4>1 DEF Run, op
      <4>3. RunTyped'
          BY <2>1, <4>1, <4>2 DEF RunTyped
      <4> QED BY <2>2, <2>5, <2>6, <4>2, <4>3 DEF OpFits, Probing
    <3> QED BY <3>1, <3>2
  <2> QED BY <1>1, <2>3, <2>5, <2>6
<1>7. ASSUME NEW v \in Value, run.stage \in Probing PROVE Probed(v) \in Content
  <2>1. op \in Op /\ op.type = "fund_erc20"
      BY <1>7, OpTyped DEF OpFits, Probing
  <2>2. op.token \in Token /\ op.holder \in Holder
      BY <2>1, OpFields
  <2>3. ProbeKey(run.at, op.holder) \in Key
      BY <2>2, <1>0, ProbeKeys DEF Run, RunTyped
  <2> QED BY <1>7, <2>2, <2>3, WrittenOne DEF Probed
<1>8. CASE ProbeWrite
  <2>1. run.stage \in Probing /\ history' = history
      BY <1>8 DEF ProbeWrite, Probing
  <2>2. Probed(PROBE_AMOUNT) \in Content
      BY <1>7, <2>1, PatchesAssumption
  <2>3. content' \in Content /\ (Goto("probeRead") \/ Miss("revert"))
      BY <1>8, <2>2 DEF ProbeWrite
  <2> QED BY <1>2, <2>1, <2>3
<1>9. CASE ProbeClear
  <2>1. run.stage \in Probing /\ history' = history
      BY <1>9 DEF ProbeClear, Probing
  <2>2. Probed(0) \in Content
      BY <1>7, <2>1, PatchesAssumption
  <2>3. content' \in Content
      BY <1>9, <2>2 DEF ProbeClear
  <2>4. CASE Goto("revert") \/ Miss("revert")
      BY <1>2, <2>1, <2>3, <2>4
  <2>5. CASE run.at # LastProbe /\ run' = [run EXCEPT !.stage = "probeWrite", !.at = @ + 1]
    <3>1. run.at + 1 \in Nat /\ "probeWrite" \in Stage
        BY <1>0 DEF Run, Stage
    <3>2. /\ run' \in Run /\ run'.stage = "probeWrite" /\ run'.ops = run.ops
          /\ run'.before = run.before /\ run'.at = run.at + 1 /\ op' = op
        BY <1>0, <2>5, <3>1 DEF Run, op
    <3>3. run'.at <= LastProbe
      <4>1. run.at \in Nat /\ run.at <= LastProbe
          BY <1>0 DEF RunTyped, Run
      <4>2. LastProbe \in Nat
          BY PatchesAssumption DEF LastProbe
      <4> QED BY <2>5, <3>2, <4>1, <4>2
    <3>4. RunTyped'
        BY <2>1, <3>2, <3>3 DEF RunTyped, Probing
    <3> QED BY <2>1, <2>3, <3>2, <3>4 DEF OpFits
  <2> QED BY <1>9, <2>4, <2>5 DEF ProbeClear
<1>10. CASE Revert
  <2>1. /\ run.stage \in Probing /\ history' = history /\ (Goto("setSlot") \/ Miss("setSlot"))
        /\ content' \in {run.saved, content} \ {None} \/ (content' = run.saved /\ run.saved # None)
      BY <1>10 DEF Revert, Probing
  <2>2. run.saved \in Content \cup {None}
      BY <1>0 DEF Run
  <2>3. content' \in Content
      BY <2>1, <2>2
  <2> QED BY <1>2, <2>1, <2>3
<1>11. CASE SetSlot
  <2> DEFINE written == Written(content, op.token, {Word(<<"solidity", run.slot, op.holder>>, op.amount)})
  <2>1. run.stage = "setSlot"
      BY <1>11 DEF SetSlot
  <2>2. op \in Op /\ op.type = "fund_erc20"
      BY <2>1, OpTyped DEF OpFits
  <2>3. op.token \in Token /\ op.holder \in Holder /\ op.amount \in Value
      BY <2>2, OpFields
  <2>4. <<"solidity", run.slot, op.holder>> \in Key
      BY <1>0, <2>3 DEF Run, Key, Mapping
  <2>5. written \in Content
      BY <2>3, <2>4, WrittenOne
  <2>6. (content' = written /\ Close) \/ Throw(written)
      BY <1>11 DEF SetSlot
  <2> HIDE DEF written
  <2>7. CASE content' = written /\ Close
      BY <2>1, <2>5, <2>7, Closed
  <2> QED BY <1>1, <2>5, <2>6, <2>7
<1> QED BY <1>3, <1>4, <1>5, <1>6, <1>8, <1>9, <1>10, <1>11

LEMMA ReadsTyped ==
    ASSUME TypeInv,
           HasCode \/ ProbeToken \/ EthCall \/ TraceCall \/ Snapshot \/ ProbeRead \/ Announce
    PROVE  content' \in Content /\ RunTyped' /\ OpFits'
<1> USE DEF TypeInv
<1>1. run \in Run
    BY DEF RunTyped
<1>2. content' = content
    BY DEF HasCode, ProbeToken, EthCall, TraceCall, Snapshot, ProbeRead, Announce, Nothing
<1>3. ASSUME NEW s \in Stage \ {"idle"}, run.stage # "idle", Goto(s) \/ Miss(s), history' = history
      PROVE  RunTyped' /\ run'.stage = s /\ op' = op
    BY <1>1, <1>3, Going, GoingTyped
<1>4. ASSUME NEW x \in Slot, NEW s \in Stage \ {"idle"}, run.stage # "idle", history' = history,
             run' = [run EXCEPT !.stage = s, !.slot = x]
      PROVE  RunTyped' /\ run'.stage = s /\ op' = op
  <2>1. /\ run' \in Run /\ run'.stage = s /\ run'.ops = run.ops /\ run'.before = run.before
        /\ run'.saved = run.saved /\ run'.at = run.at /\ op' = op
      BY <1>1, <1>4 DEF Run, op
  <2> QED BY <1>4, <2>1 DEF RunTyped
<1>5. CASE HasCode
  <2>1. run.stage = "hasCode" /\ history' = history
      BY <1>5 DEF HasCode, Nothing
  <2>2. PICK s \in {"balanceOf", "ethCall"} : Goto(s) \/ Miss(s)
      BY <1>5 DEF HasCode
  <2>3. s \in Stage \ {"idle"} /\ s \notin Probing
      BY DEF Stage, Probing
  <2>4. RunTyped' /\ run'.stage = s /\ op' = op
      BY <1>3, <2>1, <2>2, <2>3
  <2> QED BY <1>2, <2>1, <2>4 DEF OpFits, Probing
<1>6. CASE ProbeToken
  <2>1. run.stage = "balanceOf" /\ history' = history
      BY <1>6 DEF ProbeToken, Nothing
  <2>2. op \in Op /\ op.type = "fund_erc20"
      BY <2>1, OpTyped DEF OpFits
  <2>3. op.mappingSlot \in Slot \cup {None}
      BY <2>2, OpFields
  <2>4. /\ "snapshot" \in Stage \ {"idle"} /\ "setSlot" \in Stage \ {"idle"} /\ "ethCall" \in Stage \ {"idle"}
        /\ {"snapshot", "setSlot", "ethCall"} \cap Probing = {}
      BY DEF Stage, Probing
  <2>5. CASE Goto("ethCall") \/ Miss("ethCall")
    <3>1. RunTyped' /\ run'.stage = "ethCall" /\ op' = op
        BY <1>3, <2>1, <2>4, <2>5
    <3> QED BY <1>2, <2>2, <3>1 DEF OpFits, Probing
  <2>6. CASE op.mappingSlot = None /\ Goto("snapshot")
    <3>1. RunTyped' /\ run'.stage = "snapshot" /\ op' = op
        BY <1>3, <2>1, <2>4, <2>6
    <3> QED BY <1>2, <2>2, <2>6, <3>1 DEF OpFits, Probing
  <2>7. CASE op.mappingSlot # None /\ run' = [run EXCEPT !.stage = "setSlot", !.slot = op.mappingSlot]
    <3>1. RunTyped' /\ run'.stage = "setSlot" /\ op' = op
        BY <1>4, <2>1, <2>3, <2>4, <2>7
    <3> QED BY <1>2, <2>2, <3>1 DEF OpFits, Probing
  <2> QED BY <1>6, <2>5, <2>6, <2>7 DEF ProbeToken
<1>7. CASE EthCall
  <2>1. run.stage = "ethCall" /\ history' = history
      BY <1>7 DEF EthCall, Nothing
  <2>2. CASE Goto("traceCall")
    <3>1. "traceCall" \in Stage \ {"idle"} /\ "traceCall" \notin Probing
        BY DEF Stage, Probing
    <3>2. RunTyped' /\ run'.stage = "traceCall" /\ op' = op
        BY <1>3, <2>1, <2>2, <3>1
    <3> QED BY <1>2, <2>1, <3>2 DEF OpFits, Probing
  <2>3. CASE run' = Idle
      BY <1>2, <2>1, <2>3, Ended
  <2> QED BY <1>7, <2>2, <2>3 DEF EthCall
<1>8. CASE TraceCall
  <2>1. run.stage = "traceCall" /\ history' = history
      BY <1>8 DEF TraceCall, Nothing
  <2>2. CASE run' = [run EXCEPT !.stage = "setCode", !.todo = Constructed(op.holder, op.amount)]
    <3>1. op \in Op /\ op.type \in {"fund_erc20", "set_code"}
        BY <2>1, OpTyped DEF OpFits
    <3>2. op.holder \in Holder /\ op.amount \in Value
        BY <3>1, OpFields
    <3>3. PICK W \in SUBSET Words : W = Constructed(op.holder, op.amount)
        BY <3>2, ConstructedWords
    <3>4. run' = [run EXCEPT !.stage = "setCode", !.todo = W]
        BY <2>2, <3>3
    <3>5. "setCode" \in Stage \ {"idle"}
        BY DEF Stage
    <3>6. /\ run' \in Run /\ run'.stage = "setCode" /\ run'.ops = run.ops /\ run'.before = run.before
          /\ run'.at = run.at /\ op' = op
        BY <1>1, <3>4, <3>5 DEF Run, op
    <3>7. RunTyped'
        BY <2>1, <3>6 DEF RunTyped, Probing
    <3> QED BY <1>2, <3>1, <3>6, <3>7 DEF OpFits, Probing
  <2>3. CASE run' = Idle
      BY <1>2, <2>1, <2>3, Ended
  <2> QED BY <1>8, <2>2, <2>3 DEF TraceCall
<1>9. CASE Snapshot
  <2>1. run.stage = "snapshot" /\ history' = history
      BY <1>9 DEF Snapshot, Nothing
  <2>2. CASE run' = [run EXCEPT !.stage = "probeWrite", !.saved = content]
    <3>1. "probeWrite" \in Stage \ {"idle"}
        BY DEF Stage
    <3>2. /\ run' \in Run /\ run'.stage = "probeWrite" /\ run'.ops = run.ops /\ run'.before = run.before
          /\ run'.at = run.at /\ run'.saved = content /\ op' = op
        BY <1>1, <2>2, <3>1 DEF Run, op
    <3>3. RunTyped'
        BY <2>1, <3>2 DEF RunTyped
    <3> QED BY <1>2, <2>1, <3>2, <3>3 DEF OpFits, Probing
  <2>3. CASE Miss("setSlot")
    <3>1. "setSlot" \in Stage \ {"idle"} /\ "setSlot" \notin Probing
        BY DEF Stage, Probing
    <3>2. RunTyped' /\ run'.stage = "setSlot" /\ op' = op
        BY <1>3, <2>1, <2>3, <3>1
    <3> QED BY <1>2, <2>1, <3>2 DEF OpFits, Probing
  <2> QED BY <1>9, <2>2, <2>3 DEF Snapshot
<1>10. CASE ProbeRead
  <2>1. run.stage = "probeRead" /\ history' = history
      BY <1>10 DEF ProbeRead, Nothing
  <2>2. CASE run' = [run EXCEPT !.stage = "revert", !.slot = run.at \div 2]
    <3>1. "revert" \in Stage \ {"idle"}
        BY DEF Stage
    <3>2. op \in Op /\ op.type = "fund_erc20"
        BY <2>1, OpTyped DEF OpFits, Probing
    <3>3. run.at \div 2 \in Slot
        BY <1>1, <3>2, OpFields, ProbeKeys DEF Run, RunTyped
    <3>4. RunTyped' /\ run'.stage = "revert" /\ op' = op
        BY <1>4, <2>1, <2>2, <3>1, <3>3
    <3> QED BY <1>2, <2>1, <3>4 DEF OpFits, Probing
  <2>3. CASE Goto("probeClear") \/ Miss("probeClear")
    <3>1. "probeClear" \in Stage \ {"idle"}
        BY DEF Stage
    <3>2. RunTyped' /\ run'.stage = "probeClear" /\ op' = op
        BY <1>3, <2>1, <2>3, <3>1
    <3> QED BY <1>2, <2>1, <3>2 DEF OpFits, Probing
  <2> QED BY <1>10, <2>2, <2>3 DEF ProbeRead
<1>11. CASE Announce
    BY <1>2, <1>11, Recorded DEF Announce
<1> QED BY <1>5, <1>6, <1>7, <1>8, <1>9, <1>10, <1>11

\* A request that is posted or run; an id is used up by a script that is saved.
LEMMA PostedTyped ==
    ASSUME TypeInv, Post \/ RunScript
    PROVE  content' \in Content /\ RunTyped' /\ OpFits' /\ ContentInv'
<1>1. content \in Content /\ content' = content /\ history' = <<>>
    BY DEF TypeInv, Post, RunScript
<1>3. history' \in Seq(Op)
    BY <1>1
<1>2. PICK ops \in Seq(Op) : run' = Begin(ops, content)
  <2>1. CASE Post
    <3>1. PICK o \in Posted : run' = Begin(<<o>>, content)
        BY <2>1 DEF Post
    <3>2. <<o>> \in Seq(Op)
        BY RequestAssumption
    <3> QED BY <3>1, <3>2
  <2>2. CASE RunScript
    <3>1. PICK r \in scripts : run' = Begin(r.ops, content)
        BY <2>2 DEF RunScript
    <3>2. r.ops \in Scripted
        BY DEF TypeInv, Script
    <3>3. r.ops \in Seq(ScriptOp) /\ ScriptOp \subseteq Op
        BY <3>2, RequestAssumption DEF ScriptOp
    <3>4. r.ops \in Seq(Op)
        BY <3>3
    <3> QED BY <3>1, <3>4
  <2> QED BY <2>1, <2>2
<1> QED BY <1>1, <1>2, <1>3, BeginFits

LEMMA TypeInvInit == Init => TypeInv
<1> SUFFICES ASSUME Init PROVE TypeInv
    OBVIOUS
<1>1. content \in Content
  <2>1. PICK code \in [Token -> {NoCode} \cup [kind : {"broken", "empty", "token"}, layout : Layout, slot : Slot]],
             v \in Value :
          content = [code    |-> code,
                     storage |-> [t \in Token |-> [k \in Key |->
                         IF code[t].kind # "none" /\ k[1] = code[t].layout /\ k[2] = code[t].slot THEN v ELSE 0]],
                     native  |-> [h \in Holder |-> 0]]
      BY DEF Init
  <2>2. code \in [Token -> Code]
    <3>1. NoCode \in Code
        BY PatchesAssumption DEF NoCode, Code, Slot
    <3>2. [kind : {"broken", "empty", "token"}, layout : Layout, slot : Slot] \subseteq Code
        BY PatchesAssumption DEF Code
    <3> QED BY <3>1, <3>2
  <2>3. [t \in Token |-> [k \in Key |->
            IF code[t].kind # "none" /\ k[1] = code[t].layout /\ k[2] = code[t].slot THEN v ELSE 0]]
        \in [Token -> [Key -> Value]]
      BY PatchesAssumption
  <2>4. [h \in Holder |-> 0] \in [Holder -> Value]
      BY PatchesAssumption
  <2> QED BY <2>1, <2>2, <2>3, <2>4 DEF Content
<1>2. RunTyped
    BY IdleTyped DEF Init, RunTyped, Probing
<1>3. OpFits
    BY IdleTyped DEF Init, OpFits, Probing
<1> QED BY <1>1, <1>2, <1>3, PatchesAssumption DEF Init, TypeInv

LEMMA TypeInvStep == TypeInv /\ [Next]_vars => TypeInv'
<1> SUFFICES ASSUME TypeInv, [Next]_vars PROVE TypeInv'
    OBVIOUS
<1>1. ASSUME Rest, content' \in Content, RunTyped', OpFits' PROVE TypeInv'
    BY <1>1 DEF TypeInv, Rest
<1>2. CASE SetBalance \/ WriteSlot \/ SetCode \/ SetSlots \/ ProbeWrite \/ ProbeClear \/ Revert \/ SetSlot
    BY <1>1, <1>2, WritesTyped DEF SetBalance, WriteSlot, SetCode, SetSlots, ProbeWrite, ProbeClear, Revert, SetSlot
<1>3. CASE HasCode \/ ProbeToken \/ EthCall \/ TraceCall \/ Snapshot \/ ProbeRead \/ Announce
    BY <1>1, <1>3, ReadsTyped DEF HasCode, ProbeToken, EthCall, TraceCall, Snapshot, ProbeRead, Announce
<1>4. CASE Post \/ RunScript
    BY <1>4, PostedTyped DEF Post, RunScript, TypeInv
<1>5. ASSUME run' = run, history' = history PROVE RunTyped' /\ OpFits'
    BY <1>5 DEF TypeInv, RunTyped, OpFits, op
<1>6. CASE SaveScript
  <2>1. nextId \in 1..MaxId /\ nextId' \in 1..(MaxId + 1)
      BY <1>6, PatchesAssumption DEF SaveScript, TypeInv
  <2>2. scripts' \subseteq Script
      BY <1>6, <2>1 DEF SaveScript, TypeInv, Script, newId
  <2> QED BY <1>5, <1>6, <2>1, <2>2 DEF SaveScript, TypeInv
<1>7. CASE ListScripts
    BY <1>5, <1>7 DEF ListScripts, TypeInv
<1>8. CASE DeleteScript
    BY <1>5, <1>8 DEF DeleteScript, TypeInv
<1>9. CASE Restart
  <2>1. run \in Run /\ run.saved # None /\ run' = [run EXCEPT !.saved = None] /\ history' = history
      BY <1>9 DEF Restart, TypeInv, RunTyped
  <2>2. /\ run' \in Run /\ run'.stage = run.stage /\ run'.ops = run.ops /\ run'.before = run.before
        /\ run'.at = run.at /\ op' = op
      BY <2>1 DEF Run, op
  <2>3. run.stage # "idle"
      BY <2>1 DEF TypeInv, RunTyped, Idle
  <2>4. RunTyped' /\ OpFits'
      BY <2>1, <2>2, <2>3 DEF TypeInv, RunTyped, OpFits
  <2> QED BY <1>9, <2>4 DEF Restart, TypeInv
<1>10. CASE UNCHANGED vars
    BY <1>5, <1>10 DEF vars, TypeInv
<1> QED BY <1>2, <1>3, <1>4, <1>6, <1>7, <1>8, <1>9, <1>10 DEF Next, Step

LEMMA TypeInvAlways == Spec => []TypeInv
BY TypeInvInit, TypeInvStep, PTL DEF Spec

\* Type correctness: of what the node holds, of the request under way at whatever call it is, and of
\* the tables patch_history and patch_scripts.
THEOREM TypeCorrect == Spec => []TypeOK
<1>1. TypeInv => TypeOK
  <2> SUFFICES ASSUME TypeInv PROVE TypeOK
      OBVIOUS
  <2>1. run \in Run /\ history \in Seq(Op)
      BY DEF TypeInv, RunTyped
  <2>2. /\ run.stage \in Stage /\ run.at \in Nat /\ run.slot \in Slot /\ run.todo \subseteq Words
        /\ run.ops \in Seq(Op) /\ run.lost \in BOOLEAN
      BY <2>1 DEF Run
  <2>3. (\A i \in DOMAIN run.ops : run.ops[i] \in Op) /\ (\A i \in DOMAIN history : history[i] \in Op)
      BY <2>1, <2>2
  <2> QED BY <2>2, <2>3 DEF TypeInv, TypeOK, Stage
<1> QED BY <1>1, TypeInvAlways, PTL

-----------------------------------------------------------------------------
(* Scripts.                                                                *)

LEMMA IdsUniqueStep == TypeInv /\ IdsUnique /\ [Next]_vars => IdsUnique'
<1> SUFFICES ASSUME TypeInv, IdsUnique, [Next]_vars PROVE IdsUnique'
    OBVIOUS
<1>1. CASE SaveScript
  <2>1. PICK name \in Name, ops \in Scripted :
           scripts' = {s \in scripts : s.name # name} \cup {[id |-> nextId, name |-> name, ops |-> ops]}
      BY <1>1 DEF SaveScript, newId
  <2>2. nextId' = nextId + 1 /\ shown' = shown /\ nextId \in Nat
      BY <1>1, PatchesAssumption DEF SaveScript, TypeInv
  <2>3. \A s \in scripts \cup shown : s.id \in Nat
      BY PatchesAssumption DEF TypeInv, Script
  <2> DEFINE new == [id |-> nextId, name |-> name, ops |-> ops]
  <2>4. new.id = nextId /\ \A s \in scripts' : s \in scripts \/ s = new
      BY <2>1
  <2> HIDE DEF new
  <2>5. \A s \in scripts' \cup shown' : s.id < nextId'
      BY <2>2, <2>3, <2>4 DEF IdsUnique
  <2>6. ASSUME NEW r \in scripts', NEW s \in scripts' \cup shown', r.id = s.id PROVE r = s
    <3>1. CASE r = new
      <4>1. s \notin scripts \cup shown
          BY <2>2, <2>3, <2>4, <2>6, <3>1 DEF IdsUnique
      <4> QED BY <2>2, <2>4, <3>1, <4>1
    <3>2. CASE r \in scripts /\ r # new
      <4>1. s # new
          BY <2>2, <2>3, <2>4, <2>6, <3>2 DEF IdsUnique
      <4> QED BY <2>2, <2>4, <2>6, <3>2, <4>1 DEF IdsUnique
    <3> QED BY <2>4, <3>1, <3>2
  <2> QED BY <2>5, <2>6 DEF IdsUnique
<1>2. CASE ListScripts
    BY <1>2 DEF ListScripts, IdsUnique
<1>3. CASE DeleteScript
  <2>1. scripts' \subseteq scripts /\ shown' = shown /\ nextId' = nextId
      BY <1>3 DEF DeleteScript
  <2> QED BY <2>1 DEF IdsUnique
<1>4. ASSUME UNCHANGED <<scripts, nextId, shown>> PROVE IdsUnique'
    BY <1>4 DEF IdsUnique
<1>5. CASE Step
    BY <1>4, <1>5 DEF Step, Rest, SetBalance, WriteSlot, HasCode, ProbeToken, EthCall, TraceCall, SetCode, SetSlots,
                      Snapshot, ProbeWrite, ProbeRead, ProbeClear, Revert, SetSlot, Announce
<1>6. CASE Post \/ RunScript \/ Restart \/ UNCHANGED vars
    BY <1>4, <1>6 DEF Post, RunScript, Restart, vars
<1> QED BY <1>1, <1>2, <1>3, <1>5, <1>6 DEF Next

\* A script is run by its id, and what runs is what the page showed, however often scripts were saved
\* under its name or deleted since it was loaded: AUTOINCREMENT gives no id twice.
THEOREM ScriptsRunAsShown == Spec => RunsWhatWasShown
<1>1. Init => IdsUnique
    BY DEF Init, IdsUnique
<1>2. TypeInv /\ IdsUnique /\ [Next]_vars
        => [RunScript => \E s \in shown : s \in scripts /\ s.ops = run'.ops]_vars
  <2> SUFFICES ASSUME TypeInv, IdsUnique, RunScript
               PROVE  \E s \in shown : s \in scripts /\ s.ops = run'.ops
      OBVIOUS
  <2>1. PICK s \in shown, r \in scripts : r.id = s.id /\ run' = Begin(r.ops, content)
      BY DEF RunScript
  <2>2. r = s
      BY <2>1 DEF IdsUnique
  <2>3. r.ops \in Scripted
      BY DEF TypeInv, Script
  <2>4. r.ops \in Seq(ScriptOp) /\ r.ops # <<>>
      BY <2>3, RequestAssumption
  <2>5. run'.ops = r.ops
      BY <2>1, <2>4 DEF Begin, Idle
  <2> QED BY <2>1, <2>2, <2>5
<1> QED BY <1>1, <1>2, IdsUniqueStep, TypeInvAlways, PTL DEF Spec, RunsWhatWasShown

-----------------------------------------------------------------------------
(* What the calls do to the content, by the stages they belong to.         *)

LEMMA QuietExact ==
    ASSUME TypeInv, history' = history
    PROVE  ExactStep
BY DEF TypeInv, RunTyped, ExactStep

LEMMA EndedExact ==
    ASSUME TypeInv, run' = Idle, history' = history
    PROVE  ContentInv' /\ ExactStep
BY Ended, QuietExact DEF TypeInv

\* An operation that is over: it is announced, or the next one begins.
LEMMA ClosedExact ==
    ASSUME TypeInv, run.stage # "idle", content' \in Content, Close,
           Clean => content' = Apply(op, run.before)
    PROVE  ContentInv' /\ ExactStep
<1>1. ExactStep
    BY DEF ExactStep
<1>2. CASE run'.stage = "announce" /\ op' = op /\ run'.before = run.before /\ run'.lost = run.lost
  <2>1. Deploying'
      BY <1>2 DEF Deploying
  <2>2. Searching'
      BY <1>2 DEF Searching, Probing
  <2> QED BY <1>1, <1>2, <2>1, <2>2 DEF ContentInv, Clean, Untouched
<1> QED BY <1>1, <1>2, Closed DEF TypeInv

LEMMA FundsExact ==
    ASSUME TypeInv, ContentInv, SetBalance \/ WriteSlot
    PROVE  ContentInv' /\ ExactStep
<1>0. content' \in Content
    BY WritesTyped
<1>1. ASSUME NEW last, Throw(last) PROVE ContentInv' /\ ExactStep
    BY <1>1, EndedExact DEF Throw
<1>2. CASE SetBalance /\ content' = Funded /\ Close
  <2>1. run.stage = "setBalance" /\ op.type = "fund_native" /\ content = run.before
      BY <1>2 DEF SetBalance, TypeInv, OpFits, ContentInv, Untouched
  <2>2. content' = Apply(op, run.before)
      BY <1>2, <2>1 DEF Apply, Funded
  <2> QED BY <1>0, <1>2, <2>1, <2>2, ClosedExact
<1>3. CASE WriteSlot /\ content' = Written(content, op.token, {Word(op.key, op.value)}) /\ Close
  <2>1. run.stage = "writeSlot" /\ op.type = "storage_write" /\ content = run.before
      BY <1>3 DEF WriteSlot, TypeInv, OpFits, ContentInv, Untouched
  <2>2. content' = Apply(op, run.before)
      BY <1>3, <2>1 DEF Apply
  <2> QED BY <1>0, <1>3, <2>1, <2>2, ClosedExact
<1> QED BY <1>1, <1>2, <1>3 DEF SetBalance, WriteSlot

\* Going on to ask or to deploy.
LEMMA AsksExact ==
    ASSUME TypeInv, ContentInv, HasCode \/ ProbeToken
    PROVE  ContentInv' /\ ExactStep
<1>1. /\ content' = content /\ history' = history /\ run \in Run
      /\ run.stage \in {"hasCode", "balanceOf"}
    BY DEF HasCode, ProbeToken, Nothing, TypeInv, RunTyped
<1>2. content = run.before /\ op.type = "fund_erc20" /\ run.at = 0
    BY <1>1 DEF ContentInv, Untouched, TypeInv, OpFits, Searching
<1>3. ExactStep
    BY <1>1, QuietExact
<1>4. ASSUME Miss("ethCall") \/ (Goto("ethCall") /\ content.code[op.token].kind # "token") PROVE ContentInv'
  <2>1. /\ run'.stage = "ethCall" /\ run'.before = run.before /\ op' = op
        /\ run'.lost \/ content.code[op.token].kind # "token"
      BY <1>1, <1>4, Going DEF Stage
  <2>2. Deploying'
      BY <1>2, <2>1 DEF Deploying, NoToken, Builds
  <2>3. Searching'
      BY <2>1 DEF Searching, Probing
  <2> QED BY <1>1, <1>2, <2>1, <2>2, <2>3 DEF ContentInv
<1>5. ASSUME Goto("balanceOf") PROVE ContentInv'
  <2>1. run'.stage = "balanceOf" /\ run'.before = run.before /\ run'.at = run.at
      BY <1>1, <1>5, Going DEF Stage
  <2>2. Deploying'
      BY <2>1 DEF Deploying
  <2>3. Searching'
      BY <1>2, <2>1 DEF Searching, Probing
  <2> QED BY <1>1, <1>2, <2>1, <2>2, <2>3 DEF ContentInv
<1>6. ASSUME content.code[op.token].kind \in {"token", "empty"}, Goto("snapshot") PROVE ContentInv'
  <2>1. run'.stage = "snapshot" /\ run'.before = run.before /\ run'.at = run.at /\ op' = op
      BY <1>1, <1>6, Going DEF Stage
  <2>2. Deploying'
      BY <2>1 DEF Deploying
  <2>3. Searching'
      BY <1>2, <1>6, <2>1 DEF Searching, Probing, HasToken
  <2> QED BY <1>1, <1>2, <2>1, <2>2, <2>3 DEF ContentInv
<1>7. ASSUME content.code[op.token].kind \in {"token", "empty"}, op.mappingSlot # None,
             run' = [run EXCEPT !.stage = "setSlot", !.slot = op.mappingSlot]
      PROVE  ContentInv'
  <2>1. /\ run'.stage = "setSlot" /\ run'.before = run.before /\ run'.slot = op.mappingSlot /\ op' = op
      BY <1>1, <1>7 DEF Run, op
  <2>2. Deploying'
      BY <2>1 DEF Deploying
  <2>3. Searching'
      BY <1>1, <1>2, <1>7, <2>1 DEF Searching, Probing, HasToken
  <2> QED BY <2>1, <2>2, <2>3 DEF ContentInv, Untouched
<1>8. CASE HasCode
    BY <1>3, <1>4, <1>5, <1>8 DEF HasCode
<1>9. CASE ProbeToken
    BY <1>3, <1>4, <1>6, <1>7, <1>9 DEF ProbeToken
<1> QED BY <1>8, <1>9

LEMMA DeploysExact ==
    ASSUME TypeInv, ContentInv, EthCall \/ TraceCall \/ SetCode
    PROVE  ContentInv' /\ ExactStep
<1>1. /\ run \in Run /\ content \in Content
      /\ run.stage \in {"ethCall", "traceCall", "setCode"}
    BY DEF EthCall, TraceCall, SetCode, Rest, TypeInv, RunTyped
<1>2. op \in Op /\ op.type \in {"fund_erc20", "set_code"} /\ content = run.before /\ NoToken
    BY <1>1, OpTyped DEF TypeInv, OpFits, ContentInv, Untouched, Deploying
<1>3. op.token \in Token /\ op.holder \in Holder /\ op.amount \in Value
    BY <1>2, OpFields
<1>4. ASSUME run' = Idle, history' = history PROVE ContentInv' /\ ExactStep
    BY <1>4, EndedExact
<1>5. CASE EthCall
  <2>1. CASE Goto("traceCall")
    <3>1. content' = content /\ history' = history /\ run.stage = "ethCall"
        BY <1>5 DEF EthCall, Nothing
    <3>2. run'.stage = "traceCall" /\ run'.before = run.before /\ op' = op /\ run'.lost = run.lost
        BY <1>1, <2>1, Going DEF Stage
    <3>3. Deploying'
        BY <1>1, <1>2, <3>1, <3>2 DEF Deploying, NoToken, Builds, ContentInv
    <3>4. Searching'
        BY <3>2 DEF Searching, Probing
    <3> QED BY <1>2, <3>1, <3>2, <3>3, <3>4, QuietExact DEF ContentInv
  <2> QED BY <1>4, <1>5, <2>1 DEF EthCall, Nothing
<1>6. CASE TraceCall
  <2>1. CASE run' = [run EXCEPT !.stage = "setCode", !.todo = Storing]
    <3>1. content' = content /\ history' = history /\ run.stage = "traceCall"
        BY <1>6 DEF TraceCall, Nothing
    <3>2. /\ run'.stage = "setCode" /\ run'.before = run.before /\ op' = op /\ run'.todo = Storing
          /\ run'.lost = run.lost
        BY <1>1, <2>1 DEF Run, op
    <3>3. Builds
        BY <3>1 DEF ContentInv, Deploying
    <3>4. Deploying'
        BY <1>1, <1>2, <3>1, <3>2, <3>3 DEF Deploying, NoToken, Builds, Storing
    <3>5. Searching'
        BY <3>2 DEF Searching, Probing
    <3> QED BY <1>2, <3>1, <3>2, <3>4, <3>5, QuietExact DEF ContentInv
  <2> QED BY <1>4, <1>6, <2>1 DEF TraceCall, Nothing, Storing
<1>7. CASE SetCode
  <2>1. CASE /\ content' = Installed(content, op.token)
             /\ IF run.todo = {} THEN Close ELSE Goto("setSlots") /\ UNCHANGED history
    <3>1. run.stage = "setCode" /\ run.todo = (IF Builds THEN Storing ELSE {})
        BY <1>7 DEF SetCode, ContentInv, Deploying
    <3>2. Storing \subseteq Words /\ Storing # {}
        BY <1>3, ConstructedWords DEF Storing
    <3>3. content' \in Content
        BY <1>1, <1>3, <2>1, InstalledContent
    <3>4. CASE ~Builds
      <4>1. content' = Apply(op, run.before)
          BY <1>2, <2>1, <3>4, OpFields DEF Builds, Apply
      <4> QED BY <2>1, <3>1, <3>3, <3>4, <4>1, ClosedExact
    <3>5. CASE Builds
      <4>1. Goto("setSlots") /\ history' = history /\ run.todo = Storing
          BY <2>1, <3>1, <3>2, <3>5
      <4>2. /\ run'.stage = "setSlots" /\ run'.before = run.before /\ op' = op /\ run'.todo = Storing
            /\ run'.lost = run.lost
          BY <1>1, <4>1, Going DEF Stage
      <4>3. content' = Written(content', op.token, Storing \ Storing)
        <5>1. Written(content', op.token, {}) = content'
            BY <1>3, <3>3, WrittenNothing
        <5>2. Storing \ Storing = {}
            OBVIOUS
        <5> QED BY <5>1, <5>2
      <4>4. content' = Written(Installed(run.before, op.token), op.token, Storing \ Storing)
          BY <1>2, <2>1, <4>3
      <4>5. Storing' = Storing
          BY <4>2 DEF Storing
      <4>6. Deploying'
          BY <1>1, <1>2, <3>2, <3>5, <4>2, <4>4, <4>5 DEF Deploying, NoToken, Builds
      <4>7. Searching'
          BY <4>2 DEF Searching, Probing
      <4> QED BY <4>1, <4>2, <4>6, <4>7, QuietExact DEF ContentInv, Untouched
    <3> QED BY <3>4, <3>5
  <2> QED BY <1>4, <1>7, <2>1 DEF SetCode, Throw
<1> QED BY <1>5, <1>6, <1>7

\* Word after word of the mock's storage.
LEMMA StoresExact ==
    ASSUME TypeInv, ContentInv, SetSlots
    PROVE  ContentInv' /\ ExactStep
<1>1. ASSUME NEW last, Throw(last) PROVE ContentInv' /\ ExactStep
    BY <1>1, EndedExact DEF Throw
<1>2. ASSUME NEW w \in run.todo, content' = Written(content, op.token, {w}),
             IF run.todo = {w} THEN Close ELSE run' = [run EXCEPT !.todo = @ \ {w}] /\ UNCHANGED history
      PROVE  ContentInv' /\ ExactStep
  <2>1. run.stage = "setSlots" /\ run \in Run /\ run.before \in Content
      BY OpTyped DEF SetSlots, TypeInv, RunTyped
  <2>2. op \in Op /\ op.type \in {"fund_erc20", "set_code"}
      BY <2>1, OpTyped DEF TypeInv, OpFits
  <2>3. op.token \in Token /\ op.holder \in Holder /\ op.amount \in Value
      BY <2>2, OpFields
  <2>4. /\ NoToken /\ Builds /\ run.todo \subseteq Storing
        /\ content = Written(Installed(run.before, op.token), op.token, Storing \ run.todo)
      BY <2>1 DEF ContentInv, Deploying
  <2>5. Storing \subseteq Words /\ \A x, y \in Storing : x.key = y.key => x = y
      BY <2>3, ConstructedWords DEF Storing
  <2>6. content' = Written(Installed(run.before, op.token), op.token, Storing \ (run.todo \ {w}))
    <3> DEFINE I == Installed(run.before, op.token)
               W == Storing \ run.todo
    <3>1. I \in Content
        BY <2>1, <2>3, InstalledContent
    <3>2. w \in Words /\ w \notin W /\ W \in SUBSET Words /\ W \cup {w} = Storing \ (run.todo \ {w})
        BY <2>4, <2>5
    <3>3. \A x, y \in W \cup {w} : x.key = y.key => x = y
        BY <2>4, <2>5
    <3>4. content' = Written(Written(I, op.token, W), op.token, {w})
        BY <1>2, <2>4
    <3> HIDE DEF I, W
    <3>5. content' = Written(I, op.token, W \cup {w})
        BY <2>3, <3>1, <3>2, <3>3, <3>4, WrittenTogether
    <3>6. content' = Written(I, op.token, Storing \ (run.todo \ {w}))
        BY <3>2, <3>5
    <3> QED BY <3>6 DEF I
  <2>7. content' \in Content
      BY <1>2, <2>3, <2>4, <2>5, WrittenFrame DEF TypeInv
  <2>8. CASE run.todo = {w}
    <3>1. Storing \ (run.todo \ {w}) = Storing
        BY <2>8
    <3>2. content' = Deployed(run.before, op)
        BY <2>6, <3>1 DEF Deployed, Storing
    <3>3. Clean => Apply(op, run.before) = Deployed(run.before, op)
        BY <2>1, <2>2, <2>4, OpFields DEF Apply, NoToken, Builds, Clean
    <3> QED BY <1>2, <2>1, <2>7, <2>8, <3>2, <3>3, ClosedExact
  <2>9. CASE run.todo # {w}
    <3>1. run' = [run EXCEPT !.todo = @ \ {w}] /\ history' = history
        BY <1>2, <2>9
    <3>2. /\ run'.stage = "setSlots" /\ run'.before = run.before /\ op' = op /\ run'.todo = run.todo \ {w}
          /\ run'.lost = run.lost
        BY <2>1, <3>1 DEF Run, op
    <3>3. run'.todo # {} /\ run'.todo \subseteq Storing
        BY <2>4, <2>9, <3>2
    <3>4. Storing' = Storing
        BY <3>2 DEF Storing
    <3>5. NoToken' /\ Builds'
        BY <2>4, <3>2 DEF NoToken, Builds
    <3>6. Deploying'
        BY <2>6, <3>2, <3>3, <3>4, <3>5 DEF Deploying
    <3>7. Searching'
        BY <3>2 DEF Searching, Probing
    <3> QED BY <3>1, <3>2, <3>6, <3>7, QuietExact DEF ContentInv, Untouched
  <2> QED BY <2>8, <2>9
<1> QED BY <1>1, <1>2 DEF SetSlots

-----------------------------------------------------------------------------
(* Probing.                                                                *)

\* The probes go through the slots, twice each: one of them is the Solidity key of a slot.
LEMMA ProbeKeyOf ==
    ASSUME NEW n \in Nat, NEW s \in Nat, NEW h
    PROVE  ProbeKey(n, h) = <<"solidity", s, h>> <=> n = 2 * s
<1>1. n = 2 * s => n % 2 = 0 /\ n \div 2 = s
    OBVIOUS
<1>2. n % 2 = 0 /\ n \div 2 = s => n = 2 * s
    OBVIOUS
<1> QED BY <1>1, <1>2 DEF ProbeKey

\* What is so while a balance is looked for that can be found.
LEMMA Findings ==
    ASSUME TypeInv, ContentInv, run.stage \in {"snapshot"} \cup Probing
    PROVE  /\ op \in Op /\ op.type = "fund_erc20" /\ op.mappingSlot = None
           /\ op.token \in Token /\ op.holder \in Holder /\ op.amount \in Value
           /\ run.before \in Content /\ content \in Content /\ run \in Run
           /\ content.code = run.before.code /\ HasToken
           /\ run.before.code[op.token].slot \in Nat
           /\ Clean => /\ run.before.code[op.token].kind = "token"
                       /\ run.before.code[op.token].layout = "solidity"
                       /\ run.before.code[op.token].slot <= MAX_SLOT
                       /\ Balance(run.before) # PROBE_AMOUNT
<1>1. run.stage # "idle" /\ run.stage # "announce"
    BY DEF Probing
<1>2. op \in Op /\ run.before \in Content /\ content \in Content /\ run \in Run
    BY <1>1, OpTyped DEF TypeInv, RunTyped
<1>3. op.type = "fund_erc20" /\ op.mappingSlot = None
    BY DEF TypeInv, OpFits
<1>4. op.token \in Token /\ op.holder \in Holder /\ op.amount \in Value
    BY <1>2, <1>3, OpFields
<1>5. HasToken /\ content.code = run.before.code
    BY DEF ContentInv, Searching, Untouched
<1>6. run.before.code[op.token].slot \in Nat
    BY <1>2, <1>4 DEF Content, Code, Slot
<1> QED BY <1>2, <1>3, <1>4, <1>5, <1>6 DEF Clean, Feasible, Detected, HasToken, Balance

\* The balance of a token whose code is that before the operation.
LEMMA BalanceThere ==
    ASSUME NEW c, NEW b, c.code = b.code, NEW t, NEW h,
           b.code[t].kind = "token", b.code[t].layout = "solidity"
    PROVE  balanceOf(c, t, h) = c.storage[t][<<"solidity", b.code[t].slot, h>>]
BY DEF balanceOf, BalanceKey

\* A probe reaches the balance looked for when it is its turn, and no other time.
LEMMA ProbeReaches ==
    ASSUME TypeInv, ContentInv, run.stage \in Probing, Clean, NEW v \in Value,
           content' = Written(content, op.token, {Word(ProbeKey(run.at, op.holder), v)})
    PROVE  Balance(content') = IF run.at = Hit THEN v ELSE Balance(content)
<1> DEFINE s    == run.before.code[op.token].slot
           key  == <<"solidity", s, op.holder>>
           k    == ProbeKey(run.at, op.holder)
<1>1. /\ op.token \in Token /\ op.holder \in Holder /\ content \in Content /\ run.before \in Content
      /\ content.code = run.before.code /\ run.before.code[op.token].kind = "token"
      /\ run.before.code[op.token].layout = "solidity"
      /\ s \in Nat /\ run.at \in Nat /\ run.at <= LastProbe
    BY Findings DEF Run, TypeInv, RunTyped
<1>2. k \in Key
    BY <1>1, ProbeKeys
<1>3. key \in Key
    BY <1>1 DEF Content, Code, Key, Mapping
<1>4. k = key <=> run.at = Hit
    BY <1>1, ProbeKeyOf DEF Hit
<1> HIDE DEF k
<1>5. /\ content'.code = content.code
      /\ content'.storage[op.token][k] = v
      /\ \A j \in Key \ {k} : content'.storage[op.token][j] = content.storage[op.token][j]
    BY <1>1, <1>2, WrittenOne DEF k
<1>6. Balance(content) = content.storage[op.token][key]
    BY <1>1, BalanceThere DEF Balance
<1>7. Balance(content') = content'.storage[op.token][key]
  <2>1. content'.code = run.before.code
      BY <1>1, <1>5
  <2> QED BY <1>1, <2>1, BalanceThere DEF Balance
<1> HIDE DEF key
<1> QED BY <1>3, <1>4, <1>5, <1>6, <1>7

LEMMA ProbesExact ==
    ASSUME TypeInv, ContentInv, Snapshot \/ ProbeWrite \/ ProbeRead \/ ProbeClear
    PROVE  ContentInv' /\ ExactStep
<1>1. /\ run.stage \in {"snapshot"} \cup Probing /\ run.stage # "revert"
      /\ history' = history
    BY DEF Snapshot, ProbeWrite, ProbeRead, ProbeClear, Nothing, Probing
<1>2. /\ run.before \in Content /\ content.code = run.before.code /\ HasToken /\ run \in Run
      /\ run.before.code[op.token].slot \in Nat /\ op.token \in Token /\ op.holder \in Holder
      /\ op.type = "fund_erc20" /\ op.mappingSlot = None /\ content \in Content
      /\ run.at \in Nat /\ run.at <= LastProbe
    BY <1>1, Findings DEF Run, TypeInv, RunTyped
<1>3. Clean => /\ run.before.code[op.token].slot <= MAX_SLOT
               /\ Balance(run.before) # PROBE_AMOUNT
    BY <1>1, Findings
<1>4. ExactStep
    BY <1>1, QuietExact
\* From a stage of the probing on to another the content keeps its code.
<1>5. ASSUME run'.stage \in Probing, run'.before = run.before, op' = op, run'.saved \in {run.before, None},
             content'.code = content.code,
             Clean' =>
                 /\ run'.stage \in {"probeWrite", "probeRead", "probeClear"} => run'.at <= Hit
                 /\ run'.stage = "probeWrite" => Balance(content') # PROBE_AMOUNT
                 /\ run'.stage = "probeRead" => (Balance(content') = PROBE_AMOUNT <=> run'.at = Hit)
                 /\ run'.stage = "probeClear" => Balance(content') # PROBE_AMOUNT /\ run'.at # Hit
                 /\ run'.stage = "revert" => 2 * run'.slot = Hit
      PROVE  ContentInv'
  <2>1. Deploying'
      BY <1>5 DEF Deploying, Probing
  <2>2. run'.stage \notin {"snapshot", "setSlot", "hasCode", "balanceOf"}
      BY <1>5 DEF Probing
  <2>3. Searching'
      BY <1>1, <1>2, <1>5, <2>2 DEF Searching, HasToken, Balance, Hit
  <2> QED BY <1>5, <2>1, <2>3 DEF ContentInv, Probing, Untouched
<1>6. run.stage \in Probing => run.saved \in {run.before, None}
    BY DEF ContentInv, Searching
<1>7. ASSUME run.stage \in Probing, NEW s \in {"revert", "probeClear"}, Miss(s), content'.code = content.code
      PROVE  ContentInv'
  <2>1. /\ run'.stage = s /\ run'.before = run.before /\ op' = op /\ run'.saved = run.saved
        /\ run'.lost
      BY <1>2, <1>7, Going DEF Stage
  <2>2. ~Clean'
      BY <2>1 DEF Clean
  <2> QED BY <1>5, <1>6, <1>7, <2>1, <2>2 DEF Probing
\* Nothing of what the answer is about changes while no failure is passed over.
<1>8. ASSUME op' = op, run'.before = run.before, run'.lost = run.lost PROVE Clean' <=> Clean
    BY <1>8 DEF Clean
<1>9. ASSUME NEW v \in Value, run.stage \in Probing PROVE Probed(v).code = content.code
    BY <1>2, ProbeKeys, WrittenOne DEF Probed
<1>10. ASSUME NEW v \in Value, run.stage \in Probing, Clean, content' = Probed(v)
       PROVE  Balance(content') = IF run.at = Hit THEN v ELSE Balance(content)
    BY <1>10, ProbeReaches DEF Probed
<1>11. CASE Snapshot
  <2>1. run.stage = "snapshot" /\ content' = content
      BY <1>11 DEF Snapshot, Nothing
  <2>2. content = run.before /\ run.at = 0
      BY <2>1 DEF ContentInv, Untouched, Searching
  <2>3. CASE run' = [run EXCEPT !.stage = "probeWrite", !.saved = content]
    <3>1. /\ run'.stage = "probeWrite" /\ run'.before = run.before /\ op' = op
          /\ run'.saved = content /\ run'.at = run.at /\ run'.lost = run.lost
        BY <1>2, <2>3 DEF Run, op
    <3>2. run'.at <= Hit
        BY <1>2, <2>2, <3>1 DEF Hit
    <3> QED BY <1>3, <1>4, <1>5, <1>8, <2>1, <2>2, <3>1, <3>2 DEF Probing
  <2>4. CASE Miss("setSlot")
    <3>1. run'.stage = "setSlot" /\ run'.before = run.before /\ op' = op /\ run'.lost
        BY <1>2, <2>4, Going DEF Stage
    <3>2. Deploying'
        BY <3>1 DEF Deploying
    <3>3. Searching'
        BY <1>1, <1>2, <3>1 DEF Searching, Probing, HasToken
    <3> QED BY <1>4, <3>1, <3>2, <3>3 DEF ContentInv, Untouched
  <2> QED BY <1>11, <2>3, <2>4 DEF Snapshot
<1>12. CASE ProbeWrite
  <2>1. run.stage = "probeWrite" /\ run.stage \in Probing
      BY <1>12 DEF ProbeWrite, Probing
  <2>2. Probed(PROBE_AMOUNT).code = content.code
      BY <1>9, <2>1, PatchesAssumption
  <2>3. CASE Goto("probeRead") /\ content' = Probed(PROBE_AMOUNT)
    <3>1. /\ run'.stage = "probeRead" /\ run'.before = run.before /\ op' = op
          /\ run'.saved = run.saved /\ run'.at = run.at /\ run'.lost = run.lost
        BY <1>2, <2>3, Going DEF Stage
    <3>2. ASSUME Clean
          PROVE  run'.at <= Hit /\ (Balance(content') = PROBE_AMOUNT <=> run'.at = Hit)
      <4>1. run.at <= Hit /\ Balance(content) # PROBE_AMOUNT
          BY <2>1, <3>2 DEF ContentInv, Searching
      <4>2. Balance(content') = IF run.at = Hit THEN PROBE_AMOUNT ELSE Balance(content)
          BY <1>10, <2>1, <2>3, <3>2, PatchesAssumption
      <4> QED BY <3>1, <4>1, <4>2
    <3> QED BY <1>4, <1>5, <1>6, <1>8, <2>1, <2>2, <2>3, <3>1, <3>2 DEF Probing
  <2>4. CASE Miss("revert") /\ content' \in {content, Probed(PROBE_AMOUNT)}
      BY <1>4, <1>7, <2>1, <2>2, <2>4
  <2> QED BY <1>12, <2>3, <2>4 DEF ProbeWrite
<1>13. CASE ProbeRead
  <2>1. run.stage = "probeRead" /\ run.stage \in Probing /\ content' = content
      BY <1>13 DEF ProbeRead, Nothing, Probing
  <2>2. Clean => run.at <= Hit /\ (Balance(content) = PROBE_AMOUNT <=> run.at = Hit)
      BY <2>1 DEF ContentInv, Searching
  <2>3. CASE /\ Balance(content) = PROBE_AMOUNT
             /\ run' = [run EXCEPT !.stage = "revert", !.slot = run.at \div 2]
    <3>1. /\ run'.stage = "revert" /\ run'.before = run.before /\ op' = op
          /\ run'.saved = run.saved /\ run'.slot = run.at \div 2 /\ run'.lost = run.lost
        BY <1>2, <2>3 DEF Run, op
    <3>2. Clean => 2 * run'.slot = Hit
        BY <1>2, <2>2, <2>3, <3>1 DEF Hit
    <3> QED BY <1>4, <1>5, <1>6, <1>8, <2>1, <3>1, <3>2 DEF Probing
  <2>4. CASE Goto("probeClear") /\ Balance(content) # PROBE_AMOUNT
    <3>1. /\ run'.stage = "probeClear" /\ run'.before = run.before /\ op' = op
          /\ run'.saved = run.saved /\ run'.at = run.at /\ run'.lost = run.lost
        BY <1>2, <2>4, Going DEF Stage
    <3> QED BY <1>4, <1>5, <1>6, <1>8, <2>1, <2>2, <2>4, <3>1 DEF Probing
  <2>5. CASE Miss("probeClear")
      BY <1>4, <1>7, <2>1, <2>5
  <2> QED BY <1>13, <2>3, <2>4, <2>5 DEF ProbeRead, Balance
<1>14. CASE ProbeClear
  <2>1. run.stage = "probeClear" /\ run.stage \in Probing
      BY <1>14 DEF ProbeClear, Probing
  <2>2. Probed(0).code = content.code
      BY <1>9, <2>1, PatchesAssumption
  <2>3. CASE /\ content' = Probed(0)
             /\ IF run.at = LastProbe THEN Goto("revert")
                ELSE run' = [run EXCEPT !.stage = "probeWrite", !.at = @ + 1]
    <3>2. ASSUME Clean PROVE run.at < Hit /\ Balance(content') # PROBE_AMOUNT
      <4>1. run.at <= Hit /\ run.at # Hit /\ Balance(content) # PROBE_AMOUNT
          BY <2>1, <3>2 DEF ContentInv, Searching
      <4>2. Balance(content') = IF run.at = Hit THEN 0 ELSE Balance(content)
          BY <1>10, <2>1, <2>3, <3>2, PatchesAssumption
      <4>3. Hit \in Nat
          BY <1>2 DEF Hit
      <4> QED BY <1>2, <4>1, <4>2, <4>3
    <3>3. CASE run.at = LastProbe
      <4>1. /\ run'.stage = "revert" /\ run'.before = run.before /\ op' = op /\ run'.saved = run.saved
            /\ run'.lost = run.lost
          BY <1>2, <2>3, <3>3, Going DEF Stage
      <4>2. ~Clean
          BY <1>2, <1>3, <3>2, <3>3, PatchesAssumption DEF Hit, LastProbe
      <4> QED BY <1>4, <1>5, <1>6, <1>8, <2>1, <2>2, <2>3, <4>1, <4>2 DEF Probing
    <3>4. CASE run.at # LastProbe
      <4>1. run' = [run EXCEPT !.stage = "probeWrite", !.at = @ + 1]
          BY <2>3, <3>4
      <4>2. /\ run'.stage = "probeWrite" /\ run'.before = run.before /\ op' = op
            /\ run'.saved = run.saved /\ run'.at = run.at + 1 /\ run'.lost = run.lost
          BY <1>2, <4>1 DEF Run, op
      <4>3. Clean => run'.at <= Hit
          BY <1>2, <3>2, <4>2 DEF Hit
      <4> QED BY <1>4, <1>5, <1>6, <1>8, <2>1, <2>2, <2>3, <3>2, <4>2, <4>3 DEF Probing
    <3> QED BY <3>3, <3>4
  <2>4. CASE Miss("revert") /\ content' \in {content, Probed(0)}
      BY <1>4, <1>7, <2>1, <2>2, <2>4
  <2> QED BY <1>14, <2>3, <2>4 DEF ProbeClear
<1> QED BY <1>11, <1>12, <1>13, <1>14

\* The revert gives the content before the operation back, and then the slot found is written.
LEMMA SlotExact ==
    ASSUME TypeInv, ContentInv, Revert \/ SetSlot
    PROVE  ContentInv' /\ ExactStep
<1>1. CASE Revert
  <2>1. run.stage = "revert" /\ run.stage \in Probing /\ history' = history
      BY <1>1 DEF Revert, Probing
  <2>2. /\ run.saved \in {run.before, None} /\ HasToken /\ op.mappingSlot = None /\ run \in Run
        /\ Clean => 2 * run.slot = Hit
      BY <2>1, Findings DEF ContentInv, Searching
  <2>3. \/ Goto("setSlot") /\ content' = run.before
        \/ Miss("setSlot")
      BY <1>1, <2>2 DEF Revert
  <2>4. /\ run'.stage = "setSlot" /\ run'.before = run.before /\ op' = op /\ run'.slot = run.slot
        /\ Goto("setSlot") => run'.lost = run.lost
        /\ Miss("setSlot") => run'.lost
      BY <2>2, <2>3, Going DEF Stage
  <2>5. Deploying'
      BY <2>4 DEF Deploying
  <2>6. Searching'
      BY <2>2, <2>3, <2>4 DEF Searching, HasToken, Hit, Clean, Probing
  <2> QED BY <2>1, <2>4, <2>5, <2>6, QuietExact DEF ContentInv, Untouched
<1>2. CASE SetSlot
  <2>1. ASSUME NEW last, Throw(last) PROVE ContentInv' /\ ExactStep
      BY <2>1, EndedExact DEF Throw
  <2>2. CASE /\ content' = Written(content, op.token, {Word(<<"solidity", run.slot, op.holder>>, op.amount)})
             /\ Close
    <3>1. run.stage = "setSlot" /\ content' \in Content
        BY <1>2, WritesTyped DEF SetSlot
    <3>2. op \in Op /\ op.type = "fund_erc20" /\ run \in Run /\ run.before \in Content
        BY <3>1, OpTyped DEF TypeInv, OpFits, RunTyped
    <3>3. op.token \in Token
        BY <3>2, OpFields
    <3>4. /\ HasToken
          /\ ~run.lost => /\ content = run.before
                          /\ op.mappingSlot # None => run.slot = op.mappingSlot
                          /\ op.mappingSlot = None /\ Clean => 2 * run.slot = Hit
        BY <3>1 DEF ContentInv, Searching
    <3>5. ASSUME Clean
          PROVE  /\ <<"solidity", run.slot, op.holder>> = Target(op, run.before)
                 /\ run.before.code[op.token].kind = "token" /\ content = run.before
      <4>1. run.before.code[op.token].kind = "token" /\ content = run.before
          BY <3>2, <3>4, <3>5 DEF Clean, Feasible, HasToken
      <4>2. CASE op.mappingSlot # None
          BY <3>4, <3>5, <4>1, <4>2 DEF Target, Clean
      <4>3. CASE op.mappingSlot = None
        <5>1. run.before.code[op.token].layout = "solidity"
            BY <3>2, <3>5, <4>1, <4>3 DEF Clean, Feasible
        <5>2. run.before.code[op.token].slot \in Nat /\ run.slot \in Nat
            BY <3>2, <3>3 DEF Content, Code, Slot, Run
        <5>3. run.slot = run.before.code[op.token].slot
            BY <3>4, <3>5, <4>3, <5>2 DEF Hit, Clean
        <5> QED BY <4>1, <4>3, <5>1, <5>3 DEF Target, BalanceKey
      <4> QED BY <4>2, <4>3
    <3>6. Clean => content' = Apply(op, run.before)
        BY <2>2, <3>2, <3>5 DEF Apply
    <3> QED BY <2>2, <3>1, <3>6, ClosedExact
  <2> QED BY <1>2, <2>1, <2>2 DEF SetSlot
<1> QED BY <1>1, <1>2

LEMMA AnnouncesExact ==
    ASSUME TypeInv, ContentInv, Announce
    PROVE  ContentInv' /\ ExactStep
<1>1. run.stage = "announce" /\ content' = content /\ content \in Content /\ Record
    BY DEF Announce, TypeInv
<1>2. ExactStep
    BY <1>1 DEF ContentInv, ExactStep
<1> QED BY <1>1, <1>2, Recorded DEF TypeInv

-----------------------------------------------------------------------------
(* The theorems about the content.                                         *)

LEMMA ContentInvStep ==
    ASSUME TypeInv, ContentInv, [Next]_vars
    PROVE  ContentInv' /\ ExactStep
<1>1. CASE Step
    BY <1>1, FundsExact, AsksExact, DeploysExact, StoresExact, ProbesExact, SlotExact, AnnouncesExact DEF Step
<1>2. CASE Post \/ RunScript
  <2>1. history' = <<>>
      BY <1>2 DEF Post, RunScript
  <2>2. ExactStep
      BY <2>1 DEF ExactStep, TypeInv, RunTyped
  <2> QED BY <1>2, <2>2, PostedTyped
<1>3. ASSUME content' = content, history' = history, run'.saved \in {run.saved, None}, op' = op,
             run'.stage = run.stage, run'.before = run.before, run'.lost = run.lost, run'.at = run.at,
             run'.slot = run.slot, run'.todo = run.todo
      PROVE  ContentInv' /\ ExactStep
  <2>1. /\ (NoToken' <=> NoToken) /\ (Builds' <=> Builds) /\ Storing' = Storing
        /\ (HasToken' <=> HasToken) /\ Hit' = Hit /\ (Clean' <=> Clean)
      BY <1>3 DEF NoToken, Builds, Storing, HasToken, Hit, Clean
  <2>2. Deploying'
      BY <1>3, <2>1 DEF ContentInv, Deploying
  <2>3. Searching'
      BY <1>3, <2>1 DEF ContentInv, Searching, Balance
  <2> QED BY <1>3, <2>1, <2>2, <2>3, QuietExact DEF ContentInv
<1>4. CASE Restart
  <2>1. run \in Run
      BY DEF TypeInv, RunTyped
  <2> QED BY <1>3, <1>4, <2>1 DEF Restart, Run, op
<1>5. CASE SaveScript \/ ListScripts \/ DeleteScript \/ UNCHANGED vars
    BY <1>3, <1>5 DEF SaveScript, ListScripts, DeleteScript, vars, op
<1> QED BY <1>1, <1>2, <1>4, <1>5 DEF Next

LEMMA ContentInvAlways == Spec => []ContentInv
<1>1. Init => ContentInv
  <2> SUFFICES ASSUME Init PROVE ContentInv
      OBVIOUS
  <2>1. run.stage = "idle"
      BY IdleTyped DEF Init
  <2>2. Deploying
      BY <2>1 DEF Deploying
  <2>3. Searching
      BY <2>1 DEF Searching, Probing
  <2> QED BY <2>1, <2>2, <2>3 DEF ContentInv, Untouched
<1>2. TypeInv /\ ContentInv /\ [Next]_vars => ContentInv'
    BY ContentInvStep
<1> QED BY <1>1, <1>2, TypeInvAlways, PTL DEF Spec

\* A feasible operation that patch_history has a row for, and of which the code passed over no failure,
\* did to the node what it says and nothing else, whatever failed before it and whenever the node was
\* started again: nothing stays of the probes, and no token is half deployed.  Feasible names what
\* setTokenBalance cannot do: it writes Solidity mappings among the slots probed, of a holder who has
\* not the probe's amount, and takes a contract that answers with no data for a token.
THEOREM RecordedIsDone == Spec => PatchesAreExact
<1>1. TypeInv /\ ContentInv /\ [Next]_vars
        => [Len(history') > Len(history) /\ ~run.lost /\ Feasible(op, run.before)
              => content' = Apply(op, run.before)]_vars
    BY ContentInvStep DEF ExactStep, Clean
<1> QED BY <1>1, TypeInvAlways, ContentInvAlways, PTL DEF Spec, PatchesAreExact

\* A request to fund replaces the code of a token that works only when it did not hear the token: the
\* question for its code or for a balance failed.  The probes, their revert and requests for other
\* addresses never do, and a request to set code does as it says.
THEOREM TokensAreKept == Spec => HeardTokenKept
<1> DEFINE Kept == \A t \in Token : content.code[t].kind = "token" /\ content'.code[t] # content.code[t]
                        => op.token = t /\ (op.type = "set_code" \/ (run.lost /\ run.stage = "setCode"))
<1>1. TypeInv /\ ContentInv /\ [Next]_vars => [Kept]_vars
  <2> SUFFICES ASSUME TypeInv, ContentInv, Next PROVE Kept
      BY DEF vars
  <2>1. ASSUME content'.code = content.code PROVE Kept
      BY <2>1
  <2>2. ASSUME content' = content PROVE Kept
      BY <2>2
  <2>3. CASE HasCode \/ ProbeToken \/ EthCall \/ TraceCall \/ Snapshot \/ ProbeRead \/ Announce
    <3>1. content' = content
        BY <2>3 DEF HasCode, ProbeToken, EthCall, TraceCall, Snapshot, ProbeRead, Announce, Nothing
    <3> QED BY <2>2, <3>1
  <2>4. CASE Post \/ SaveScript \/ ListScripts \/ DeleteScript \/ RunScript \/ Restart
    <3>1. content' = content
        BY <2>4 DEF Post, SaveScript, ListScripts, DeleteScript, RunScript, Restart
    <3> QED BY <2>2, <3>1
  <2>5. CASE SetBalance
    <3>1. Funded.code = content.code
        BY DEF Funded, TypeInv, Content
    <3>2. content' \in {content, Funded}
        BY <2>5 DEF SetBalance, Throw
    <3> QED BY <2>1, <2>2, <3>1, <3>2
  <2>6. ASSUME NEW t, NEW W, content' \in {content, Written(content, t, W)} PROVE Kept
    <3>1. Written(content, t, W).code = content.code
        BY DEF Written, TypeInv, Content
    <3> QED BY <2>1, <2>2, <2>6, <3>1
  <2>7. CASE WriteSlot \/ SetSlots \/ SetSlot
    <3>1. CASE WriteSlot
        BY <2>6, <3>1 DEF WriteSlot, Throw
    <3>2. CASE SetSlots
      <4>1. PICK w \in run.todo : content' \in {content, Written(content, op.token, {w})}
          BY <3>2 DEF SetSlots, Throw
      <4> QED BY <2>6, <4>1
    <3>3. CASE SetSlot
        BY <2>6, <3>3 DEF SetSlot, Throw
    <3> QED BY <2>7, <3>1, <3>2, <3>3
  <2>8. CASE ProbeWrite \/ ProbeClear
    <3>1. \E v : content' \in {content, Probed(v)}
        BY <2>8 DEF ProbeWrite, ProbeClear
    <3> QED BY <2>6, <3>1 DEF Probed
  <2>9. CASE Revert
    <3>1. /\ run.stage = "revert"
          /\ (content' = run.saved /\ run.saved # None) \/ content' \in {content, run.saved} \ {None}
        BY <2>9 DEF Revert
    <3>2. run.saved \in {run.before, None} /\ content.code = run.before.code
        BY <3>1 DEF ContentInv, Searching, Probing
    <3> QED BY <2>1, <2>2, <3>1, <3>2
  <2>10. CASE SetCode
    <3>1. run.stage = "setCode" /\ content' \in {content, Installed(content, op.token)}
        BY <2>10 DEF SetCode, Throw
    <3>2. CASE content' = Installed(content, op.token)
      <4>1. NoToken /\ content = run.before
          BY <3>1 DEF ContentInv, Deploying, Untouched
      <4>2. op \in Op /\ op.type \in {"fund_erc20", "set_code"}
          BY <3>1, OpTyped DEF TypeInv, OpFits
      <4>3. op.token \in Token /\ content \in Content
          BY <4>2, OpFields DEF TypeInv
      <4>4. \A u \in Token \ {op.token} : content'.code[u] = content.code[u]
          BY <3>2, <4>3, InstalledContent
      <4>5. content.code[op.token].kind = "token" => op.type = "set_code" \/ run.lost
          BY <4>1, <4>2 DEF NoToken
      <4> QED BY <3>1, <4>4, <4>5
    <3> QED BY <2>2, <3>1, <3>2
  <2> QED BY <2>3, <2>4, <2>5, <2>7, <2>8, <2>9, <2>10 DEF Next, Step
<1> QED BY <1>1, TypeInvAlways, ContentInvAlways, PTL DEF Spec, HeardTokenKept

=============================================================================
