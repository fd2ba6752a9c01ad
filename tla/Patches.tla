------------------------------ MODULE Patches ------------------------------
(***************************************************************************)
(* State patches: the routes app/api/patches/{fund,storage,code,scripts}   *)
(* and what they call in lib/patcher.ts, lib/codePatcher.ts and            *)
(* lib/tokenBalances.ts.  A request is a list of operations; each is a     *)
(* chain of calls to the node, one await apart, and then a row of table    *)
(* patch_history.                                                          *)
(*                                                                         *)
(* The node's content (external) is the code at an address, its storage,   *)
(* and native balances.  A token keeps balances in a mapping, whose layout *)
(* and slot give the key of a holder's balance; hashes do not collide.     *)
(* Announcements to the explorer cost the node's first account gas, which  *)
(* is none of Holder, and change nothing else.  One request is served at a *)
(* time: sessions that overlap on a node are the subject of Snapshots.     *)
(*                                                                         *)
(* Any call may fail, after the node carried it out or before (lib/rpc.ts  *)
(* gives one up after its timeout), and the node may be stopped and        *)
(* started again, with the state it dumped, at any time.                   *)
(***************************************************************************)
EXTENDS Naturals, Sequences

CONSTANTS
    Token,          \* addresses that hold, or are to hold, a token
    Holder,         \* wallets
    Layout,         \* layouts of the mappings of tokens already there
    MAX_SLOT,       \* the last slot that is probed
    PROBE_AMOUNT,   \* what a probe writes
    Value,          \* words of storage, 0 among them
    Name,           \* names of scripts
    Posted,         \* operations users ask for one by one
    Scripted,       \* lists of operations users save
    None,
    MaxId           \* bound on script ids

ASSUME PatchesAssumption ==
    /\ MAX_SLOT \in Nat /\ MaxId \in Nat
    /\ 0 \in Value /\ PROBE_AMOUNT \in Value \ {0}
    /\ Layout \subseteq {"solidity", "vyper"}

VARIABLES
    content,    \* what the node holds
    run,        \* the request under way
    history,    \* the rows of table patch_history that the last request added
    scripts,    \* table patch_scripts
    nextId,     \* its AUTOINCREMENT
    shown       \* the scripts a page shows, as it loaded them

vars == <<content, run, history, scripts, nextId, shown>>

Slot    == 0..(MAX_SLOT + 1)
\* solidityMappingKey and vyperMappingKey; the mock's other slot, its supply.
Mapping == {<<layout, slot, h>> : layout \in {"solidity", "vyper"}, slot \in Slot, h \in Holder}
Supply  == <<"supply", 0, None>>
Key     == Mapping \cup {Supply}

NoCode  == [kind |-> "none", layout |-> "solidity", slot |-> 0]
\* A broken contract reverts when it is asked for a balance, an empty one returns no data.
Code    == [kind : {"none", "broken", "empty", "token"}, layout : {"solidity", "vyper"}, slot : Slot]
\* MockERC20.sol; MOCK_ERC20_BALANCE_SLOT is 0.
Mock    == [kind |-> "token", layout |-> "solidity", slot |-> 0]

Content == [code : [Token -> Code], storage : [Token -> [Key -> Value]], native : [Holder -> Value]]

Op == [type : {"fund_native"}, holder : Holder, amount : Value]
      \cup [type : {"fund_erc20"}, token : Token, holder : Holder, amount : Value,
            mappingSlot : Slot \cup {None}]
      \cup [type : {"storage_write"}, token : Token, key : Key, value : Value]
      \cup [type : {"set_code"}, token : Token, mode : {"erc20", "runtime"}, holder : Holder, amount : Value]

\* ScriptOp: no code, no slot given.
ScriptOp == {o \in Op : o.type # "set_code" /\ (o.type = "fund_erc20" => o.mappingSlot = None)}

ASSUME RequestAssumption == Posted \subseteq Op /\ Scripted \subseteq Seq(ScriptOp) \ {<<>>}

Script == [id : 1..MaxId, name : Name, ops : Scripted]

\* History: `before` is the content when the present operation began, `lost` whether a call of
\* it failed that the code passes over.
Idle == [stage |-> "idle", ops |-> <<>>, before |-> None, lost |-> FALSE, saved |-> None, at |-> 0,
         slot |-> 0, todo |-> {}]

Word(key, value) == [key |-> key, value |-> value]
Words == [key : Key, value : Value]

TypeOK ==
    /\ content \in Content /\ run.lost \in BOOLEAN
    /\ run.stage \in {"idle", "setBalance", "hasCode", "balanceOf", "ethCall", "traceCall", "setCode", "setSlots",
                      "snapshot", "probeWrite", "probeRead", "probeClear", "revert", "setSlot", "writeSlot", "announce"}
    /\ run.at \in Nat /\ run.slot \in Slot /\ run.todo \subseteq Words
    /\ \A i \in DOMAIN run.ops : run.ops[i] \in Op
    /\ \A i \in DOMAIN history : history[i] \in Op
    /\ scripts \subseteq Script /\ nextId \in 1..(MaxId + 1) /\ shown \subseteq Script

Init ==
    /\ \E code \in [Token -> {NoCode} \cup [kind : {"broken", "empty", "token"}, layout : Layout, slot : Slot]], v \in Value :
          content = [code    |-> code,
                     storage |-> [t \in Token |-> [k \in Key |->
                         IF code[t].kind # "none" /\ k[1] = code[t].layout /\ k[2] = code[t].slot THEN v ELSE 0]],
                     native  |-> [h \in Holder |-> 0]]
    /\ run = Idle /\ history = <<>>
    /\ scripts = {} /\ nextId = 1 /\ shown = {}

-----------------------------------------------------------------------------
(* Content.                                                                *)

BalanceKey(code, h)  == <<code.layout, code.slot, h>>
balanceOf(c, t, h)   == IF c.code[t].kind = "token" THEN c.storage[t][BalanceKey(c.code[t], h)] ELSE 0
Written(c, t, words) == [c EXCEPT !.storage[t] = [k \in Key |->
                            IF \E w \in words : w.key = k THEN (CHOOSE w \in words : w.key = k).value ELSE @[k]]]
Installed(c, t)      == [c EXCEPT !.code[t] = Mock]

\* What the mock's constructor writes: the supply, and the holder's balance.
Constructed(h, amount) == {Word(<<"solidity", 0, h>>, amount), Word(Supply, amount)}

-----------------------------------------------------------------------------
(* Requests.                                                               *)

op == Head(run.ops)

FirstStage(o) ==
    CASE o.type = "fund_native"   -> "setBalance"
      [] o.type = "fund_erc20"    -> "hasCode"
      [] o.type = "storage_write" -> "writeSlot"
      [] o.type = "set_code"      -> IF o.mode = "runtime" THEN "setCode" ELSE "ethCall"

Begin(ops, c) == IF ops = <<>> THEN Idle
                 ELSE [Idle EXCEPT !.stage = FirstStage(Head(ops)), !.ops = ops, !.before = c]

\* POST of fund, storage and code: one operation; input is checked before anything is done.
Post ==
    /\ run = Idle
    /\ \E o \in Posted : run' = Begin(<<o>>, content)
    /\ history' = <<>>
    /\ UNCHANGED <<content, scripts, nextId, shown>>

\* AUTOINCREMENT: no id is used twice.  Mutant: the largest id and one more.
newIdPlain == CHOOSE i \in 1..(MaxId + 1) :
                 /\ \A s \in scripts : s.id < i
                 /\ i = 1 \/ \E s \in scripts : s.id = i - 1
newId == nextId

\* action "save": INSERT OR REPLACE on the name deletes the old row and takes a new id.
SaveScript ==
    /\ nextId <= MaxId
    /\ \E name \in Name, ops \in Scripted :
          scripts' = {s \in scripts : s.name # name} \cup {[id |-> newId, name |-> name, ops |-> ops]}
    /\ nextId' = nextId + 1
    /\ UNCHANGED <<content, run, history, shown>>

\* GET: the page keeps the list.
ListScripts ==
    /\ shown' = scripts
    /\ UNCHANGED <<content, run, history, scripts, nextId>>

\* action "delete" on a script shown.
DeleteScript ==
    /\ \E s \in shown : scripts' = {r \in scripts : r.id # s.id}
    /\ UNCHANGED <<content, run, history, nextId, shown>>

\* action "run" on a script shown: by id; "Script not found" changes nothing.
RunScript ==
    /\ run = Idle
    /\ \E s \in shown, r \in scripts : r.id = s.id /\ run' = Begin(r.ops, content)
    /\ history' = <<>>
    /\ UNCHANGED <<content, scripts, nextId, shown>>

-----------------------------------------------------------------------------
(* The calls of the request under way.                                     *)

Goto(stage)   == run' = [run EXCEPT !.stage = stage]
\* A failure that the code passes over.
Miss(stage)   == run' = [run EXCEPT !.stage = stage, !.lost = TRUE]
\* A failure that nothing catches ends the request; what was done stays, perhaps the last of it.
Throw(last)   == run' = Idle /\ content' \in {content, last} /\ UNCHANGED history
\* The operation is over: its row, then the next one.
Record        == history' = Append(history, op) /\ run' = Begin(Tail(run.ops), content')
\* setTokenBalance and fundNative announce first.
Announced(o)  == o.type \in {"fund_native", "fund_erc20"}
Close         == IF Announced(op) THEN Goto("announce") /\ UNCHANGED history ELSE Record
Rest          == UNCHANGED <<scripts, nextId, shown>>
Nothing       == UNCHANGED <<content, history>>

\* fundNative.
Funded == [content EXCEPT !.native[op.holder] = op.amount]

SetBalance ==
    /\ run.stage = "setBalance" /\ Rest
    /\ (content' = Funded /\ Close) \/ Throw(Funded)

\* writeStorageSlot.
WriteSlot ==
    LET written == Written(content, op.token, {Word(op.key, op.value)}) IN
    /\ run.stage = "writeSlot" /\ Rest
    /\ (content' = written /\ Close) \/ Throw(written)

\* ensureContractExists asks for code; a failed call counts as none.
HasCode ==
    /\ run.stage = "hasCode" /\ Rest /\ Nothing
    /\ \/ content.code[op.token].kind # "none" /\ Goto("balanceOf")
       \/ content.code[op.token].kind = "none" /\ Goto("ethCall")
       \/ Miss("ethCall")

\* Mutant: a balance of zero is taken for no token.
ProbeTokenZero ==
    /\ Rest /\ Nothing
    /\ run.stage = "balanceOf" /\ Goto("ethCall")

\* It asks for a balance.  Whatever answers is left alone, no data being an answer; a revert and a
\* failed call are none.
ProbeToken ==
    /\ run.stage = "balanceOf" /\ Rest /\ Nothing
    /\ \/ /\ content.code[op.token].kind \in {"token", "empty"}
          /\ IF op.mappingSlot = None THEN Goto("snapshot")
             ELSE run' = [run EXCEPT !.stage = "setSlot", !.slot = op.mappingSlot]
       \/ content.code[op.token].kind = "broken" /\ Goto("ethCall")
       \/ Miss("ethCall")

\* simulateDeployment: the constructor's code, then its storage.
EthCall ==
    /\ run.stage = "ethCall" /\ Rest /\ Nothing
    /\ Goto("traceCall") \/ run' = Idle

TraceCall ==
    /\ run.stage = "traceCall" /\ Rest /\ Nothing
    /\ \/ run' = [run EXCEPT !.stage = "setCode", !.todo = Constructed(op.holder, op.amount)]
       \/ run' = Idle

\* installCode: the code, then slot after slot.
SetCode ==
    /\ run.stage = "setCode" /\ Rest
    /\ \/ /\ content' = Installed(content, op.token)
          /\ IF run.todo = {} THEN Close ELSE Goto("setSlots") /\ UNCHANGED history
       \/ Throw(Installed(content, op.token))

SetSlots ==
    /\ run.stage = "setSlots" /\ Rest
    /\ \E w \in run.todo :
         \/ /\ content' = Written(content, op.token, {w})
            /\ IF run.todo = {w} THEN Close
               ELSE run' = [run EXCEPT !.todo = @ \ {w}] /\ UNCHANGED history
         \/ Throw(Written(content, op.token, {w}))

\* detectBalanceSlot: keys in the order they are probed.
ProbeKey(n, h) == <<IF n % 2 = 0 THEN "solidity" ELSE "vyper", n \div 2, h>>
LastProbe      == 2 * MAX_SLOT + 1
Probed(value)  == Written(content, op.token, {Word(ProbeKey(run.at, op.holder), value)})

Snapshot ==
    /\ run.stage = "snapshot" /\ Rest /\ Nothing
    /\ run' = [run EXCEPT !.stage = "probeWrite", !.saved = content] \/ Miss("setSlot")

ProbeWrite ==
    /\ run.stage = "probeWrite" /\ Rest /\ UNCHANGED history
    /\ \/ content' = Probed(PROBE_AMOUNT) /\ Goto("probeRead")
       \/ content' \in {content, Probed(PROBE_AMOUNT)} /\ Miss("revert")

\* The slot is found when the balance reads as the probe; a failed read reads as 0.
ProbeRead ==
    /\ run.stage = "probeRead" /\ Rest /\ Nothing
    /\ \/ /\ balanceOf(content, op.token, op.holder) = PROBE_AMOUNT
          /\ run' = [run EXCEPT !.stage = "revert", !.slot = run.at \div 2]
       \/ balanceOf(content, op.token, op.holder) # PROBE_AMOUNT /\ Goto("probeClear")
       \/ Miss("probeClear")

ProbeClear ==
    /\ run.stage = "probeClear" /\ Rest /\ UNCHANGED history
    /\ \/ /\ content' = Probed(0)
          /\ IF run.at = LastProbe THEN Goto("revert")
             ELSE run' = [run EXCEPT !.stage = "probeWrite", !.at = @ + 1]
       \/ content' \in {content, Probed(0)} /\ Miss("revert")

\* Mutant: the snapshot is given up without a revert.
RevertForgotten ==
    /\ Rest /\ Nothing
    /\ run.stage = "revert" /\ Goto("setSlot")

\* The finally block; without a slot setTokenBalance goes on with slot 0.  The call fails, or a node
\* that was started again answers false, and nobody looks.
Revert ==
    /\ run.stage = "revert" /\ Rest /\ UNCHANGED history
    /\ \/ run.saved # None /\ content' = run.saved /\ Goto("setSlot")
       \/ content' \in {content, run.saved} \ {None} /\ Miss("setSlot")

\* setTokenBalance writes the key of the Solidity layout.
SetSlot ==
    LET written == Written(content, op.token, {Word(<<"solidity", run.slot, op.holder>>, op.amount)}) IN
    /\ run.stage = "setSlot" /\ Rest
    /\ (content' = written /\ Close) \/ Throw(written)

\* announceToken and touchForIndexer: whatever comes of it, the operation is over.
Announce == run.stage = "announce" /\ Rest /\ UNCHANGED content /\ Record

\* The node is stopped and started again: its snapshots are gone.
Restart == run.saved # None /\ run' = [run EXCEPT !.saved = None]
           /\ UNCHANGED <<content, history, scripts, nextId, shown>>

Step == \/ SetBalance \/ WriteSlot \/ HasCode \/ ProbeToken \/ EthCall \/ TraceCall \/ SetCode \/ SetSlots
        \/ Snapshot \/ ProbeWrite \/ ProbeRead \/ ProbeClear \/ Revert \/ SetSlot \/ Announce

Next == Step \/ Post \/ SaveScript \/ ListScripts \/ DeleteScript \/ RunScript \/ Restart

Spec == Init /\ [][Next]_vars

-----------------------------------------------------------------------------
(* Properties.                                                             *)

\* The abstract operation: one atomic write to the content.
Target(o, c) == IF o.mappingSlot # None THEN <<"solidity", o.mappingSlot, o.holder>>
                ELSE BalanceKey(c.code[o.token], o.holder)

Deployed(c, o) == Written(Installed(c, o.token), o.token, Constructed(o.holder, o.amount))

Apply(o, c) ==
    CASE o.type = "fund_native"   -> [c EXCEPT !.native[o.holder] = o.amount]
      [] o.type = "storage_write" -> Written(c, o.token, {Word(o.key, o.value)})
      [] o.type = "set_code"      -> IF o.mode = "runtime" THEN Installed(c, o.token) ELSE Deployed(c, o)
      [] o.type = "fund_erc20"    -> IF c.code[o.token].kind = "token"
                                       THEN Written(c, o.token, {Word(Target(o, c), o.amount)})
                                       ELSE Deployed(c, o)

\* What detectBalanceSlot finds: a mapping among the slots probed, in either layout, when the balance
\* is not by chance the probe's amount.
Detected(o, c) ==
    /\ c.code[o.token].kind = "token" /\ c.code[o.token].slot <= MAX_SLOT
    /\ balanceOf(c, o.token, o.holder) # PROBE_AMOUNT

\* What setTokenBalance can do: it writes Solidity mappings only, and takes a contract that answers
\* with no data for a token.
Feasible(o, c) ==
    o.type = "fund_erc20" =>
        /\ c.code[o.token].kind # "empty"
        /\ c.code[o.token].kind = "token" /\ o.mappingSlot = None
              => Detected(o, c) /\ c.code[o.token].layout = "solidity"

\* A feasible operation that patch_history has a row for, and of which the code passed over no
\* failure, did to the node what it says and nothing else: the balance reads as the amount, and of the
\* probes, which clear slots of others, nothing stays, whatever failed before and whenever the node was
\* started again.
PatchesAreExact ==
    [][Len(history') > Len(history) /\ ~run.lost /\ Feasible(op, run.before)
         => content' = Apply(op, run.before)]_vars

\* "Force a holder's token balance by writing the mapping slot directly" (lib/tokenBalances.ts): where
\* the mapping was detected, the balance is the amount.
BalanceIsSet ==
    [][Len(history') > Len(history) /\ ~run.lost /\ op.type = "fund_erc20" /\ op.mappingSlot = None
         /\ Detected(op, run.before)
         => balanceOf(content', op.token, op.holder) = op.amount]_vars

\* "Guarantee a usable ERC20 at `tokenAddress`" (lib/tokenBalances.ts).
TokenIsUsable ==
    [][Len(history') > Len(history) /\ ~run.lost /\ op.type = "fund_erc20"
         => content'.code[op.token].kind = "token"]_vars

\* "existing token works - leave it alone" (lib/tokenBalances.ts): the code of a token that works is
\* replaced only by a request to set code.
WorkingTokenKept ==
    [][\A t \in Token : content.code[t].kind = "token" /\ content'.code[t] # content.code[t]
         => op.type = "set_code" /\ op.token = t]_vars

\* So it is when the token was heard: by a request to fund it is replaced only after the question for
\* its code or for a balance failed, never by the probes and never by their revert.
HeardTokenKept ==
    [][\A t \in Token : content.code[t].kind = "token" /\ content'.code[t] # content.code[t]
         => op.token = t /\ (op.type = "set_code" \/ (run.lost /\ run.stage = "setCode"))]_vars

\* Running a script from a list runs what the list showed, although scripts were saved under its name
\* or deleted since: an id is used once.
RunsWhatWasShown ==
    [][RunScript => \E s \in shown : s \in scripts /\ s.ops = run'.ops]_vars
=============================================================================
