--------------------------- MODULE SnapshotsProofs ---------------------------
(***************************************************************************)
(* Proofs about Snapshots, for any number of projects, writes, requests    *)
(* and snapshots, when restarts, resets, sessions and reverts are alone on *)
(* their node.                                                             *)
(***************************************************************************)
EXTENDS Snapshots, SequenceTheorems, TLAPS

\* A request, the bound of its number left out.
Asked == [kind : {"none", "write", "undo", "store", "forget"},
          scope : Scope \cup {None}, id : Nat, saved : Content, ok : BOOLEAN]

Typed ==
  /\ content \in [Scope -> Content] /\ due \in [Scope -> SUBSET Write]
  /\ taken \in [Scope -> Seq(Snapshot)]
  /\ req \in [Req -> Asked]
  /\ \A r \in Req : req[r].kind # "none" => req[r].scope \in Scope

\* A request that holds a session of s open.
Opens(r, s) == req[r].scope = s /\ req[r].kind \in {"write", "undo"}

\* The snapshot a session will revert to is there and has no simulated write.
Returns(r, s) ==
  /\ req[r].id \in DOMAIN taken[s]
  /\ taken[s][req[r].id].live
  /\ taken[s][req[r].id].content = due[s]

Returning == \A r \in Req, s \in Scope : Opens(r, s) => Returns(r, s)
OneOpen   == \A q, r \in Req, s \in Scope : Opens(q, s) /\ Opens(r, s) => q = r
NotBoth   == \A r \in Req, s \in Scope : Opens(r, s) => ~Forgets(s)
NotYet    == \A r \in Req, s \in Scope : Opens(r, s) /\ req[r].kind = "write" => content[s] = due[s]

\* Only a snapshot taken inside a session may hold its write, and the end of the
\* session takes it away.
Taints ==
  \A s \in Scope : \A i \in DOMAIN taken[s] :
    taken[s][i].live /\ taken[s][i].content # taken[s][i].due
      => \E r \in Req : Opens(r, s) /\ req[r].id < i

Inv == Typed /\ Returning /\ OneOpen /\ NotBoth /\ NotYet /\ Taints /\ ZeroEffect

(***************************************************************************)
(* Requests.                                                               *)
(***************************************************************************)

\* A session is one that some request holds open.
LEMMA SessionOpens ==
  ASSUME NEW s \in Scope
  PROVE  /\ Session(s) <=> \E r \in Req : Opens(r, s)
         /\ Session(s)' <=> \E r \in Req : Opens(r, s)'
BY DEF Session, Opens

\* What a step does that changes one request.
LEMMA OneRequest ==
  ASSUME Typed, NEW r \in Req, NEW new \in Asked, new.kind # "none" => new.scope \in Scope,
         req' = [req EXCEPT ![r] = new]
  PROVE  /\ req' \in [Req -> Asked]
         /\ \A q \in Req : req'[q].kind # "none" => req'[q].scope \in Scope
         /\ req'[r] = new /\ \A q \in Req \ {r} : req'[q] = req[q]
BY DEF Typed

\* A step that opens no session and begins no revert leaves sessions alone.
LEMMA NothingOpens ==
  ASSUME OneOpen, NotBoth,
         \A q \in Req, t \in Scope : Opens(q, t)' => Opens(q, t),
         \A t \in Scope : Forgets(t)' => Forgets(t)
  PROVE  OneOpen' /\ NotBoth'
BY DEF OneOpen, NotBoth

\* An idle request is one of no kind.
LEMMA IdleTyped == Idle \in Asked /\ Idle.kind = "none"
BY DEF Idle, Asked, Content

(***************************************************************************)
(* Every step keeps the invariant.                                         *)
(***************************************************************************)

\* A user's write, which no session sees.
LEMMA UserWritesKeeps ==
  ASSUME Serial, Inv, NEW s \in Scope, NEW w \in Write, UserWrites(s, w)
  PROVE  Inv'
<1>1. \A q \in Req : ~Opens(q, s)
  BY SessionOpens DEF UserWrites, Alone
<1>2. taken' = taken /\ req' = req
  BY DEF UserWrites
<1>3. content[s] \cup {w} \in Content /\ due[s] \cup {w} \in SUBSET Write
  BY DEF Inv, Typed, Content
<1>4. /\ content' \in [Scope -> Content] /\ due' \in [Scope -> SUBSET Write]
      /\ \A t \in Scope \ {s} : content'[t] = content[t] /\ due'[t] = due[t]
      /\ content'[s] = content[s] \cup {w} /\ due'[s] = due[s] \cup {w}
  BY <1>3 DEF UserWrites, Inv, Typed
<1>5. \A q \in Req, t \in Scope : Opens(q, t)' <=> Opens(q, t)
  BY <1>2 DEF Opens
<1>6. Typed'
  BY <1>2, <1>4 DEF Inv, Typed
<1>7. Returning'
  <2>1. SUFFICES ASSUME NEW q \in Req, NEW t \in Scope, Opens(q, t)
                 PROVE  Returns(q, t)'
    BY <1>5 DEF Returning
  <2>2. t # s /\ Returns(q, t)
    BY <1>1, <2>1 DEF Inv, Returning
  <2>. QED BY <1>2, <1>4, <2>2 DEF Returns
<1>8. OneOpen' /\ NotBoth'
  BY <1>2, <1>5, NothingOpens DEF Inv, Forgets
<1>9. NotYet'
  <2>1. SUFFICES ASSUME NEW q \in Req, NEW t \in Scope, Opens(q, t), req[q].kind = "write"
                 PROVE  content'[t] = due'[t]
    BY <1>2, <1>5 DEF NotYet
  <2>2. t # s /\ content[t] = due[t]
    BY <1>1, <2>1 DEF Inv, NotYet
  <2>. QED BY <1>4, <2>2
<1>10. Taints'
  BY <1>2, <1>5 DEF Inv, Taints
<1>11. ZeroEffect'
  <2>1. SUFFICES ASSUME NEW t \in Scope, ~Session(t)
                 PROVE  content'[t] = due'[t]
    BY <1>2 DEF ZeroEffect, Session
  <2>2. content[t] = due[t]
    BY <2>1 DEF Inv, ZeroEffect
  <2>. QED BY <1>4, <2>2
<1>. QED BY <1>6, <1>7, <1>8, <1>9, <1>10, <1>11 DEF Inv

\* A restart and a reset, which no session sees either.
LEMMA RestartKeeps ==
  ASSUME Serial, Inv, NEW s \in Scope, NodeRestarts(s) \/ Reset(s)
  PROVE  Inv'
<1>1. \A q \in Req : ~Opens(q, s)
  BY SessionOpens DEF NodeRestarts, Reset, Quiet
<1>2. taken' = [taken EXCEPT ![s] = <<>>] /\ req' = req
  BY DEF NodeRestarts, Reset
<1>3. /\ content' \in [Scope -> Content] /\ due' \in [Scope -> SUBSET Write]
      /\ \A t \in Scope \ {s} : content'[t] = content[t] /\ due'[t] = due[t]
      /\ content[s] = due[s] => content'[s] = due'[s]
  <2>1. CASE content' = content /\ due' = due
    BY <2>1 DEF Inv, Typed
  <2>2. CASE content' = [content EXCEPT ![s] = {}] /\ due' = [due EXCEPT ![s] = {}]
    BY <2>2 DEF Inv, Typed, Content
  <2>. QED BY <2>1, <2>2 DEF NodeRestarts, Reset
<1>4. /\ taken' \in [Scope -> Seq(Snapshot)] /\ DOMAIN taken'[s] = {}
      /\ \A t \in Scope \ {s} : taken'[t] = taken[t]
  BY <1>2 DEF Inv, Typed
<1>5. \A q \in Req, t \in Scope : Opens(q, t)' <=> Opens(q, t)
  BY <1>2 DEF Opens
<1>6. Typed'
  BY <1>2, <1>3, <1>4 DEF Inv, Typed
<1>7. Returning'
  <2>1. SUFFICES ASSUME NEW q \in Req, NEW t \in Scope, Opens(q, t)
                 PROVE  Returns(q, t)'
    BY <1>5 DEF Returning
  <2>2. t # s /\ Returns(q, t)
    BY <1>1, <2>1 DEF Inv, Returning
  <2>. QED BY <1>2, <1>3, <1>4, <2>2 DEF Returns
<1>8. OneOpen' /\ NotBoth'
  BY <1>2, <1>5, NothingOpens DEF Inv, Forgets
<1>9. NotYet'
  <2>1. SUFFICES ASSUME NEW q \in Req, NEW t \in Scope, Opens(q, t), req[q].kind = "write"
                 PROVE  content'[t] = due'[t]
    BY <1>2, <1>5 DEF NotYet
  <2>2. t # s /\ content[t] = due[t]
    BY <1>1, <2>1 DEF Inv, NotYet
  <2>. QED BY <1>3, <2>2
<1>10. Taints'
  <2>1. SUFFICES ASSUME NEW t \in Scope, NEW i \in DOMAIN taken'[t],
                        taken'[t][i].live, taken'[t][i].content # taken'[t][i].due
                 PROVE  \E q \in Req : Opens(q, t) /\ req[q].id < i
    BY <1>2, <1>5 DEF Taints
  <2>2. taken'[t] = taken[t]
    BY <1>4, <2>1
  <2>. QED BY <2>1, <2>2 DEF Inv, Taints
<1>11. ZeroEffect'
  <2>1. SUFFICES ASSUME NEW t \in Scope, ~Session(t)
                 PROVE  content'[t] = due'[t]
    BY <1>2 DEF ZeroEffect, Session
  <2>2. content[t] = due[t]
    BY <2>1 DEF Inv, ZeroEffect
  <2>. QED BY <1>3, <2>2
<1>. QED BY <1>6, <1>7, <1>8, <1>9, <1>10, <1>11 DEF Inv

\* The snapshot a node takes comes after all others.
LEMMA TakeAppends ==
  ASSUME Typed, NEW s \in Scope, Take(s)
  PROVE  /\ taken' \in [Scope -> Seq(Snapshot)]
         /\ Len(taken[s]) \in Nat /\ DOMAIN taken[s] = 1..Len(taken[s])
         /\ DOMAIN taken'[s] = 1..(Len(taken[s]) + 1)
         /\ \A i \in DOMAIN taken[s] : taken'[s][i] = taken[s][i]
         /\ taken'[s][Len(taken[s]) + 1].live
         /\ taken'[s][Len(taken[s]) + 1].content = content[s]
         /\ taken'[s][Len(taken[s]) + 1].due = due[s]
         /\ \A t \in Scope \ {s} : taken'[t] = taken[t]
<1>. DEFINE new == [live |-> TRUE, content |-> content[s], due |-> due[s]]
<1>1. new \in Snapshot
  BY DEF Typed, Snapshot
<1>2. taken[s] \in Seq(Snapshot) /\ taken' = [taken EXCEPT ![s] = Append(taken[s], new)]
  BY DEF Typed, Take
<1>3. new.live /\ new.content = content[s] /\ new.due = due[s]
  OBVIOUS
<1>. HIDE DEF new
<1>4. /\ Append(taken[s], new) \in Seq(Snapshot) /\ Len(taken[s]) \in Nat
      /\ DOMAIN taken[s] = 1..Len(taken[s])
      /\ DOMAIN Append(taken[s], new) = 1..(Len(taken[s]) + 1)
      /\ \A i \in DOMAIN taken[s] : Append(taken[s], new)[i] = taken[s][i]
      /\ Append(taken[s], new)[Len(taken[s]) + 1] = new
  BY <1>1, <1>2
<1>5. /\ taken' \in [Scope -> Seq(Snapshot)]
      /\ taken'[s] = Append(taken[s], new)
      /\ \A t \in Scope \ {s} : taken'[t] = taken[t]
  BY <1>2, <1>4 DEF Typed
<1>6. taken'[s][Len(taken[s]) + 1] = new
  BY <1>4, <1>5
<1>7. DOMAIN taken'[s] = 1..(Len(taken[s]) + 1)
        /\ \A i \in DOMAIN taken[s] : taken'[s][i] = taken[s][i]
  BY <1>4, <1>5
<1>. QED BY <1>3, <1>4, <1>5, <1>6, <1>7

\* A session begins on a chain that nothing taints.
LEMMA SessionBeginsKeeps ==
  ASSUME Serial, Inv, NEW r \in Req, NEW s \in Scope, SessionBegins(r, s)
  PROVE  Inv'
<1>. DEFINE new == [Idle EXCEPT !.kind = "write", !.scope = s, !.id = Len(taken[s]) + 1]
<1>1. ~Session(s) /\ ~Forgets(s) /\ req[r].kind = "none" /\ content[s] = due[s]
  BY IdleTyped DEF SessionBegins, Alone, Inv, ZeroEffect
<1>2. Take(s) /\ req' = [req EXCEPT ![r] = new] /\ content' = content /\ due' = due
  BY DEF SessionBegins, Take
<1>3. /\ taken' \in [Scope -> Seq(Snapshot)]
      /\ Len(taken[s]) \in Nat /\ DOMAIN taken[s] = 1..Len(taken[s])
      /\ DOMAIN taken'[s] = 1..(Len(taken[s]) + 1)
      /\ \A i \in DOMAIN taken[s] : taken'[s][i] = taken[s][i]
      /\ taken'[s][Len(taken[s]) + 1].live
      /\ taken'[s][Len(taken[s]) + 1].content = content[s]
      /\ taken'[s][Len(taken[s]) + 1].due = due[s]
      /\ \A t \in Scope \ {s} : taken'[t] = taken[t]
  BY <1>2, TakeAppends DEF Inv
<1>4. /\ new \in Asked /\ new.kind = "write" /\ new.scope = s
      /\ new.id = Len(taken[s]) + 1
  <2>1. Len(taken[s]) + 1 \in Nat
    BY <1>3
  <2>. QED BY <2>1, IdleTyped DEF Asked
<1>. HIDE DEF new
<1>5. /\ req' \in [Req -> Asked]
      /\ \A q \in Req : req'[q].kind # "none" => req'[q].scope \in Scope
      /\ req'[r] = new /\ \A q \in Req \ {r} : req'[q] = req[q]
  BY <1>2, <1>4, OneRequest DEF Inv
<1>6. \A q \in Req : ~Opens(q, s)
  BY <1>1, SessionOpens
<1>7. /\ \A q \in Req, t \in Scope : Opens(q, t)' <=> Opens(q, t) \/ (q = r /\ t = s)
      /\ \A t \in Scope : ~Opens(r, t)
  BY <1>1, <1>4, <1>5 DEF Opens
<1>8. Typed'
  BY <1>2, <1>3, <1>5 DEF Inv, Typed
<1>9. Returning'
  <2>1. SUFFICES ASSUME NEW q \in Req, NEW t \in Scope, Opens(q, t)'
                 PROVE  Returns(q, t)'
    BY DEF Returning
  <2>2. CASE q = r /\ t = s
    BY <1>1, <1>2, <1>3, <1>4, <1>5, <2>2 DEF Returns
  <2>3. CASE Opens(q, t)
    <3>1. t # s /\ q # r /\ Returns(q, t)
      BY <1>6, <1>7, <2>3 DEF Inv, Returning
    <3>. QED BY <1>2, <1>3, <1>5, <3>1 DEF Returns
  <2>. QED BY <1>7, <2>1, <2>2, <2>3
<1>10. OneOpen'
  BY <1>6, <1>7 DEF Inv, OneOpen
<1>11. NotBoth'
  <2>1. \A t \in Scope : Forgets(t)' => Forgets(t)
    BY <1>4, <1>5 DEF Forgets
  <2>. QED BY <1>1, <1>7, <2>1 DEF Inv, NotBoth
<1>12. NotYet'
  <2>1. SUFFICES ASSUME NEW q \in Req, NEW t \in Scope, Opens(q, t)', req'[q].kind = "write"
                 PROVE  content[t] = due[t]
    BY <1>2 DEF NotYet
  <2>2. CASE Opens(q, t)
    BY <1>5, <1>7, <2>1, <2>2 DEF Inv, NotYet
  <2>. QED BY <1>1, <1>7, <2>1, <2>2
<1>13. Taints'
  <2>1. SUFFICES ASSUME NEW t \in Scope, NEW i \in DOMAIN taken'[t],
                        taken'[t][i].live, taken'[t][i].content # taken'[t][i].due
                 PROVE  \E q \in Req : Opens(q, t)' /\ req'[q].id < i
    BY DEF Taints
  <2>2. i \in DOMAIN taken[t] /\ taken'[t][i] = taken[t][i]
    BY <1>1, <1>3, <2>1
  <2>3. PICK q \in Req : Opens(q, t) /\ req[q].id < i
    BY <2>1, <2>2 DEF Inv, Taints
  <2>. QED BY <1>5, <1>7, <2>3
<1>14. ZeroEffect'
  <2>1. SUFFICES ASSUME NEW t \in Scope, ~(\E q \in Req : Opens(q, t)')
                 PROVE  content[t] = due[t]
    BY <1>2, SessionOpens DEF ZeroEffect
  <2>2. ~Session(t)
    BY <1>7, <2>1, SessionOpens
  <2>. QED BY <2>2 DEF Inv, ZeroEffect
<1>. QED BY <1>8, <1>9, <1>10, <1>11, <1>12, <1>13, <1>14 DEF Inv

\* A session's write, or its failure.
LEMMA SessionWritesKeeps ==
  ASSUME Serial, Inv, NEW r \in Req, SessionWrites(r)
  PROVE  Inv'
<1>. DEFINE s == req[r].scope
            new == [req[r] EXCEPT !.kind = "undo"]
<1>1. req[r].kind = "write" /\ s \in Scope /\ req[r] \in Asked
  BY DEF Inv, Typed, SessionWrites
<1>2. req' = [req EXCEPT ![r] = new] /\ due' = due /\ taken' = taken
  BY DEF SessionWrites
<1>3. new \in Asked /\ new.kind = "undo" /\ new.scope = s /\ new.id = req[r].id
  BY <1>1 DEF Asked
<1>4. content[s] \cup {r} \in Content
  BY <1>1 DEF Inv, Typed, Content
<1>5. /\ content' \in [Scope -> Content]
      /\ \A t \in Scope \ {s} : content'[t] = content[t]
  BY <1>1, <1>4 DEF SessionWrites, Inv, Typed
<1>. HIDE DEF new
<1>6. /\ req' \in [Req -> Asked]
      /\ \A q \in Req : req'[q].kind # "none" => req'[q].scope \in Scope
      /\ req'[r] = new /\ \A q \in Req \ {r} : req'[q] = req[q]
  BY <1>1, <1>2, <1>3, OneRequest DEF Inv
<1>7. /\ \A q \in Req, t \in Scope : Opens(q, t)' <=> Opens(q, t)
      /\ \A q \in Req : req'[q].id = req[q].id
      /\ Opens(r, s)
  BY <1>1, <1>3, <1>6 DEF Opens
<1>8. Typed'
  BY <1>2, <1>5, <1>6 DEF Inv, Typed
<1>9. Returning'
  BY <1>2, <1>7 DEF Inv, Returning, Returns
<1>10. OneOpen' /\ NotBoth'
  <2>1. \A t \in Scope : Forgets(t)' => Forgets(t)
    BY <1>3, <1>6 DEF Forgets
  <2>. QED BY <1>7, <2>1, NothingOpens DEF Inv
<1>11. NotYet'
  <2>1. SUFFICES ASSUME NEW q \in Req, NEW t \in Scope, Opens(q, t), req'[q].kind = "write"
                 PROVE  content'[t] = due[t]
    BY <1>2, <1>7 DEF NotYet
  <2>2. q # r /\ t # s
    BY <1>3, <1>6, <1>7, <2>1 DEF Inv, OneOpen
  <2>. QED BY <1>5, <1>6, <2>1, <2>2 DEF Inv, NotYet
<1>12. Taints'
  BY <1>2, <1>7 DEF Inv, Taints
<1>13. ZeroEffect'
  <2>1. SUFFICES ASSUME NEW t \in Scope, ~(\E q \in Req : Opens(q, t)')
                 PROVE  content'[t] = due[t]
    BY <1>2, SessionOpens DEF ZeroEffect
  <2>2. t # s /\ ~Session(t)
    BY <1>7, <2>1, SessionOpens
  <2>. QED BY <1>5, <2>2 DEF Inv, ZeroEffect
<1>. QED BY <1>8, <1>9, <1>10, <1>11, <1>12, <1>13 DEF Inv

\* What a revert consumes.
LEMMA ConsumedTyped ==
  ASSUME Typed, NEW s \in Scope, NEW i \in Nat
  PROVE  /\ Consumed(s, i) \in Seq(Snapshot)
         /\ DOMAIN Consumed(s, i) = DOMAIN taken[s]
         /\ \A j \in DOMAIN taken[s] :
              /\ Consumed(s, i)[j].live => taken[s][j].live /\ j < i
              /\ taken[s][j].live /\ j < i => Consumed(s, i)[j] = taken[s][j]
              /\ Consumed(s, i)[j].content = taken[s][j].content
              /\ Consumed(s, i)[j].due = taken[s][j].due
<1>1. taken[s] \in Seq(Snapshot)
  BY DEF Typed
<1>. DEFINE left(j) == [taken[s][j] EXCEPT !.live = taken[s][j].live /\ j < i]
<1>2. ASSUME NEW j \in DOMAIN taken[s]
      PROVE  /\ left(j) \in Snapshot
             /\ left(j).live => taken[s][j].live /\ j < i
             /\ taken[s][j].live /\ j < i => left(j) = taken[s][j]
             /\ left(j).content = taken[s][j].content
             /\ left(j).due = taken[s][j].due
  <2>1. taken[s][j] \in Snapshot
    BY <1>1
  <2>2. PICK f \in Snapshot : f = taken[s][j]
    BY <2>1
  <2>3. f = [live |-> f.live, content |-> f.content, due |-> f.due]
          /\ f.live \in BOOLEAN
    BY DEF Snapshot
  <2>4. CASE f.live /\ j < i
    <3>1. left(j) = [f EXCEPT !.live = TRUE]
      BY <2>2, <2>4
    <3>2. left(j) = f
      BY <2>3, <2>4, <3>1
    <3>. QED BY <2>1, <2>2, <2>4, <3>2
  <2>5. CASE ~(f.live /\ j < i)
    <3>1. left(j) = [f EXCEPT !.live = FALSE]
      BY <2>2, <2>5
    <3>2. /\ left(j) \in Snapshot /\ ~left(j).live
          /\ left(j).content = f.content /\ left(j).due = f.due
      BY <3>1 DEF Snapshot
    <3>. QED BY <2>2, <2>5, <3>2
  <2>. QED BY <2>4, <2>5
<1>3. Consumed(s, i) = [j \in DOMAIN taken[s] |-> left(j)]
  BY DEF Consumed
<1>. HIDE DEF left
<1>4. Consumed(s, i) \in Seq(Snapshot)
  BY <1>1, <1>2, <1>3
<1>. QED BY <1>2, <1>3, <1>4

\* The revert of a session takes its write away, and every snapshot that has it.
LEMMA SessionEndsKeeps ==
  ASSUME Serial, Inv, NEW r \in Req, SessionEnds(r)
  PROVE  Inv'
<1>. DEFINE s == req[r].scope  i == req[r].id
<1>1. req[r].kind = "undo" /\ s \in Scope /\ i \in Nat /\ Opens(r, s)
  <2>1. req[r].kind = "undo" /\ s \in Scope /\ req[r] \in Asked
    BY DEF SessionEnds, Inv, Typed
  <2>. QED BY <2>1 DEF Opens, Asked
<1>2. Live(s, i) /\ taken[s][i].content = due[s]
  BY <1>1 DEF Inv, Returning, Returns, Live
<1>3. /\ content' = [content EXCEPT ![s] = due[s]]
      /\ taken' = [taken EXCEPT ![s] = Consumed(s, i)]
      /\ req' = [req EXCEPT ![r] = Idle] /\ due' = due
  BY <1>2 DEF SessionEnds, RevertTo
<1>. HIDE DEF i
<1>4. /\ req' \in [Req -> Asked]
      /\ \A q \in Req : req'[q].kind # "none" => req'[q].scope \in Scope
      /\ req'[r] = Idle /\ \A q \in Req \ {r} : req'[q] = req[q]
  BY <1>3, IdleTyped, OneRequest DEF Inv
<1>5. /\ \A q \in Req, t \in Scope : Opens(q, t)' <=> Opens(q, t) /\ q # r
      /\ \A q \in Req : Opens(q, s) => q = r
  BY <1>1, <1>4, IdleTyped DEF Opens, Inv, OneOpen
<1>6. /\ Consumed(s, i) \in Seq(Snapshot)
      /\ DOMAIN Consumed(s, i) = DOMAIN taken[s]
      /\ \A j \in DOMAIN taken[s] :
           /\ Consumed(s, i)[j].live => taken[s][j].live /\ j < i
           /\ Consumed(s, i)[j].content = taken[s][j].content
           /\ Consumed(s, i)[j].due = taken[s][j].due
  BY <1>1, ConsumedTyped DEF Inv
<1>7. /\ content' \in [Scope -> Content] /\ content'[s] = due[s]
      /\ \A t \in Scope \ {s} : content'[t] = content[t]
  <2>1. due[s] \in Content
    BY <1>1 DEF Inv, Typed, Content
  <2>. QED BY <1>1, <1>3, <2>1 DEF Inv, Typed
<1>8. /\ taken' \in [Scope -> Seq(Snapshot)] /\ taken'[s] = Consumed(s, i)
      /\ \A t \in Scope \ {s} : taken'[t] = taken[t]
  BY <1>1, <1>3, <1>6 DEF Inv, Typed
<1>9. Typed'
  BY <1>3, <1>4, <1>7, <1>8 DEF Inv, Typed
<1>10. Returning'
  <2>1. SUFFICES ASSUME NEW q \in Req, NEW t \in Scope, Opens(q, t), q # r
                 PROVE  Returns(q, t)'
    BY <1>5 DEF Returning
  <2>2. t # s /\ Returns(q, t)
    BY <1>5, <2>1 DEF Inv, Returning
  <2>. QED BY <1>3, <1>4, <1>8, <2>1, <2>2 DEF Returns
<1>11. OneOpen' /\ NotBoth'
  <2>1. \A t \in Scope : Forgets(t)' => Forgets(t)
    BY <1>4, IdleTyped DEF Forgets
  <2>. QED BY <1>5, <2>1, NothingOpens DEF Inv
<1>12. NotYet'
  <2>1. SUFFICES ASSUME NEW q \in Req, NEW t \in Scope, Opens(q, t), q # r, req[q].kind = "write"
                 PROVE  content'[t] = due[t]
    BY <1>3, <1>4, <1>5 DEF NotYet
  <2>2. t # s /\ content[t] = due[t]
    BY <1>5, <2>1 DEF Inv, NotYet
  <2>. QED BY <1>7, <2>2
<1>13. Taints'
  <2>1. SUFFICES ASSUME NEW t \in Scope, NEW j \in DOMAIN taken'[t],
                        taken'[t][j].live, taken'[t][j].content # taken'[t][j].due
                 PROVE  \E q \in Req : Opens(q, t)' /\ req'[q].id < j
    BY DEF Taints
  <2>2. CASE t = s
    <3>1. /\ j \in DOMAIN taken[s] /\ taken[s][j].live /\ j < i
          /\ taken[s][j].content # taken[s][j].due
      BY <1>6, <1>8, <2>1, <2>2
    <3>2. PICK q \in Req : Opens(q, s) /\ req[q].id < j
      BY <1>1, <3>1 DEF Inv, Taints
    <3>3. i < j
      BY <1>5, <3>2 DEF i
    <3>4. j \in Nat
      BY <1>1, <3>1 DEF Inv, Typed
    <3>. QED BY <1>1, <3>1, <3>3, <3>4
  <2>3. CASE t # s
    <3>1. PICK q \in Req : Opens(q, t) /\ req[q].id < j
      BY <1>8, <2>1, <2>3 DEF Inv, Taints
    <3>2. q # r
      BY <1>1, <2>3, <3>1 DEF Opens
    <3>. QED BY <1>4, <1>5, <3>1, <3>2
  <2>. QED BY <2>2, <2>3
<1>14. ZeroEffect'
  <2>1. SUFFICES ASSUME NEW t \in Scope, ~(\E q \in Req : Opens(q, t)'), t # s
                 PROVE  content[t] = due[t]
    BY <1>1, <1>3, <1>7, SessionOpens DEF ZeroEffect
  <2>2. ~Session(t)
    <3>1. ASSUME NEW q \in Req, Opens(q, t) PROVE FALSE
      <4>1. q = r
        BY <1>5, <2>1, <3>1
      <4>. QED BY <1>1, <2>1, <3>1, <4>1 DEF Opens
    <3>. QED BY <3>1, SessionOpens
  <2>. QED BY <2>2 DEF Inv, ZeroEffect
<1>. QED BY <1>9, <1>10, <1>11, <1>12, <1>13, <1>14 DEF Inv

\* A user's snapshot is tainted only if it is taken inside a session.
LEMMA SnapshotTakesKeeps ==
  ASSUME Serial, Inv, NEW r \in Req, NEW s \in Scope, SnapshotTakes(r, s)
  PROVE  Inv'
<1>. DEFINE new == [Idle EXCEPT !.kind = "store", !.scope = s, !.id = Len(taken[s]) + 1,
                                !.saved = content[s]]
<1>1. /\ req[r].kind = "none" /\ Take(s) /\ req' = [req EXCEPT ![r] = new]
      /\ content' = content /\ due' = due
  BY IdleTyped DEF SnapshotTakes, Take
<1>2. /\ taken' \in [Scope -> Seq(Snapshot)]
      /\ Len(taken[s]) \in Nat /\ DOMAIN taken[s] = 1..Len(taken[s])
      /\ DOMAIN taken'[s] = 1..(Len(taken[s]) + 1)
      /\ \A i \in DOMAIN taken[s] : taken'[s][i] = taken[s][i]
      /\ taken'[s][Len(taken[s]) + 1].content = content[s]
      /\ taken'[s][Len(taken[s]) + 1].due = due[s]
      /\ \A t \in Scope \ {s} : taken'[t] = taken[t]
  BY <1>1, TakeAppends DEF Inv
<1>3. new \in Asked /\ new.kind = "store" /\ new.scope = s
  <2>1. Len(taken[s]) + 1 \in Nat /\ content[s] \in Content
    BY <1>2 DEF Inv, Typed
  <2>. QED BY <2>1, IdleTyped DEF Asked
<1>. HIDE DEF new
<1>4. /\ req' \in [Req -> Asked]
      /\ \A q \in Req : req'[q].kind # "none" => req'[q].scope \in Scope
      /\ req'[r] = new /\ \A q \in Req \ {r} : req'[q] = req[q]
  BY <1>1, <1>3, OneRequest DEF Inv
<1>5. \A q \in Req, t \in Scope : /\ Opens(q, t)' <=> Opens(q, t)
                                  /\ Opens(q, t) => req'[q] = req[q]
  BY <1>1, <1>3, <1>4 DEF Opens
<1>6. Typed'
  BY <1>1, <1>2, <1>4 DEF Inv, Typed
<1>7. Returning'
  <2>1. SUFFICES ASSUME NEW q \in Req, NEW t \in Scope, Opens(q, t)
                 PROVE  Returns(q, t)'
    BY <1>5 DEF Returning
  <2>2. Returns(q, t)
    BY <2>1 DEF Inv, Returning
  <2>3. CASE t = s
    <3>1. req'[q].id = req[q].id /\ req[q].id \in 1..Len(taken[s])
      BY <1>2, <1>5, <2>1, <2>2, <2>3 DEF Returns
    <3>2. req[q].id \in DOMAIN taken'[s] /\ taken'[s][req[q].id] = taken[s][req[q].id]
      BY <1>2, <3>1
    <3>. QED BY <1>1, <2>2, <2>3, <3>1, <3>2 DEF Returns
  <2>4. CASE t # s
    BY <1>1, <1>2, <1>5, <2>1, <2>2, <2>4 DEF Returns
  <2>. QED BY <2>3, <2>4
<1>8. OneOpen' /\ NotBoth'
  <2>1. \A t \in Scope : Forgets(t)' => Forgets(t)
    BY <1>3, <1>4 DEF Forgets
  <2>. QED BY <1>5, <2>1, NothingOpens DEF Inv
<1>9. NotYet'
  BY <1>1, <1>5 DEF Inv, NotYet
<1>10. Taints'
  <2>1. SUFFICES ASSUME NEW t \in Scope, NEW i \in DOMAIN taken'[t],
                        taken'[t][i].live, taken'[t][i].content # taken'[t][i].due
                 PROVE  \E q \in Req : Opens(q, t) /\ req[q].id < i
    BY <1>5 DEF Taints
  <2>2. CASE i \in DOMAIN taken[t] /\ taken'[t][i] = taken[t][i]
    BY <2>1, <2>2 DEF Inv, Taints
  <2>3. CASE t = s /\ i = Len(taken[s]) + 1
    <3>1. content[s] # due[s]
      BY <1>2, <2>1, <2>3
    <3>2. PICK q \in Req : Opens(q, s)
      BY <3>1, SessionOpens DEF Inv, ZeroEffect
    <3>3. req[q].id \in 1..Len(taken[s])
      BY <1>2, <3>2 DEF Inv, Returning, Returns
    <3>4. req[q].id < i
      BY <1>2, <2>3, <3>3
    <3>. QED BY <2>3, <3>2, <3>4
  <2>. QED BY <1>2, <2>1, <2>2, <2>3
<1>11. ZeroEffect'
  BY <1>1, <1>5, SessionOpens DEF Inv, ZeroEffect
<1>. QED BY <1>6, <1>7, <1>8, <1>9, <1>10, <1>11 DEF Inv

\* A user's revert outside any session goes to a snapshot that nothing taints.
LEMMA RevertAsksKeeps ==
  ASSUME Serial, Inv, NEW r \in Req, NEW s \in Scope, NEW i \in Id, RevertAsks(r, s, i)
  PROVE  Inv'
<1>. DEFINE new == [Idle EXCEPT !.kind = "forget", !.scope = s, !.id = i, !.ok = Live(s, i)]
<1>1. /\ \A q \in Req : ~Opens(q, s)
      /\ req[r].kind = "none" /\ i \in Nat
      /\ req' = [req EXCEPT ![r] = new]
  BY SessionOpens, IdleTyped DEF RevertAsks, Quiet, Id
<1>2. new \in Asked /\ new.kind = "forget" /\ new.scope = s
  <2>1. Live(s, i) \in BOOLEAN
    BY DEF Live, Inv, Typed, Snapshot
  <2>. QED BY <1>1, <2>1, IdleTyped DEF Asked
<1>. HIDE DEF new
<1>3. /\ req' \in [Req -> Asked]
      /\ \A q \in Req : req'[q].kind # "none" => req'[q].scope \in Scope
      /\ req'[r] = new /\ \A q \in Req \ {r} : req'[q] = req[q]
  BY <1>1, <1>2, OneRequest DEF Inv
<1>4. \A q \in Req, t \in Scope : /\ Opens(q, t)' <=> Opens(q, t)
                                  /\ Opens(q, t) => req'[q] = req[q] /\ t # s
  BY <1>1, <1>2, <1>3 DEF Opens
<1>5. /\ content' \in [Scope -> Content] /\ due' \in [Scope -> SUBSET Write]
      /\ taken' \in [Scope -> Seq(Snapshot)]
      /\ content'[s] = due'[s]
      /\ \A t \in Scope \ {s} : content'[t] = content[t] /\ due'[t] = due[t] /\ taken'[t] = taken[t]
      /\ DOMAIN taken'[s] = DOMAIN taken[s]
      /\ \A j \in DOMAIN taken[s] : /\ taken'[s][j].live => taken[s][j].live
                                    /\ taken'[s][j].content = taken[s][j].content
                                    /\ taken'[s][j].due = taken[s][j].due
  <2>1. CASE Live(s, i)
    <3>1. taken[s][i] \in Snapshot /\ taken[s][i].content = taken[s][i].due
      BY <1>1, <2>1 DEF Live, Inv, Typed, Taints
    <3>2. taken[s][i].content \in Content /\ taken[s][i].content \in SUBSET Write
      BY <3>1 DEF Snapshot
    <3>3. /\ content' = [content EXCEPT ![s] = taken[s][i].content]
          /\ due' = [due EXCEPT ![s] = taken[s][i].content]
          /\ taken' = [taken EXCEPT ![s] = Consumed(s, i)]
      BY <2>1, <3>1 DEF RevertAsks, RevertTo
    <3>4. /\ Consumed(s, i) \in Seq(Snapshot)
          /\ DOMAIN Consumed(s, i) = DOMAIN taken[s]
          /\ \A j \in DOMAIN taken[s] : /\ Consumed(s, i)[j].live => taken[s][j].live
                                        /\ Consumed(s, i)[j].content = taken[s][j].content
                                        /\ Consumed(s, i)[j].due = taken[s][j].due
      BY <1>1, ConsumedTyped DEF Inv
    <3>. QED BY <3>2, <3>3, <3>4 DEF Inv, Typed
  <2>2. CASE ~Live(s, i)
    <3>1. content' = content /\ taken' = taken /\ due' = due
      BY <2>2 DEF RevertAsks, RevertTo
    <3>2. content[s] = due[s]
      BY <1>1, SessionOpens DEF Inv, ZeroEffect
    <3>. QED BY <3>1, <3>2 DEF Inv, Typed
  <2>. QED BY <2>1, <2>2
<1>6. Typed'
  BY <1>3, <1>5 DEF Inv, Typed
<1>7. Returning'
  <2>1. SUFFICES ASSUME NEW q \in Req, NEW t \in Scope, Opens(q, t)
                 PROVE  Returns(q, t)'
    BY <1>4 DEF Returning
  <2>2. Returns(q, t)
    BY <2>1 DEF Inv, Returning
  <2>. QED BY <1>4, <1>5, <2>1, <2>2 DEF Returns
<1>8. OneOpen'
  BY <1>4 DEF Inv, OneOpen
<1>9. NotBoth'
  <2>1. \A t \in Scope \ {s} : Forgets(t)' => Forgets(t)
    BY <1>2, <1>3 DEF Forgets
  <2>. QED BY <1>4, <2>1 DEF Inv, NotBoth
<1>10. NotYet'
  <2>1. SUFFICES ASSUME NEW q \in Req, NEW t \in Scope, Opens(q, t)', req'[q].kind = "write"
                 PROVE  content'[t] = due'[t]
    BY DEF NotYet
  <2>2. Opens(q, t) /\ req[q].kind = "write" /\ t # s
    BY <1>4, <2>1
  <2>3. content[t] = due[t]
    BY <2>2 DEF Inv, NotYet
  <2>. QED BY <1>5, <2>2, <2>3
<1>11. Taints'
  <2>1. SUFFICES ASSUME NEW t \in Scope, NEW j \in DOMAIN taken'[t],
                        taken'[t][j].live, taken'[t][j].content # taken'[t][j].due
                 PROVE  \E q \in Req : Opens(q, t) /\ req[q].id < j
    BY <1>4 DEF Taints
  <2>2. j \in DOMAIN taken[t] /\ taken[t][j].live /\ taken[t][j].content # taken[t][j].due
    BY <1>5, <2>1
  <2>. QED BY <2>2 DEF Inv, Taints
<1>12. ZeroEffect'
  <2>1. SUFFICES ASSUME NEW t \in Scope, ~Session(t), t # s
                 PROVE  content'[t] = due'[t]
    BY <1>4, <1>5, SessionOpens DEF ZeroEffect
  <2>. QED BY <1>5, <2>1 DEF Inv, ZeroEffect
<1>. QED BY <1>6, <1>7, <1>8, <1>9, <1>10, <1>11, <1>12 DEF Inv

\* Storing and deleting rows changes no node.
LEMMA RowsKeep ==
  ASSUME Serial, Inv, NEW r \in Req, SnapshotStores(r) \/ SnapshotFails(r) \/ RevertForgets(r)
  PROVE  Inv'
<1>1. /\ req[r].kind \in {"store", "forget"} /\ req' = [req EXCEPT ![r] = Idle]
      /\ content' = content /\ due' = due /\ taken' = taken
  BY DEF SnapshotStores, SnapshotFails, RevertForgets, node
<1>2. /\ req' \in [Req -> Asked]
      /\ \A q \in Req : req'[q].kind # "none" => req'[q].scope \in Scope
      /\ req'[r] = Idle /\ \A q \in Req \ {r} : req'[q] = req[q]
  BY <1>1, IdleTyped, OneRequest DEF Inv
<1>3. \A q \in Req, t \in Scope : /\ Opens(q, t)' <=> Opens(q, t)
                                  /\ Opens(q, t) => req'[q] = req[q]
  BY <1>1, <1>2, IdleTyped DEF Opens
<1>4. OneOpen' /\ NotBoth'
  <2>1. \A t \in Scope : Forgets(t)' => Forgets(t)
    BY <1>2, IdleTyped DEF Forgets
  <2>. QED BY <1>3, <2>1, NothingOpens DEF Inv
<1>5. Typed' /\ Returning' /\ NotYet'
  BY <1>1, <1>2, <1>3 DEF Inv, Typed, Returning, Returns, NotYet
<1>6. Taints'
  BY <1>1, <1>3 DEF Inv, Taints
<1>7. ZeroEffect'
  BY <1>1, <1>3, SessionOpens DEF Inv, ZeroEffect
<1>. QED BY <1>4, <1>5, <1>6, <1>7 DEF Inv

-----------------------------------------------------------------------------
\* At first nothing is written, taken or under way.
LEMMA InvInit == Init => Inv
<1>1. SUFFICES ASSUME Init PROVE Inv
  OBVIOUS
<1>2. {} \in Content /\ <<>> \in Seq(Snapshot) /\ DOMAIN <<>> = {}
  BY DEF Content
<1>3. Typed
  BY <1>1, <1>2, IdleTyped DEF Init, Typed
<1>4. \A q \in Req, t \in Scope : ~Opens(q, t)
  BY <1>1 DEF Init, Opens, Idle
<1>. QED BY <1>1, <1>2, <1>3, <1>4 DEF Init, Inv, Returning, OneOpen, NotBoth, NotYet, Taints, ZeroEffect

\* The invariant is inductive.
LEMMA InvNext ==
  ASSUME Serial, Inv, [Next]_vars
  PROVE  Inv'
<1>1. ASSUME NEW s \in Scope, NEW w \in Write, UserWrites(s, w) PROVE Inv'
  BY <1>1, UserWritesKeeps
<1>2. ASSUME NEW s \in Scope, NodeRestarts(s) \/ Reset(s) PROVE Inv'
  BY <1>2, RestartKeeps
<1>3. ASSUME NEW r \in Req, NEW s \in Scope, SessionBegins(r, s) PROVE Inv'
  BY <1>3, SessionBeginsKeeps
<1>4. ASSUME NEW r \in Req, NEW s \in Scope, SnapshotTakes(r, s) PROVE Inv'
  BY <1>4, SnapshotTakesKeeps
<1>5. ASSUME NEW r \in Req, NEW s \in Scope, NEW i \in Id, RevertAsks(r, s, i) PROVE Inv'
  BY <1>5, RevertAsksKeeps
<1>6. ASSUME NEW r \in Req, SessionWrites(r) PROVE Inv'
  BY <1>6, SessionWritesKeeps
<1>7. ASSUME NEW r \in Req, SessionEnds(r) PROVE Inv'
  BY <1>7, SessionEndsKeeps
<1>8. ASSUME NEW r \in Req, SnapshotStores(r) \/ SnapshotFails(r) \/ RevertForgets(r) PROVE Inv'
  BY <1>8, RowsKeep
<1>9. CASE UNCHANGED vars
  BY <1>9 DEF vars, node, Inv, Typed, Returning, Returns, OneOpen, NotBoth, NotYet, Taints,
               ZeroEffect, Session, Forgets, Opens
<1>. QED BY <1>1, <1>2, <1>3, <1>4, <1>5, <1>6, <1>7, <1>8, <1>9 DEF Next

\* A dry run or a slot probe that is alone on its node leaves the chain as it found
\* it, also when it fails half-way and when snapshots are taken meanwhile.
THEOREM DryRunsLeaveNothing == ASSUME Serial PROVE Spec => []ZeroEffect
<1>1. Inv /\ [Next]_vars => Inv'
  BY InvNext
<1>2. Inv => ZeroEffect
  BY DEF Inv
<1>. QED BY InvInit, <1>1, <1>2, PTL DEF Spec

(***************************************************************************)
(* The types, whatever runs side by side.                                  *)
(***************************************************************************)

\* A request under way is one about a snapshot of a project.
TypeInv ==
  /\ TypeOK
  /\ \A r \in Req : req[r].kind # "none" => req[r].scope \in Scope /\ req[r].id \in Id

LEMMA TypedAsWell == TypeInv => Typed
<1>1. Request \subseteq Asked
  BY DEF Request, Asked
<1>. QED BY <1>1 DEF TypeInv, TypeOK, Typed

\* What a step that changes one request does to all of them.
LEMMA OneTyped ==
  ASSUME TypeInv, NEW r \in Req, NEW new \in Request,
         new.kind # "none" => new.scope \in Scope /\ new.id \in Id,
         req' = [req EXCEPT ![r] = new]
  PROVE  /\ req' \in [Req -> Request]
         /\ \A q \in Req : req'[q].kind # "none" => req'[q].scope \in Scope /\ req'[q].id \in Id
         /\ req'[r] = new /\ \A q \in Req \ {r} : req'[q] = req[q]
BY DEF TypeInv, TypeOK

LEMMA IdleIsRequest == Idle \in Request /\ Idle.kind = "none"
BY SnapshotsAssumption DEF Idle, Request, Content

\* The numbers of the snapshots of a node.
LEMMA Numbers ==
  ASSUME TypeInv, NEW s \in Scope
  PROVE  /\ Len(taken[s]) \in Nat /\ DOMAIN taken[s] = 1..Len(taken[s])
         /\ DOMAIN taken[s] \subseteq Id
<1>1. taken[s] \in Seq(Snapshot) /\ Len(taken[s]) <= MaxId
  BY DEF TypeInv, TypeOK
<1>2. Len(taken[s]) \in Nat /\ DOMAIN taken[s] = 1..Len(taken[s])
  BY <1>1
<1>3. 1..Len(taken[s]) \subseteq 1..MaxId
  BY <1>1, <1>2, SnapshotsAssumption
<1>. QED BY <1>2, <1>3 DEF Id

\* What taking a snapshot for a request does to the requests.
LEMMA TakesTyped ==
  ASSUME TypeInv, NEW r \in Req, NEW s \in Scope, SessionBegins(r, s) \/ SnapshotTakes(r, s)
  PROVE  /\ req' \in [Req -> Request]
         /\ \A q \in Req : req'[q].kind # "none" => req'[q].scope \in Scope /\ req'[q].id \in Id
         /\ req'[r].scope = s /\ req'[r].id = Len(taken[s]) + 1
         /\ \/ req'[r].kind = "write"
            \/ req'[r].kind = "store" /\ req'[r].saved = content[s]
         /\ Serial => ~Forgets(s)
         /\ \A q \in Req \ {r} : req'[q] = req[q]
<1>1. Len(taken[s]) + 1 \in Id /\ Len(taken[s]) + 1 \in 0..MaxId /\ content[s] \in Content
  BY Numbers, SnapshotsAssumption DEF SessionBegins, SnapshotTakes, Take, Id, TypeInv, TypeOK
<1>. DEFINE write == [Idle EXCEPT !.kind = "write", !.scope = s, !.id = Len(taken[s]) + 1]
            store == [Idle EXCEPT !.kind = "store", !.scope = s, !.id = Len(taken[s]) + 1,
                                  !.saved = content[s]]
<1>2. write \in Request /\ write.kind = "write" /\ write.scope = s /\ write.id = Len(taken[s]) + 1
  BY <1>1, IdleIsRequest DEF Request
<1>3. /\ store \in Request /\ store.kind = "store" /\ store.scope = s
      /\ store.id = Len(taken[s]) + 1 /\ store.saved = content[s]
  BY <1>1, IdleIsRequest DEF Request
<1>4. CASE SessionBegins(r, s)
  <2>1. req' = [req EXCEPT ![r] = write]
    BY <1>4 DEF SessionBegins
  <2>. HIDE DEF write
  <2>2. /\ req' \in [Req -> Request]
        /\ \A q \in Req : req'[q].kind # "none" => req'[q].scope \in Scope /\ req'[q].id \in Id
        /\ req'[r] = write /\ \A q \in Req \ {r} : req'[q] = req[q]
    BY <1>1, <1>2, <2>1, OneTyped
  <2>. QED BY <1>2, <1>4, <2>2 DEF SessionBegins, Alone
<1>5. CASE SnapshotTakes(r, s)
  <2>1. req' = [req EXCEPT ![r] = store]
    BY <1>5 DEF SnapshotTakes
  <2>. HIDE DEF store
  <2>2. /\ req' \in [Req -> Request]
        /\ \A q \in Req : req'[q].kind # "none" => req'[q].scope \in Scope /\ req'[q].id \in Id
        /\ req'[r] = store /\ \A q \in Req \ {r} : req'[q] = req[q]
    BY <1>1, <1>3, <2>1, OneTyped
  <2>. QED BY <1>3, <1>5, <2>2 DEF SnapshotTakes
<1>. QED BY <1>4, <1>5

\* The steps of the node and of its users keep the types.
LEMMA NodeTypes ==
  ASSUME TypeInv, NEW s \in Scope,
         NodeRestarts(s) \/ Reset(s) \/ \E w \in Write : UserWrites(s, w)
  PROVE  TypeInv'
<1>1. ASSUME NEW w \in Write, UserWrites(s, w) PROVE TypeInv'
  <2>1. content[s] \cup {w} \in Content /\ due[s] \cup {w} \in SUBSET Write
    BY DEF TypeInv, TypeOK, Content
  <2>. QED BY <1>1, <2>1 DEF UserWrites, table, TypeInv, TypeOK
<1>2. ASSUME life[s] < MaxLife, life' = [life EXCEPT ![s] = @ + 1],
             taken' = [taken EXCEPT ![s] = <<>>], stamp' = [stamp EXCEPT ![s] = NoStamp]
      PROVE  /\ life' \in [Scope -> 0..MaxLife] /\ stamp' \in [Scope -> [Id -> Nat]]
             /\ taken' \in [Scope -> Seq(Snapshot)] /\ \A t \in Scope : Len(taken'[t]) <= MaxId
  <2>1. life[s] + 1 \in 0..MaxLife
    BY <1>2, SnapshotsAssumption DEF TypeInv, TypeOK
  <2>2. <<>> \in Seq(Snapshot) /\ Len(<<>>) <= MaxId
    BY SnapshotsAssumption
  <2>. QED BY <1>2, <2>1, <2>2 DEF NoStamp, TypeInv, TypeOK
<1>3. ASSUME NodeRestarts(s) PROVE TypeInv'
  BY <1>2, <1>3 DEF NodeRestarts, TypeInv, TypeOK
<1>4. ASSUME Reset(s) PROVE TypeInv'
  <2>1. NoRow \in Row /\ {} \in Content /\ {} \in SUBSET Write
    BY DEF NoRow, Row, Content
  <2>2. rows' \in [Id -> Row]
    BY <1>4, <2>1 DEF Reset, TypeInv, TypeOK
  <2>. QED BY <1>2, <1>4, <2>1, <2>2 DEF Reset, TypeInv, TypeOK
<1>. QED BY <1>1, <1>3, <1>4

\* So do the steps that take a snapshot.
LEMMA TakingTypes ==
  ASSUME TypeInv, NEW r \in Req, NEW s \in Scope, SessionBegins(r, s) \/ SnapshotTakes(r, s)
  PROVE  TypeInv'
<1>1. Take(s) /\ rows' = rows /\ clock' = clock /\ stamp' = stamp
  BY DEF SessionBegins, SnapshotTakes, table
<1>2. /\ req' \in [Req -> Request]
      /\ \A q \in Req : req'[q].kind # "none" => req'[q].scope \in Scope /\ req'[q].id \in Id
  BY TakesTyped
<1>3. /\ taken' \in [Scope -> Seq(Snapshot)]
      /\ DOMAIN taken'[s] = 1..(Len(taken[s]) + 1)
      /\ \A t \in Scope \ {s} : taken'[t] = taken[t]
  BY <1>1, TypedAsWell, TakeAppends
<1>4. \A t \in Scope : Len(taken'[t]) <= MaxId
  <2>1. Len(taken'[s]) = Len(taken[s]) + 1 /\ Len(taken[s]) + 1 <= MaxId
    BY <1>1, <1>3, Numbers, SnapshotsAssumption DEF Take
  <2>. QED BY <1>3, <2>1 DEF TypeInv, TypeOK
<1>. QED BY <1>1, <1>2, <1>3, <1>4 DEF Take, TypeInv, TypeOK

\* A revert keeps the types of the node.
LEMMA RevertTyped ==
  ASSUME TypeInv, NEW s \in Scope, NEW i \in Nat, RevertTo(s, i)
  PROVE  /\ content' \in [Scope -> Content]
         /\ taken' \in [Scope -> Seq(Snapshot)] /\ \A t \in Scope : Len(taken'[t]) <= MaxId
<1>1. CASE Live(s, i)
  <2>1. taken[s][i] \in Snapshot
    BY <1>1 DEF Live, TypeInv, TypeOK
  <2>2. taken[s][i].content \in Content
    BY <2>1 DEF Snapshot
  <2>3. Consumed(s, i) \in Seq(Snapshot) /\ DOMAIN Consumed(s, i) = DOMAIN taken[s]
    BY TypedAsWell, ConsumedTyped
  <2>4. Len(Consumed(s, i)) = Len(taken[s])
    BY <2>3, Numbers
  <2>. QED BY <1>1, <2>2, <2>3, <2>4 DEF RevertTo, TypeInv, TypeOK
<1>2. CASE ~Live(s, i)
  BY <1>2 DEF RevertTo, TypeInv, TypeOK
<1>. QED BY <1>1, <1>2

\* So do those that end a request or carry it on.
LEMMA SessionTypes ==
  ASSUME TypeInv, NEW r \in Req, SessionWrites(r) \/ SessionEnds(r)
  PROVE  TypeInv'
<1>1. req[r].kind # "none" /\ req[r].scope \in Scope /\ req[r].id \in Id /\ req[r].id \in Nat
  BY SnapshotsAssumption DEF SessionWrites, SessionEnds, TypeInv, Id
<1>2. UNCHANGED <<due, life, rows, clock, stamp>>
  BY DEF SessionWrites, SessionEnds, table
<1>3. CASE SessionWrites(r)
  <2>1. content[req[r].scope] \cup {r} \in Content
    BY <1>1 DEF TypeInv, TypeOK, Content
  <2>2. content' \in [Scope -> Content]
    BY <1>3, <1>1, <2>1 DEF SessionWrites, TypeInv, TypeOK
  <2>3. [req[r] EXCEPT !.kind = "undo"] \in Request
    BY DEF TypeInv, TypeOK, Request
  <2>4. req' \in [Req -> Request] /\ \A q \in Req : req'[q].kind # "none" => req'[q].scope \in Scope /\ req'[q].id \in Id
    BY <1>1, <1>3, <2>3 DEF SessionWrites, TypeInv, TypeOK, Request
  <2>. QED BY <1>2, <1>3, <2>2, <2>4 DEF SessionWrites, TypeInv, TypeOK
<1>4. CASE SessionEnds(r)
  <2>1. req' \in [Req -> Request] /\ \A q \in Req : req'[q].kind # "none" => req'[q].scope \in Scope /\ req'[q].id \in Id
    BY <1>4, IdleIsRequest, OneTyped DEF SessionEnds
  <2>2. /\ content' \in [Scope -> Content]
        /\ taken' \in [Scope -> Seq(Snapshot)] /\ \A t \in Scope : Len(taken'[t]) <= MaxId
    BY <1>1, <1>4, RevertTyped DEF SessionEnds
  <2>. QED BY <1>2, <2>1, <2>2 DEF TypeInv, TypeOK
<1>. QED BY <1>3, <1>4

\* Storing a row, or failing to, leaves the node as it is.
LEMMA StoreTypes ==
  ASSUME TypeInv, NEW r \in Req, SnapshotStores(r) \/ SnapshotFails(r)
  PROVE  TypeInv'
<1>1. req[r].kind = "store" /\ req[r].scope \in Scope /\ req[r].id \in Id /\ req[r].saved \in Content
  BY DEF SnapshotStores, SnapshotFails, TypeInv, TypeOK, Request
<1>2. req' \in [Req -> Request] /\ \A q \in Req : req'[q].kind # "none" => req'[q].scope \in Scope /\ req'[q].id \in Id
  BY IdleIsRequest, OneTyped DEF SnapshotStores, SnapshotFails
<1>3. CASE SnapshotStores(r)
  <2>1. [scope |-> req[r].scope, saved |-> req[r].saved, at |-> clock] \in Row
    BY <1>1 DEF TypeInv, TypeOK, Row
  <2>2. rows' \in [Id -> Row] /\ clock' \in Nat
    BY <1>1, <1>3, <2>1 DEF SnapshotStores, Stored, TypeInv, TypeOK
  <2>3. stamp' \in [Scope -> [Id -> Nat]]
    BY <1>1, <1>3 DEF SnapshotStores, TypeInv, TypeOK
  <2>. QED BY <1>2, <1>3, <2>2, <2>3 DEF SnapshotStores, node, TypeInv, TypeOK
<1>4. CASE SnapshotFails(r)
  BY <1>2, <1>4 DEF SnapshotFails, node, table, TypeInv, TypeOK
<1>. QED BY <1>3, <1>4

\* What asking for a revert does to the requests.
LEMMA AskTyped ==
  ASSUME TypeInv, NEW r \in Req, NEW s \in Scope, NEW i \in Id, RevertAsks(r, s, i)
  PROVE  /\ req' \in [Req -> Request]
         /\ \A q \in Req : req'[q].kind # "none" => req'[q].scope \in Scope /\ req'[q].id \in Id
         /\ req'[r].kind = "forget" /\ req'[r].scope = s /\ req'[r].id = i
         /\ req'[r].ok <=> Live(s, i)
         /\ \A q \in Req \ {r} : req'[q] = req[q]
<1>. DEFINE new == [Idle EXCEPT !.kind = "forget", !.scope = s, !.id = i, !.ok = Live(s, i)]
<1>1. req' = [req EXCEPT ![r] = new]
  BY DEF RevertAsks
<1>2. i \in Nat /\ i \in 0..MaxId
  BY SnapshotsAssumption DEF Id
<1>3. Live(s, i) \in BOOLEAN
  BY DEF Live, TypeInv, TypeOK, Snapshot
<1>4. new \in Request /\ new.kind = "forget" /\ new.scope = s /\ new.id = i /\ new.ok = Live(s, i)
  BY <1>2, <1>3, IdleIsRequest DEF Request
<1>. HIDE DEF new
<1>. QED BY <1>1, <1>4, OneTyped

\* So do a revert and the deletes after it.
LEMMA RevertTypes ==
  ASSUME TypeInv, NEW r \in Req,
         RevertForgets(r) \/ \E s \in Scope, i \in Id : RevertAsks(r, s, i)
  PROVE  TypeInv'
<1>1. CASE RevertForgets(r)
  <2>1. req' \in [Req -> Request] /\ \A q \in Req : req'[q].kind # "none" => req'[q].scope \in Scope /\ req'[q].id \in Id
    BY <1>1, IdleIsRequest, OneTyped DEF RevertForgets
  <2>2. NoRow \in Row
    BY DEF NoRow, Row, Content
  <2>3. rows' \in [Id -> Row]
    BY <1>1, <2>2 DEF RevertForgets, Forgotten, TypeInv, TypeOK
  <2>4. stamp' \in [Scope -> [Id -> Nat]]
    <3>1. req[r].scope \in Scope /\ req[r].id \in Id
      BY <1>1 DEF RevertForgets, TypeInv
    <3>2. rows[req[r].id].at \in Nat
      BY <3>1 DEF TypeInv, TypeOK, Row
    <3>. QED BY <1>1, <3>1, <3>2 DEF RevertForgets, TypeInv, TypeOK
  <2>. QED BY <1>1, <2>1, <2>3, <2>4 DEF RevertForgets, node, TypeInv, TypeOK
<1>2. ASSUME NEW s \in Scope, NEW i \in Id, RevertAsks(r, s, i) PROVE TypeInv'
  <2>1. RevertTo(s, i) /\ UNCHANGED <<life, rows, clock, stamp>>
    BY <1>2 DEF RevertAsks, table
  <2>2. i \in Nat
    BY SnapshotsAssumption DEF Id
  <2>3. req' \in [Req -> Request] /\ \A q \in Req : req'[q].kind # "none" => req'[q].scope \in Scope /\ req'[q].id \in Id
    BY <1>2, AskTyped
  <2>4. due' \in [Scope -> SUBSET Write]
    <3>1. CASE Live(s, i)
      <4>1. taken[s][i] \in Snapshot
        BY <3>1 DEF Live, TypeInv, TypeOK
      <4>2. due' = [due EXCEPT ![s] = taken[s][i].due]
        BY <1>2, <3>1 DEF RevertAsks
      <4>3. taken[s][i].due \in SUBSET Write
        BY <4>1 DEF Snapshot
      <4>. QED BY <4>2, <4>3 DEF TypeInv, TypeOK
    <3>2. CASE ~Live(s, i)
      BY <1>2, <3>2 DEF RevertAsks, TypeInv, TypeOK
    <3>. QED BY <3>1, <3>2
  <2>. QED BY <2>1, <2>2, <2>3, <2>4, RevertTyped DEF TypeInv, TypeOK
<1>. QED BY <1>1, <1>2

LEMMA TypesInit == Init => TypeInv
<1>1. NoRow \in Row /\ {} \in Content /\ <<>> \in Seq(Snapshot) /\ Len(<<>>) <= MaxId /\ 0 \in 0..MaxLife
  BY SnapshotsAssumption DEF NoRow, Row, Content
<1>. QED BY <1>1, IdleIsRequest DEF Init, NoStamp, TypeInv, TypeOK

LEMMA TypesNext ==
  ASSUME TypeInv, [Next]_vars
  PROVE  TypeInv'
<1>1. CASE UNCHANGED vars
  BY <1>1 DEF vars, node, table, TypeInv, TypeOK
<1>. QED BY <1>1, NodeTypes, TakingTypes, SessionTypes, StoreTypes, RevertTypes DEF Next

\* Every variable has its type, alone or not: a session, a store or a delete that
\* comes after a restart, a reset or another's revert finds what it can work with.
THEOREM TypeCorrect == Spec => []TypeOK
<1>1. TypeInv /\ [Next]_vars => TypeInv'
  BY TypesNext
<1>2. TypeInv => TypeOK
  BY DEF TypeInv
<1>. QED BY TypesInit, <1>1, <1>2, PTL DEF Spec

(***************************************************************************)
(* What the rows say, for any number of projects.                          *)
(***************************************************************************)

\* The row by which the table knows a snapshot of this run is that snapshot's: one of
\* an earlier run was replaced when it was stored.
RowsAreTrue ==
  \A s \in Scope, i \in Id :
    stamp[s][i] # 0 /\ rows[i].scope = s
      => i \in DOMAIN taken[s] /\ rows[i].saved = taken[s][i].content

\* What a request will store of its snapshot is what the snapshot holds.
StoresAreTrue ==
  \A r \in Req, s \in Scope : req[r].kind = "store" /\ req[r].scope = s
    => req[r].id \in DOMAIN taken[s] /\ taken[s][req[r].id].content = req[r].saved

\* Only snapshots of this run have a stamp, or get one from a revert.
StampsInRun ==
  \A s \in Scope :
    /\ \A i \in Id : stamp[s][i] # 0 => i \in DOMAIN taken[s]
    /\ \A r \in Req : req[r].kind = "forget" /\ req[r].scope = s /\ req[r].ok
                        => req[r].id \in DOMAIN taken[s]

SavedInv == TypeInv /\ RowsAreTrue /\ StoresAreTrue /\ StampsInRun

\* A step that changes neither rows nor contents, and starts no store and no delete.
LEMMA QuietSaves ==
  ASSUME SavedInv, rows' = rows, stamp' = stamp,
         \A t \in Scope : /\ DOMAIN taken'[t] = DOMAIN taken[t]
                          /\ \A j \in DOMAIN taken[t] : taken'[t][j].content = taken[t][j].content,
         \A q \in Req : req'[q].kind \in {"store", "forget"} => req'[q] = req[q]
  PROVE  RowsAreTrue' /\ StoresAreTrue' /\ StampsInRun'
<1>1. RowsAreTrue'
  BY DEF SavedInv, RowsAreTrue
<1>2. StoresAreTrue'
  <2>1. SUFFICES ASSUME NEW q \in Req, NEW t \in Scope, req'[q].kind = "store", req'[q].scope = t
                 PROVE  /\ req'[q].id \in DOMAIN taken'[t]
                        /\ taken'[t][req'[q].id].content = req'[q].saved
    BY DEF StoresAreTrue
  <2>2. req'[q] = req[q]
    BY <2>1
  <2>3. req[q].id \in DOMAIN taken[t] /\ taken[t][req[q].id].content = req[q].saved
    BY <2>1, <2>2 DEF SavedInv, StoresAreTrue
  <2>. QED BY <2>2, <2>3
<1>3. StampsInRun'
  <2>1. SUFFICES ASSUME NEW q \in Req, NEW t \in Scope,
                        req'[q].kind = "forget", req'[q].scope = t, req'[q].ok
                 PROVE  req'[q].id \in DOMAIN taken[t]
    BY DEF SavedInv, StampsInRun
  <2>2. req'[q] = req[q]
    BY <2>1
  <2>. QED BY <2>1, <2>2 DEF SavedInv, StampsInRun
<1>. QED BY <1>1, <1>2, <1>3

\* A restart and a reset of a node that nothing is stored for or reverted on.
LEMMA RestartSaves ==
  ASSUME Serial, SavedInv, NEW s \in Scope, NodeRestarts(s) \/ Reset(s)
  PROVE  RowsAreTrue' /\ StoresAreTrue' /\ StampsInRun'
<1>1. /\ req' = req /\ taken' = [taken EXCEPT ![s] = <<>>]
      /\ stamp' = [stamp EXCEPT ![s] = NoStamp]
      /\ \A r \in Req : ~(req[r].kind \in {"store", "forget"} /\ req[r].scope = s)
  BY DEF NodeRestarts, Reset, Quiet, Storing, Forgets
<1>2. /\ \A i \in Id : stamp'[s][i] = 0
      /\ \A t \in Scope \ {s} : taken'[t] = taken[t] /\ stamp'[t] = stamp[t]
  BY <1>1 DEF NoStamp, SavedInv, TypeInv, TypeOK
<1>3. \A j \in Id, t \in Scope : rows'[j].scope = t => rows'[j] = rows[j]
  BY SnapshotsAssumption DEF NodeRestarts, Reset, NoRow, SavedInv, TypeInv, TypeOK
<1>4. RowsAreTrue'
  BY <1>2, <1>3 DEF SavedInv, RowsAreTrue
<1>5. StoresAreTrue' /\ StampsInRun'
  BY <1>1, <1>2 DEF SavedInv, StoresAreTrue, StampsInRun
<1>. QED BY <1>4, <1>5

\* A new snapshot has no stamp, and its request knows what it holds.
LEMMA TakingSaves ==
  ASSUME SavedInv, NEW r \in Req, NEW s \in Scope, SessionBegins(r, s) \/ SnapshotTakes(r, s)
  PROVE  RowsAreTrue' /\ StoresAreTrue' /\ StampsInRun'
<1>1. Take(s) /\ rows' = rows /\ stamp' = stamp /\ req[r] = Idle
  BY DEF SessionBegins, SnapshotTakes, table
<1>2. /\ req'[r].scope = s /\ req'[r].id = Len(taken[s]) + 1
      /\ req'[r].kind = "write" \/ (req'[r].kind = "store" /\ req'[r].saved = content[s])
      /\ \A q \in Req \ {r} : req'[q] = req[q]
  BY TakesTyped DEF SavedInv
<1>3. /\ Len(taken[s]) \in Nat /\ DOMAIN taken[s] = 1..Len(taken[s])
      /\ DOMAIN taken'[s] = 1..(Len(taken[s]) + 1)
      /\ \A i \in DOMAIN taken[s] : taken'[s][i] = taken[s][i]
      /\ taken'[s][Len(taken[s]) + 1].content = content[s]
      /\ \A t \in Scope \ {s} : taken'[t] = taken[t]
  BY <1>1, TypedAsWell, TakeAppends DEF SavedInv
<1>4. \A t \in Scope : \A i \in DOMAIN taken[t] : i \in DOMAIN taken'[t] /\ taken'[t][i] = taken[t][i]
  <2>1. \A i \in DOMAIN taken[s] : i \in DOMAIN taken'[s]
    BY <1>3
  <2>. QED BY <1>3, <2>1
<1>5. RowsAreTrue'
  <2>1. SUFFICES ASSUME NEW t \in Scope, NEW i \in Id, stamp[t][i] # 0, rows[i].scope = t
                 PROVE  i \in DOMAIN taken'[t] /\ rows[i].saved = taken'[t][i].content
    BY <1>1 DEF RowsAreTrue
  <2>2. i \in DOMAIN taken[t] /\ rows[i].saved = taken[t][i].content
    BY <2>1 DEF SavedInv, RowsAreTrue
  <2>. QED BY <1>4, <2>2
<1>6. StoresAreTrue'
  <2>1. SUFFICES ASSUME NEW q \in Req, NEW t \in Scope, req'[q].kind = "store", req'[q].scope = t
                 PROVE  /\ req'[q].id \in DOMAIN taken'[t]
                        /\ taken'[t][req'[q].id].content = req'[q].saved
    BY DEF StoresAreTrue
  <2>2. CASE q = r
    BY <1>2, <1>3, <2>1, <2>2
  <2>3. CASE q # r
    <3>1. req'[q] = req[q]
      BY <1>2, <2>3
    <3>2. req[q].id \in DOMAIN taken[t] /\ taken[t][req[q].id].content = req[q].saved
      BY <2>1, <3>1 DEF SavedInv, StoresAreTrue
    <3>. QED BY <1>4, <3>1, <3>2
  <2>. QED BY <2>2, <2>3
<1>7. StampsInRun'
  BY <1>1, <1>2, <1>4 DEF SavedInv, StampsInRun
<1>. QED BY <1>5, <1>6, <1>7

\* What a revert of s to i does to the snapshots.
LEMMA Reverted ==
  ASSUME TypeInv, NEW s \in Scope, NEW i \in Nat, RevertTo(s, i)
  PROVE  \A t \in Scope :
           /\ DOMAIN taken'[t] = DOMAIN taken[t]
           /\ \A j \in DOMAIN taken[t] :
                /\ taken'[t][j].live => taken[t][j].live
                /\ t = s /\ taken'[s][j].live => j < i \/ ~Live(s, i)
                /\ taken'[t][j].content = taken[t][j].content
<1>1. CASE Live(s, i)
  <2>1. taken' = [taken EXCEPT ![s] = Consumed(s, i)]
    BY <1>1 DEF RevertTo
  <2>2. taken'[s] = Consumed(s, i) /\ \A t \in Scope \ {s} : taken'[t] = taken[t]
    BY <2>1 DEF TypeInv, TypeOK
  <2>. QED BY <2>2, TypedAsWell, ConsumedTyped
<1>2. CASE ~Live(s, i)
  BY <1>2 DEF RevertTo
<1>. QED BY <1>1, <1>2

\* A session changes neither rows nor what a snapshot holds.
LEMMA SessionChanges ==
  ASSUME TypeInv, NEW r \in Req, SessionWrites(r) \/ SessionEnds(r)
  PROVE  /\ rows' = rows /\ stamp' = stamp /\ clock' = clock
         /\ \A t \in Scope :
              /\ DOMAIN taken'[t] = DOMAIN taken[t]
              /\ \A j \in DOMAIN taken[t] : /\ taken'[t][j].content = taken[t][j].content
                                            /\ taken'[t][j].live => taken[t][j].live
         /\ \A q \in Req : req'[q].kind \in {"store", "forget"} => req'[q] = req[q]
<1>1. /\ req[r].scope \in Scope /\ req[r].id \in Nat
      /\ rows' = rows /\ stamp' = stamp /\ clock' = clock
  BY SnapshotsAssumption DEF SessionWrites, SessionEnds, table, TypeInv, Id
<1>2. CASE SessionWrites(r)
  <2>1. req[r] \in Request
    BY DEF TypeInv, TypeOK
  <2>2. [req[r] EXCEPT !.kind = "undo"].kind = "undo"
    BY <2>1 DEF Request
  <2>3. /\ taken' = taken /\ req'[r].kind = "undo"
        /\ \A q \in Req \ {r} : req'[q] = req[q]
    BY <1>2, <2>2 DEF SessionWrites, TypeInv, TypeOK
  <2>. QED BY <1>1, <2>3
<1>3. CASE SessionEnds(r)
  <2>1. RevertTo(req[r].scope, req[r].id) /\ req' = [req EXCEPT ![r] = Idle]
    BY <1>3 DEF SessionEnds
  <2>2. req'[r] = Idle /\ \A q \in Req \ {r} : req'[q] = req[q]
    BY <2>1 DEF TypeInv, TypeOK
  <2>3. \A t \in Scope :
          /\ DOMAIN taken'[t] = DOMAIN taken[t]
          /\ \A j \in DOMAIN taken[t] : /\ taken'[t][j].content = taken[t][j].content
                                        /\ taken'[t][j].live => taken[t][j].live
    BY <1>1, <2>1, Reverted
  <2>. QED BY <1>1, <2>2, <2>3, IdleIsRequest
<1>. QED BY <1>2, <1>3

\* A row is stored with what its snapshot holds, or not at all.
LEMMA StoreSaves ==
  ASSUME SavedInv, NEW r \in Req, SnapshotStores(r) \/ SnapshotFails(r)
  PROVE  RowsAreTrue' /\ StoresAreTrue' /\ StampsInRun'
<1>. DEFINE s == req[r].scope  k == req[r].id
<1>1. /\ req[r].kind = "store" /\ s \in Scope /\ k \in Id /\ taken' = taken
      /\ req'[r] = Idle /\ \A q \in Req \ {r} : req'[q] = req[q]
  BY DEF SnapshotStores, SnapshotFails, node, SavedInv, TypeInv, TypeOK
<1>2. k \in DOMAIN taken[s] /\ taken[s][k].content = req[r].saved
  BY <1>1 DEF SavedInv, StoresAreTrue
<1>3. CASE SnapshotFails(r)
  <2>1. rows' = rows /\ stamp' = stamp
    BY <1>3 DEF SnapshotFails, table
  <2>. QED BY <1>1, <2>1, IdleIsRequest, QuietSaves
<1>4. CASE SnapshotStores(r)
  <2>1. /\ rows'[k].scope = s /\ rows'[k].saved = req[r].saved
        /\ \A j \in Id \ {k} : rows'[j] = rows[j]
        /\ \A t \in Scope, j \in Id : stamp'[t][j] = stamp[t][j] \/ (t = s /\ j = k)
    BY <1>1, <1>4 DEF SnapshotStores, Stored, SavedInv, TypeInv, TypeOK
  <2>2. RowsAreTrue'
    <3>1. SUFFICES ASSUME NEW t \in Scope, NEW j \in Id, stamp'[t][j] # 0, rows'[j].scope = t
                   PROVE  j \in DOMAIN taken[t] /\ rows'[j].saved = taken[t][j].content
      BY <1>1 DEF RowsAreTrue
    <3>2. CASE j = k
      BY <1>2, <2>1, <3>1, <3>2
    <3>3. CASE j # k
      BY <2>1, <3>1, <3>3 DEF SavedInv, RowsAreTrue
    <3>. QED BY <3>2, <3>3
  <2>3. StoresAreTrue' /\ StampsInRun'
    BY <1>1, <1>2, <2>1, IdleIsRequest DEF SavedInv, StoresAreTrue, StampsInRun
  <2>. QED BY <2>2, <2>3
<1>. QED BY <1>3, <1>4

\* A revert changes no row, and the deletes after it leave the others as they are.
LEMMA RevertSaves ==
  ASSUME SavedInv, NEW r \in Req,
         RevertForgets(r) \/ \E s \in Scope, i \in Id : RevertAsks(r, s, i)
  PROVE  RowsAreTrue' /\ StoresAreTrue' /\ StampsInRun'
<1>1. CASE RevertForgets(r)
  <2>. DEFINE s == req[r].scope  i == req[r].id
  <2>1. /\ req[r].kind = "forget" /\ taken' = taken /\ s \in Scope /\ i \in Id
        /\ req'[r] = Idle /\ \A q \in Req \ {r} : req'[q] = req[q]
        /\ rows' = Forgotten(s, i, req[r].ok)
    BY <1>1 DEF RevertForgets, node, SavedInv, TypeInv, TypeOK
  <2>2. \A j \in Id : rows'[j] = rows[j] \/ rows'[j] = NoRow
    BY <2>1 DEF Forgotten, SavedInv, TypeInv, TypeOK
  <2>3. /\ \A t \in Scope, j \in Id : stamp'[t][j] = stamp[t][j] \/ (t = s /\ j = i)
        /\ stamp' # stamp => req[r].ok /\ rows[i] # NoRow
    BY <1>1, <2>1 DEF RevertForgets, SavedInv, TypeInv, TypeOK
  <2>4. ASSUME stamp' # stamp PROVE i \in DOMAIN taken[s] /\ rows'[i].scope # s
    <3>1. rows[i].scope = s => rows'[i] = NoRow
      <4>1. rows[i].at >= rows[i].at
        BY <2>1 DEF SavedInv, TypeInv, TypeOK, Row
      <4>. QED BY <2>1, <2>3, <2>4, <4>1 DEF Forgotten
    <3>2. rows'[i].scope # s
      BY <2>1, <2>2, <3>1, SnapshotsAssumption DEF NoRow
    <3>. QED BY <2>1, <2>3, <2>4, <3>2 DEF SavedInv, StampsInRun
  <2>5. RowsAreTrue'
    <3>1. SUFFICES ASSUME NEW t \in Scope, NEW j \in Id, stamp'[t][j] # 0, rows'[j].scope = t
                   PROVE  j \in DOMAIN taken[t] /\ rows'[j].saved = taken[t][j].content
      BY <2>1 DEF RowsAreTrue
    <3>2. rows'[j] = rows[j]
      BY <2>2, <3>1, SnapshotsAssumption DEF NoRow
    <3>3. stamp[t][j] # 0
      BY <2>3, <2>4, <3>1
    <3>. QED BY <3>1, <3>2, <3>3 DEF SavedInv, RowsAreTrue
  <2>6. StoresAreTrue'
    BY <2>1, IdleIsRequest DEF SavedInv, StoresAreTrue
  <2>7. StampsInRun'
    <3>1. \A t \in Scope, j \in Id : stamp'[t][j] # 0 => j \in DOMAIN taken[t]
      BY <2>3, <2>4 DEF SavedInv, StampsInRun
    <3>. QED BY <2>1, <3>1, IdleIsRequest DEF SavedInv, StampsInRun
  <2>. QED BY <2>5, <2>6, <2>7
<1>2. ASSUME NEW s \in Scope, NEW i \in Id, RevertAsks(r, s, i)
      PROVE  RowsAreTrue' /\ StoresAreTrue' /\ StampsInRun'
  <2>1. RevertTo(s, i) /\ rows' = rows /\ stamp' = stamp
    BY <1>2 DEF RevertAsks, table
  <2>2. i \in Nat
    BY SnapshotsAssumption DEF Id
  <2>3. /\ req'[r].kind = "forget" /\ req'[r].scope = s /\ req'[r].id = i
        /\ req'[r].ok <=> Live(s, i)
        /\ \A q \in Req \ {r} : req'[q] = req[q]
    BY <1>2, AskTyped DEF SavedInv
  <2>4. \A t \in Scope :
           /\ DOMAIN taken'[t] = DOMAIN taken[t]
           /\ \A j \in DOMAIN taken[t] : taken'[t][j].content = taken[t][j].content
    BY <2>1, <2>2, Reverted DEF SavedInv
  <2>5. RowsAreTrue'
    BY <2>1, <2>4 DEF SavedInv, RowsAreTrue
  <2>6. StoresAreTrue'
    BY <2>3, <2>4 DEF SavedInv, StoresAreTrue
  <2>7. StampsInRun'
    BY <2>1, <2>3, <2>4 DEF Live, SavedInv, StampsInRun
  <2>. QED BY <2>5, <2>6, <2>7
<1>. QED BY <1>1, <1>2

LEMMA SavedInit == Init => SavedInv
<1>1. SUFFICES ASSUME Init PROVE RowsAreTrue /\ StoresAreTrue /\ StampsInRun
  BY TypesInit DEF SavedInv
<1>2. (\A s \in Scope, i \in Id : stamp[s][i] = 0) /\ \A r \in Req : req[r].kind = "none"
  BY <1>1, IdleIsRequest DEF Init, NoStamp
<1>. QED BY <1>2 DEF RowsAreTrue, StoresAreTrue, StampsInRun

LEMMA SavedNext ==
  ASSUME Serial, SavedInv, [Next]_vars
  PROVE  SavedInv'
<1>1. TypeInv'
  BY TypesNext DEF SavedInv
<1>2. CASE UNCHANGED vars
  BY <1>1, <1>2 DEF vars, node, table, SavedInv, RowsAreTrue, StoresAreTrue, StampsInRun
<1>3. ASSUME NEW s \in Scope, NEW w \in Write, UserWrites(s, w) PROVE SavedInv'
  BY <1>1, <1>3 DEF UserWrites, table, SavedInv, RowsAreTrue, StoresAreTrue, StampsInRun
<1>4. ASSUME NEW r \in Req, SessionWrites(r) \/ SessionEnds(r) PROVE SavedInv'
  BY <1>1, <1>4, SessionChanges, QuietSaves DEF SavedInv
<1>5. ASSUME NEW s \in Scope, NodeRestarts(s) \/ Reset(s) PROVE SavedInv'
  BY <1>1, <1>5, RestartSaves DEF SavedInv
<1>6. ASSUME NEW r \in Req, NEW s \in Scope, SessionBegins(r, s) \/ SnapshotTakes(r, s) PROVE SavedInv'
  BY <1>1, <1>6, TakingSaves DEF SavedInv
<1>7. ASSUME NEW r \in Req, SnapshotStores(r) \/ SnapshotFails(r) PROVE SavedInv'
  BY <1>1, <1>7, StoreSaves DEF SavedInv
<1>8. ASSUME NEW r \in Req, RevertForgets(r) \/ \E s \in Scope, i \in Id : RevertAsks(r, s, i)
      PROVE  SavedInv'
  BY <1>1, <1>8, RevertSaves DEF SavedInv
<1>. QED BY <1>2, <1>3, <1>4, <1>5, <1>6, <1>7, <1>8 DEF Next

\* A revert asked for that works goes to a snapshot the node has.
LEMMA RevertRestoresStep ==
  ASSUME SavedInv, [Next]_vars,
         NEW r \in Req, req[r] = Idle, req'[r].kind = "forget", req'[r].ok,
         stamp[req'[r].scope][req'[r].id] # 0,
         rows[req'[r].id].scope = req'[r].scope
  PROVE  content'[req'[r].scope] = rows[req'[r].id].saved
<1>1. PICK s \in Scope, i \in Id : RevertAsks(r, s, i)
  <2>1. req'[r] # req[r] /\ req[r].kind = "none" /\ req \in [Req -> Request]
    BY IdleIsRequest DEF SavedInv, TypeInv, TypeOK
  <2>2. ~UNCHANGED req
    BY <2>1
  <2>3. ASSUME NEW q \in Req, \/ SessionWrites(q) \/ SessionEnds(q) \/ SnapshotStores(q)
                              \/ SnapshotFails(q) \/ RevertForgets(q)
        PROVE  FALSE
    <3>1. q # r
      BY <2>1, <2>3 DEF SessionWrites, SessionEnds, SnapshotStores, SnapshotFails, RevertForgets
    <3>2. req'[r] = req[r]
      BY <2>1, <2>3, <3>1 DEF SessionWrites, SessionEnds, SnapshotStores, SnapshotFails, RevertForgets
    <3>. QED BY <2>1, <3>2
  <2>4. ASSUME NEW q \in Req, NEW s \in Scope, SessionBegins(q, s) \/ SnapshotTakes(q, s)
        PROVE  FALSE
    BY <2>1, <2>4, TakesTyped DEF SavedInv
  <2>5. ASSUME NEW q \in Req, NEW s \in Scope, NEW i \in Id, RevertAsks(q, s, i)
        PROVE  q = r
    BY <2>1, <2>5 DEF RevertAsks
  <2>6. ASSUME NEW s \in Scope
        PROVE  ~NodeRestarts(s) /\ ~Reset(s) /\ \A w \in Write : ~UserWrites(s, w)
    BY <2>2 DEF NodeRestarts, Reset, UserWrites
  <2>. QED BY <2>2, <2>3, <2>4, <2>5, <2>6 DEF Next, vars
<1>2. RevertTo(s, i) /\ req'[r].scope = s /\ req'[r].id = i /\ Live(s, i)
  <2>1. RevertTo(s, i)
    BY <1>1 DEF RevertAsks
  <2>2. req'[r].scope = s /\ req'[r].id = i /\ (req'[r].ok <=> Live(s, i))
    BY <1>1, AskTyped DEF SavedInv
  <2>. QED BY <2>1, <2>2
<1>3. content'[s] = taken[s][i].content
  BY <1>2 DEF RevertTo, SavedInv, TypeInv, TypeOK
<1>4. rows[i].saved = taken[s][i].content
  BY <1>2 DEF SavedInv, RowsAreTrue
<1>. QED BY <1>2, <1>3, <1>4

\* A revert to a row that was stored in this run of the node is refused or restores
\* what the chain held when that row's snapshot was taken, whatever rows earlier runs,
\* failed requests and other projects left, when users keep apart what Alone and Quiet
\* say.
THEOREM RevertsRestore == ASSUME Serial PROVE Spec => RevertRestores
<1>1. SavedInv /\ [Next]_vars => SavedInv'
  BY SavedNext
<1>2. SavedInv /\ [Next]_vars =>
        [\A r \in Req :
           /\ req[r] = Idle /\ req'[r].kind = "forget" /\ req'[r].ok
           /\ stamp[req'[r].scope][req'[r].id] # 0
           /\ rows[req'[r].id].scope = req'[r].scope
           => content'[req'[r].scope] = rows[req'[r].id].saved]_vars
  BY RevertRestoresStep
<1>. QED BY SavedInit, <1>1, <1>2, PTL DEF Spec, RevertRestores

(***************************************************************************)
(* What the list shows, for one project: the rows of two would share their *)
(* numbers, and the run SnapshotsShared shows what comes of it.            *)
(***************************************************************************)

OneProject == \A s, t \in Scope : s = t

\* A request that will store a row of s, and one that will delete rows of it.
Stores(q, s)  == req[q].kind = "store" /\ req[q].scope = s
Deletes(q, s) == req[q].kind = "forget" /\ req[q].scope = s

\* A row is of a project and not of time 0, and has the stamp of its snapshot.
RowsStamped ==
  \A i \in Id :
    /\ rows[i] # NoRow => rows[i].scope \in Scope /\ rows[i].at # 0
    /\ \A s \in Scope : stamp[s][i] # 0 /\ rows[i].scope = s => rows[i].at = stamp[s][i]

\* A snapshot whose row is to come has no stamp, and no other request stores it or
\* deletes rows meanwhile.
StoresAreNew ==
  \A q, r \in Req, s \in Scope :
    Stores(q, s) =>
      /\ stamp[s][req[q].id] = 0
      /\ Stores(r, s) /\ req[r].id = req[q].id => q = r
      /\ ~Deletes(r, s)

\* What is left when a revert's rows are to be deleted was taken before, and a refused
\* revert deletes no live snapshot's row.
DeletesAreAbove ==
  \A r \in Req, s \in Scope :
    Deletes(r, s) =>
      /\ req[r].ok => \A j \in Id : Live(s, j) => j < req[r].id
      /\ ~req[r].ok => ~Live(s, req[r].id)

\* LiveIsListed, over all numbers.
Listed ==
  \A s \in Scope, i \in Id :
    Live(s, i) /\ stamp[s][i] # 0 /\ InOrder(s, i) => rows[i].scope = s

ListInv ==
  /\ SavedInv /\ RowsStamped /\ StoresAreNew /\ DeletesAreAbove /\ Listed
  /\ clock \in Nat \ {0}

\* A step that changes no row and starts no store and no delete.
LEMMA QuietLists ==
  ASSUME ListInv, SavedInv', rows' = rows, stamp' = stamp, clock' = clock,
         \A t \in Scope, j \in Id : Live(t, j)' => Live(t, j),
         \A q \in Req : req'[q].kind \in {"store", "forget"} => req'[q] = req[q]
  PROVE  ListInv'
<1>1. RowsStamped' /\ clock' \in Nat \ {0}
  BY DEF ListInv, RowsStamped
<1>2. \A q \in Req, t \in Scope : /\ Stores(q, t)' => Stores(q, t) /\ req'[q] = req[q]
                                  /\ Deletes(q, t)' => Deletes(q, t) /\ req'[q] = req[q]
  BY DEF Stores, Deletes
<1>3. StoresAreNew'
  BY <1>2 DEF ListInv, StoresAreNew
<1>4. DeletesAreAbove'
  <2>1. SUFFICES ASSUME NEW r \in Req, NEW s \in Scope, Deletes(r, s)'
                 PROVE  /\ req[r].ok => \A j \in Id : Live(s, j)' => j < req[r].id
                        /\ ~req[r].ok => ~Live(s, req[r].id)'
    BY <1>2 DEF DeletesAreAbove, Live
  <2>2. Deletes(r, s) /\ req[r].id \in Id
    BY <1>2, <2>1 DEF Deletes, ListInv, SavedInv, TypeInv
  <2>3. ~Live(s, req[r].id) => ~Live(s, req[r].id)'
    <3>1. PICK j \in Id : j = req[r].id
      BY <2>2
    <3>2. Live(s, j)' => Live(s, j)
      OBVIOUS
    <3>3. req'[r].id = j
      BY <1>2, <2>1, <3>1
    <3>. QED BY <3>1, <3>2, <3>3 DEF Live
  <2>. QED BY <2>2, <2>3 DEF ListInv, DeletesAreAbove
<1>5. Listed'
  BY DEF ListInv, Listed, InOrder
<1>. QED BY <1>1, <1>3, <1>4, <1>5 DEF ListInv

\* A restart and a reset leave no snapshot and no stamp.
LEMMA RestartLists ==
  ASSUME Serial, OneProject, ListInv, SavedInv', NEW s \in Scope, NodeRestarts(s) \/ Reset(s)
  PROVE  ListInv'
<1>1. /\ req' = req /\ taken' = [taken EXCEPT ![s] = <<>>] /\ clock' = clock
      /\ stamp' = [stamp EXCEPT ![s] = NoStamp]
      /\ \A q \in Req : ~Stores(q, s)
  BY DEF NodeRestarts, Reset, Quiet, Storing, Stores
<1>2. \A t \in Scope : /\ t = s
                       /\ \A i \in Id : stamp'[t][i] = 0 /\ ~Live(t, i)'
  BY <1>1 DEF OneProject, NoStamp, Live, ListInv, SavedInv, TypeInv, TypeOK
<1>3. \A i \in Id : rows'[i] = rows[i] \/ rows'[i] = NoRow
  BY DEF NodeRestarts, Reset, ListInv, SavedInv, TypeInv, TypeOK
<1>4. RowsStamped'
  BY <1>2, <1>3 DEF ListInv, RowsStamped
<1>5. StoresAreNew'
  BY <1>1, <1>2 DEF StoresAreNew, Stores
<1>6. DeletesAreAbove'
  <2>1. \A r \in Req, t \in Scope : Deletes(r, t)' => req[r].id \in Id
    BY <1>1 DEF Deletes, ListInv, SavedInv, TypeInv
  <2>2. \A r \in Req, t \in Scope : Deletes(r, t)' => ~Live(t, req[r].id)'
    BY <1>1, <1>2, <2>1 DEF Live
  <2>. QED BY <1>1, <1>2, <2>2 DEF DeletesAreAbove, Live
<1>7. Listed'
  BY <1>2 DEF Listed
<1>. QED BY <1>1, <1>4, <1>5, <1>6, <1>7 DEF ListInv

\* A new snapshot has no stamp, and no rows are being deleted.
LEMMA TakingLists ==
  ASSUME Serial, ListInv, SavedInv',
         NEW r \in Req, NEW s \in Scope, SessionBegins(r, s) \/ SnapshotTakes(r, s)
  PROVE  ListInv'
<1>1. Take(s) /\ rows' = rows /\ clock' = clock /\ stamp' = stamp /\ req[r] = Idle
  BY DEF SessionBegins, SnapshotTakes, table
<1>2. /\ req'[r].scope = s /\ req'[r].id = Len(taken[s]) + 1
      /\ req'[r].kind \in {"write", "store"}
      /\ ~Forgets(s)
      /\ \A q \in Req \ {r} : req'[q] = req[q]
  BY TakesTyped DEF ListInv, SavedInv
<1>3. /\ Len(taken[s]) \in Nat /\ DOMAIN taken[s] = 1..Len(taken[s])
      /\ \A i \in DOMAIN taken[s] : taken'[s][i] = taken[s][i]
      /\ DOMAIN taken'[s] = 1..(Len(taken[s]) + 1)
      /\ \A t \in Scope \ {s} : taken'[t] = taken[t]
  BY <1>1, TypedAsWell, TakeAppends DEF ListInv, SavedInv
<1>4. RowsStamped'
  BY <1>1 DEF ListInv, RowsStamped
<1>5. \A q \in Req : req[q].kind = "store" /\ req[q].scope = s => req[q].id # Len(taken[s]) + 1
  BY <1>3 DEF ListInv, SavedInv, StoresAreTrue
<1>6. Len(taken[s]) + 1 \in Id /\ stamp[s][Len(taken[s]) + 1] = 0
  <2>1. Len(taken[s]) + 1 \in Id
    BY <1>1, <1>3, SnapshotsAssumption DEF Take, Id
  <2>. QED BY <1>3, <2>1 DEF ListInv, SavedInv, StampsInRun
<1>7. StoresAreNew'
  <2>1. SUFFICES ASSUME NEW q \in Req, NEW p \in Req, NEW t \in Scope, Stores(q, t)'
                 PROVE  /\ stamp[t][req'[q].id] = 0
                        /\ Stores(p, t)' /\ req'[p].id = req'[q].id => q = p
                        /\ ~Deletes(p, t)'
    BY <1>1 DEF StoresAreNew
  <2>2. CASE q = r
    <3>1. t = s /\ req'[q].id = Len(taken[s]) + 1
      BY <1>2, <2>1, <2>2 DEF Stores
    <3>2. ~Deletes(p, s)'
      BY <1>2 DEF Forgets, Deletes
    <3>3. p # r => ~(Stores(p, s)' /\ req'[p].id = Len(taken[s]) + 1)
      BY <1>2, <1>5 DEF Stores
    <3>. QED BY <1>6, <2>2, <3>1, <3>2, <3>3
  <2>3. CASE q # r /\ p # r
    <3>1. req'[q] = req[q] /\ req'[p] = req[p]
      BY <1>2, <2>3
    <3>. QED BY <2>1, <3>1 DEF Stores, Deletes, ListInv, StoresAreNew
  <2>4. CASE q # r /\ p = r
    <3>1. req'[q] = req[q] /\ ~Deletes(p, t)'
      BY <1>2, <2>4 DEF Deletes
    <3>2. ~(Stores(p, t)' /\ req'[p].id = req'[q].id)
      BY <1>2, <1>5, <2>1, <2>4, <3>1 DEF Stores
    <3>3. stamp[t][req[q].id] = 0
      BY <2>1, <3>1 DEF Stores, ListInv, StoresAreNew
    <3>. QED BY <3>1, <3>2, <3>3
  <2>. QED BY <2>2, <2>3, <2>4
<1>8. DeletesAreAbove'
  <2>1. SUFFICES ASSUME NEW q \in Req, NEW t \in Scope, Deletes(q, t)'
                 PROVE  /\ req'[q].ok => \A j \in Id : Live(t, j)' => j < req'[q].id
                        /\ ~req'[q].ok => ~Live(t, req[q].id)' /\ req'[q] = req[q]
    BY DEF DeletesAreAbove, Live
  <2>2. t # s /\ q # r /\ req'[q] = req[q] /\ taken'[t] = taken[t]
    BY <1>2, <1>3, <2>1 DEF Forgets, Deletes
  <2>. QED BY <2>1, <2>2 DEF Live, Deletes, ListInv, DeletesAreAbove
<1>9. Listed'
  <2>1. SUFFICES ASSUME NEW t \in Scope, NEW i \in Id, Live(t, i)', stamp[t][i] # 0, InOrder(t, i)
                 PROVE  rows[i].scope = t
    BY <1>1 DEF Listed, InOrder
  <2>2. i \in DOMAIN taken[t]
    BY <2>1 DEF ListInv, SavedInv, StampsInRun
  <2>3. Live(t, i)
    BY <1>3, <2>1, <2>2 DEF Live
  <2>. QED BY <2>1, <2>3 DEF ListInv, Listed
<1>. QED BY <1>1, <1>4, <1>7, <1>8, <1>9 DEF ListInv

\* A row stored for a snapshot leaves the others in place.
LEMMA StoreLists ==
  ASSUME OneProject, ListInv, SavedInv', NEW r \in Req, SnapshotStores(r)
  PROVE  ListInv'
<1>. PICK s \in Scope, k \in Id : s = req[r].scope /\ k = req[r].id
  BY DEF SnapshotStores, ListInv, SavedInv, TypeInv
<1>1. /\ req[r].kind = "store" /\ Stores(r, s) /\ taken' = taken /\ clock' = clock + 1
      /\ \A t \in Scope : t = s
  BY DEF SnapshotStores, node, Stores, OneProject
<1>2. req'[r] = Idle /\ \A q \in Req \ {r} : req'[q] = req[q]
  BY DEF SnapshotStores, ListInv, SavedInv, TypeInv, TypeOK
<1>3. /\ rows'[k].scope = s /\ rows'[k].at = clock /\ \A j \in Id \ {k} : rows'[j] = rows[j]
      /\ stamp'[s][k] = clock /\ \A j \in Id \ {k} : stamp'[s][j] = stamp[s][j]
      /\ clock \in Nat \ {0}
  BY DEF SnapshotStores, Stored, ListInv, SavedInv, TypeInv, TypeOK
<1>4. stamp[s][k] = 0
  BY <1>1 DEF ListInv, StoresAreNew
<1>5. RowsStamped'
  BY <1>1, <1>3 DEF ListInv, RowsStamped
<1>6. StoresAreNew'
  <2>1. SUFFICES ASSUME NEW q \in Req, NEW p \in Req, Stores(q, s)'
                 PROVE  /\ stamp'[s][req'[q].id] = 0
                        /\ Stores(p, s)' /\ req'[p].id = req'[q].id => q = p
                        /\ ~Deletes(p, s)'
    BY <1>1 DEF StoresAreNew
  <2>2. q # r /\ req'[q] = req[q] /\ Stores(q, s) /\ req[q].id \in Id
    BY <1>2, <2>1, IdleIsRequest DEF Stores, ListInv, SavedInv, TypeInv
  <2>3. req[q].id # k /\ stamp[s][req[q].id] = 0
    BY <1>1, <2>2 DEF ListInv, StoresAreNew
  <2>4. /\ Stores(p, s)' => Stores(p, s) /\ req'[p] = req[p]
        /\ Deletes(p, s)' => Deletes(p, s)
    BY <1>2, IdleIsRequest DEF Stores, Deletes
  <2>. QED BY <1>3, <2>2, <2>3, <2>4 DEF ListInv, StoresAreNew
<1>7. DeletesAreAbove'
  <2>1. \A q \in Req, t \in Scope : ~Deletes(q, t)
    BY <1>1 DEF ListInv, StoresAreNew
  <2>2. \A q \in Req, t \in Scope : Deletes(q, t)' => Deletes(q, t)
    BY <1>2, IdleIsRequest DEF Deletes
  <2>. QED BY <2>1, <2>2 DEF DeletesAreAbove
<1>8. Listed'
  <2>1. SUFFICES ASSUME NEW i \in Id, Live(s, i), stamp'[s][i] # 0, InOrder(s, i)', i # k
                 PROVE  rows'[i].scope = s
    BY <1>1, <1>3 DEF Listed, Live
  <2>2. stamp[s][i] # 0
    BY <1>3, <2>1
  <2>3. InOrder(s, i)
    BY <1>3, <1>4, <2>1 DEF InOrder
  <2>. QED BY <1>3, <2>1, <2>2, <2>3 DEF ListInv, Listed
<1>9. clock' \in Nat \ {0}
  BY <1>1, <1>3
<1>. QED BY <1>5, <1>6, <1>7, <1>8, <1>9 DEF ListInv

\* A revert that works leaves what was taken before; one that is refused, all.
LEMMA AskLists ==
  ASSUME Serial, ListInv, SavedInv', NEW r \in Req, NEW s \in Scope, NEW i \in Id,
         RevertAsks(r, s, i)
  PROVE  ListInv'
<1>1. /\ RevertTo(s, i) /\ rows' = rows /\ clock' = clock /\ stamp' = stamp
      /\ \A q \in Req : ~Stores(q, s) /\ ~Deletes(q, s)
  BY DEF RevertAsks, table, Quiet, Storing, Forgets, Stores, Deletes
<1>2. i \in Nat
  BY SnapshotsAssumption DEF Id
<1>3. /\ req'[r].kind = "forget" /\ req'[r].scope = s /\ req'[r].id = i
      /\ req'[r].ok <=> Live(s, i)
      /\ \A q \in Req \ {r} : req'[q] = req[q]
  BY AskTyped DEF ListInv, SavedInv
<1>4. \A t \in Scope, j \in Id :
        /\ Live(t, j)' => Live(t, j)
        /\ t = s /\ Live(t, j)' => j < i \/ ~Live(s, i)
  <2>1. \A t \in Scope :
           /\ DOMAIN taken'[t] = DOMAIN taken[t]
           /\ \A j \in DOMAIN taken[t] :
                /\ taken'[t][j].live => taken[t][j].live
                /\ t = s /\ taken'[s][j].live => j < i \/ ~Live(s, i)
    BY <1>1, <1>2, Reverted DEF ListInv, SavedInv
  <2>. QED BY <2>1 DEF Live
<1>5. RowsStamped' /\ clock' \in Nat \ {0}
  BY <1>1 DEF ListInv, RowsStamped
<1>6. StoresAreNew'
  <2>1. SUFFICES ASSUME NEW q \in Req, NEW p \in Req, NEW t \in Scope, Stores(q, t)'
                 PROVE  /\ stamp[t][req'[q].id] = 0
                        /\ Stores(p, t)' /\ req'[p].id = req'[q].id => q = p
                        /\ ~Deletes(p, t)'
    BY <1>1 DEF StoresAreNew
  <2>2. q # r /\ req'[q] = req[q] /\ Stores(q, t) /\ t # s
    BY <1>1, <1>3, <2>1 DEF Stores
  <2>3. CASE p = r
    BY <1>3, <2>2, <2>3 DEF Stores, Deletes, ListInv, StoresAreNew
  <2>4. CASE p # r
    <3>1. req'[p] = req[p]
      BY <1>3, <2>4
    <3>. QED BY <2>2, <3>1 DEF Stores, Deletes, ListInv, StoresAreNew
  <2>. QED BY <2>3, <2>4
<1>7. DeletesAreAbove'
  <2>1. SUFFICES ASSUME NEW q \in Req, NEW t \in Scope, Deletes(q, t)'
                 PROVE  /\ req'[q].ok => \A j \in Id : Live(t, j)' => j < req'[q].id
                        /\ ~req'[q].ok => ~Live(t, req[q].id)' /\ req'[q].id \in Id
                        /\ ~req'[q].ok => \A j \in Id : j = req'[q].id => ~Live(t, j)'
    BY DEF DeletesAreAbove, Live
  <2>2. CASE q = r
    <3>1. t = s
      BY <1>3, <2>1, <2>2 DEF Deletes
    <3>. QED BY <1>3, <1>4, <2>2, <3>1
  <2>3. CASE q # r
    <3>1. req'[q] = req[q] /\ Deletes(q, t) /\ req[q].id \in Id
      BY <1>3, <2>1, <2>3 DEF Deletes, ListInv, SavedInv, TypeInv
    <3>2. /\ req[q].ok => \A j \in Id : Live(t, j) => j < req[q].id
          /\ ~req[q].ok => ~Live(t, req[q].id)
      BY <3>1 DEF ListInv, DeletesAreAbove
    <3>. QED BY <1>4, <3>1, <3>2
  <2>. QED BY <2>2, <2>3
<1>8. Listed'
  BY <1>1, <1>4 DEF ListInv, Listed, InOrder
<1>. QED BY <1>5, <1>6, <1>7, <1>8 DEF ListInv

\* The deletes after a revert spare what the node still has.
LEMMA ForgetLists ==
  ASSUME OneProject, ListInv, SavedInv', NEW r \in Req, RevertForgets(r)
  PROVE  ListInv'
<1>. PICK s \in Scope, i \in Id : s = req[r].scope /\ i = req[r].id
  BY DEF RevertForgets, ListInv, SavedInv, TypeInv
<1>1. /\ Deletes(r, s) /\ taken' = taken /\ clock' = clock
      /\ rows' = Forgotten(s, i, req[r].ok)
      /\ req'[r] = Idle /\ \A q \in Req \ {r} : req'[q] = req[q]
      /\ \A t \in Scope : t = s
  BY DEF RevertForgets, node, Deletes, OneProject, ListInv, SavedInv, TypeInv, TypeOK
<1>2. /\ \A j \in Id : rows'[j] = rows[j] \/ rows'[j] = NoRow
      /\ \A j \in Id : rows[j].at \in Nat /\ stamp[s][j] \in Nat
  BY <1>1 DEF Forgotten, ListInv, SavedInv, TypeInv, TypeOK, Row
<1>3. /\ \A j \in Id \ {i} : stamp'[s][j] = stamp[s][j]
      /\ req[r].ok /\ rows[i] # NoRow => stamp'[s][i] = rows[i].at /\ rows'[i] = NoRow
      /\ ~(req[r].ok /\ rows[i] # NoRow) => stamp' = stamp
  <2>1. /\ \A j \in Id \ {i} : stamp'[s][j] = stamp[s][j]
        /\ req[r].ok /\ rows[i] # NoRow => stamp'[s][i] = rows[i].at
        /\ ~(req[r].ok /\ rows[i] # NoRow) => stamp' = stamp
    BY DEF RevertForgets, ListInv, SavedInv, TypeInv, TypeOK
  <2>2. ASSUME req[r].ok, rows[i] # NoRow PROVE rows'[i] = NoRow
    <3>1. rows[i].scope = s /\ rows[i].at >= rows[i].at
      BY <1>1, <1>2, <2>2 DEF ListInv, RowsStamped
    <3>. QED BY <1>1, <2>2, <3>1 DEF Forgotten
  <2>. QED BY <2>1, <2>2
<1>4. RowsStamped'
  <2>1. \A j \in Id : rows'[j] # NoRow => rows'[j].scope \in Scope /\ rows'[j].at # 0
    BY <1>2 DEF ListInv, RowsStamped
  <2>2. SUFFICES ASSUME NEW j \in Id, stamp'[s][j] # 0, rows'[j].scope = s
                 PROVE  rows'[j].at = stamp'[s][j]
    BY <1>1, <2>1 DEF RowsStamped
  <2>3. rows'[j] = rows[j] /\ rows'[j] # NoRow
    BY <1>2, <2>2, SnapshotsAssumption DEF NoRow
  <2>4. stamp'[s][j] = stamp[s][j]
    BY <1>3, <2>3
  <2>. QED BY <2>2, <2>3, <2>4 DEF ListInv, RowsStamped
<1>5. \A q \in Req, t \in Scope : ~Stores(q, t)'
  <2>1. \A q \in Req, t \in Scope : ~Stores(q, t)
    BY <1>1 DEF ListInv, StoresAreNew
  <2>. QED BY <1>1, <2>1, IdleIsRequest DEF Stores
<1>6. StoresAreNew'
  BY <1>5 DEF StoresAreNew
<1>7. DeletesAreAbove'
  <2>1. \A q \in Req, t \in Scope : Deletes(q, t)' => Deletes(q, t) /\ req'[q] = req[q]
    BY <1>1, IdleIsRequest DEF Deletes
  <2>. QED BY <1>1, <2>1 DEF Live, ListInv, DeletesAreAbove
<1>8. Listed'
  <2>1. SUFFICES ASSUME NEW j \in Id, Live(s, j), stamp'[s][j] # 0, InOrder(s, j)'
                 PROVE  rows'[j].scope = s
    BY <1>1 DEF Listed, Live
  <2>2. CASE req[r].ok
    <3>1. j < i /\ stamp[s][j] = stamp'[s][j]
      BY <1>1, <1>3, <2>1, <2>2, SnapshotsAssumption DEF Id, ListInv, DeletesAreAbove
    <3>2. CASE rows[i] = NoRow
      <4>1. stamp' = stamp /\ InOrder(s, j)
        BY <1>3, <2>1, <3>2 DEF InOrder
      <4>2. rows'[j] = rows[j]
        BY <1>1, <3>1, <3>2, SnapshotsAssumption DEF Id, Forgotten, ListInv, SavedInv, TypeInv, TypeOK
      <4>. QED BY <2>1, <3>1, <4>1, <4>2 DEF ListInv, Listed
    <3>3. CASE rows[i] # NoRow
      <4>1. /\ rows[i].scope = s /\ rows[i].at # 0 /\ stamp'[s][i] = rows[i].at
            /\ stamp[s][i] # 0 => stamp[s][i] = rows[i].at
        BY <1>1, <1>3, <2>2, <3>3 DEF ListInv, RowsStamped
      <4>2. stamp[s][j] < rows[i].at
        BY <2>1, <3>1, <4>1 DEF InOrder
      <4>3. InOrder(s, j)
        BY <1>3, <2>1, <3>1, <4>1, <4>2 DEF InOrder
      <4>4. rows[j].scope = s /\ rows[j].at = stamp[s][j]
        BY <2>1, <3>1, <4>3 DEF ListInv, Listed, RowsStamped
      <4>5. ~(rows[j].at >= rows[i].at)
        BY <1>2, <4>2, <4>4
      <4>6. rows'[j] = rows[j]
        BY <1>1, <2>2, <3>3, <4>5 DEF Forgotten
      <4>. QED BY <4>4, <4>6
    <3>. QED BY <3>2, <3>3
  <2>3. CASE ~req[r].ok
    <3>1. j # i /\ stamp' = stamp
      BY <1>1, <1>3, <2>1, <2>3 DEF ListInv, DeletesAreAbove
    <3>2. InOrder(s, j)
      BY <2>1, <3>1 DEF InOrder
    <3>3. rows'[j] = rows[j]
      BY <1>1, <2>3, <3>1 DEF Forgotten, ListInv, SavedInv, TypeInv, TypeOK
    <3>. QED BY <2>1, <3>1, <3>2, <3>3 DEF ListInv, Listed
  <2>. QED BY <2>2, <2>3
<1>. QED BY <1>1, <1>4, <1>6, <1>7, <1>8 DEF ListInv

LEMMA ListInit == Init => ListInv
<1>1. SUFFICES ASSUME Init
               PROVE  RowsStamped /\ StoresAreNew /\ DeletesAreAbove /\ Listed /\ clock \in Nat \ {0}
  BY SavedInit DEF ListInv
<1>2. /\ \A s \in Scope, i \in Id : stamp[s][i] = 0
      /\ \A r \in Req : req[r].kind = "none"
      /\ (\A i \in Id : rows[i] = NoRow) /\ clock = 1
  BY <1>1, IdleIsRequest DEF Init, NoStamp
<1>. QED BY <1>2 DEF RowsStamped, StoresAreNew, DeletesAreAbove, Listed, Stores, Deletes

LEMMA ListNext ==
  ASSUME Serial, OneProject, ListInv, [Next]_vars
  PROVE  ListInv'
<1>1. SavedInv'
  BY SavedNext DEF ListInv
<1>2. CASE UNCHANGED vars
  BY <1>1, <1>2, QuietLists DEF vars, node, table, Live
<1>3. ASSUME NEW s \in Scope, NEW w \in Write, UserWrites(s, w) PROVE ListInv'
  BY <1>1, <1>3, QuietLists DEF UserWrites, table, Live
<1>4. ASSUME NEW r \in Req, SessionWrites(r) \/ SessionEnds(r) PROVE ListInv'
  <2>1. \A t \in Scope, j \in Id : Live(t, j)' => Live(t, j)
    BY <1>4, SessionChanges DEF Live, ListInv, SavedInv
  <2>. QED BY <1>1, <1>4, <2>1, SessionChanges, QuietLists DEF ListInv, SavedInv
<1>5. ASSUME NEW r \in Req, SnapshotFails(r) PROVE ListInv'
  <2>1. \A q \in Req : req'[q].kind \in {"store", "forget"} => req'[q] = req[q]
    BY <1>5, IdleIsRequest DEF SnapshotFails, ListInv, SavedInv, TypeInv, TypeOK
  <2>. QED BY <1>1, <1>5, <2>1, QuietLists DEF SnapshotFails, node, table, Live
<1>6. ASSUME NEW s \in Scope, NodeRestarts(s) \/ Reset(s) PROVE ListInv'
  BY <1>1, <1>6, RestartLists
<1>7. ASSUME NEW r \in Req, NEW s \in Scope, SessionBegins(r, s) \/ SnapshotTakes(r, s) PROVE ListInv'
  BY <1>1, <1>7, TakingLists
<1>8. ASSUME NEW r \in Req, SnapshotStores(r) PROVE ListInv'
  BY <1>1, <1>8, StoreLists
<1>9. ASSUME NEW r \in Req, NEW s \in Scope, NEW i \in Id, RevertAsks(r, s, i) PROVE ListInv'
  BY <1>1, <1>9, AskLists
<1>10. ASSUME NEW r \in Req, RevertForgets(r) PROVE ListInv'
  BY <1>1, <1>10, ForgetLists
<1>. QED BY <1>2, <1>3, <1>4, <1>5, <1>6, <1>7, <1>8, <1>9, <1>10 DEF Next

\* A snapshot of the only project that a row was stored for and that the node still has
\* is in the list, when the rows of this run were stored in the order of its snapshots
\* and no revert of it went by a row of an earlier run, and when users keep apart what
\* Alone and Quiet say.
THEOREM LiveStaysListed == ASSUME Serial, OneProject PROVE Spec => []LiveIsListed
<1>1. ListInv /\ [Next]_vars => ListInv'
  BY ListNext
<1>2. ListInv => LiveIsListed
  <2>1. SUFFICES ASSUME ListInv PROVE LiveIsListed
    OBVIOUS
  <2>2. \A s \in Scope : DOMAIN taken[s] \subseteq Id
    BY <2>1, Numbers DEF ListInv, SavedInv
  <2>. QED BY <2>1, <2>2 DEF ListInv, Listed, Live, LiveIsListed
<1>. QED BY ListInit, <1>1, <1>2, PTL DEF Spec
=============================================================================
