------------------------- MODULE BlockPipeline_proofs -------------------------
(***************************************************************************)
(* What leaves the block queue is published: for every number of blocks,   *)
(* prefetch, crashes, refused acknowledgements and full write buffers.     *)
(***************************************************************************)
EXTENDS BlockPipeline, FiniteSetTheorems, TLAPS

USE PipelineAssumption

-----------------------------------------------------------------------------
(* The inductive invariant *)

Typed ==
    /\ ready \in [Workers -> Seq(Blocks)]
    /\ unacked \in [Workers -> SUBSET Deliveries]
    /\ \A w \in Workers : IsFiniteSet(unacked[w])
    /\ nextTag \in [Workers -> Nat \ {0}]
    /\ docs \subseteq Docs
    /\ chan \in [Workers -> {"open", "lost", "closed", "down"}]
    /\ wire \in [Workers -> Seq(Ops)]
    /\ memory \in [Workers -> Seq(Deliveries)]
    /\ step \in [Workers -> {"idle", "traces", "block", "redis"}]
    /\ \A w \in Workers : step[w] # "idle" => memory[w] # <<>>
    /\ step["pool"] \in {"idle", "redis"}
    /\ waitToSend \in BOOLEAN /\ full \in BOOLEAN /\ txCache \in BOOLEAN /\ jammed \in BOOLEAN
    /\ backpressure \in Seq(Blocks)
    /\ losses \in Nat /\ crashes \in Nat /\ fulls \in Nat

IsAck(o) == o.op = "ack"

\* The tags in the memory of a worker and on its wire are those of its channel: each
\* acknowledgement settles the delivery it is meant for.
Tagged(w) ==
    /\ \A d \in unacked[w] : d.tag < nextTag[w]
    /\ \A d, e \in unacked[w] : d.tag = e.tag => d = e
    /\ \A i \in DOMAIN memory[w] : memory[w][i] \in unacked[w]
    /\ \A i, j \in DOMAIN memory[w] : memory[w][i].tag = memory[w][j].tag => i = j
    /\ \A i \in DOMAIN wire[w] :
          IsAck(wire[w][i]) => \E d \in unacked[w] : d.tag = wire[w][i].tag
    /\ \A i, j \in DOMAIN wire[w] :
          IsAck(wire[w][i]) /\ IsAck(wire[w][j]) /\ wire[w][i].tag = wire[w][j].tag => i = j
    /\ \A i \in DOMAIN wire[w], j \in DOMAIN memory[w] :
          IsAck(wire[w][i]) => wire[w][i].tag # memory[w][j].tag

\* Nothing of an earlier channel is left in the worker's memory.
Clean(w) ==
    \/ chan[w] = "open" /\ Tagged(w)
    \/ /\ chan[w] = "down"
       /\ memory[w] = <<>> /\ wire[w] = <<>> /\ unacked[w] = {} /\ step[w] = "idle"

OnWire(w, o) == \E i \in DOMAIN wire[w] : wire[w][i] = o
WrittenBefore(w, o, n) == \E i \in DOMAIN wire[w] : wire[w][i] = o /\ i < n

\* The document was written on the deserializer's channel and cannot be lost but with it.
Sent(kind, b) == <<kind, b>> \in docs \/ OnWire("ds", Doc(kind, b))
Sent2(b) == Sent("delta", b) /\ Sent("block", b)

\* While no channel of the deserializer was lost: what is settled is stored, and what an
\* acknowledgement is about to settle is ahead of it on the wire.
Stored(b) == <<"delta", b>> \in docs /\ <<"block", b>> \in docs
SettledIsStored ==
    /\ \A b \in Blocks : Owed("ds", b) \/ Stored(b)
    /\ \A i \in DOMAIN wire["ds"], d \in unacked["ds"] :
          IsAck(wire["ds"][i]) /\ wire["ds"][i].tag = d.tag =>
              \A kind \in {"delta", "block"} :
                  <<kind, d.block>> \in docs \/ WrittenBefore("ds", Doc(kind, d.block), i)
    /\ step["ds"] # "idle" => Sent("delta", memory["ds"][1].block)

\* After one loss: a delivery that waits in memory will have both documents written, but
\* for the one that was being processed when the connection closed.
WillWrite(i) == i = 1 /\ step["ds"] # "idle" => Sent("delta", memory["ds"][i].block)
Kept(b) == (\E i \in DOMAIN memory["ds"] : memory["ds"][i].block = b /\ WillWrite(i)) \/ Sent2(b)
KeptInMemory ==
    /\ \A b \in Blocks : Owed("ds", b) \/ Kept(b)
    /\ \A d \in unacked["ds"] : Kept(d.block)

BlockInv ==
    /\ losses = 0 => Clean("ds") /\ SettledIsStored
    /\ losses + crashes = 1 /\ chan["ds"] # "closed" =>
          (Clean("ds") /\ SettledIsStored) \/ KeptInMemory

\* The pool worker has b's trace, or had it and wrote its actions.
ActionsWritten(b) ==
    \/ <<"action", b>> \in docs
    \/ ~txCache /\ OnWire("pool", Doc("action", b))
InPool(b) == Owed("pool", b) \/ ActionsWritten(b)
ActionsFollow ==
    /\ \A i \in DOMAIN wire["pool"], d \in unacked["pool"] :
          IsAck(wire["pool"][i]) /\ wire["pool"][i].tag = d.tag =>
              ActionsWritten(d.block) \/ WrittenBefore("pool", Doc("action", d.block), i)
    /\ step["pool"] # "idle" =>
          txCache /\ (<<"action", memory["pool"][1].block>> \in docs
                         \/ OnWire("pool", Doc("action", memory["pool"][1].block)))

\* The trace of b cannot be lost any more, but with a crash after backpressure.
Passed(b) ==
    \/ InPool(b)
    \/ fulls > 0 /\ ((\E i \in DOMAIN backpressure : backpressure[i] = b) \/ OnWire("ds", Trace(b)))
TracesFollow ==
    /\ \A b \in Blocks : Owed("ds", b) \/ Passed(b)
    /\ \A i \in DOMAIN wire["ds"], d \in unacked["ds"] :
          IsAck(wire["ds"][i]) /\ wire["ds"][i].tag = d.tag =>
              Passed(d.block) \/ WrittenBefore("ds", Trace(d.block), i)
    /\ step["ds"] = "block" =>
          Passed(memory["ds"][1].block) \/ OnWire("ds", Trace(memory["ds"][1].block))

TraceInv ==
    losses = 0 =>
        /\ Clean("ds") /\ Clean("pool") /\ ~jammed
        /\ fulls = 0 => backpressure = <<>> /\ ~waitToSend /\ ~full
        /\ crashes = 0 \/ (fulls = 0 /\ txCache) => TracesFollow /\ ActionsFollow
-----------------------------------------------------------------------------
(* Operations of a channel and sequences of them *)

LEMMA WhatOpsAre ==
    /\ \A kind, b : Doc(kind, b).op = "doc" /\ Doc(kind, b).doc = <<kind, b>>
    /\ \A b : Trace(b).op = "trace" /\ Trace(b).block = b
    /\ \A d : Ack(d).op = "ack" /\ Ack(d).tag = d.tag
  BY DEF Doc, Trace, Ack

LEMMA OpsTyped ==
    /\ \A kind \in {"delta", "action", "block"}, b \in Blocks : Doc(kind, b) \in Ops
    /\ \A b \in Blocks : Trace(b) \in Ops
    /\ \A d \in Deliveries : Ack(d) \in Ops
<1>1. ASSUME NEW kind \in {"delta", "action", "block"}, NEW b \in Blocks
      PROVE  Doc(kind, b) \in Ops
  <2>1. <<kind, b>> \in Docs
    BY DEF Docs
  <2> QED
    BY <2>1 DEF Doc, Ops
<1>2. ASSUME NEW b \in Blocks PROVE Trace(b) \in Ops
  BY DEF Trace, Ops
<1>3. ASSUME NEW d \in Deliveries PROVE Ack(d) \in Ops
  <2>1. d.tag \in Nat \ {0}
    BY DEF Deliveries
  <2> QED
    BY <2>1 DEF Ack, Ops
<1> QED
  BY <1>1, <1>2, <1>3

LEMMA OpsOfAKind ==
    ASSUME NEW o \in Ops
    PROVE  /\ o.op \in {"doc", "trace", "ack"}
           /\ o.op = "trace" => o.block \in Blocks
           /\ o.op = "doc" => o.doc \in Docs
           /\ o.op = "ack" => o.tag \in Nat
  BY DEF Ops

LEMMA Joined ==
    ASSUME NEW S, NEW s \in Seq(S), NEW t \in Seq(S)
    PROVE  /\ s \o t \in Seq(S) /\ Len(s \o t) = Len(s) + Len(t)
           /\ \A i \in DOMAIN s : i \in DOMAIN (s \o t) /\ (s \o t)[i] = s[i] /\ i <= Len(s)
           /\ \A j \in DOMAIN t : Len(s) + j \in DOMAIN (s \o t) /\ (s \o t)[Len(s) + j] = t[j]
           /\ \A i \in DOMAIN (s \o t) :
                 \/ i \in DOMAIN s /\ (s \o t)[i] = s[i]
                 \/ \E j \in DOMAIN t : i = Len(s) + j /\ (s \o t)[i] = t[j]
<1>1. /\ s \o t \in Seq(S) /\ Len(s \o t) = Len(s) + Len(t)
      /\ DOMAIN s = 1 .. Len(s) /\ DOMAIN t = 1 .. Len(t)
      /\ DOMAIN (s \o t) = 1 .. Len(s) + Len(t) /\ Len(s) \in Nat /\ Len(t) \in Nat
  OBVIOUS
<1>2. \A i \in 1 .. Len(s) : (s \o t)[i] = s[i]
  OBVIOUS
<1>3. \A i \in Len(s) + 1 .. Len(s) + Len(t) : (s \o t)[i] = t[i - Len(s)]
  OBVIOUS
<1>4. ASSUME NEW j \in DOMAIN t
      PROVE  Len(s) + j \in DOMAIN (s \o t) /\ (s \o t)[Len(s) + j] = t[j]
  <2>1. Len(s) + j \in Len(s) + 1 .. Len(s) + Len(t) /\ (Len(s) + j) - Len(s) = j
    BY <1>1
  <2> QED
    BY <1>1, <1>3, <2>1
<1>5. ASSUME NEW i \in DOMAIN (s \o t)
      PROVE  \/ i \in DOMAIN s /\ (s \o t)[i] = s[i]
             \/ \E j \in DOMAIN t : i = Len(s) + j /\ (s \o t)[i] = t[j]
  <2>1. CASE i \in 1 .. Len(s)
    BY <1>1, <1>2, <2>1
  <2>2. CASE i \in Len(s) + 1 .. Len(s) + Len(t)
    <3>1. i - Len(s) \in DOMAIN t /\ i = Len(s) + (i - Len(s))
      BY <1>1, <2>2
    <3> QED
      BY <1>3, <2>2, <3>1
  <2> QED
    BY <1>1, <2>1, <2>2
<1> QED
  BY <1>1, <1>2, <1>4, <1>5

LEMMA Tailed ==
    ASSUME NEW S, NEW s \in Seq(S), s # <<>>
    PROVE  /\ Head(s) = s[1] /\ Head(s) \in S /\ 1 \in DOMAIN s
           /\ Tail(s) \in Seq(S)
           /\ \A i \in DOMAIN Tail(s) : i \in Nat /\ i + 1 \in DOMAIN s /\ Tail(s)[i] = s[i + 1]
           /\ \A i \in DOMAIN s : i = 1 \/ (i \in Nat /\ i - 1 \in DOMAIN Tail(s) /\ Tail(s)[i - 1] = s[i])
<1>1. /\ Head(s) = s[1] /\ Head(s) \in S /\ 1 \in DOMAIN s
      /\ Tail(s) \in Seq(S)
      /\ DOMAIN s = 1 .. Len(s) /\ DOMAIN Tail(s) = 1 .. Len(s) - 1 /\ Len(s) \in Nat
      /\ \A i \in 1 .. Len(s) - 1 : Tail(s)[i] = s[i + 1]
  OBVIOUS
<1>2. ASSUME NEW i \in DOMAIN s, i # 1 PROVE i - 1 \in DOMAIN Tail(s) /\ Tail(s)[i - 1] = s[i]
  <2>1. i - 1 \in 1 .. Len(s) - 1 /\ (i - 1) + 1 = i
    BY <1>1, <1>2
  <2> QED
    BY <1>1, <2>1
<1> QED
  BY <1>1, <1>2

LEMMA Appended ==
    ASSUME NEW S, NEW s \in Seq(S), NEW x \in S
    PROVE  /\ Append(s, x) \in Seq(S)
           /\ \A i \in DOMAIN s : i \in DOMAIN Append(s, x) /\ Append(s, x)[i] = s[i] /\ i <= Len(s)
           /\ Len(s) + 1 \in DOMAIN Append(s, x) /\ Append(s, x)[Len(s) + 1] = x
           /\ \A i \in DOMAIN Append(s, x) :
                 (i \in DOMAIN s /\ Append(s, x)[i] = s[i]) \/ (i = Len(s) + 1 /\ Append(s, x)[i] = x)
           /\ Len(s) \in Nat
<1>1. /\ Append(s, x) \in Seq(S) /\ Len(s) \in Nat /\ DOMAIN s = 1 .. Len(s)
      /\ DOMAIN Append(s, x) = 1 .. Len(s) + 1
  OBVIOUS
<1>2. (\A i \in 1 .. Len(s) : Append(s, x)[i] = s[i]) /\ Append(s, x)[Len(s) + 1] = x
  OBVIOUS
<1> QED
  BY <1>1, <1>2

-----------------------------------------------------------------------------
(* A worker's session with its channel *)

\* Steps that change neither deliveries nor acknowledgements of w.
LEMMA CleanAlone ==
    ASSUME NEW w \in Workers, Clean(w),
           UNCHANGED <<chan[w], unacked[w], nextTag[w], memory[w], wire[w], step[w]>>
    PROVE  Clean(w)'
  BY DEF Clean, Tagged, IsAck

\* What is written is not an acknowledgement.
LEMMA CleanWrite ==
    ASSUME Typed, NEW w \in Workers, Clean(w), chan[w] = "open",
           UNCHANGED <<chan[w], unacked[w], nextTag[w], memory[w]>>,
           NEW ops \in Seq(Ops), wire'[w] = wire[w] \o ops,
           \A j \in DOMAIN ops : ~IsAck(ops[j])
    PROVE  Clean(w)'
<1>1. wire[w] \in Seq(Ops)
  BY DEF Typed
<1>2. \A i \in DOMAIN wire'[w] : IsAck(wire'[w][i]) => i \in DOMAIN wire[w] /\ wire'[w][i] = wire[w][i]
  BY <1>1, Joined
<1>3. Tagged(w)
  BY DEF Clean
<1>4. ASSUME NEW i \in DOMAIN wire'[w], IsAck(wire'[w][i])
      PROVE  i \in DOMAIN wire[w] /\ wire'[w][i] = wire[w][i] /\ IsAck(wire[w][i])
  BY <1>2, <1>4
<1>5. ASSUME NEW i \in DOMAIN wire'[w], IsAck(wire'[w][i])
      PROVE  \E d \in unacked'[w] : d.tag = wire'[w][i].tag
  <2>1. i \in DOMAIN wire[w] /\ wire'[w][i] = wire[w][i] /\ IsAck(wire[w][i])
    BY <1>4, <1>5
  <2>2. \E d \in unacked[w] : d.tag = wire[w][i].tag
    BY <1>3, <2>1 DEF Tagged
  <2> QED
    BY <2>1, <2>2
<1>6. \A i, j \in DOMAIN wire'[w] :
          IsAck(wire'[w][i]) /\ IsAck(wire'[w][j]) /\ wire'[w][i].tag = wire'[w][j].tag => i = j
  BY <1>3, <1>4 DEF Tagged
<1>7. \A i \in DOMAIN wire'[w], j \in DOMAIN memory'[w] :
          IsAck(wire'[w][i]) => wire'[w][i].tag # memory'[w][j].tag
  BY <1>3, <1>4 DEF Tagged
<1>8. Tagged(w)'
  BY <1>3, <1>5, <1>6, <1>7 DEF Tagged, IsAck
<1> QED
  BY <1>8 DEF Clean

\* The first delivery in memory is acknowledged, and forgotten.
LEMMA CleanFinish ==
    ASSUME Typed, NEW w \in Workers, Clean(w), chan[w] = "open", memory[w] # <<>>,
           UNCHANGED <<chan[w], unacked[w], nextTag[w]>>, memory'[w] = Tail(memory[w]),
           NEW ops \in Seq(Ops), wire'[w] = wire[w] \o ops,
           NEW k \in DOMAIN ops, ops[k].tag = memory[w][1].tag,
           \A j \in DOMAIN ops : IsAck(ops[j]) <=> j = k
    PROVE  Clean(w)'
<1>1. wire[w] \in Seq(Ops) /\ memory[w] \in Seq(Deliveries) /\ Tagged(w)
  BY DEF Typed, Clean
<1>2. /\ 1 \in DOMAIN memory[w]
      /\ \A i \in DOMAIN memory'[w] :
            i \in Nat /\ i + 1 \in DOMAIN memory[w] /\ memory'[w][i] = memory[w][i + 1]
  BY <1>1, Tailed
<1>3. \A i \in DOMAIN wire'[w] : IsAck(wire'[w][i]) =>
          \/ i \in DOMAIN wire[w] /\ wire'[w][i] = wire[w][i]
          \/ i = Len(wire[w]) + k /\ wire'[w][i].tag = memory[w][1].tag
  BY <1>1, Joined
<1>4. memory[w][1] \in unacked[w]
  BY <1>1, <1>2 DEF Tagged
<1>5. \A i \in DOMAIN wire[w] : IsAck(wire[w][i]) => wire[w][i].tag # memory[w][1].tag
  BY <1>1, <1>2 DEF Tagged
<1>6. \A i \in DOMAIN memory'[w] : memory'[w][i] \in unacked'[w]
  BY <1>1, <1>2 DEF Tagged
<1>7. ASSUME NEW i \in DOMAIN memory'[w], NEW j \in DOMAIN memory'[w],
             memory'[w][i].tag = memory'[w][j].tag
      PROVE  i = j
  <2>1. i + 1 = j + 1
    BY <1>1, <1>2, <1>7 DEF Tagged
  <2> QED
    BY <1>2, <2>1
<1>8. \A i \in DOMAIN memory'[w] : memory'[w][i].tag # memory[w][1].tag
  <2> SUFFICES ASSUME NEW i \in DOMAIN memory'[w], memory'[w][i].tag = memory[w][1].tag PROVE FALSE
    OBVIOUS
  <2>1. i + 1 = 1 /\ i \in Nat /\ i # 0
    <3>1. 0 \notin DOMAIN Tail(memory[w])
      BY <1>1
    <3> QED
      BY <1>1, <1>2, <3>1 DEF Tagged
  <2> QED
    BY <2>1
<1>9. ASSUME NEW i \in DOMAIN wire'[w], IsAck(wire'[w][i])
      PROVE  \E d \in unacked'[w] : d.tag = wire'[w][i].tag
  <2>1. CASE i \in DOMAIN wire[w] /\ wire'[w][i] = wire[w][i]
    <3>1. \E d \in unacked[w] : d.tag = wire[w][i].tag
      BY <1>1, <1>9, <2>1 DEF Tagged
    <3> QED
      BY <2>1, <3>1
  <2>2. CASE wire'[w][i].tag = memory[w][1].tag
    BY <1>4, <2>2
  <2> QED
    BY <1>3, <1>9, <2>1, <2>2
<1>10. ASSUME NEW i \in DOMAIN wire'[w], NEW j \in DOMAIN wire'[w], IsAck(wire'[w][i]),
              IsAck(wire'[w][j]), wire'[w][i].tag = wire'[w][j].tag
       PROVE  i = j
  <2>1. CASE i \in DOMAIN wire[w] /\ wire'[w][i] = wire[w][i]
    <3>1. wire'[w][j].tag # memory[w][1].tag
      BY <1>5, <1>10, <2>1
    <3>2. j \in DOMAIN wire[w] /\ wire'[w][j] = wire[w][j]
      BY <1>3, <1>10, <3>1
    <3> QED
      BY <1>1, <1>10, <2>1, <3>2 DEF Tagged
  <2>2. CASE i = Len(wire[w]) + k /\ wire'[w][i].tag = memory[w][1].tag
    <3>1. ~(j \in DOMAIN wire[w] /\ wire'[w][j] = wire[w][j])
      BY <1>5, <1>10, <2>2
    <3> QED
      BY <1>3, <1>10, <2>2, <3>1
  <2> QED
    BY <1>3, <1>10, <2>1, <2>2
<1>11. ASSUME NEW i \in DOMAIN wire'[w], NEW j \in DOMAIN memory'[w], IsAck(wire'[w][i])
       PROVE  wire'[w][i].tag # memory'[w][j].tag
  <2>1. CASE i \in DOMAIN wire[w] /\ wire'[w][i] = wire[w][i]
    <3>1. j + 1 \in DOMAIN memory[w] /\ memory'[w][j] = memory[w][j + 1] /\ IsAck(wire[w][i])
      BY <1>2, <1>11, <2>1
    <3> QED
      BY <1>1, <2>1, <3>1 DEF Tagged
  <2>2. CASE wire'[w][i].tag = memory[w][1].tag
    BY <1>8, <2>2
  <2> QED
    BY <1>3, <1>11, <2>1, <2>2
<1>12. Tagged(w)'
  BY <1>1, <1>6, <1>7, <1>9, <1>10, <1>11 DEF Tagged, IsAck
<1> QED
  BY <1>12 DEF Clean

LEMMA CleanDeliver ==
    ASSUME Typed, NEW w \in Workers, Clean(w), Deliver(w)
    PROVE  Clean(w)'
<1> DEFINE d == [tag |-> nextTag[w], block |-> Head(ready[w])]
<1>1. /\ chan[w] = "open" /\ ready[w] # <<>>
      /\ unacked'[w] = unacked[w] \cup {d} /\ memory'[w] = Append(memory[w], d)
      /\ nextTag'[w] = nextTag[w] + 1 /\ wire' = wire /\ chan' = chan
  BY DEF Deliver, Typed
<1>2. d \in Deliveries /\ d.tag = nextTag[w]
  BY <1>1 DEF Typed, Deliveries
<1> HIDE DEF d
<1>3. /\ memory[w] \in Seq(Deliveries) /\ Tagged(w) /\ nextTag[w] \in Nat
      /\ unacked[w] \subseteq Deliveries
  BY <1>1 DEF Typed, Clean
<1>4. /\ \A i \in DOMAIN memory'[w] :
            \/ i \in DOMAIN memory[w] /\ memory'[w][i] = memory[w][i]
            \/ i = Len(memory[w]) + 1 /\ memory'[w][i] = d
  BY <1>1, <1>2, <1>3, Appended
<1>5. \A e \in unacked[w] : e.tag \in Nat /\ e.tag < nextTag[w]
  BY <1>3 DEF Tagged, Deliveries
<1>6. /\ \A e \in unacked'[w] : e.tag < nextTag'[w]
      /\ \A e, f \in unacked'[w] : e.tag = f.tag => e = f
  BY <1>1, <1>2, <1>3, <1>5 DEF Tagged
<1>7. /\ \A i \in DOMAIN memory'[w] : memory'[w][i] \in unacked'[w]
      /\ \A i \in DOMAIN memory[w] : memory[w][i].tag # nextTag[w]
  BY <1>1, <1>3, <1>4, <1>5 DEF Tagged
<1>8. \A i, j \in DOMAIN memory'[w] : memory'[w][i].tag = memory'[w][j].tag => i = j
  BY <1>2, <1>3, <1>4, <1>7 DEF Tagged
<1>9. \A i \in DOMAIN wire[w] : IsAck(wire[w][i]) => wire[w][i].tag # nextTag[w]
  BY <1>3, <1>5 DEF Tagged
<1>10. \A i \in DOMAIN wire[w] : IsAck(wire[w][i]) => \E e \in unacked'[w] : e.tag = wire[w][i].tag
  BY <1>1, <1>3 DEF Tagged
<1>11. \A i \in DOMAIN wire[w], j \in DOMAIN memory'[w] :
          IsAck(wire[w][i]) => wire[w][i].tag # memory'[w][j].tag
  BY <1>2, <1>3, <1>4, <1>9 DEF Tagged
<1>12. Tagged(w)'
  BY <1>1, <1>3, <1>6, <1>7, <1>8, <1>10, <1>11 DEF Tagged, IsAck
<1> QED
  BY <1>1, <1>12 DEF Clean

\* The broker reads what is not an acknowledgement, or settles one.
LEMMA CleanRead ==
    ASSUME Typed, NEW w \in Workers, Clean(w), StoreDoc(w) \/ QueueTrace(w) \/ Settle(w)
    PROVE  Clean(w)'
<1>1. /\ wire[w] # <<>> /\ wire'[w] = Tail(wire[w])
      /\ UNCHANGED <<chan, nextTag, memory, step>>
      /\ wire[w] \in Seq(Ops)
  BY DEF StoreDoc, QueueTrace, Settle, Reads, TakeOp, Typed
<1>2. chan[w] = "open" /\ Tagged(w)
  BY <1>1 DEF Clean
<1>3. /\ 1 \in DOMAIN wire[w] /\ Head(wire[w]) = wire[w][1]
      /\ \A i \in DOMAIN wire'[w] :
            i \in Nat /\ i + 1 \in DOMAIN wire[w] /\ wire'[w][i] = wire[w][i + 1]
      /\ 0 \notin DOMAIN wire'[w]
  BY <1>1, Tailed
<1>4. unacked'[w] \subseteq unacked[w]
  BY DEF StoreDoc, QueueTrace, Settle, Typed
<1>5. ASSUME NEW i \in DOMAIN wire'[w], IsAck(wire'[w][i])
      PROVE  ~(IsAck(wire[w][1]) /\ wire[w][1].tag = wire'[w][i].tag)
  <2> SUFFICES ASSUME IsAck(wire[w][1]), wire[w][1].tag = wire'[w][i].tag PROVE FALSE
    OBVIOUS
  <2>1. 1 = i + 1
    BY <1>2, <1>3, <1>5 DEF Tagged
  <2> QED
    BY <1>3, <2>1
<1>6. \A e \in unacked[w] : e \in unacked'[w] \/ (IsAck(wire[w][1]) /\ e.tag = wire[w][1].tag)
  <2>1. CASE Settle(w)
    BY <1>3, <2>1 DEF Settle, Reads, Acked, IsAck, Typed
  <2>2. CASE StoreDoc(w) \/ QueueTrace(w)
    BY <2>2 DEF StoreDoc, QueueTrace
  <2> QED
    BY <2>1, <2>2
<1>7. \A i \in DOMAIN memory[w] : memory[w][i] \in unacked'[w]
  BY <1>2, <1>3, <1>6 DEF Tagged
<1>8. ASSUME NEW i \in DOMAIN wire'[w], IsAck(wire'[w][i])
      PROVE  \E e \in unacked'[w] : e.tag = wire'[w][i].tag
  <2>1. PICK e \in unacked[w] : e.tag = wire'[w][i].tag
    BY <1>2, <1>3, <1>8 DEF Tagged
  <2> QED
    BY <1>5, <1>6, <1>8, <2>1
<1>9. ASSUME NEW i \in DOMAIN wire'[w], NEW j \in DOMAIN wire'[w], IsAck(wire'[w][i]),
             IsAck(wire'[w][j]), wire'[w][i].tag = wire'[w][j].tag
      PROVE  i = j
  <2>1. i + 1 = j + 1
    BY <1>2, <1>3, <1>9 DEF Tagged
  <2> QED
    BY <1>3, <2>1
<1>10. Tagged(w)'
  BY <1>1, <1>2, <1>3, <1>4, <1>7, <1>8, <1>9 DEF Tagged, IsAck
<1> QED
  BY <1>1, <1>2, <1>10 DEF Clean

\* A clean session's acknowledgements are never refused.
LEMMA NeverRefused ==
    ASSUME Typed, NEW w \in Workers, Clean(w), RefuseAck(w)
    PROVE  FALSE
<1>1. wire[w] # <<>> /\ IsAck(Head(wire[w])) /\ Acked(w) = {} /\ wire[w] \in Seq(Ops)
  BY DEF RefuseAck, Reads, IsAck, Typed
<1>2. 1 \in DOMAIN wire[w] /\ Head(wire[w]) = wire[w][1]
  BY <1>1
<1>3. Tagged(w)
  BY <1>1 DEF Clean
<1>4. \E d \in unacked[w] : d.tag = Head(wire[w]).tag
  BY <1>1, <1>2, <1>3 DEF Tagged
<1> QED
  BY <1>1, <1>4 DEF Acked

LEMMA CleanStop ==
    ASSUME Typed, NEW w \in Workers, Stop(w)
    PROVE  Clean(w)'
  BY DEF Stop, Requeue, Clean, Typed

LEMMA CleanReturn ==
    ASSUME Typed, NEW w \in Workers, Clean(w), Return(w)
    PROVE  Clean(w)'
<1>1. chan[w] = "down" /\ Relaunch(w)
  <2>1. chan[w] = "open" \/ chan[w] = "down"
    BY DEF Clean
  <2>2. CASE Reconnect(w)
    BY <2>1, <2>2 DEF Reconnect
  <2>3. CASE Relaunch(w)
    BY <2>3 DEF Relaunch
  <2> QED
    BY <2>2, <2>3 DEF Return
<1>2. /\ chan'[w] = "open" /\ memory'[w] = <<>> /\ wire'[w] = <<>> /\ unacked'[w] = {}
  BY <1>1 DEF Relaunch, Clean, Typed
<1>3. Tagged(w)'
  BY <1>2 DEF Tagged
<1> QED
  BY <1>2, <1>3 DEF Clean

-----------------------------------------------------------------------------
(* Types *)

\* What is not settled returns to the queue, and what was in the queue stays.
LEMMA Requeued ==
    ASSUME Typed, NEW w \in Workers, Requeue(w)
    PROVE  /\ ready' \in [Workers -> Seq(Blocks)]
           /\ unacked' \in [Workers -> SUBSET Deliveries]
           /\ \A v \in Workers : IsFiniteSet(unacked'[v])
           /\ unacked'[w] = {}
           /\ \A b : b \in ToSet(ready[w]) => b \in ToSet(ready'[w])
           /\ \A d \in unacked[w] : d.block \in ToSet(ready'[w])
           /\ \A v \in Workers : v # w => ready'[v] = ready[v] /\ unacked'[v] = unacked[v]
<1>1. PICK ordered \in Surjection(1 .. Cardinality(unacked[w]), unacked[w]) :
          ready' = [ready EXCEPT ![w] = [i \in DOMAIN ordered |-> ordered[i].block] \o @]
  BY DEF Requeue
<1> DEFINE n == Cardinality(unacked[w])
           again == [i \in DOMAIN ordered |-> ordered[i].block]
<1>2. n \in Nat
  BY FS_CardinalityType DEF Typed
<1>3. /\ ordered \in [1 .. n -> unacked[w]]
      /\ \A d \in unacked[w] : \E i \in 1 .. n : ordered[i] = d
  BY <1>1 DEF Surjection
<1> HIDE DEF n
<1>4. again \in Seq(Blocks) /\ DOMAIN again = 1 .. n
      /\ \A i \in 1 .. n : again[i] = ordered[i].block
  <2>1. again = [i \in 1 .. n |-> ordered[i].block]
    BY <1>3
  <2>2. \A i \in 1 .. n : ordered[i].block \in Blocks
    <3>1. unacked[w] \subseteq Deliveries /\ \A d \in Deliveries : d.block \in Blocks
      BY DEF Typed, Deliveries
    <3>2. \A i \in 1 .. n : ordered[i] \in unacked[w]
      BY <1>3
    <3> QED
      BY <3>1, <3>2
  <2>3. again \in [1 .. n -> Blocks]
    BY <2>1, <2>2
  <2> QED
    BY <1>2, <2>1, <2>3
<1>5. ready'[w] = again \o ready[w] /\ ready[w] \in Seq(Blocks)
  BY <1>1 DEF Typed
<1> HIDE DEF again
<1>6. /\ ready'[w] \in Seq(Blocks)
      /\ \A b : b \in ToSet(ready[w]) => b \in ToSet(ready'[w])
      /\ \A i \in 1 .. n : again[i] \in ToSet(ready'[w])
  <2>1. /\ ready'[w] \in Seq(Blocks)
        /\ \A i \in DOMAIN again : i \in DOMAIN ready'[w] /\ ready'[w][i] = again[i]
        /\ \A j \in DOMAIN ready[w] :
              Len(again) + j \in DOMAIN ready'[w] /\ ready'[w][Len(again) + j] = ready[w][j]
    <3> DEFINE all == again \o ready[w]
    <3>1. again \in Seq(Blocks) /\ ready[w] \in Seq(Blocks)
      BY <1>4, <1>5
    <3>2. /\ all \in Seq(Blocks)
          /\ \A i \in DOMAIN again : i \in DOMAIN all /\ all[i] = again[i]
          /\ \A j \in DOMAIN ready[w] :
                Len(again) + j \in DOMAIN all /\ all[Len(again) + j] = ready[w][j]
      BY <3>1, Joined
    <3> QED
      BY <1>5, <3>2
  <2>2. ASSUME NEW b, b \in ToSet(ready[w]) PROVE b \in ToSet(ready'[w])
    <3>1. PICK j \in DOMAIN ready[w] : ready[w][j] = b
      BY <2>2 DEF ToSet
    <3>2. Len(again) + j \in DOMAIN ready'[w] /\ ready'[w][Len(again) + j] = b
      BY <2>1, <3>1
    <3> QED
      BY <3>2 DEF ToSet
  <2>3. \A i \in 1 .. n : again[i] \in ToSet(ready'[w])
    BY <1>4, <2>1 DEF ToSet
  <2> QED
    BY <2>1, <2>2, <2>3
<1>7. \A d \in unacked[w] : d.block \in ToSet(ready'[w])
  BY <1>3, <1>4, <1>6
<1>8. /\ unacked' = [unacked EXCEPT ![w] = {}]
      /\ unacked' \in [Workers -> SUBSET Deliveries] /\ unacked'[w] = {}
      /\ \A v \in Workers : v # w => unacked'[v] = unacked[v]
  BY DEF Requeue, Typed
<1>9. \A v \in Workers : IsFiniteSet(unacked'[v])
  BY <1>8, FS_EmptySet DEF Typed
<1>10. \A v \in Workers : v # w => ready'[v] = ready[v]
  BY <1>1 DEF Typed
<1>11. ready' \in [Workers -> Seq(Blocks)]
  <2>1. DOMAIN ready' = Workers /\ ready' = [v \in Workers |-> ready'[v]]
    BY <1>1 DEF Typed
  <2>2. \A v \in Workers : ready'[v] \in Seq(Blocks)
    BY <1>6, <1>10 DEF Typed
  <2> QED
    BY <2>1, <2>2
<1> QED
  BY <1>6, <1>7, <1>8, <1>9, <1>10, <1>11

LEMMA Wrote ==
    ASSUME Typed, NEW w \in Workers, NEW ops \in Seq(Ops), Write(w, ops)
    PROVE  /\ wire' \in [Workers -> Seq(Ops)] /\ wire'[w] = wire[w] \o ops
           /\ \A v \in Workers : v # w => wire'[v] = wire[v]
<1>1. wire[w] \o ops \in Seq(Ops)
  BY DEF Typed
<1> QED
  BY <1>1 DEF Typed, Write

LEMMA Took ==
    ASSUME Typed, NEW w \in Workers, wire[w] # <<>>, TakeOp(w)
    PROVE  /\ wire' \in [Workers -> Seq(Ops)] /\ wire'[w] = Tail(wire[w])
           /\ \A v \in Workers : v # w => wire'[v] = wire[v]
           /\ Head(wire[w]) \in Ops
<1>1. Tail(wire[w]) \in Seq(Ops) /\ Head(wire[w]) \in Ops
  BY DEF Typed
<1> QED
  BY <1>1 DEF Typed, TakeOp

LEMMA Forgot ==
    ASSUME Typed, NEW w \in Workers, memory[w] # <<>>, NextDelivery(w)
    PROVE  /\ memory' \in [Workers -> Seq(Deliveries)] /\ memory'[w] = Tail(memory[w])
           /\ \A v \in Workers : v # w => memory'[v] = memory[v] /\ step'[v] = step[v]
           /\ step' \in [Workers -> {"idle", "traces", "block", "redis"}]
           /\ step'[w] = "idle"
<1>1. Tail(memory[w]) \in Seq(Deliveries)
  BY DEF Typed
<1> QED
  BY <1>1 DEF Typed, NextDelivery

LEMMA CurrentIs ==
    ASSUME Typed, NEW w \in Workers, memory[w] # <<>>
    PROVE  /\ Current(w) = memory[w][1] /\ Current(w) \in Deliveries
           /\ Current(w).block \in Blocks /\ 1 \in DOMAIN memory[w]
<1>1. memory[w] \in Seq(Deliveries)
  BY DEF Typed
<1>2. Head(memory[w]) = memory[w][1] /\ Head(memory[w]) \in Deliveries /\ 1 \in DOMAIN memory[w]
  BY <1>1, Tailed
<1> QED
  BY <1>2 DEF Current, Deliveries

LEMMA Single == ASSUME NEW S, NEW x \in S
                PROVE  <<x>> \in Seq(S) /\ DOMAIN <<x>> = {1} /\ <<x>>[1] = x
  OBVIOUS

LEMMA Pair == ASSUME NEW S, NEW x \in S, NEW y \in S
              PROVE  /\ <<x, y>> \in Seq(S) /\ DOMAIN <<x, y>> = {1, 2}
                     /\ <<x, y>>[1] = x /\ <<x, y>>[2] = y
  OBVIOUS

LEMMA TypedInit == Init => Typed
<1> SUFFICES ASSUME Init PROVE Typed
  OBVIOUS
<1>1. [b \in Blocks |-> b] \in Seq(Blocks)
  BY DEF Blocks
<1>2. ready \in [Workers -> Seq(Blocks)]
  BY <1>1 DEF Init
<1>3. /\ unacked \in [Workers -> SUBSET Deliveries] /\ \A w \in Workers : IsFiniteSet(unacked[w])
      /\ nextTag \in [Workers -> Nat \ {0}] /\ docs \subseteq Docs
      /\ chan \in [Workers -> {"open", "lost", "closed", "down"}]
  BY FS_EmptySet DEF Init
<1>4. /\ wire \in [Workers -> Seq(Ops)] /\ memory \in [Workers -> Seq(Deliveries)]
      /\ backpressure \in Seq(Blocks)
  BY DEF Init
<1>5. /\ step \in [Workers -> {"idle", "traces", "block", "redis"}]
      /\ \A w \in Workers : step[w] = "idle"
  BY DEF Init
<1>6. waitToSend \in BOOLEAN /\ full \in BOOLEAN /\ txCache \in BOOLEAN /\ jammed \in BOOLEAN
  BY DEF Init
<1>7. losses \in Nat /\ crashes \in Nat /\ fulls \in Nat
  BY DEF Init
<1> QED
  BY <1>2, <1>3, <1>4, <1>5, <1>6, <1>7 DEF Typed, Workers

\* Steps of the workers: broker and channels keep theirs.
TypedWorkers ==
    /\ wire \in [Workers -> Seq(Ops)] /\ memory \in [Workers -> Seq(Deliveries)]
    /\ step \in [Workers -> {"idle", "traces", "block", "redis"}]
    /\ \A w \in Workers : step[w] # "idle" => memory[w] # <<>>
    /\ step["pool"] \in {"idle", "redis"}
    /\ waitToSend \in BOOLEAN /\ full \in BOOLEAN /\ jammed \in BOOLEAN
    /\ backpressure \in Seq(Blocks)
    /\ fulls \in Nat

LEMMA TypedByWorkers ==
    ASSUME Typed, TypedWorkers', UNCHANGED <<brokerVars, chan, txCache, losses, crashes>>
    PROVE  Typed'
<1>1. UNCHANGED <<ready, unacked, nextTag, docs, chan, txCache, losses, crashes>>
  BY DEF brokerVars
<1> QED
  BY <1>1 DEF Typed, TypedWorkers

LEMMA TypedDs ==
    ASSUME Typed, DsStep
    PROVE  Typed'
<1>1. UNCHANGED <<brokerVars, chan, txCache, losses, crashes, fulls, jammed, full>>
  BY DEF DsStep, PublishDeltas, RouteTrace, FinishBlock, bounds, dsVars
<1>2. fulls' \in Nat /\ jammed' \in BOOLEAN /\ full' \in BOOLEAN
  BY <1>1 DEF Typed
<1>3. "ds" \in Workers /\ "pool" \in Workers /\ \A w \in Workers : w = "ds" \/ w = "pool"
  BY DEF Workers
<1>4. memory["ds"] # <<>>
  BY <1>3 DEF DsStep, PublishDeltas, RouteTrace, FinishBlock, Typed
<1>5. /\ Current("ds").block \in Blocks /\ Current("ds") \in Deliveries
  BY <1>3, <1>4, CurrentIs
<1>6. CASE PublishDeltas
  <2>1. <<Doc("delta", Current("ds").block)>> \in Seq(Ops)
    BY <1>5, OpsTyped, Single
  <2>2. wire' \in [Workers -> Seq(Ops)]
    BY <1>3, <1>6, <2>1, Wrote DEF PublishDeltas
  <2>3. /\ memory' = memory /\ waitToSend' = waitToSend /\ backpressure' = backpressure
        /\ step' = [step EXCEPT !["ds"] = "traces"]
    BY <1>6 DEF PublishDeltas, dsVars
  <2>4. /\ step' \in [Workers -> {"idle", "traces", "block", "redis"}]
        /\ \A w \in Workers : step'[w] # "idle" => memory'[w] # <<>>
        /\ step'["pool"] \in {"idle", "redis"} /\ memory' \in [Workers -> Seq(Deliveries)]
    BY <1>3, <1>4, <2>3 DEF Typed
  <2>5. waitToSend' \in BOOLEAN /\ backpressure' \in Seq(Blocks)
    BY <2>3 DEF Typed
  <2>6. TypedWorkers'
    BY <1>2, <2>2, <2>4, <2>5 DEF TypedWorkers
  <2> QED
    BY <1>1, <2>6, TypedByWorkers
<1>7. CASE RouteTrace
  <2>1. <<Trace(Current("ds").block)>> \in Seq(Ops)
    BY <1>5, OpsTyped, Single
  <2>2. wire' \in [Workers -> Seq(Ops)]
    <3>1. wire' = wire \/ Write("ds", <<Trace(Current("ds").block)>>)
      BY <1>7 DEF RouteTrace
    <3>2. wire \in [Workers -> Seq(Ops)]
      BY DEF Typed
    <3> QED
      BY <1>3, <2>1, <3>1, <3>2, Wrote
  <2>3. /\ memory' = memory /\ step' = [step EXCEPT !["ds"] = "block"]
    BY <1>7 DEF RouteTrace
  <2>4. /\ step' \in [Workers -> {"idle", "traces", "block", "redis"}]
        /\ \A w \in Workers : step'[w] # "idle" => memory'[w] # <<>>
        /\ step'["pool"] \in {"idle", "redis"} /\ memory' \in [Workers -> Seq(Deliveries)]
    BY <1>3, <1>4, <2>3 DEF Typed
  <2>5. waitToSend' \in BOOLEAN
    BY <1>7 DEF RouteTrace, Typed
  <2>6. backpressure' \in Seq(Blocks)
    <3>1. backpressure \in Seq(Blocks)
      BY DEF Typed
    <3>2. backpressure' = backpressure \/ backpressure' = Append(backpressure, Current("ds").block)
      BY <1>7 DEF RouteTrace, Backpressure
    <3> QED
      BY <1>5, <3>1, <3>2, Appended
  <2>7. TypedWorkers'
    BY <1>2, <2>2, <2>4, <2>5, <2>6 DEF TypedWorkers
  <2> QED
    BY <1>1, <2>7, TypedByWorkers
<1>8. CASE FinishBlock
  <2>1. BlockOps(Current("ds")) \in Seq(Ops)
    BY <1>5, OpsTyped, Pair DEF BlockOps
  <2>2. wire' \in [Workers -> Seq(Ops)]
    BY <1>3, <1>8, <2>1, Wrote DEF FinishBlock
  <2>3. waitToSend' \in BOOLEAN /\ backpressure' \in Seq(Blocks)
    BY <1>8 DEF FinishBlock, dsVars, Typed
  <2>4. /\ memory' \in [Workers -> Seq(Deliveries)]
        /\ \A v \in Workers : v # "ds" => memory'[v] = memory[v] /\ step'[v] = step[v]
        /\ step' \in [Workers -> {"idle", "traces", "block", "redis"}]
        /\ step'["ds"] = "idle"
    BY <1>3, <1>4, <1>8, Forgot DEF FinishBlock
  <2>5. /\ \A w \in Workers : step'[w] # "idle" => memory'[w] # <<>>
        /\ step'["pool"] \in {"idle", "redis"}
    BY <1>3, <2>4 DEF Typed
  <2>6. TypedWorkers'
    BY <1>2, <2>2, <2>3, <2>4, <2>5 DEF TypedWorkers
  <2> QED
    BY <1>1, <2>6, TypedByWorkers
<1> QED
  BY <1>6, <1>7, <1>8 DEF DsStep

LEMMA TypedPool ==
    ASSUME Typed, PoolStep
    PROVE  Typed'
<1>1. UNCHANGED <<brokerVars, chan, txCache, losses, crashes, fulls, waitToSend, backpressure, full>>
  BY DEF PoolStep, ProcessTrace, AckTrace, bounds, dsVars
<1>2. fulls' \in Nat /\ waitToSend' \in BOOLEAN /\ full' \in BOOLEAN /\ backpressure' \in Seq(Blocks)
  BY <1>1 DEF Typed
<1>3. "ds" \in Workers /\ "pool" \in Workers /\ \A w \in Workers : w = "ds" \/ w = "pool"
  BY DEF Workers
<1>4. memory["pool"] # <<>>
  BY <1>3 DEF PoolStep, ProcessTrace, AckTrace, Typed
<1>5. /\ Current("pool").block \in Blocks /\ Current("pool") \in Deliveries
  BY <1>3, <1>4, CurrentIs
<1>6. /\ <<Ack(Current("pool"))>> \in Seq(Ops)
      /\ <<Doc("action", Current("pool").block)>> \in Seq(Ops)
  BY <1>5, OpsTyped, Single
<1>7. Written(Current("pool")) \in Seq(Ops)
  <2>1. AckOps(Current("pool")) \in Seq(Ops) /\ ActionOps(Current("pool")) \in Seq(Ops)
    BY <1>6 DEF AckOps, ActionOps
  <2> QED
    BY <2>1 DEF Written
<1>8. wire' \in [Workers -> Seq(Ops)]
  <2>1. \/ wire' = wire \/ Write("pool", <<Ack(Current("pool"))>>)
        \/ Write("pool", Written(Current("pool")))
    BY DEF PoolStep, ProcessTrace, AckTrace
  <2>2. wire \in [Workers -> Seq(Ops)]
    BY DEF Typed
  <2> QED
    BY <1>3, <1>6, <1>7, <2>1, <2>2, Wrote
<1>9. jammed' \in BOOLEAN
  BY DEF PoolStep, ProcessTrace, AckTrace, Typed
<1>10. /\ memory' \in [Workers -> Seq(Deliveries)]
       /\ step' \in [Workers -> {"idle", "traces", "block", "redis"}]
       /\ \A w \in Workers : step'[w] # "idle" => memory'[w] # <<>>
       /\ step'["pool"] \in {"idle", "redis"}
  <2>1. CASE NextDelivery("pool")
    <3>1. /\ memory' \in [Workers -> Seq(Deliveries)]
          /\ \A v \in Workers : v # "pool" => memory'[v] = memory[v] /\ step'[v] = step[v]
          /\ step' \in [Workers -> {"idle", "traces", "block", "redis"}]
          /\ step'["pool"] = "idle"
      BY <1>3, <1>4, <2>1, Forgot
    <3> QED
      BY <1>3, <3>1 DEF Typed
  <2>2. CASE step' = [step EXCEPT !["pool"] = "redis"] /\ memory' = memory
    BY <1>3, <1>4, <2>2 DEF Typed
  <2> QED
    BY <2>1, <2>2 DEF PoolStep, ProcessTrace, AckTrace
<1>11. TypedWorkers'
  BY <1>2, <1>8, <1>9, <1>10 DEF TypedWorkers
<1> QED
  BY <1>1, <1>11, TypedByWorkers

LEMMA TypedBuffer ==
    ASSUME Typed, FillBuffer \/ Drain
    PROVE  Typed'
<1>1. CASE FillBuffer
  <2>1. UNCHANGED <<brokerVars, chan, wire, memory, step, waitToSend, backpressure, jammed,
                    txCache, losses, crashes>>
    BY <1>1 DEF FillBuffer
  <2>2. fulls' \in Nat /\ full' \in BOOLEAN
    BY <1>1 DEF FillBuffer, Typed
  <2>3. waitToSend' \in BOOLEAN /\ jammed' \in BOOLEAN
    BY <2>1 DEF Typed
  <2>4. TypedWorkers'
    BY <2>1, <2>2, <2>3 DEF TypedWorkers, Typed
  <2> QED
    BY <2>1, <2>4, TypedByWorkers
<1>2. CASE Drain
  <2>1. UNCHANGED <<brokerVars, chan, memory, step, jammed, txCache, losses, crashes>>
    BY <1>2 DEF Drain
  <2>2. PICK k \in 0 .. Len(backpressure), again \in BOOLEAN :
          /\ Write("ds", [i \in 1 .. k |-> Trace(backpressure[i])])
          /\ backpressure' = SubSeq(backpressure, k + 1, Len(backpressure))
          /\ waitToSend' = again /\ full' = again
          /\ fulls' = IF again THEN fulls + 1 ELSE fulls
    BY <1>2 DEF Drain, WaitsAfterDrain
  <2>3. backpressure \in Seq(Blocks) /\ fulls \in Nat
    BY DEF Typed
  <2>4. backpressure' \in Seq(Blocks)
    BY <2>2, <2>3
  <2>5. [i \in 1 .. k |-> Trace(backpressure[i])] \in Seq(Ops)
    <3>1. \A i \in 1 .. k : backpressure[i] \in Blocks
      BY <2>3
    <3>2. \A i \in 1 .. k : Trace(backpressure[i]) \in Ops
      BY <3>1, OpsTyped
    <3>3. [i \in 1 .. k |-> Trace(backpressure[i])] \in [1 .. k -> Ops]
      BY <3>2
    <3>4. k \in Nat
      BY <2>3
    <3> QED
      BY <3>3, <3>4
  <2>6. wire' \in [Workers -> Seq(Ops)]
    BY <2>2, <2>5, Wrote DEF Workers
  <2>7. fulls' \in Nat /\ waitToSend' \in BOOLEAN /\ full' \in BOOLEAN /\ jammed' \in BOOLEAN
    <3>1. jammed' \in BOOLEAN
      BY <2>1 DEF Typed
    <3> QED
      BY <2>2, <2>3, <3>1
  <2>8. TypedWorkers'
    BY <2>1, <2>4, <2>6, <2>7 DEF TypedWorkers, Typed
  <2> QED
    BY <2>1, <2>8, TypedByWorkers
<1> QED
  BY <1>1, <1>2

\* Steps of the broker and of the channels: the workers keep their buffers.
TypedBroker ==
    /\ ready \in [Workers -> Seq(Blocks)]
    /\ unacked \in [Workers -> SUBSET Deliveries]
    /\ \A w \in Workers : IsFiniteSet(unacked[w])
    /\ nextTag \in [Workers -> Nat \ {0}]
    /\ docs \subseteq Docs
    /\ chan \in [Workers -> {"open", "lost", "closed", "down"}]
    /\ wire \in [Workers -> Seq(Ops)]
    /\ memory \in [Workers -> Seq(Deliveries)]
    /\ \A w \in Workers : step[w] # "idle" => memory[w] # <<>>

LEMMA TypedByBroker ==
    ASSUME Typed, TypedBroker', UNCHANGED <<step, dsVars, jammed, txCache, bounds>>
    PROVE  Typed'
<1>1. UNCHANGED <<step, waitToSend, backpressure, full, jammed, txCache, losses, crashes, fulls>>
  BY DEF dsVars, bounds
<1> QED
  BY <1>1 DEF Typed, TypedBroker

LEMMA TypedDeliver ==
    ASSUME Typed, NEW w \in Workers, Deliver(w)
    PROVE  Typed'
<1> DEFINE d == [tag |-> nextTag[w], block |-> Head(ready[w])]
<1>1. /\ ready[w] # <<>>
      /\ unacked' = [unacked EXCEPT ![w] = @ \cup {d}]
      /\ memory' = [memory EXCEPT ![w] = Append(@, d)]
      /\ ready' = [ready EXCEPT ![w] = Tail(@)]
      /\ nextTag' = [nextTag EXCEPT ![w] = @ + 1]
      /\ UNCHANGED <<docs, chan, wire, step, dsVars, jammed, txCache, bounds>>
  BY DEF Deliver
<1>2. /\ ready[w] \in Seq(Blocks) /\ nextTag[w] \in Nat \ {0}
      /\ unacked[w] \subseteq Deliveries /\ memory[w] \in Seq(Deliveries)
      /\ IsFiniteSet(unacked[w])
  BY DEF Typed
<1>3. Head(ready[w]) \in Blocks /\ Tail(ready[w]) \in Seq(Blocks)
  BY <1>1, <1>2, Tailed
<1>4. d \in Deliveries
  BY <1>2, <1>3 DEF Deliveries
<1> HIDE DEF d
<1>5. Append(memory[w], d) \in Seq(Deliveries) /\ Append(memory[w], d) # <<>>
  BY <1>2, <1>4
<1>6. unacked[w] \cup {d} \subseteq Deliveries /\ IsFiniteSet(unacked[w] \cup {d})
  BY <1>2, <1>4, FS_AddElement
<1>7. ready' \in [Workers -> Seq(Blocks)]
  BY <1>1, <1>3 DEF Typed
<1>8. /\ unacked' \in [Workers -> SUBSET Deliveries]
      /\ \A v \in Workers : IsFiniteSet(unacked'[v])
  BY <1>1, <1>6 DEF Typed
<1>9. nextTag' \in [Workers -> Nat \ {0}]
  <2>1. nextTag[w] + 1 \in Nat \ {0}
    BY <1>2
  <2> QED
    BY <1>1, <2>1 DEF Typed
<1>10. /\ memory' \in [Workers -> Seq(Deliveries)]
       /\ \A v \in Workers : memory'[v] = memory[v] \/ memory'[v] # <<>>
  BY <1>1, <1>5 DEF Typed
<1>11. \A v \in Workers : step'[v] # "idle" => memory'[v] # <<>>
  BY <1>1, <1>10 DEF Typed
<1>12. TypedBroker'
  BY <1>1, <1>7, <1>8, <1>9, <1>10, <1>11 DEF TypedBroker, Typed
<1> QED
  BY <1>1, <1>12, TypedByBroker

LEMMA TypedRead ==
    ASSUME Typed, NEW w \in Workers, StoreDoc(w) \/ QueueTrace(w) \/ Settle(w)
    PROVE  Typed'
<1>1. /\ wire[w] # <<>> /\ TakeOp(w)
      /\ UNCHANGED <<nextTag, chan, memory, step, dsVars, jammed, txCache, bounds>>
  BY DEF StoreDoc, QueueTrace, Settle, Reads
<1>2. wire' \in [Workers -> Seq(Ops)] /\ Head(wire[w]) \in Ops
  BY <1>1, Took
<1>3. \A v \in Workers : step'[v] # "idle" => memory'[v] # <<>>
  BY <1>1 DEF Typed
<1>4. CASE StoreDoc(w)
  <2>1. docs' \subseteq Docs
    <3>1. Head(wire[w]).doc \in Docs
      BY <1>2, <1>4, OpsOfAKind DEF StoreDoc, Reads
    <3> QED
      BY <1>4, <3>1 DEF StoreDoc, Typed
  <2>2. ready' = ready /\ unacked' = unacked
    BY <1>4 DEF StoreDoc
  <2>3. TypedBroker'
    BY <1>1, <1>2, <1>3, <2>1, <2>2 DEF TypedBroker, Typed
  <2> QED
    BY <1>1, <2>3, TypedByBroker
<1>5. CASE QueueTrace(w)
  <2>1. ready' \in [Workers -> Seq(Blocks)]
    <3>1. Head(wire[w]).block \in Blocks /\ ready["pool"] \in Seq(Blocks)
      BY <1>2, <1>5, OpsOfAKind DEF QueueTrace, Reads, Typed, Workers
    <3>2. Append(ready["pool"], Head(wire[w]).block) \in Seq(Blocks)
      BY <3>1
    <3> QED
      BY <1>5, <3>2 DEF QueueTrace, Typed
  <2>2. docs' = docs /\ unacked' = unacked
    BY <1>5 DEF QueueTrace
  <2>3. TypedBroker'
    BY <1>1, <1>2, <1>3, <2>1, <2>2 DEF TypedBroker, Typed
  <2> QED
    BY <1>1, <2>3, TypedByBroker
<1>6. CASE Settle(w)
  <2>1. /\ unacked' = [unacked EXCEPT ![w] = @ \ Acked(w)]
        /\ docs' = docs /\ ready' = ready
    BY <1>6 DEF Settle
  <2>2. unacked[w] \ Acked(w) \subseteq Deliveries /\ IsFiniteSet(unacked[w] \ Acked(w))
    BY FS_Difference DEF Typed
  <2>3. /\ unacked' \in [Workers -> SUBSET Deliveries]
        /\ \A v \in Workers : IsFiniteSet(unacked'[v])
    BY <2>1, <2>2 DEF Typed
  <2>4. TypedBroker'
    BY <1>1, <1>2, <1>3, <2>1, <2>3 DEF TypedBroker, Typed
  <2> QED
    BY <1>1, <2>4, TypedByBroker
<1> QED
  BY <1>4, <1>5, <1>6

LEMMA TypedChannel ==
    ASSUME Typed, NEW w \in Workers, RefuseAck(w) \/ LoseConnection(w)
    PROVE  Typed'
<1>1. /\ Requeue(w)
      /\ chan' = [chan EXCEPT ![w] = "closed"] \/ chan' = [chan EXCEPT ![w] = "lost"]
      /\ wire' = [wire EXCEPT ![w] = <<>>]
      /\ UNCHANGED <<nextTag, docs, memory, step, waitToSend, backpressure, jammed, txCache,
                     crashes, fulls>>
  BY DEF RefuseAck, LoseConnection, bounds
<1>2. full' \in BOOLEAN
  BY DEF RefuseAck, LoseConnection, Typed
<1>3. losses' \in Nat
  BY DEF RefuseAck, LoseConnection, Typed, bounds
<1>4. <<>> \in Seq(Ops)
  OBVIOUS
<1>5. wire' \in [Workers -> Seq(Ops)]
  BY <1>1, <1>4 DEF Typed
<1>6. chan' \in [Workers -> {"open", "lost", "closed", "down"}]
  BY <1>1 DEF Typed
<1>7. /\ ready' \in [Workers -> Seq(Blocks)] /\ unacked' \in [Workers -> SUBSET Deliveries]
      /\ \A v \in Workers : IsFiniteSet(unacked'[v])
  BY <1>1, Requeued
<1>8. waitToSend' \in BOOLEAN /\ jammed' \in BOOLEAN /\ txCache' \in BOOLEAN
  BY <1>1 DEF Typed
<1> QED
  BY <1>1, <1>2, <1>3, <1>5, <1>6, <1>7, <1>8 DEF Typed

LEMMA TypedStop ==
    ASSUME Typed, NEW w \in Workers, Stop(w), crashes' = crashes + 1, UNCHANGED <<losses, fulls>>
    PROVE  Typed'
<1>1. /\ Requeue(w)
      /\ chan' = [chan EXCEPT ![w] = "down"]
      /\ wire' = [wire EXCEPT ![w] = <<>>]
      /\ memory' = [memory EXCEPT ![w] = <<>>]
      /\ step' = [step EXCEPT ![w] = "idle"]
      /\ UNCHANGED <<nextTag, docs, txCache>>
  BY DEF Stop
<1>2. full' \in BOOLEAN /\ waitToSend' \in BOOLEAN /\ jammed' \in BOOLEAN
  BY DEF Stop, Typed
<1>3. losses' \in Nat /\ crashes' \in Nat /\ fulls' \in Nat
  BY DEF Typed
<1>4. <<>> \in Seq(Ops) /\ <<>> \in Seq(Deliveries) /\ <<>> \in Seq(Blocks)
  OBVIOUS
<1>5. wire' \in [Workers -> Seq(Ops)] /\ memory' \in [Workers -> Seq(Deliveries)]
  BY <1>1, <1>4 DEF Typed
<1>6. chan' \in [Workers -> {"open", "lost", "closed", "down"}]
  BY <1>1 DEF Typed
<1>7. /\ ready' \in [Workers -> Seq(Blocks)] /\ unacked' \in [Workers -> SUBSET Deliveries]
      /\ \A v \in Workers : IsFiniteSet(unacked'[v])
  BY <1>1, Requeued
<1>8. backpressure' \in Seq(Blocks)
  BY <1>4 DEF Stop, Typed
<1>9. /\ step' \in [Workers -> {"idle", "traces", "block", "redis"}]
      /\ step'["pool"] \in {"idle", "redis"}
      /\ \A v \in Workers : step'[v] # "idle" => memory'[v] # <<>>
  BY <1>1 DEF Typed, Workers
<1>10. txCache' \in BOOLEAN /\ nextTag' \in [Workers -> Nat \ {0}] /\ docs' \subseteq Docs
  BY <1>1 DEF Typed
<1> QED
  BY <1>2, <1>3, <1>5, <1>6, <1>7, <1>8, <1>9, <1>10 DEF Typed

LEMMA TypedReturn ==
    ASSUME Typed, NEW w \in Workers, Return(w)
    PROVE  Typed'
<1>1. /\ chan' = [chan EXCEPT ![w] = "open"]
      /\ nextTag' = [nextTag EXCEPT ![w] = 1]
      /\ UNCHANGED <<ready, unacked, docs, wire, memory, step, dsVars, jammed, txCache, bounds>>
  BY DEF Return, Reconnect, Relaunch
<1>2. TypedBroker'
  BY <1>1 DEF TypedBroker, Typed
<1> QED
  BY <1>1, <1>2, TypedByBroker

LEMMA TypedNext == Typed /\ [Next]_vars => Typed'
<1> SUFFICES ASSUME Typed, [Next]_vars PROVE Typed'
  OBVIOUS
<1>1. ASSUME NEW w \in Workers, BrokerStep(w) PROVE Typed'
  BY <1>1, TypedDeliver, TypedRead, TypedChannel DEF BrokerStep
<1>2. ASSUME NEW w \in Workers, Crash(w) \/ DieOfChannelError(w) PROVE Typed'
  BY <1>2, TypedStop DEF Crash, DieOfChannelError
<1>3. CASE UNCHANGED vars
  BY <1>3 DEF vars, brokerVars, dsVars, bounds, Typed
<1> QED
  BY <1>1, <1>2, <1>3, TypedDs, TypedPool, TypedBuffer, TypedChannel, TypedReturn DEF Next
-----------------------------------------------------------------------------
(* The deserializer's documents *)

DsGood == Clean("ds") /\ SettledIsStored

LEMMA BothWorkers == /\ "ds" \in Workers /\ "pool" \in Workers
                     /\ \A w \in Workers : w = "ds" \/ w = "pool"
  BY DEF Workers

\* Steps that do not touch the deserializer nor its queue.
LEMMA DsUntouched ==
    ASSUME UNCHANGED <<chan["ds"], unacked["ds"], nextTag["ds"], memory["ds"], wire["ds"],
                       step["ds"], ready["ds"]>>, docs \subseteq docs'
    PROVE  (DsGood => DsGood') /\ (KeptInMemory => KeptInMemory')
<1>1. \A kind, b : Sent(kind, b) => Sent(kind, b)'
  BY DEF Sent, OnWire
<1>2. \A b : Owed("ds", b) => Owed("ds", b)'
  BY DEF Owed
<1>3. ASSUME DsGood PROVE DsGood'
  <2>1. Clean("ds")'
    BY <1>3, CleanAlone, BothWorkers DEF DsGood
  <2>2. \A b \in Blocks : Owed("ds", b)' \/ Stored(b)'
    BY <1>2, <1>3 DEF DsGood, SettledIsStored, Stored
  <2>3. ASSUME NEW i \in DOMAIN wire'["ds"], NEW d \in unacked'["ds"],
               IsAck(wire'["ds"][i]) /\ wire'["ds"][i].tag = d.tag,
               NEW kind \in {"delta", "block"}
        PROVE  <<kind, d.block>> \in docs' \/ WrittenBefore("ds", Doc(kind, d.block), i)'
    <3>1. <<kind, d.block>> \in docs \/ WrittenBefore("ds", Doc(kind, d.block), i)
      BY <1>3, <2>3 DEF DsGood, SettledIsStored
    <3> QED
      BY <3>1 DEF WrittenBefore
  <2>4. step'["ds"] # "idle" => Sent("delta", memory["ds"][1].block)'
    <3>1. step["ds"] # "idle" => Sent("delta", memory["ds"][1].block)
      BY <1>3 DEF DsGood, SettledIsStored
    <3>2. memory'["ds"][1].block = memory["ds"][1].block
      OBVIOUS
    <3> QED
      BY <3>1, <3>2 DEF Sent, OnWire
  <2>5. SettledIsStored'
    BY <2>2, <2>3, <2>4 DEF SettledIsStored, IsAck
  <2> QED
    BY <2>1, <2>5 DEF DsGood
<1>4. ASSUME KeptInMemory PROVE KeptInMemory'
  <2>1. \A i : WillWrite(i) => WillWrite(i)'
    BY DEF WillWrite, Sent, OnWire
  <2>2. \A b : Kept(b) => Kept(b)'
    BY <1>1, <2>1 DEF Kept, Sent2
  <2> QED
    BY <1>2, <1>4, <2>2 DEF KeptInMemory
<1> QED
  BY <1>3, <1>4

\* What was written stays on the wire when more follows.
LEMMA WireGrows ==
    ASSUME Typed, NEW w \in Workers, NEW ops \in Seq(Ops), wire'[w] = wire[w] \o ops
    PROVE  /\ \A o : OnWire(w, o) => OnWire(w, o)'
           /\ \A o, n : WrittenBefore(w, o, n) => WrittenBefore(w, o, n)'
           /\ \A o : OnWire(w, o) => \A n \in Nat : n > Len(wire[w]) => WrittenBefore(w, o, n)'
           /\ \A j \in DOMAIN ops : /\ OnWire(w, ops[j])' 
                                    /\ \A n : n > Len(wire[w]) + j => WrittenBefore(w, ops[j], n)'
<1>1. wire[w] \in Seq(Ops)
  BY DEF Typed
<1>2. /\ \A i \in DOMAIN wire[w] :
            i \in DOMAIN wire'[w] /\ wire'[w][i] = wire[w][i] /\ i <= Len(wire[w])
      /\ \A j \in DOMAIN ops :
            Len(wire[w]) + j \in DOMAIN wire'[w] /\ wire'[w][Len(wire[w]) + j] = ops[j]
  <2>1. \A i \in DOMAIN wire[w] :
            i \in DOMAIN wire'[w] /\ wire'[w][i] = wire[w][i] /\ i <= Len(wire[w])
    BY <1>1, Joined
  <2>2. \A j \in DOMAIN ops :
            Len(wire[w]) + j \in DOMAIN wire'[w] /\ wire'[w][Len(wire[w]) + j] = ops[j]
    BY <1>1, Joined
  <2> QED
    BY <2>1, <2>2
<1>3. \A o : OnWire(w, o) => OnWire(w, o)'
  BY <1>2 DEF OnWire
<1>4. \A o, n : WrittenBefore(w, o, n) => WrittenBefore(w, o, n)'
  BY <1>2 DEF WrittenBefore
<1>5. ASSUME NEW o, OnWire(w, o), NEW n \in Nat, n > Len(wire[w])
      PROVE  WrittenBefore(w, o, n)'
  <2>1. PICK i \in DOMAIN wire[w] : wire[w][i] = o
    BY <1>5 DEF OnWire
  <2>2. i \in Nat /\ Len(wire[w]) \in Nat /\ i <= Len(wire[w])
    BY <1>1, <1>2
  <2>3. i < n
    BY <1>5, <2>2
  <2> QED
    BY <1>2, <2>1, <2>3 DEF WrittenBefore
<1>6. \A j \in DOMAIN ops : OnWire(w, ops[j])'
  BY <1>2 DEF OnWire
<1>7. ASSUME NEW j \in DOMAIN ops, NEW n, n > Len(wire[w]) + j
      PROVE  WrittenBefore(w, ops[j], n)'
  <2>1. Len(wire[w]) + j < n
    BY <1>7
  <2> QED
    BY <1>2, <2>1 DEF WrittenBefore
<1> QED
  BY <1>3, <1>4, <1>5, <1>6, <1>7

LEMMA WireSplits ==
    ASSUME Typed, NEW w \in Workers, NEW ops \in Seq(Ops), wire'[w] = wire[w] \o ops,
           NEW i \in DOMAIN wire'[w]
    PROVE  \/ i \in DOMAIN wire[w] /\ wire'[w][i] = wire[w][i]
           \/ \E j \in DOMAIN ops : i = Len(wire[w]) + j /\ wire'[w][i] = ops[j]
<1>1. wire[w] \in Seq(Ops)
  BY DEF Typed
<1> QED
  BY <1>1, Joined

\* The deserializer writes no acknowledgement.
LEMMA DsWrites ==
    ASSUME Typed, UNCHANGED <<ready, unacked, nextTag, docs, chan, memory>>,
           Clean("ds") => chan["ds"] = "open",
           NEW ops \in Seq(Ops), wire'["ds"] = wire["ds"] \o ops,
           \A j \in DOMAIN ops : ~IsAck(ops[j]),
           \/ step'["ds"] = "idle" \/ step["ds"] # "idle"
           \/ \E j \in DOMAIN ops : ops[j] = Doc("delta", memory["ds"][1].block)
    PROVE  (DsGood => DsGood') /\ (KeptInMemory => KeptInMemory')
<1>1. /\ \A o : OnWire("ds", o) => OnWire("ds", o)'
      /\ \A o, n : WrittenBefore("ds", o, n) => WrittenBefore("ds", o, n)'
      /\ \A j \in DOMAIN ops : OnWire("ds", ops[j])'
  BY WireGrows, BothWorkers
<1>2. \A kind, b : Sent(kind, b) => Sent(kind, b)'
  BY <1>1 DEF Sent
<1>3. \A b : Owed("ds", b) => Owed("ds", b)'
  BY DEF Owed
<1>4. memory'["ds"][1].block = memory["ds"][1].block
  OBVIOUS
<1>5. wire["ds"] \in Seq(Ops)
  BY BothWorkers DEF Typed
<1>6. step'["ds"] # "idle" =>
          \/ step["ds"] # "idle"
          \/ Sent("delta", memory["ds"][1].block)'
  BY <1>1, <1>4 DEF Sent
<1>7. ASSUME DsGood PROVE DsGood'
  <2>1. Clean("ds")'
    BY <1>7, CleanWrite, BothWorkers DEF DsGood
  <2>2. \A b \in Blocks : Owed("ds", b)' \/ Stored(b)'
    BY <1>3, <1>7 DEF DsGood, SettledIsStored, Stored
  <2>3. ASSUME NEW i \in DOMAIN wire'["ds"], NEW d \in unacked'["ds"],
               IsAck(wire'["ds"][i]) /\ wire'["ds"][i].tag = d.tag,
               NEW kind \in {"delta", "block"}
        PROVE  <<kind, d.block>> \in docs' \/ WrittenBefore("ds", Doc(kind, d.block), i)'
    <3>1. i \in DOMAIN wire["ds"] /\ wire'["ds"][i] = wire["ds"][i]
      BY <1>5, <2>3, Joined
    <3>2. <<kind, d.block>> \in docs \/ WrittenBefore("ds", Doc(kind, d.block), i)
      BY <1>7, <2>3, <3>1 DEF DsGood, SettledIsStored
    <3> QED
      BY <1>1, <3>2
  <2>4. step'["ds"] # "idle" => Sent("delta", memory["ds"][1].block)'
    <3>1. step["ds"] # "idle" => Sent("delta", memory["ds"][1].block)
      BY <1>7 DEF DsGood, SettledIsStored
    <3>2. step["ds"] # "idle" => Sent("delta", memory["ds"][1].block)'
      BY <1>1, <1>4, <3>1 DEF Sent
    <3> QED
      BY <1>6, <3>2
  <2>5. SettledIsStored'
    BY <2>2, <2>3, <2>4 DEF SettledIsStored, IsAck
  <2> QED
    BY <2>1, <2>5 DEF DsGood
<1>8. ASSUME KeptInMemory PROVE KeptInMemory'
  <2>1. ASSUME NEW i \in DOMAIN memory["ds"], WillWrite(i) PROVE WillWrite(i)'
    <3> SUFFICES ASSUME i = 1, step'["ds"] # "idle" PROVE Sent("delta", memory["ds"][i].block)'
      BY DEF WillWrite
    <3>1. CASE step["ds"] # "idle"
      <4>1. Sent("delta", memory["ds"][1].block)
        BY <2>1, <3>1 DEF WillWrite
      <4>2. Sent("delta", memory["ds"][1].block)'
        BY <1>1, <1>4, <4>1 DEF Sent
      <4> QED
        BY <4>2
    <3>2. CASE step["ds"] = "idle"
      BY <1>6, <3>2
    <3> QED
      BY <3>1, <3>2
  <2>2. \A b : Kept(b) => Kept(b)'
    BY <1>2, <2>1 DEF Kept, Sent2
  <2> QED
    BY <1>3, <1>8, <2>2 DEF KeptInMemory
<1> QED
  BY <1>7, <1>8

\* The light block, then the acknowledgement: on the wire both documents are ahead of it.
LEMMA DsFinishes ==
    ASSUME Typed, FinishBlock
    PROVE  (DsGood => DsGood') /\ (KeptInMemory => KeptInMemory')
<1> PICK cur : cur = memory["ds"][1]
  OBVIOUS
<1> PICK ops : ops = BlockOps(Current("ds"))
  OBVIOUS
<1> PICK len : len = Len(wire["ds"])
  OBVIOUS
<1>1. /\ step["ds"] = "block" /\ chan["ds"] = "open" /\ Write("ds", ops) /\ NextDelivery("ds")
      /\ memory["ds"] # <<>>
      /\ UNCHANGED <<ready, unacked, nextTag, docs, chan>>
  BY BothWorkers DEF FinishBlock, brokerVars, Typed
<1>2. /\ Current("ds") = cur /\ cur \in Deliveries /\ cur.block \in Blocks /\ 1 \in DOMAIN memory["ds"]
  BY <1>1, CurrentIs, BothWorkers
<1>3. /\ ops \in Seq(Ops) /\ DOMAIN ops = {1, 2}
      /\ ops[1] = Doc("block", cur.block) /\ ops[2] = Ack(cur)
  BY <1>2, OpsTyped, Pair DEF BlockOps
<1>4. ~IsAck(ops[1]) /\ IsAck(ops[2]) /\ ops[2].tag = cur.tag
  BY <1>3, WhatOpsAre DEF IsAck
<1>5. /\ memory'["ds"] = Tail(memory["ds"]) /\ step'["ds"] = "idle"
      /\ memory["ds"] \in Seq(Deliveries)
  BY <1>1, Forgot, BothWorkers DEF Typed
<1>6. wire'["ds"] = wire["ds"] \o ops /\ wire["ds"] \in Seq(Ops) /\ len \in Nat
  <2>1. wire["ds"] \in Seq(Ops)
    BY BothWorkers DEF Typed
  <2>2. wire'["ds"] = wire["ds"] \o ops
    BY <1>1, <1>3, Wrote, BothWorkers
  <2> QED
    BY <2>1, <2>2
<1>7. /\ \A o : OnWire("ds", o) => OnWire("ds", o)'
      /\ \A o, n : WrittenBefore("ds", o, n) => WrittenBefore("ds", o, n)'
      /\ \A o : OnWire("ds", o) => WrittenBefore("ds", o, len + 2)'
      /\ OnWire("ds", Doc("block", cur.block))'
      /\ WrittenBefore("ds", Doc("block", cur.block), len + 2)'
  <2>1. len + 2 \in Nat /\ len + 2 > len /\ len + 2 > len + 1
    BY <1>6
  <2>2. /\ \A o : OnWire("ds", o) => OnWire("ds", o)'
        /\ \A o, n : WrittenBefore("ds", o, n) => WrittenBefore("ds", o, n)'
        /\ \A o : OnWire("ds", o) => \A n \in Nat : n > len => WrittenBefore("ds", o, n)'
        /\ \A j \in DOMAIN ops : /\ OnWire("ds", ops[j])'
                                 /\ \A n : n > len + j => WrittenBefore("ds", ops[j], n)'
    BY <1>3, <1>6, WireGrows, BothWorkers
  <2>3. 1 \in DOMAIN ops
    BY <1>3
  <2>4. OnWire("ds", ops[1])' /\ WrittenBefore("ds", ops[1], len + 2)'
    BY <2>1, <2>2, <2>3
  <2> QED
    BY <1>3, <2>1, <2>2, <2>4
<1>8. \A kind, b : Sent(kind, b) => Sent(kind, b)'
  BY <1>1, <1>7 DEF Sent
<1>9. \A b : Owed("ds", b) => Owed("ds", b)'
  BY <1>1 DEF Owed
<1>10. ASSUME DsGood PROVE DsGood'
  <2>1. Clean("ds")'
    <3>1. \A j \in DOMAIN ops : IsAck(ops[j]) <=> j = 2
      BY <1>3, <1>4
    <3>2. 2 \in DOMAIN ops /\ ops[2].tag = memory["ds"][1].tag /\ ops \in Seq(Ops)
      BY <1>3, <1>4
    <3>3. UNCHANGED <<chan["ds"], unacked["ds"], nextTag["ds"]>> /\ Clean("ds")
      BY <1>1, <1>10 DEF DsGood
    <3> QED
      BY <1>1, <1>5, <1>6, <3>1, <3>2, <3>3, CleanFinish, BothWorkers
  <2>2. \A b \in Blocks : Owed("ds", b)' \/ Stored(b)'
    BY <1>1, <1>9, <1>10 DEF DsGood, SettledIsStored, Stored
  <2>3. Tagged("ds") /\ cur \in unacked["ds"]
    BY <1>1, <1>2, <1>10 DEF DsGood, Clean, Tagged
  <2>4. ASSUME NEW i \in DOMAIN wire'["ds"], NEW d \in unacked'["ds"],
               IsAck(wire'["ds"][i]) /\ wire'["ds"][i].tag = d.tag,
               NEW kind \in {"delta", "block"}
        PROVE  <<kind, d.block>> \in docs' \/ WrittenBefore("ds", Doc(kind, d.block), i)'
    <3>1. \/ i \in DOMAIN wire["ds"] /\ wire'["ds"][i] = wire["ds"][i]
          \/ \E j \in DOMAIN ops : i = len + j /\ wire'["ds"][i] = ops[j]
      <4>1. ops \in Seq(Ops) /\ wire'["ds"] = wire["ds"] \o ops
        BY <1>3, <1>6
      <4>2. \/ i \in DOMAIN wire["ds"] /\ wire'["ds"][i] = wire["ds"][i]
            \/ \E j \in DOMAIN ops : i = Len(wire["ds"]) + j /\ wire'["ds"][i] = ops[j]
        BY <4>1, WireSplits, BothWorkers, Zenon
      <4> QED
        BY <4>2
    <3>2. CASE i \in DOMAIN wire["ds"] /\ wire'["ds"][i] = wire["ds"][i]
      <4>1. <<kind, d.block>> \in docs \/ WrittenBefore("ds", Doc(kind, d.block), i)
        BY <1>1, <1>10, <2>4, <3>2 DEF DsGood, SettledIsStored
      <4> QED
        BY <1>1, <1>7, <4>1
    <3>3. CASE \E j \in DOMAIN ops : i = len + j /\ wire'["ds"][i] = ops[j]
      <4>1. i = len + 2 /\ wire'["ds"][i].tag = cur.tag
        BY <1>3, <1>4, <2>4, <3>3
      <4>2. d = cur
        BY <1>1, <2>3, <2>4, <4>1 DEF Tagged
      <4>3. CASE kind = "delta"
        <5>1. Sent("delta", cur.block)
          BY <1>1, <1>10 DEF DsGood, SettledIsStored
        <5> QED
          BY <1>1, <1>7, <4>1, <4>2, <4>3, <5>1 DEF Sent
      <4>4. CASE kind = "block"
        BY <1>7, <4>1, <4>2, <4>4
      <4> QED
        BY <4>3, <4>4
    <3> QED
      BY <3>1, <3>2, <3>3
  <2>5. SettledIsStored'
    BY <1>5, <2>2, <2>4 DEF SettledIsStored, IsAck
  <2> QED
    BY <2>1, <2>5 DEF DsGood
<1>11. ASSUME KeptInMemory PROVE KeptInMemory'
  <2>1. \A i \in DOMAIN memory["ds"] : i = 1 \/ (/\ i - 1 \in DOMAIN memory'["ds"]
                                                 /\ memory'["ds"][i - 1] = memory["ds"][i])
    BY <1>1, <1>5, Tailed
  <2>2. ASSUME NEW b, NEW i \in DOMAIN memory["ds"], memory["ds"][i].block = b, WillWrite(i)
        PROVE  Kept(b)'
    <3>1. CASE i = 1
      <4>1. Sent("delta", b)
        BY <1>1, <2>2, <3>1 DEF WillWrite
      <4>2. b = cur.block /\ Sent("delta", b)'
        BY <1>8, <2>2, <3>1, <4>1
      <4>3. Sent("block", b)'
        BY <1>7, <4>2 DEF Sent
      <4> QED
        BY <4>2, <4>3 DEF Kept, Sent2
    <3>2. CASE i - 1 \in DOMAIN memory'["ds"] /\ memory'["ds"][i - 1] = memory["ds"][i]
      <4>1. WillWrite(i - 1)'
        BY <1>5 DEF WillWrite
      <4> QED
        BY <2>2, <3>2, <4>1 DEF Kept
    <3> QED
      BY <2>1, <3>1, <3>2
  <2>3. \A b : Kept(b) => Kept(b)'
    <3> SUFFICES ASSUME NEW b, Kept(b) PROVE Kept(b)'
      OBVIOUS
    <3>1. CASE Sent2(b)
      BY <1>8, <3>1 DEF Kept, Sent2
    <3> QED
      BY <2>2, <3>1 DEF Kept
  <2> QED
    BY <1>1, <1>9, <1>11, <2>3 DEF KeptInMemory
<1> QED
  BY <1>10, <1>11

LEMMA DsDelivered ==
    ASSUME Typed, Deliver("ds")
    PROVE  (DsGood => DsGood') /\ (KeptInMemory => KeptInMemory')
<1> PICK d : d = [tag |-> nextTag["ds"], block |-> Head(ready["ds"])]
  OBVIOUS
<1> PICK last : last = Len(memory["ds"]) + 1
  OBVIOUS
<1>1. /\ chan["ds"] = "open" /\ ready["ds"] # <<>>
      /\ unacked'["ds"] = unacked["ds"] \cup {d} /\ memory'["ds"] = Append(memory["ds"], d)
      /\ ready'["ds"] = Tail(ready["ds"])
      /\ UNCHANGED <<docs, wire, step, chan>>
  BY BothWorkers DEF Deliver, Typed
<1>2. ready["ds"] \in Seq(Blocks) /\ nextTag["ds"] \in Nat \ {0} /\ memory["ds"] \in Seq(Deliveries)
  BY BothWorkers DEF Typed
<1>3. d \in Deliveries /\ d.tag = nextTag["ds"] /\ d.block = Head(ready["ds"])
  <2>1. Head(ready["ds"]) \in Blocks
    BY <1>1, <1>2, Tailed
  <2> QED
    BY <1>2, <2>1 DEF Deliveries
<1>4. /\ \A i \in DOMAIN memory["ds"] :
            i \in DOMAIN memory'["ds"] /\ memory'["ds"][i] = memory["ds"][i]
      /\ last \in DOMAIN memory'["ds"]
      /\ memory'["ds"][last] = d
  BY <1>1, <1>2, <1>3, Appended
<1>5. step["ds"] # "idle" =>
          1 \in DOMAIN memory["ds"] /\ last # 1
  <2>1. step["ds"] # "idle" => memory["ds"] # <<>>
    BY BothWorkers DEF Typed
  <2> QED
    BY <1>2, <2>1
<1>6. \A b : b \in ToSet(ready["ds"]) => b = d.block \/ b \in ToSet(ready'["ds"])
  <2> SUFFICES ASSUME NEW i \in DOMAIN ready["ds"], ready["ds"][i] # d.block
               PROVE  ready["ds"][i] \in ToSet(ready'["ds"])
    BY DEF ToSet
  <2>1. /\ Head(ready["ds"]) = ready["ds"][1]
        /\ i = 1 \/ (i - 1 \in DOMAIN Tail(ready["ds"]) /\ Tail(ready["ds"])[i - 1] = ready["ds"][i])
    BY <1>1, <1>2, Tailed
  <2> QED
    BY <1>1, <1>3, <2>1 DEF ToSet
<1>7. \A b : Owed("ds", b) => Owed("ds", b)'
  <2> SUFFICES ASSUME NEW b, Owed("ds", b) PROVE Owed("ds", b)'
    OBVIOUS
  <2>1. CASE b \in ToSet(ready["ds"])
    BY <1>1, <1>6, <2>1 DEF Owed
  <2>2. CASE \E e \in unacked["ds"] : e.block = b
    BY <1>1, <2>2 DEF Owed
  <2> QED
    BY <2>1, <2>2 DEF Owed
<1>8. ASSUME NEW kind, NEW b, Sent(kind, b) PROVE Sent(kind, b)'
  BY <1>1, <1>8 DEF Sent, OnWire
<1>9. ASSUME DsGood PROVE DsGood'
  <2>1. Clean("ds")'
    BY <1>9, CleanDeliver, BothWorkers DEF DsGood
  <2>2. \A b \in Blocks : Owed("ds", b)' \/ Stored(b)'
    BY <1>1, <1>7, <1>9 DEF DsGood, SettledIsStored, Stored
  <2>3. \A e \in unacked["ds"] : e.tag # d.tag
    <3>1. Tagged("ds")
      BY <1>1, <1>9 DEF DsGood, Clean
    <3>2. \A e \in unacked["ds"] : e.tag \in Nat /\ e.tag < nextTag["ds"]
      BY <3>1, BothWorkers DEF Tagged, Typed, Deliveries
    <3> QED
      BY <1>2, <1>3, <3>2
  <2>4. \A i \in DOMAIN wire["ds"] : IsAck(wire["ds"][i]) => wire["ds"][i].tag # d.tag
    <3>1. Tagged("ds")
      BY <1>1, <1>9 DEF DsGood, Clean
    <3> QED
      BY <2>3, <3>1 DEF Tagged
  <2>5. ASSUME NEW i \in DOMAIN wire'["ds"], NEW e \in unacked'["ds"],
               IsAck(wire'["ds"][i]) /\ wire'["ds"][i].tag = e.tag,
               NEW kind \in {"delta", "block"}
        PROVE  <<kind, e.block>> \in docs' \/ WrittenBefore("ds", Doc(kind, e.block), i)'
    <3>1. e \in unacked["ds"]
      BY <1>1, <2>4, <2>5
    <3>2. <<kind, e.block>> \in docs \/ WrittenBefore("ds", Doc(kind, e.block), i)
      BY <1>1, <1>9, <2>5, <3>1 DEF DsGood, SettledIsStored
    <3> QED
      BY <1>1, <3>2 DEF WrittenBefore
  <2>6. step'["ds"] # "idle" => Sent("delta", memory["ds"][1].block)'
    <3>1. step["ds"] # "idle" => Sent("delta", memory["ds"][1].block)
      BY <1>9 DEF DsGood, SettledIsStored
    <3>2. step["ds"] # "idle" => memory'["ds"][1].block = memory["ds"][1].block
      BY <1>4, <1>5
    <3> QED
      BY <1>1, <3>1, <3>2 DEF Sent, OnWire
  <2>7. SettledIsStored'
    BY <2>2, <2>5, <2>6 DEF SettledIsStored, IsAck
  <2> QED
    BY <2>1, <2>7 DEF DsGood
<1>10. ASSUME KeptInMemory PROVE KeptInMemory'
  <2>1. ASSUME NEW i \in DOMAIN memory["ds"], WillWrite(i) PROVE WillWrite(i)'
    <3>1. step' = step /\ memory'["ds"][i].block = memory["ds"][i].block
      BY <1>1, <1>4
    <3> QED
      BY <1>1, <2>1, <3>1 DEF WillWrite, Sent, OnWire
  <2>2. \A b : Kept(b) => Kept(b)'
    BY <1>4, <1>8, <2>1 DEF Kept, Sent2
  <2>3. Kept(d.block)'
    <3>1. WillWrite(last)'
      BY <1>1, <1>5 DEF WillWrite
    <3> QED
      BY <1>4, <3>1 DEF Kept
  <2>4. \A e \in unacked'["ds"] : Kept(e.block)'
    BY <1>1, <1>10, <2>2, <2>3 DEF KeptInMemory
  <2> QED
    BY <1>7, <1>10, <2>2, <2>4 DEF KeptInMemory
<1> QED
  BY <1>9, <1>10

\* The broker reads one operation: a document is stored, and what an acknowledgement
\* settles was stored before.
LEMMA DsRead ==
    ASSUME Typed, StoreDoc("ds") \/ QueueTrace("ds") \/ Settle("ds")
    PROVE  (DsGood => DsGood') /\ (KeptInMemory => KeptInMemory')
<1> PICK first : first = Head(wire["ds"])
  OBVIOUS
<1>1. /\ wire["ds"] # <<>> /\ wire'["ds"] = Tail(wire["ds"])
      /\ UNCHANGED <<nextTag, chan, memory, step>>
      /\ wire["ds"] \in Seq(Ops)
  <2>1. wire["ds"] # <<>> /\ TakeOp("ds") /\ UNCHANGED <<nextTag, chan, memory, step>>
    BY DEF StoreDoc, QueueTrace, Settle, Reads
  <2> QED
    BY <2>1, Took, BothWorkers DEF Typed
<1>2. /\ first = wire["ds"][1] /\ 1 \in DOMAIN wire["ds"]
      /\ \A i \in DOMAIN wire'["ds"] :
            i \in Nat /\ i + 1 \in DOMAIN wire["ds"] /\ wire'["ds"][i] = wire["ds"][i + 1]
      /\ \A i \in DOMAIN wire["ds"] :
            i = 1 \/ (i \in Nat /\ i - 1 \in DOMAIN wire'["ds"] /\ wire'["ds"][i - 1] = wire["ds"][i])
  BY <1>1, Tailed
<1>3. ready'["ds"] = ready["ds"] /\ docs \subseteq docs' /\ unacked'["ds"] \subseteq unacked["ds"]
  <2>1. CASE StoreDoc("ds")
    BY <2>1 DEF StoreDoc
  <2>2. CASE QueueTrace("ds")
    BY <2>2, BothWorkers DEF QueueTrace, Typed
  <2>3. CASE Settle("ds")
    BY <2>3, BothWorkers DEF Settle, Typed
  <2> QED
    BY <2>1, <2>2, <2>3
<1>4. ASSUME NEW kind, NEW b, first = Doc(kind, b) PROVE <<kind, b>> \in docs'
  <2>1. first.op = "doc" /\ first.doc = <<kind, b>>
    BY <1>4, WhatOpsAre
  <2>2. StoreDoc("ds")
    BY <2>1 DEF StoreDoc, QueueTrace, Settle, Reads
  <2> QED
    BY <2>1, <2>2 DEF StoreDoc
<1>5. ASSUME NEW o, OnWire("ds", o), o # first PROVE OnWire("ds", o)'
  <2>1. PICK i \in DOMAIN wire["ds"] : wire["ds"][i] = o
    BY <1>5 DEF OnWire
  <2>2. i - 1 \in DOMAIN wire'["ds"] /\ wire'["ds"][i - 1] = o
    BY <1>2, <1>5, <2>1
  <2> QED
    BY <2>2 DEF OnWire
<1>6. ASSUME NEW o, NEW n \in Nat, WrittenBefore("ds", o, n + 1), o # first
      PROVE  WrittenBefore("ds", o, n)'
  <2>1. PICK i \in DOMAIN wire["ds"] : wire["ds"][i] = o /\ i < n + 1
    BY <1>6 DEF WrittenBefore
  <2>2. i - 1 \in DOMAIN wire'["ds"] /\ wire'["ds"][i - 1] = o /\ i \in Nat
    BY <1>2, <1>6, <2>1
  <2>3. i - 1 < n
    BY <2>1, <2>2
  <2> QED
    BY <2>2, <2>3 DEF WrittenBefore
<1>7. ASSUME NEW kind, NEW b, Sent(kind, b) PROVE Sent(kind, b)'
  <2>1. CASE <<kind, b>> \in docs
    BY <1>3, <2>1 DEF Sent
  <2>2. CASE OnWire("ds", Doc(kind, b))
    BY <1>4, <1>5, <2>2 DEF Sent
  <2> QED
    BY <1>7, <2>1, <2>2 DEF Sent
<1>8. ASSUME NEW d \in unacked["ds"], d \notin unacked'["ds"]
      PROVE  IsAck(wire["ds"][1]) /\ wire["ds"][1].tag = d.tag
  <2>1. Settle("ds")
    BY <1>8 DEF StoreDoc, QueueTrace
  <2>2. d \in Acked("ds")
    BY <1>8, <2>1, BothWorkers DEF Settle, Typed
  <2> QED
    BY <1>2, <2>1, <2>2 DEF Settle, Reads, Acked, IsAck
<1>9. ASSUME NEW b, Owed("ds", b)
      PROVE  Owed("ds", b)' \/ \E d \in unacked["ds"] : d \notin unacked'["ds"] /\ d.block = b
  BY <1>3, <1>9 DEF Owed
<1>10. ASSUME DsGood PROVE DsGood'
  <2>1. Clean("ds")'
    BY <1>10, CleanRead, BothWorkers DEF DsGood
  <2>2. ASSUME NEW b \in Blocks PROVE Owed("ds", b)' \/ Stored(b)'
    <3>1. CASE Stored(b)
      BY <1>3, <3>1 DEF Stored
    <3>2. CASE \E d \in unacked["ds"] : d \notin unacked'["ds"] /\ d.block = b
      <4>1. PICK d \in unacked["ds"] : d \notin unacked'["ds"] /\ d.block = b
        BY <3>2
      <4>2. \A kind \in {"delta", "block"} :
                <<kind, b>> \in docs \/ WrittenBefore("ds", Doc(kind, b), 1)
        BY <1>2, <1>8, <1>10, <4>1 DEF DsGood, SettledIsStored
      <4>3. \A o : ~WrittenBefore("ds", o, 1)
        BY <1>1 DEF WrittenBefore
      <4>4. Stored(b)
        BY <4>2, <4>3 DEF Stored
      <4> QED
        BY <1>3, <4>4 DEF Stored
    <3> QED
      BY <1>9, <1>10, <3>1, <3>2 DEF DsGood, SettledIsStored
  <2>3. ASSUME NEW i \in DOMAIN wire'["ds"], NEW d \in unacked'["ds"],
               IsAck(wire'["ds"][i]) /\ wire'["ds"][i].tag = d.tag,
               NEW kind \in {"delta", "block"}
        PROVE  <<kind, d.block>> \in docs' \/ WrittenBefore("ds", Doc(kind, d.block), i)'
    <3>1. <<kind, d.block>> \in docs \/ WrittenBefore("ds", Doc(kind, d.block), i + 1)
      BY <1>2, <1>3, <1>10, <2>3 DEF DsGood, SettledIsStored
    <3>2. CASE <<kind, d.block>> \in docs \/ Doc(kind, d.block) = first
      BY <1>3, <1>4, <3>2
    <3> QED
      BY <1>2, <1>6, <3>1, <3>2
  <2>4. step'["ds"] # "idle" => Sent("delta", memory["ds"][1].block)'
    <3> PICK b : b = memory["ds"][1].block
      OBVIOUS
    <3>1. step["ds"] # "idle" => Sent("delta", b)
      BY <1>10 DEF DsGood, SettledIsStored
    <3>2. step'["ds"] # "idle" => Sent("delta", b)'
      BY <1>1, <1>7, <3>1
    <3> QED
      BY <1>1, <3>2 DEF Sent, OnWire
  <2>5. SettledIsStored'
    BY <2>2, <2>3, <2>4 DEF SettledIsStored, IsAck
  <2> QED
    BY <2>1, <2>5 DEF DsGood
<1>11. ASSUME KeptInMemory PROVE KeptInMemory'
  <2>1. ASSUME NEW i \in DOMAIN memory["ds"], WillWrite(i) PROVE WillWrite(i)'
    <3> PICK b : b = memory["ds"][i].block
      OBVIOUS
    <3>1. i = 1 /\ step["ds"] # "idle" => Sent("delta", b)
      BY <2>1 DEF WillWrite
    <3>2. i = 1 /\ step'["ds"] # "idle" => Sent("delta", b)'
      BY <1>1, <1>7, <3>1
    <3> QED
      BY <1>1, <3>2 DEF WillWrite, Sent, OnWire
  <2>2. \A b : Kept(b) => Kept(b)'
    <3> SUFFICES ASSUME NEW b, Kept(b) PROVE Kept(b)'
      OBVIOUS
    <3>1. CASE Sent2(b)
      BY <1>7, <3>1 DEF Kept, Sent2
    <3>2. CASE \E i \in DOMAIN memory["ds"] : memory["ds"][i].block = b /\ WillWrite(i)
      BY <1>1, <2>1, <3>2 DEF Kept
    <3> QED
      BY <3>1, <3>2 DEF Kept
  <2>3. \A b \in Blocks : Owed("ds", b)' \/ Kept(b)'
    BY <1>9, <1>11, <2>2 DEF KeptInMemory
  <2>4. \A d \in unacked'["ds"] : Kept(d.block)'
    BY <1>3, <1>11, <2>2 DEF KeptInMemory
  <2> QED
    BY <2>3, <2>4 DEF KeptInMemory
<1> QED
  BY <1>10, <1>11

\* The process ends: everything that is not settled is delivered again.
LEMMA DsStopped ==
    ASSUME Typed, Stop("ds"), DsGood
    PROVE  DsGood'
<1>1. Clean("ds")'
  BY CleanStop, BothWorkers
<1>2. /\ wire'["ds"] = <<>> /\ step'["ds"] = "idle" /\ docs' = docs /\ Requeue("ds")
  BY BothWorkers DEF Stop, Typed
<1>3. \A b : Owed("ds", b) => Owed("ds", b)'
  <2>1. /\ \A b : b \in ToSet(ready["ds"]) => b \in ToSet(ready'["ds"])
        /\ \A d \in unacked["ds"] : d.block \in ToSet(ready'["ds"])
    BY <1>2, Requeued, BothWorkers
  <2> QED
    BY <2>1 DEF Owed
<1>4. \A b \in Blocks : Owed("ds", b)' \/ Stored(b)'
  BY <1>2, <1>3 DEF DsGood, SettledIsStored, Stored
<1>5. SettledIsStored'
  BY <1>2, <1>4 DEF SettledIsStored
<1> QED
  BY <1>1, <1>5 DEF DsGood

\* The connection is lost: the queue has what is not settled, the memory keeps it too.
LEMMA DsLosesConnection ==
    ASSUME Typed, LoseConnection("ds"), DsGood
    PROVE  KeptInMemory'
<1>1. docs' = docs /\ Requeue("ds") /\ unacked'["ds"] = {}
  BY Requeued, BothWorkers DEF LoseConnection
<1>2. \A b : Owed("ds", b) => Owed("ds", b)'
  BY <1>1, Requeued, BothWorkers DEF Owed
<1>3. \A b : Stored(b) => Sent2(b)'
  BY <1>1 DEF Stored, Sent2, Sent
<1>4. \A b \in Blocks : Owed("ds", b)' \/ Kept(b)'
  BY <1>2, <1>3 DEF DsGood, SettledIsStored, Kept
<1> QED
  BY <1>1, <1>4 DEF KeptInMemory

LEMMA DsReturns ==
    ASSUME Typed, Return("ds")
    PROVE  (DsGood => DsGood') /\ (KeptInMemory => KeptInMemory')
<1>1. UNCHANGED <<ready, unacked, docs, wire, memory, step>>
  BY DEF Return, Reconnect, Relaunch
<1>2. Clean("ds") => Clean("ds")'
  BY CleanReturn, BothWorkers
<1>3. SettledIsStored => SettledIsStored'
  BY <1>1 DEF SettledIsStored, Owed, Stored, IsAck, WrittenBefore, Sent, OnWire
<1>4. KeptInMemory => KeptInMemory'
  BY <1>1 DEF KeptInMemory, Owed, Kept, WillWrite, Sent2, Sent, OnWire
<1> QED
  BY <1>2, <1>3, <1>4 DEF DsGood

\* A step in which no connection is lost and no process ends.
LEMMA BlockInvByStep ==
    ASSUME Typed, BlockInv, UNCHANGED <<losses, crashes>>,
           chan'["ds"] # "closed" => chan["ds"] # "closed",
           (DsGood => DsGood') /\ (KeptInMemory => KeptInMemory')
    PROVE  BlockInv'
<1>1. losses' = 0 => DsGood'
  BY DEF BlockInv, DsGood
<1>2. losses' + crashes' = 1 /\ chan'["ds"] # "closed" => DsGood' \/ KeptInMemory'
  BY DEF BlockInv, DsGood
<1> QED
  BY <1>1, <1>2 DEF BlockInv, DsGood

LEMMA BlockInvInit == Init => BlockInv
<1> SUFFICES ASSUME Init PROVE BlockInv
  OBVIOUS
<1>1. /\ ready["ds"] = [b \in Blocks |-> b] /\ unacked["ds"] = {} /\ wire["ds"] = <<>>
      /\ memory["ds"] = <<>> /\ step["ds"] = "idle" /\ chan["ds"] = "open"
      /\ losses = 0 /\ crashes = 0
  BY BothWorkers DEF Init
<1>2. Clean("ds")
  BY <1>1 DEF Clean, Tagged
<1>3. \A b \in Blocks : Owed("ds", b)
  BY <1>1 DEF Owed, ToSet
<1>4. SettledIsStored
  BY <1>1, <1>3 DEF SettledIsStored
<1> QED
  BY <1>1, <1>2, <1>4 DEF BlockInv

\* A mishap of the pool worker leaves the deserializer as it is.
LEMMA PoolMishap ==
    ASSUME Typed, BlockInv, LoseConnection("pool") \/ Crash("pool") \/ DieOfChannelError("pool")
    PROVE  BlockInv'
<1>1. /\ UNCHANGED <<chan["ds"], unacked["ds"], nextTag["ds"], memory["ds"], wire["ds"],
                     step["ds"], ready["ds"]>>
      /\ docs' = docs
  <2>1. Requeue("pool") /\ nextTag' = nextTag /\ docs' = docs
    BY DEF LoseConnection, Crash, DieOfChannelError, Stop
  <2>2. ready'["ds"] = ready["ds"] /\ unacked'["ds"] = unacked["ds"]
    BY <2>1, Requeued, BothWorkers
  <2>3. UNCHANGED <<chan["ds"], memory["ds"], wire["ds"], step["ds"]>>
    BY BothWorkers DEF LoseConnection, Crash, DieOfChannelError, Stop, Typed
  <2> QED
    BY <2>1, <2>2, <2>3
<1>2. (DsGood => DsGood') /\ (KeptInMemory => KeptInMemory')
  BY <1>1, DsUntouched
<1>3. losses \in Nat /\ crashes \in Nat
  BY DEF Typed
<1>4. \/ losses' = losses + 1 /\ crashes' = crashes
      \/ losses' = losses /\ crashes' = crashes + 1
  BY DEF LoseConnection, Crash, DieOfChannelError
<1>5. (losses' = 0 => losses = 0) /\ (losses' + crashes' = 1 => losses = 0)
  BY <1>3, <1>4
<1>6. losses = 0 => DsGood'
  BY <1>2 DEF BlockInv, DsGood
<1> QED
  BY <1>5, <1>6 DEF BlockInv, DsGood

LEMMA DsMishap ==
    ASSUME Typed, BlockInv,
           RefuseAck("ds") \/ LoseConnection("ds") \/ Crash("ds") \/ DieOfChannelError("ds")
    PROVE  BlockInv'
<1>1. losses \in Nat /\ crashes \in Nat
  BY DEF Typed
<1>2. losses = 0 => DsGood
  BY DEF BlockInv, DsGood
<1>3. CASE RefuseAck("ds")
  <2>1. losses # 0 /\ losses' = losses /\ chan'["ds"] = "closed"
    BY <1>2, <1>3, NeverRefused, BothWorkers DEF DsGood, RefuseAck, bounds, Typed
  <2> QED
    BY <2>1 DEF BlockInv
<1>4. CASE LoseConnection("ds")
  <2>1. losses' = losses + 1 /\ crashes' = crashes
    BY <1>4 DEF LoseConnection
  <2>2. losses' # 0 /\ (losses' + crashes' = 1 => losses = 0)
    BY <1>1, <2>1
  <2>3. losses = 0 => KeptInMemory'
    BY <1>2, <1>4, DsLosesConnection
  <2> QED
    BY <2>2, <2>3 DEF BlockInv
<1>5. CASE Crash("ds") \/ DieOfChannelError("ds")
  <2>1. losses' = losses /\ crashes' = crashes + 1 /\ Stop("ds")
    BY <1>5 DEF Crash, DieOfChannelError
  <2>2. losses' + crashes' = 1 => losses = 0
    BY <1>1, <2>1
  <2>3. losses = 0 => DsGood'
    BY <1>2, <2>1, DsStopped
  <2> QED
    BY <2>1, <2>2, <2>3 DEF BlockInv, DsGood
<1> QED
  BY <1>3, <1>4, <1>5

LEMMA DsSteps ==
    ASSUME Typed, DsStep
    PROVE  (DsGood => DsGood') /\ (KeptInMemory => KeptInMemory')
<1>1. memory["ds"] # <<>>
  BY BothWorkers DEF DsStep, PublishDeltas, RouteTrace, FinishBlock, Typed
<1>2. /\ Current("ds") = memory["ds"][1] /\ Current("ds").block \in Blocks
  BY <1>1, CurrentIs, BothWorkers
<1>3. UNCHANGED <<ready, unacked, nextTag, docs, chan>>
  BY DEF DsStep, PublishDeltas, RouteTrace, FinishBlock, brokerVars
<1>4. wire["ds"] \in Seq(Ops)
  BY BothWorkers DEF Typed
<1>5. CASE PublishDeltas
  <2> PICK op : op = Doc("delta", Current("ds").block)
    OBVIOUS
  <2>1. op \in Ops /\ ~IsAck(op)
    BY <1>2, OpsTyped, WhatOpsAre DEF IsAck
  <2>2. <<op>> \in Seq(Ops) /\ DOMAIN <<op>> = {1} /\ <<op>>[1] = op
    BY <2>1, Single
  <2>3. memory' = memory /\ chan["ds"] = "open" /\ Write("ds", <<op>>)
    BY <1>5 DEF PublishDeltas
  <2>4. wire'["ds"] = wire["ds"] \o <<op>>
    BY <2>2, <2>3, Wrote, BothWorkers
  <2>5. /\ \A j \in DOMAIN <<op>> : ~IsAck(<<op>>[j])
        /\ \E j \in DOMAIN <<op>> : <<op>>[j] = Doc("delta", memory["ds"][1].block)
    BY <1>2, <2>1, <2>2
  <2> QED
    BY <1>3, <2>2, <2>3, <2>4, <2>5, DsWrites
<1>6. CASE RouteTrace
  <2> PICK op : op = Trace(Current("ds").block)
    OBVIOUS
  <2>1. op \in Ops /\ ~IsAck(op)
    BY <1>2, OpsTyped, WhatOpsAre DEF IsAck
  <2>2. <<op>> \in Seq(Ops) /\ DOMAIN <<op>> = {1} /\ <<op>>[1] = op
    BY <2>1, Single
  <2>3. memory' = memory /\ step["ds"] # "idle"
    BY <1>6 DEF RouteTrace
  <2>4. Clean("ds") => chan["ds"] = "open"
    BY <2>3 DEF Clean
  <2>5. CASE Write("ds", <<op>>)
    <3>1. wire'["ds"] = wire["ds"] \o <<op>>
      BY <2>2, <2>5, Wrote, BothWorkers
    <3>2. \A j \in DOMAIN <<op>> : ~IsAck(<<op>>[j])
      BY <2>1, <2>2
    <3> QED
      BY <1>3, <2>2, <2>3, <2>4, <3>1, <3>2, DsWrites
  <2>6. CASE wire' = wire
    <3>1. wire'["ds"] = wire["ds"] \o <<>> /\ <<>> \in Seq(Ops)
      BY <1>4, <2>6
    <3>2. \A j \in DOMAIN <<>> : ~IsAck(<<>>[j])
      OBVIOUS
    <3> QED
      BY <1>3, <2>3, <2>4, <3>1, <3>2, DsWrites
  <2> QED
    BY <1>6, <2>5, <2>6 DEF RouteTrace
<1> QED
  BY <1>5, <1>6, DsFinishes DEF DsStep

\* What 'drain' sends: the first traces that waited.
LEMMA DrainFacts ==
    ASSUME Typed, Drain
    PROVE  \E k \in 0 .. Len(backpressure), again \in BOOLEAN, ops \in Seq(Ops) :
             /\ DOMAIN ops = 1 .. k /\ \A i \in 1 .. k : ops[i] = Trace(backpressure[i])
             /\ wire'["ds"] = wire["ds"] \o ops /\ wire'["pool"] = wire["pool"]
             /\ backpressure' = SubSeq(backpressure, k + 1, Len(backpressure))
             /\ again => fulls' = fulls + 1
             /\ ~again => fulls' = fulls
             /\ waitToSend' = again /\ full' = again
<1>1. PICK k \in 0 .. Len(backpressure), again \in BOOLEAN :
          /\ Write("ds", [i \in 1 .. k |-> Trace(backpressure[i])])
          /\ backpressure' = SubSeq(backpressure, k + 1, Len(backpressure))
          /\ waitToSend' = again /\ full' = again
          /\ fulls' = IF again THEN fulls + 1 ELSE fulls
  BY DEF Drain, WaitsAfterDrain
<1> PICK ops : ops = [i \in 1 .. k |-> Trace(backpressure[i])]
  OBVIOUS
<1>2. backpressure \in Seq(Blocks)
  BY DEF Typed
<1>3. \A i \in 1 .. k : Trace(backpressure[i]) \in Ops
  <2>1. \A i \in 1 .. k : backpressure[i] \in Blocks
    BY <1>2
  <2> QED
    BY <2>1, OpsTyped
<1>4. k \in Nat
  BY <1>2
<1>5. ops \in Seq(Ops) /\ DOMAIN ops = 1 .. k /\ \A i \in 1 .. k : ops[i] = Trace(backpressure[i])
  BY <1>3, <1>4
<1>6. wire'["ds"] = wire["ds"] \o ops /\ wire'["pool"] = wire["pool"]
  BY <1>1, <1>5, Wrote, BothWorkers
<1> QED
  BY <1>1, <1>5, <1>6

LEMMA DsDrains ==
    ASSUME Typed, Drain
    PROVE  (DsGood => DsGood') /\ (KeptInMemory => KeptInMemory')
<1>1. PICK k \in 0 .. Len(backpressure), ops \in Seq(Ops) :
          /\ DOMAIN ops = 1 .. k /\ \A i \in 1 .. k : ops[i] = Trace(backpressure[i])
          /\ wire'["ds"] = wire["ds"] \o ops
  BY DrainFacts
<1>2. \A j \in DOMAIN ops : ~IsAck(ops[j])
  BY <1>1, WhatOpsAre DEF IsAck
<1>3. UNCHANGED <<ready, unacked, nextTag, docs, chan, memory, step>> /\ chan["ds"] = "open"
  BY DEF Drain, brokerVars
<1> QED
  BY <1>1, <1>2, <1>3, DsWrites

\* Steps of the pool worker, and of the broker and the channels on its side.
LEMMA PoolSteps ==
    ASSUME Typed, FillBuffer \/ PoolStep \/ BrokerStep("pool") \/ Return("pool")
    PROVE  (DsGood => DsGood') /\ (KeptInMemory => KeptInMemory') /\ chan'["ds"] = chan["ds"]
<1>1. docs \subseteq docs'
  BY DEF FillBuffer, PoolStep, ProcessTrace, AckTrace, BrokerStep, Deliver, StoreDoc, QueueTrace,
         Settle, RefuseAck, Return, Reconnect, Relaunch, brokerVars
<1>2. UNCHANGED <<chan["ds"], unacked["ds"], nextTag["ds"], memory["ds"], wire["ds"],
                  step["ds"], ready["ds"]>>
  <2>1. CASE FillBuffer
    BY <2>1 DEF FillBuffer, brokerVars
  <2>2. CASE PoolStep
    <3>1. UNCHANGED <<ready, unacked, nextTag, chan>>
      BY <2>2 DEF PoolStep, ProcessTrace, AckTrace, brokerVars
    <3>2. wire'["ds"] = wire["ds"]
      BY <2>2, BothWorkers DEF PoolStep, ProcessTrace, AckTrace, Write, Typed
    <3>3. memory'["ds"] = memory["ds"] /\ step'["ds"] = step["ds"]
      BY <2>2, BothWorkers DEF PoolStep, ProcessTrace, AckTrace, NextDelivery, Typed
    <3> QED
      BY <3>1, <3>2, <3>3
  <2>3. CASE Deliver("pool")
    BY <2>3, BothWorkers DEF Deliver, Typed
  <2>4. CASE StoreDoc("pool")
    BY <2>4, BothWorkers DEF StoreDoc, TakeOp, Typed
  <2>5. CASE QueueTrace("pool")
    BY <2>5, BothWorkers DEF QueueTrace, TakeOp, Typed
  <2>6. CASE Settle("pool")
    BY <2>6, BothWorkers DEF Settle, TakeOp, Typed
  <2>7. CASE RefuseAck("pool")
    <3>1. Requeue("pool") /\ UNCHANGED <<nextTag, memory, step>>
      BY <2>7 DEF RefuseAck
    <3>2. ready'["ds"] = ready["ds"] /\ unacked'["ds"] = unacked["ds"]
      BY <3>1, Requeued, BothWorkers
    <3>3. chan'["ds"] = chan["ds"] /\ wire'["ds"] = wire["ds"]
      BY <2>7, BothWorkers DEF RefuseAck, Typed
    <3> QED
      BY <3>1, <3>2, <3>3
  <2>8. CASE Return("pool")
    BY <2>8, BothWorkers DEF Return, Reconnect, Relaunch, Typed
  <2> QED
    BY <2>1, <2>2, <2>3, <2>4, <2>5, <2>6, <2>7, <2>8 DEF BrokerStep
<1> QED
  BY <1>1, <1>2, DsUntouched

LEMMA BlockInvNext == Typed /\ BlockInv /\ [Next]_vars => BlockInv'
<1> SUFFICES ASSUME Typed, BlockInv, [Next]_vars PROVE BlockInv'
  OBVIOUS
<1>1. CASE DsStep \/ Drain
  <2>1. UNCHANGED <<losses, crashes, chan>>
    BY <1>1 DEF DsStep, PublishDeltas, RouteTrace, FinishBlock, Drain, bounds
  <2>2. (DsGood => DsGood') /\ (KeptInMemory => KeptInMemory')
    BY <1>1, DsSteps, DsDrains
  <2> QED
    BY <2>1, <2>2, BlockInvByStep
<1>2. CASE FillBuffer \/ PoolStep \/ BrokerStep("pool") \/ Return("pool")
  <2>1. UNCHANGED <<losses, crashes>>
    BY <1>2 DEF FillBuffer, PoolStep, ProcessTrace, AckTrace, BrokerStep, Deliver, StoreDoc,
               QueueTrace, Settle, RefuseAck, Return, Reconnect, Relaunch, bounds
  <2> QED
    BY <1>2, <2>1, PoolSteps, BlockInvByStep
<1>3. CASE Deliver("ds") \/ StoreDoc("ds") \/ QueueTrace("ds") \/ Settle("ds")
  <2>1. UNCHANGED <<losses, crashes, chan>>
    BY <1>3 DEF Deliver, StoreDoc, QueueTrace, Settle, bounds
  <2>2. (DsGood => DsGood') /\ (KeptInMemory => KeptInMemory')
    BY <1>3, DsDelivered, DsRead
  <2> QED
    BY <2>1, <2>2, BlockInvByStep
<1>4. CASE Return("ds")
  <2>1. UNCHANGED <<losses, crashes>> /\ chan["ds"] # "closed"
    BY <1>4 DEF Return, Reconnect, Relaunch, bounds
  <2> QED
    BY <1>4, <2>1, DsReturns, BlockInvByStep
<1>5. CASE UNCHANGED vars
  <2>1. /\ UNCHANGED <<chan["ds"], unacked["ds"], nextTag["ds"], memory["ds"], wire["ds"],
                     step["ds"], ready["ds"], docs, losses, crashes>>
    BY <1>5 DEF vars, brokerVars, bounds
  <2> QED
    BY <2>1, DsUntouched, BlockInvByStep
<1>6. Next => \/ DsStep \/ Drain \/ FillBuffer \/ PoolStep
              \/ \E w \in Workers : \/ BrokerStep(w) \/ LoseConnection(w) \/ Crash(w)
                                    \/ DieOfChannelError(w) \/ Return(w)
  BY DEF Next
<1>7. BrokerStep("ds") => \/ Deliver("ds") \/ StoreDoc("ds") \/ QueueTrace("ds") \/ Settle("ds")
                          \/ RefuseAck("ds")
  BY DEF BrokerStep
<1>8. ASSUME NEW w \in Workers, BrokerStep(w) \/ Return(w) PROVE BlockInv'
  <2>1. CASE w = "ds"
    BY <1>3, <1>4, <1>7, <1>8, <2>1, DsMishap
  <2>2. CASE w = "pool"
    BY <1>2, <1>8, <2>2
  <2> QED
    BY <2>1, <2>2, BothWorkers
<1>9. ASSUME NEW w \in Workers, LoseConnection(w) \/ Crash(w) \/ DieOfChannelError(w)
      PROVE  BlockInv'
  BY <1>9, DsMishap, PoolMishap, BothWorkers
<1> QED
  BY <1>1, <1>2, <1>5, <1>6, <1>8, <1>9

LEMMA BlockInvMeans ==
    ASSUME Typed, BlockInv
    PROVE  BlockAccounted
<1> SUFFICES ASSUME losses = 0 \/ (losses + crashes = 1 /\ chan["ds"] # "closed"), NEW b \in Blocks
             PROVE  \/ Owed("ds", b) \/ InMemory("ds", b)
                    \/ Published("delta", b) /\ Published("block", b)
  BY DEF BlockAccounted
<1>1. \A kind \in {"delta", "block"} : Sent(kind, b) => Published(kind, b)
  BY BothWorkers DEF Sent, OnWire, Published, ToSet
<1>2. CASE SettledIsStored
  BY <1>2 DEF SettledIsStored, Stored, Published
<1>3. CASE KeptInMemory
  BY <1>1, <1>3 DEF KeptInMemory, Kept, InMemory, Sent2
<1> QED
  BY <1>2, <1>3 DEF BlockInv

\* A block that left its queue is in the deserializer's memory or left its documents behind,
\* whatever crashes; so it is after one lost connection, until a channel is closed over a
\* stale tag.
THEOREM BlocksAreAccounted == Spec => []BlockAccounted
<1>1. Spec => [](Typed /\ BlockInv)
  <2>1. Init => Typed /\ BlockInv
    BY TypedInit, BlockInvInit
  <2>2. Typed /\ BlockInv /\ [Next]_vars => (Typed /\ BlockInv)'
    BY TypedNext, BlockInvNext
  <2> QED
    BY <2>1, <2>2, PTL DEF Spec
<1>2. Typed /\ BlockInv => BlockAccounted
  BY BlockInvMeans
<1> QED
  BY <1>1, <1>2, PTL
-----------------------------------------------------------------------------
(* The pool worker's actions *)

\* Steps that do not touch the pool worker; its queue may grow.
LEMMA PoolUntouched ==
    ASSUME UNCHANGED <<chan["pool"], unacked["pool"], nextTag["pool"], memory["pool"],
                       wire["pool"], step["pool"], txCache>>,
           docs \subseteq docs',
           \A b : b \in ToSet(ready["pool"]) => b \in ToSet(ready'["pool"])
    PROVE  /\ Clean("pool") => Clean("pool")'
           /\ ActionsFollow => ActionsFollow'
           /\ \A b : InPool(b) => InPool(b)'
<1>1. Clean("pool") => Clean("pool")'
  BY CleanAlone, BothWorkers
<1>2. \A b : ActionsWritten(b) => ActionsWritten(b)'
  BY DEF ActionsWritten, OnWire
<1>3. \A b : InPool(b) => InPool(b)'
  BY <1>2 DEF InPool, Owed
<1>4. ASSUME ActionsFollow PROVE ActionsFollow'
  <2>1. ASSUME NEW i \in DOMAIN wire'["pool"], NEW d \in unacked'["pool"],
               IsAck(wire'["pool"][i]) /\ wire'["pool"][i].tag = d.tag
        PROVE  ActionsWritten(d.block)' \/ WrittenBefore("pool", Doc("action", d.block), i)'
    <3>1. ActionsWritten(d.block) \/ WrittenBefore("pool", Doc("action", d.block), i)
      BY <1>4, <2>1 DEF ActionsFollow
    <3> QED
      BY <1>2, <3>1 DEF WrittenBefore
  <2> PICK b : b = memory["pool"][1].block
    OBVIOUS
  <2>2. step["pool"] # "idle" =>
            txCache /\ (<<"action", b>> \in docs \/ OnWire("pool", Doc("action", b)))
    BY <1>4 DEF ActionsFollow
  <2>3. step'["pool"] # "idle" =>
            txCache' /\ (<<"action", b>> \in docs' \/ OnWire("pool", Doc("action", b))')
    BY <2>2 DEF OnWire
  <2> QED
    BY <2>1, <2>3 DEF ActionsFollow, IsAck, OnWire
<1> QED
  BY <1>1, <1>3, <1>4

LEMMA AckThenDoc ==
    ASSUME NEW d \in Deliveries, ~jammed, ~txCache
    PROVE  /\ Written(d) \in Seq(Ops) /\ DOMAIN Written(d) = {1, 2}
           /\ Written(d)[1] = Ack(d) /\ Written(d)[2] = Doc("action", d.block)
<1> PICK s : s = AckOps(d)
  OBVIOUS
<1> PICK t : t = ActionOps(d)
  OBVIOUS
<1>1. Ack(d) \in Ops /\ Doc("action", d.block) \in Ops
  BY OpsTyped DEF Deliveries
<1>2. s = <<Ack(d)>> /\ t = <<Doc("action", d.block)>>
  BY DEF AckOps, ActionOps
<1>3. /\ s \in Seq(Ops) /\ Len(s) = 1 /\ s[1] = Ack(d)
      /\ t \in Seq(Ops) /\ Len(t) = 1 /\ t[1] = Doc("action", d.block)
  BY <1>1, <1>2
<1>4. /\ s \o t \in Seq(Ops) /\ Len(s \o t) = 2
      /\ (s \o t)[1] = s[1] /\ (s \o t)[2] = t[1]
  <2>1. s \o t \in Seq(Ops) /\ Len(s \o t) = 2
    <3>1. s \in Seq(Ops) /\ t \in Seq(Ops) /\ Len(s) + Len(t) = 2
      BY <1>3
    <3> QED
      BY <3>1, Joined
  <2>2. 1 \in DOMAIN s /\ 1 \in DOMAIN t /\ Len(s) + 1 = 2
    BY <1>3
  <2>3. \A i \in DOMAIN s : (s \o t)[i] = s[i]
    BY <1>3, Joined
  <2>4. \A j \in DOMAIN t : (s \o t)[Len(s) + j] = t[j]
    BY <1>3, Joined
  <2>5. (s \o t)[1] = s[1]
    BY <2>2, <2>3
  <2>6. (s \o t)[2] = t[1]
    BY <2>2, <2>4
  <2> QED
    BY <2>1, <2>5, <2>6
<1>5. DOMAIN (s \o t) = {1, 2}
  BY <1>4
<1> QED
  BY <1>3, <1>4, <1>5 DEF Written

\* The action document is ahead of the acknowledgement that waits for Redis, and leaves
\* with it otherwise.
LEMMA PoolWorks ==
    ASSUME Typed, PoolStep, Clean("pool"), ~jammed
    PROVE  /\ Clean("pool")' /\ ~jammed'
           /\ ActionsFollow => ActionsFollow'
           /\ \A b : InPool(b) => InPool(b)'
<1> PICK cur : cur = memory["pool"][1]
  OBVIOUS
<1> PICK len : len = Len(wire["pool"])
  OBVIOUS
<1> PICK doc : doc = Doc("action", cur.block)
  OBVIOUS
<1> PICK ack : ack = Ack(cur)
  OBVIOUS
<1>1. memory["pool"] # <<>>
  BY BothWorkers DEF PoolStep, ProcessTrace, AckTrace, Typed
<1>2. /\ Current("pool") = cur /\ cur \in Deliveries /\ cur.block \in Blocks /\ 1 \in DOMAIN memory["pool"]
  BY <1>1, CurrentIs, BothWorkers
<1>3. chan["pool"] = "open" /\ Tagged("pool") /\ cur \in unacked["pool"]
  BY <1>1, <1>2 DEF Clean, Tagged
<1>4. UNCHANGED <<ready, unacked, nextTag, docs, chan, txCache>> /\ ~jammed'
  BY <1>3 DEF PoolStep, ProcessTrace, AckTrace, brokerVars
<1>5. doc \in Ops /\ ack \in Ops /\ ~IsAck(doc) /\ IsAck(ack) /\ ack.tag = cur.tag
  BY <1>2, OpsTyped, WhatOpsAre DEF IsAck
<1>6. wire["pool"] \in Seq(Ops) /\ len \in Nat /\ memory["pool"] \in Seq(Deliveries)
  <2>1. wire["pool"] \in Seq(Ops) /\ memory["pool"] \in Seq(Deliveries)
    BY BothWorkers DEF Typed
  <2> QED
    BY <2>1
<1>7. ASSUME NEW ops \in Seq(Ops), Write("pool", ops)
      PROVE  /\ wire'["pool"] = wire["pool"] \o ops
             /\ \A o : OnWire("pool", o) => OnWire("pool", o)'
             /\ \A o, n : WrittenBefore("pool", o, n) => WrittenBefore("pool", o, n)'
             /\ \A o : OnWire("pool", o) => \A n \in Nat : n > len => WrittenBefore("pool", o, n)'
             /\ \A j \in DOMAIN ops : OnWire("pool", ops[j])'
             /\ \A b : ActionsWritten(b) => ActionsWritten(b)'
             /\ \A b : InPool(b) => InPool(b)'
  <2>1. wire'["pool"] = wire["pool"] \o ops
    BY <1>7, Wrote, BothWorkers
  <2>2. /\ \A o : OnWire("pool", o) => OnWire("pool", o)'
        /\ \A o, n : WrittenBefore("pool", o, n) => WrittenBefore("pool", o, n)'
        /\ \A o : OnWire("pool", o) => \A n \in Nat : n > len => WrittenBefore("pool", o, n)'
        /\ \A j \in DOMAIN ops : OnWire("pool", ops[j])'
    BY <2>1, WireGrows, BothWorkers
  <2>3. \A b : ActionsWritten(b) => ActionsWritten(b)'
    BY <1>4, <2>2 DEF ActionsWritten
  <2>4. \A b : InPool(b) => InPool(b)'
    BY <1>4, <2>3 DEF InPool, Owed
  <2> QED
    BY <2>1, <2>2, <2>3, <2>4
<1>8. ASSUME NEW ops \in Seq(Ops), Write("pool", ops), NEW i \in DOMAIN wire'["pool"],
             NEW d \in unacked'["pool"],
             IsAck(wire'["pool"][i]) /\ wire'["pool"][i].tag = d.tag
      PROVE  \/ IsAck(wire["pool"][i]) /\ i \in DOMAIN wire["pool"] /\ wire["pool"][i].tag = d.tag
             \/ \E j \in DOMAIN ops : i = len + j /\ IsAck(ops[j]) /\ ops[j].tag = d.tag
  <2>1. \/ i \in DOMAIN wire["pool"] /\ wire'["pool"][i] = wire["pool"][i]
        \/ \E j \in DOMAIN ops : i = Len(wire["pool"]) + j /\ wire'["pool"][i] = ops[j]
    BY <1>7, <1>8, WireSplits, BothWorkers, Zenon
  <2> QED
    BY <1>8, <2>1
<1>8a. UNCHANGED <<chan["pool"], unacked["pool"], nextTag["pool"]>>
  BY <1>4
<1>8b. ActionOps(Current("pool")) = <<doc>>
  BY <1>2 DEF ActionOps
<1>9. CASE ProcessTrace /\ txCache
  <2>1. Written(Current("pool")) = <<doc>>
    <3>1. AckOps(Current("pool")) = <<>> /\ ActionOps(Current("pool")) = <<doc>>
      BY <1>2, <1>9 DEF AckOps, ActionOps
    <3>2. <<>> \o <<doc>> = <<doc>>
      BY <1>5
    <3> QED
      BY <3>1, <3>2 DEF Written
  <2>2. <<doc>> \in Seq(Ops) /\ DOMAIN <<doc>> = {1} /\ <<doc>>[1] = doc
    BY <1>5, Single
  <2>3. /\ Write("pool", <<doc>>) /\ memory' = memory /\ step'["pool"] = "redis"
    <3>1. Write("pool", Written(Current("pool")))
      BY <1>3, <1>9 DEF ProcessTrace
    <3>2. memory' = memory /\ step' = [step EXCEPT !["pool"] = "redis"]
      BY <1>9 DEF ProcessTrace
    <3>3. step'["pool"] = "redis"
      BY <3>2, BothWorkers DEF Typed
    <3> QED
      BY <2>1, <3>1, <3>2, <3>3
  <2>4. /\ wire'["pool"] = wire["pool"] \o <<doc>>
        /\ \A o, n : WrittenBefore("pool", o, n) => WrittenBefore("pool", o, n)'
        /\ OnWire("pool", doc)'
        /\ \A b : ActionsWritten(b) => ActionsWritten(b)'
        /\ \A b : InPool(b) => InPool(b)'
    BY <1>7, <2>2, <2>3
  <2>5. \A j \in DOMAIN <<doc>> : ~IsAck(<<doc>>[j])
    BY <1>5, <2>2
  <2>6. Clean("pool")'
    BY <1>3, <1>4, <2>2, <2>3, <2>4, <2>5, CleanWrite, BothWorkers
  <2>7. ASSUME ActionsFollow PROVE ActionsFollow'
    <3>1. ASSUME NEW i \in DOMAIN wire'["pool"], NEW d \in unacked'["pool"],
                 IsAck(wire'["pool"][i]) /\ wire'["pool"][i].tag = d.tag
          PROVE  ActionsWritten(d.block)' \/ WrittenBefore("pool", Doc("action", d.block), i)'
      <4>1. i \in DOMAIN wire["pool"] /\ IsAck(wire["pool"][i]) /\ wire["pool"][i].tag = d.tag
        BY <1>8, <2>2, <2>3, <2>5, <3>1
      <4>2. ActionsWritten(d.block) \/ WrittenBefore("pool", Doc("action", d.block), i)
        BY <1>4, <2>7, <4>1 DEF ActionsFollow
      <4> QED
        BY <2>4, <4>2
    <3>2. txCache' /\ OnWire("pool", Doc("action", memory["pool"][1].block))'
      BY <1>4, <1>9, <2>3, <2>4 DEF OnWire
    <3> QED
      BY <3>1, <3>2 DEF ActionsFollow, IsAck
  <2> QED
    BY <1>4, <2>4, <2>6, <2>7
<1>10. CASE ProcessTrace /\ ~txCache
  <2> PICK ops : ops = Written(Current("pool"))
    OBVIOUS
  <2>2. ops \in Seq(Ops) /\ DOMAIN ops = {1, 2} /\ ops[1] = ack /\ ops[2] = doc
    BY <1>2, <1>10, AckThenDoc
  <2>3. /\ Write("pool", ops) /\ memory'["pool"] = Tail(memory["pool"]) /\ step'["pool"] = "idle"
    BY <1>1, <1>3, <1>10, <2>2, Forgot, BothWorkers DEF ProcessTrace
  <2>4. /\ wire'["pool"] = wire["pool"] \o ops
        /\ \A o, n : WrittenBefore("pool", o, n) => WrittenBefore("pool", o, n)'
        /\ OnWire("pool", doc)'
        /\ \A b : ActionsWritten(b) => ActionsWritten(b)'
        /\ \A b : InPool(b) => InPool(b)'
    BY <1>7, <2>2, <2>3
  <2>5. \A j \in DOMAIN ops : IsAck(ops[j]) <=> j = 1
    BY <1>5, <2>2
  <2>6. Clean("pool")'
    <3>1. 1 \in DOMAIN ops /\ ops[1].tag = memory["pool"][1].tag
      BY <1>5, <2>2
    <3>2. ops \in Seq(Ops) /\ wire'["pool"] = wire["pool"] \o ops /\ memory'["pool"] = Tail(memory["pool"])
      BY <2>2, <2>3, <2>4
    <3> QED
      BY <1>1, <1>3, <1>8a, <2>5, <3>1, <3>2, CleanFinish, BothWorkers
  <2>7. ASSUME ActionsFollow PROVE ActionsFollow'
    <3>1. ASSUME NEW i \in DOMAIN wire'["pool"], NEW d \in unacked'["pool"],
                 IsAck(wire'["pool"][i]) /\ wire'["pool"][i].tag = d.tag
          PROVE  ActionsWritten(d.block)' \/ WrittenBefore("pool", Doc("action", d.block), i)'
      <4>1. CASE i \in DOMAIN wire["pool"] /\ IsAck(wire["pool"][i]) /\ wire["pool"][i].tag = d.tag
        <5>1. ActionsWritten(d.block) \/ WrittenBefore("pool", Doc("action", d.block), i)
          BY <1>4, <2>7, <4>1 DEF ActionsFollow
        <5> QED
          BY <2>4, <5>1
      <4>2. CASE d.tag = cur.tag
        <5>1. d = cur
          BY <1>3, <1>4, <4>2 DEF Tagged
        <5> QED
          BY <1>4, <1>10, <2>4, <5>1 DEF ActionsWritten
      <4>3. \A j \in DOMAIN ops : IsAck(ops[j]) => ops[j].tag = cur.tag
        BY <1>5, <2>2
      <4>4. ops \in Seq(Ops) /\ Write("pool", ops)
        BY <2>2, <2>3
      <4>5. \/ IsAck(wire["pool"][i]) /\ i \in DOMAIN wire["pool"] /\ wire["pool"][i].tag = d.tag
            \/ \E j \in DOMAIN ops : i = len + j /\ IsAck(ops[j]) /\ ops[j].tag = d.tag
        BY <1>8, <3>1, <4>4
      <4> QED
        BY <4>1, <4>2, <4>3, <4>5
    <3> QED
      BY <2>3, <3>1 DEF ActionsFollow, IsAck
  <2> QED
    BY <1>4, <2>4, <2>6, <2>7
<1>11. CASE AckTrace
  <2>1. PICK ops \in Seq(Ops) : ops = <<Ack(Current("pool"))>> /\ DOMAIN ops = {1} /\ ops[1] = ack
    BY <1>2, <1>5, Single
  <2>2. /\ Write("pool", ops) /\ memory'["pool"] = Tail(memory["pool"]) /\ step'["pool"] = "idle"
        /\ step["pool"] # "idle"
    BY <1>1, <1>3, <1>11, <2>1, Forgot, BothWorkers DEF AckTrace
  <2>3. /\ wire'["pool"] = wire["pool"] \o ops
        /\ \A o, n : WrittenBefore("pool", o, n) => WrittenBefore("pool", o, n)'
        /\ \A o : OnWire("pool", o) => \A n \in Nat : n > len => WrittenBefore("pool", o, n)'
        /\ \A b : ActionsWritten(b) => ActionsWritten(b)'
        /\ \A b : InPool(b) => InPool(b)'
    BY <1>7, <2>1, <2>2
  <2>4. \A j \in DOMAIN ops : IsAck(ops[j]) <=> j = 1
    BY <1>5, <2>1
  <2>5. Clean("pool")'
    <3>1. 1 \in DOMAIN ops /\ ops[1].tag = memory["pool"][1].tag
      BY <1>5, <2>1
    <3>2. ops \in Seq(Ops) /\ wire'["pool"] = wire["pool"] \o ops /\ memory'["pool"] = Tail(memory["pool"])
      BY <2>1, <2>2, <2>3, <2>4
    <3> QED
      BY <1>1, <1>3, <1>8a, <2>4, <3>1, <3>2, CleanFinish, BothWorkers
  <2>6. ASSUME ActionsFollow PROVE ActionsFollow'
    <3>1. ASSUME NEW i \in DOMAIN wire'["pool"], NEW d \in unacked'["pool"],
                 IsAck(wire'["pool"][i]) /\ wire'["pool"][i].tag = d.tag
          PROVE  ActionsWritten(d.block)' \/ WrittenBefore("pool", Doc("action", d.block), i)'
      <4>1. CASE i \in DOMAIN wire["pool"] /\ IsAck(wire["pool"][i]) /\ wire["pool"][i].tag = d.tag
        <5>1. ActionsWritten(d.block) \/ WrittenBefore("pool", Doc("action", d.block), i)
          BY <1>4, <2>6, <4>1 DEF ActionsFollow
        <5> QED
          BY <2>3, <5>1
      <4>2. CASE i = len + 1 /\ d.tag = cur.tag
        <5>1. d = cur
          BY <1>3, <1>4, <4>2 DEF Tagged
        <5>2. <<"action", cur.block>> \in docs \/ OnWire("pool", doc)
          BY <2>2, <2>6 DEF ActionsFollow
        <5>3. i \in Nat /\ i > len
          BY <1>6, <4>2
        <5>4. <<"action", cur.block>> \in docs' \/ WrittenBefore("pool", doc, i)'
          BY <1>4, <2>3, <5>2, <5>3
        <5> QED
          BY <5>1, <5>4 DEF ActionsWritten
      <4>3. \A j \in DOMAIN ops : j = 1 /\ ops[j].tag = cur.tag
        BY <1>5, <2>1
      <4>4. ops \in Seq(Ops) /\ Write("pool", ops)
        BY <2>1, <2>2
      <4>5. \/ IsAck(wire["pool"][i]) /\ i \in DOMAIN wire["pool"] /\ wire["pool"][i].tag = d.tag
            \/ \E j \in DOMAIN ops : i = len + j /\ IsAck(ops[j]) /\ ops[j].tag = d.tag
        BY <1>8, <3>1, <4>4
      <4> QED
        BY <4>1, <4>2, <4>3, <4>5
    <3> QED
      BY <2>2, <3>1 DEF ActionsFollow, IsAck
  <2> QED
    BY <1>4, <2>3, <2>5, <2>6
<1> QED
  BY <1>9, <1>10, <1>11 DEF PoolStep

\* The broker reads one operation of the pool worker.
LEMMA PoolRead ==
    ASSUME Typed, Clean("pool"), StoreDoc("pool") \/ QueueTrace("pool") \/ Settle("pool")
    PROVE  ActionsFollow => ActionsFollow' /\ \A b : InPool(b) => InPool(b)'
<1> SUFFICES ASSUME ActionsFollow PROVE ActionsFollow' /\ \A b : InPool(b) => InPool(b)'
  OBVIOUS
<1> PICK first : first = Head(wire["pool"])
  OBVIOUS
<1>1. /\ wire["pool"] # <<>> /\ wire'["pool"] = Tail(wire["pool"])
      /\ UNCHANGED <<nextTag, chan, memory, step, txCache>>
      /\ wire["pool"] \in Seq(Ops)
  <2>1. wire["pool"] # <<>> /\ TakeOp("pool") /\ UNCHANGED <<nextTag, chan, memory, step, txCache>>
    BY DEF StoreDoc, QueueTrace, Settle, Reads
  <2> QED
    BY <2>1, Took, BothWorkers DEF Typed
<1>2. /\ first = wire["pool"][1] /\ 1 \in DOMAIN wire["pool"]
      /\ \A i \in DOMAIN wire'["pool"] :
            i \in Nat /\ i + 1 \in DOMAIN wire["pool"] /\ wire'["pool"][i] = wire["pool"][i + 1]
      /\ \A i \in DOMAIN wire["pool"] :
            i = 1 \/ (/\ i \in Nat /\ i - 1 \in DOMAIN wire'["pool"]
                      /\ wire'["pool"][i - 1] = wire["pool"][i])
  BY <1>1, Tailed
<1>3. /\ \A b : b \in ToSet(ready["pool"]) => b \in ToSet(ready'["pool"])
      /\ docs \subseteq docs' /\ unacked'["pool"] \subseteq unacked["pool"]
  <2>1. CASE StoreDoc("pool")
    BY <2>1 DEF StoreDoc
  <2>2. CASE QueueTrace("pool")
    <3>1. /\ ready' = [ready EXCEPT !["pool"] = Append(@, Head(wire["pool"]).block)]
          /\ docs' = docs /\ unacked' = unacked
      BY <2>2 DEF QueueTrace
    <3>2. Head(wire["pool"]).block \in Blocks /\ ready["pool"] \in Seq(Blocks)
      BY <1>1, <2>2, Tailed, OpsOfAKind, BothWorkers DEF QueueTrace, Reads, Typed
    <3>3. ready'["pool"] = Append(ready["pool"], Head(wire["pool"]).block)
      BY <3>1, BothWorkers DEF Typed
    <3> QED
      BY <3>1, <3>2, <3>3, Appended DEF ToSet
  <2>3. CASE Settle("pool")
    BY <2>3, BothWorkers DEF Settle, Typed
  <2> QED
    BY <2>1, <2>2, <2>3
<1>4. ASSUME NEW kind, NEW b, first = Doc(kind, b) PROVE <<kind, b>> \in docs'
  <2>1. first.op = "doc" /\ first.doc = <<kind, b>>
    BY <1>4, WhatOpsAre
  <2>2. StoreDoc("pool")
    BY <2>1 DEF StoreDoc, QueueTrace, Settle, Reads
  <2> QED
    BY <2>1, <2>2 DEF StoreDoc
<1>5. ASSUME NEW o, OnWire("pool", o), o # first PROVE OnWire("pool", o)'
  <2>1. PICK i \in DOMAIN wire["pool"] : wire["pool"][i] = o
    BY <1>5 DEF OnWire
  <2>2. i - 1 \in DOMAIN wire'["pool"] /\ wire'["pool"][i - 1] = o
    BY <1>2, <1>5, <2>1
  <2> QED
    BY <2>2 DEF OnWire
<1>6. ASSUME NEW o, NEW n \in Nat, WrittenBefore("pool", o, n + 1), o # first
      PROVE  WrittenBefore("pool", o, n)'
  <2>1. PICK i \in DOMAIN wire["pool"] : wire["pool"][i] = o /\ i < n + 1
    BY <1>6 DEF WrittenBefore
  <2>2. i - 1 \in DOMAIN wire'["pool"] /\ wire'["pool"][i - 1] = o /\ i \in Nat
    BY <1>2, <1>6, <2>1
  <2>3. i - 1 < n
    BY <2>1, <2>2
  <2> QED
    BY <2>2, <2>3 DEF WrittenBefore
<1>7. ASSUME NEW b, ActionsWritten(b) PROVE ActionsWritten(b)'
  <2>1. CASE <<"action", b>> \in docs
    BY <1>3, <2>1 DEF ActionsWritten
  <2>2. CASE ~txCache /\ OnWire("pool", Doc("action", b))
    <3>1. <<"action", b>> \in docs' \/ OnWire("pool", Doc("action", b))'
      BY <1>4, <1>5, <2>2
    <3> QED
      BY <1>1, <2>2, <3>1 DEF ActionsWritten
  <2> QED
    BY <1>7, <2>1, <2>2 DEF ActionsWritten
<1>8. ASSUME NEW d \in unacked["pool"], d \notin unacked'["pool"]
      PROVE  ActionsWritten(d.block)
  <2>1. Settle("pool")
    BY <1>8 DEF StoreDoc, QueueTrace
  <2>2. d \in Acked("pool")
    BY <1>8, <2>1, BothWorkers DEF Settle, Typed
  <2>3. IsAck(wire["pool"][1]) /\ wire["pool"][1].tag = d.tag
    BY <1>2, <2>1, <2>2 DEF Settle, Reads, Acked, IsAck
  <2>4. ActionsWritten(d.block) \/ WrittenBefore("pool", Doc("action", d.block), 1)
    BY <1>2, <2>3 DEF ActionsFollow
  <2>5. \A o : ~WrittenBefore("pool", o, 1)
    BY <1>1 DEF WrittenBefore
  <2> QED
    BY <2>4, <2>5
<1>9. ASSUME NEW b, InPool(b) PROVE InPool(b)'
  <2>1. CASE ActionsWritten(b)
    BY <1>7, <2>1 DEF InPool
  <2>2. CASE b \in ToSet(ready["pool"])
    BY <1>3, <2>2 DEF InPool, Owed
  <2>3. CASE \E d \in unacked["pool"] : d.block = b
    <3>1. PICK d \in unacked["pool"] : d.block = b
      BY <2>3
    <3>2. CASE d \in unacked'["pool"]
      BY <3>1, <3>2 DEF InPool, Owed
    <3>3. CASE d \notin unacked'["pool"]
      BY <1>7, <1>8, <3>1, <3>3 DEF InPool
    <3> QED
      BY <3>2, <3>3
  <2> QED
    BY <1>9, <2>1, <2>2, <2>3 DEF InPool, Owed
<1>10. ASSUME NEW i \in DOMAIN wire'["pool"], NEW d \in unacked'["pool"],
              IsAck(wire'["pool"][i]) /\ wire'["pool"][i].tag = d.tag
       PROVE  ActionsWritten(d.block)' \/ WrittenBefore("pool", Doc("action", d.block), i)'
  <2>1. ActionsWritten(d.block) \/ WrittenBefore("pool", Doc("action", d.block), i + 1)
    BY <1>2, <1>3, <1>10 DEF ActionsFollow
  <2>2. CASE ActionsWritten(d.block)
    BY <1>7, <2>2
  <2>3. CASE Doc("action", d.block) = first
    BY <1>4, <2>3 DEF ActionsWritten
  <2>4. CASE WrittenBefore("pool", Doc("action", d.block), i + 1) /\ Doc("action", d.block) # first
    BY <1>2, <1>6, <2>4
  <2> QED
    BY <2>1, <2>2, <2>3, <2>4
<1>11. step'["pool"] # "idle" =>
          /\ txCache'
          /\ <<"action", memory'["pool"][1].block>> \in docs'
                \/ OnWire("pool", Doc("action", memory["pool"][1].block))'
  <2> PICK b : b = memory["pool"][1].block
    OBVIOUS
  <2>1. step["pool"] # "idle" =>
            txCache /\ (<<"action", b>> \in docs \/ OnWire("pool", Doc("action", b)))
    BY DEF ActionsFollow
  <2>2. step'["pool"] # "idle" =>
            txCache' /\ (<<"action", b>> \in docs' \/ OnWire("pool", Doc("action", b))')
    BY <1>1, <1>3, <1>4, <1>5, <2>1
  <2> QED
    BY <1>1, <2>2 DEF OnWire
<1>12. ActionsFollow'
  BY <1>10, <1>11 DEF ActionsFollow, IsAck
<1> QED
  BY <1>9, <1>12

LEMMA PoolDelivered ==
    ASSUME Typed, Clean("pool"), Deliver("pool")
    PROVE  (ActionsFollow => ActionsFollow') /\ \A b : InPool(b) => InPool(b)'
<1> PICK d : d = [tag |-> nextTag["pool"], block |-> Head(ready["pool"])]
  OBVIOUS
<1>1. /\ chan["pool"] = "open" /\ ready["pool"] # <<>>
      /\ unacked'["pool"] = unacked["pool"] \cup {d} /\ memory'["pool"] = Append(memory["pool"], d)
      /\ ready'["pool"] = Tail(ready["pool"])
      /\ UNCHANGED <<docs, wire, step, chan, txCache>>
  BY BothWorkers DEF Deliver, Typed
<1>2. ready["pool"] \in Seq(Blocks) /\ nextTag["pool"] \in Nat \ {0} /\ memory["pool"] \in Seq(Deliveries)
  BY BothWorkers DEF Typed
<1>3. d \in Deliveries /\ d.tag = nextTag["pool"] /\ d.block = Head(ready["pool"])
  <2>1. Head(ready["pool"]) \in Blocks
    BY <1>1, <1>2, Tailed
  <2> QED
    BY <1>2, <2>1 DEF Deliveries
<1>4. \A i \in DOMAIN memory["pool"] : memory'["pool"][i] = memory["pool"][i]
  BY <1>1, <1>2, <1>3, Appended
<1>5. \A b : b \in ToSet(ready["pool"]) => b = d.block \/ b \in ToSet(ready'["pool"])
  <2> SUFFICES ASSUME NEW i \in DOMAIN ready["pool"], ready["pool"][i] # d.block
               PROVE  ready["pool"][i] \in ToSet(ready'["pool"])
    BY DEF ToSet
  <2>1. /\ Head(ready["pool"]) = ready["pool"][1]
        /\ i = 1 \/ (i - 1 \in DOMAIN Tail(ready["pool"]) /\ Tail(ready["pool"])[i - 1] = ready["pool"][i])
    BY <1>1, <1>2, Tailed
  <2> QED
    BY <1>1, <1>3, <2>1 DEF ToSet
<1>6. \A b : ActionsWritten(b) => ActionsWritten(b)'
  BY <1>1 DEF ActionsWritten, OnWire
<1>7. ASSUME NEW b, InPool(b) PROVE InPool(b)'
  <2>1. CASE b \in ToSet(ready["pool"])
    BY <1>1, <1>5, <2>1 DEF InPool, Owed
  <2>2. CASE \E e \in unacked["pool"] : e.block = b
    BY <1>1, <2>2 DEF InPool, Owed
  <2>3. CASE ActionsWritten(b)
    BY <1>6, <2>3 DEF InPool
  <2> QED
    BY <1>7, <2>1, <2>2, <2>3 DEF InPool, Owed
<1>8. Tagged("pool")
  BY <1>1 DEF Clean
<1>9. \A e \in unacked["pool"] : e.tag # d.tag
  <2>1. \A e \in unacked["pool"] : e.tag \in Nat /\ e.tag < nextTag["pool"]
    BY <1>8, BothWorkers DEF Tagged, Typed, Deliveries
  <2> QED
    BY <1>2, <1>3, <2>1
<1>10. \A i \in DOMAIN wire["pool"] : IsAck(wire["pool"][i]) => wire["pool"][i].tag # d.tag
  BY <1>8, <1>9 DEF Tagged
<1>11. ASSUME ActionsFollow PROVE ActionsFollow'
  <2>1. ASSUME NEW i \in DOMAIN wire'["pool"], NEW e \in unacked'["pool"],
               IsAck(wire'["pool"][i]) /\ wire'["pool"][i].tag = e.tag
        PROVE  ActionsWritten(e.block)' \/ WrittenBefore("pool", Doc("action", e.block), i)'
    <3>1. e \in unacked["pool"]
      BY <1>1, <1>10, <2>1
    <3>2. ActionsWritten(e.block) \/ WrittenBefore("pool", Doc("action", e.block), i)
      BY <1>1, <1>11, <2>1, <3>1 DEF ActionsFollow
    <3> QED
      BY <1>1, <1>6, <3>2 DEF WrittenBefore
  <2>2. step'["pool"] # "idle" =>
            /\ txCache'
            /\ <<"action", memory'["pool"][1].block>> \in docs'
                  \/ OnWire("pool", Doc("action", memory["pool"][1].block))'
    <3>1. step["pool"] # "idle" => memory'["pool"][1].block = memory["pool"][1].block
      <4>1. step["pool"] # "idle" => memory["pool"] # <<>>
        BY BothWorkers DEF Typed
      <4>2. step["pool"] # "idle" => 1 \in DOMAIN memory["pool"]
        BY <1>2, <4>1
      <4> QED
        BY <1>4, <4>2
    <3>2. step["pool"] # "idle" =>
              /\ txCache
              /\ <<"action", memory["pool"][1].block>> \in docs
                    \/ OnWire("pool", Doc("action", memory["pool"][1].block))
      BY <1>11 DEF ActionsFollow
    <3> QED
      BY <1>1, <3>1, <3>2 DEF OnWire
  <2> QED
    BY <2>1, <2>2 DEF ActionsFollow, IsAck
<1> QED
  BY <1>7, <1>11

\* A pool worker that ends: with the transaction cache it acknowledges what was stored.
LEMMA PoolStopped ==
    ASSUME Typed, Stop("pool"), txCache
    PROVE  ActionsFollow' /\ \A b : InPool(b) => InPool(b)'
<1>1. /\ wire'["pool"] = <<>> /\ step'["pool"] = "idle" /\ docs' = docs /\ Requeue("pool")
  BY BothWorkers DEF Stop, Typed
<1>2. /\ \A b : b \in ToSet(ready["pool"]) => b \in ToSet(ready'["pool"])
      /\ \A d \in unacked["pool"] : d.block \in ToSet(ready'["pool"])
  BY <1>1, Requeued, BothWorkers
<1>3. \A b : Owed("pool", b) => Owed("pool", b)'
  BY <1>2 DEF Owed
<1>4. \A b : ActionsWritten(b) => ActionsWritten(b)'
  BY <1>1 DEF ActionsWritten
<1>5. \A b : InPool(b) => InPool(b)'
  BY <1>3, <1>4 DEF InPool
<1>6. ActionsFollow'
  BY <1>1 DEF ActionsFollow
<1> QED
  BY <1>5, <1>6

LEMMA PoolReturns ==
    ASSUME Typed, Return("pool")
    PROVE  (ActionsFollow => ActionsFollow') /\ \A b : InPool(b) => InPool(b)'
<1>1. UNCHANGED <<ready, unacked, docs, wire, memory, step, txCache>>
  BY DEF Return, Reconnect, Relaunch
<1>2. ActionsFollow => ActionsFollow'
  BY <1>1 DEF ActionsFollow, ActionsWritten, OnWire, IsAck, WrittenBefore
<1>3. \A b : InPool(b) => InPool(b)'
  BY <1>1 DEF InPool, Owed, ActionsWritten, OnWire
<1> QED
  BY <1>2, <1>3
-----------------------------------------------------------------------------
(* The deserializer's traces *)

OnHold(b) == \E i \in DOMAIN backpressure : backpressure[i] = b

\* Where a trace is while the pool worker's part is not disturbed.
LEMMA PassedStays ==
    ASSUME \A b : InPool(b) => InPool(b)',
           fulls > 0 => fulls' > 0,
           \A b : OnHold(b) => OnHold(b)' \/ OnWire("ds", Trace(b))',
           \A b : OnWire("ds", Trace(b)) => OnWire("ds", Trace(b))' \/ InPool(b)'
    PROVE  \A b : Passed(b) => Passed(b)'
  BY DEF Passed, OnHold

LEMMA DsUntouchedTraces ==
    ASSUME UNCHANGED <<unacked["ds"], memory["ds"], wire["ds"], step["ds"], ready["ds"], backpressure>>,
           fulls > 0 => fulls' > 0,
           \A b : InPool(b) => InPool(b)'
    PROVE  TracesFollow => TracesFollow'
<1> SUFFICES ASSUME TracesFollow PROVE TracesFollow'
  OBVIOUS
<1>1. \A b : OnHold(b) => OnHold(b)'
  BY DEF OnHold
<1>2. \A o : OnWire("ds", o) => OnWire("ds", o)'
  BY DEF OnWire
<1>3. \A b : Passed(b) => Passed(b)'
  BY <1>1, <1>2, PassedStays
<1>4. \A b : Owed("ds", b) => Owed("ds", b)'
  BY DEF Owed
<1>5. \A b \in Blocks : Owed("ds", b)' \/ Passed(b)'
  BY <1>3, <1>4 DEF TracesFollow
<1>6. ASSUME NEW i \in DOMAIN wire'["ds"], NEW d \in unacked'["ds"],
             IsAck(wire'["ds"][i]) /\ wire'["ds"][i].tag = d.tag
      PROVE  Passed(d.block)' \/ WrittenBefore("ds", Trace(d.block), i)'
  <2>1. Passed(d.block) \/ WrittenBefore("ds", Trace(d.block), i)
    BY <1>6 DEF TracesFollow
  <2> QED
    BY <1>3, <2>1 DEF WrittenBefore
<1>7. step'["ds"] = "block" =>
          Passed(memory["ds"][1].block)' \/ OnWire("ds", Trace(memory["ds"][1].block))'
  <2> PICK b : b = memory["ds"][1].block
    OBVIOUS
  <2>1. step["ds"] = "block" => Passed(b) \/ OnWire("ds", Trace(b))
    BY DEF TracesFollow
  <2>2. step'["ds"] = "block" => Passed(b)' \/ OnWire("ds", Trace(b))'
    BY <1>2, <1>3, <2>1
  <2>3. b = memory'["ds"][1].block
    OBVIOUS
  <2> QED
    BY <2>2, <2>3 DEF Passed, InPool, Owed, ActionsWritten, OnWire
<1> QED
  BY <1>5, <1>6, <1>7 DEF TracesFollow, IsAck

\* The deserializer writes no acknowledgement.
LEMMA DsWritesTraces ==
    ASSUME Typed, UNCHANGED <<ready, unacked, memory>>,
           NEW ops \in Seq(Ops), wire'["ds"] = wire["ds"] \o ops,
           \A j \in DOMAIN ops : ~IsAck(ops[j]),
           \A b : Passed(b) => Passed(b)',
           NEW cur, cur = memory["ds"][1].block,
           \/ step'["ds"] # "block" \/ step["ds"] = "block"
           \/ Passed(cur)' \/ OnWire("ds", Trace(cur))'
    PROVE  TracesFollow => TracesFollow'
<1> SUFFICES ASSUME TracesFollow PROVE TracesFollow'
  OBVIOUS
<1>1. /\ \A o : OnWire("ds", o) => OnWire("ds", o)'
      /\ \A o, n : WrittenBefore("ds", o, n) => WrittenBefore("ds", o, n)'
  BY WireGrows, BothWorkers
<1>2. \A b : Owed("ds", b) => Owed("ds", b)'
  BY DEF Owed
<1>3. \A b \in Blocks : Owed("ds", b)' \/ Passed(b)'
  BY <1>2 DEF TracesFollow
<1>4. ASSUME NEW i \in DOMAIN wire'["ds"], NEW d \in unacked'["ds"],
             IsAck(wire'["ds"][i]) /\ wire'["ds"][i].tag = d.tag
      PROVE  Passed(d.block)' \/ WrittenBefore("ds", Trace(d.block), i)'
  <2>1. \/ i \in DOMAIN wire["ds"] /\ wire'["ds"][i] = wire["ds"][i]
        \/ \E j \in DOMAIN ops : i = Len(wire["ds"]) + j /\ wire'["ds"][i] = ops[j]
    BY WireSplits, BothWorkers, Zenon
  <2>2. i \in DOMAIN wire["ds"] /\ wire'["ds"][i] = wire["ds"][i]
    BY <1>4, <2>1
  <2>3. Passed(d.block) \/ WrittenBefore("ds", Trace(d.block), i)
    BY <1>4, <2>2 DEF TracesFollow
  <2> QED
    BY <1>1, <2>3
<1>5. step'["ds"] = "block" => Passed(cur)' \/ OnWire("ds", Trace(cur))'
  <2>1. step["ds"] = "block" => Passed(cur) \/ OnWire("ds", Trace(cur))
    BY DEF TracesFollow
  <2> QED
    BY <1>1, <2>1
<1>6. cur = memory'["ds"][1].block
  OBVIOUS
<1>7. step'["ds"] = "block" =>
          Passed(memory["ds"][1].block)' \/ OnWire("ds", Trace(memory["ds"][1].block))'
  BY <1>5, <1>6 DEF Passed, InPool, Owed, ActionsWritten, OnWire
<1> QED
  BY <1>3, <1>4, <1>7 DEF TracesFollow, IsAck

\* The trace is routed before the block is acknowledged.
LEMMA DsRoutes ==
    ASSUME Typed, DsStep, Clean("ds"),
           fulls = 0 => ~waitToSend,
           \A b : InPool(b) => InPool(b)'
    PROVE  TracesFollow => TracesFollow'
<1> PICK cur : cur = memory["ds"][1]
  OBVIOUS
<1> PICK bl : bl = cur.block
  OBVIOUS
<1> PICK len : len = Len(wire["ds"])
  OBVIOUS
<1>1. memory["ds"] # <<>>
  BY BothWorkers DEF DsStep, PublishDeltas, RouteTrace, FinishBlock, Typed
<1>2. /\ Current("ds") = cur /\ cur \in Deliveries /\ bl \in Blocks /\ 1 \in DOMAIN memory["ds"]
  BY <1>1, CurrentIs, BothWorkers
<1>3. UNCHANGED <<ready, unacked, nextTag, docs, chan, fulls>>
  BY DEF DsStep, PublishDeltas, RouteTrace, FinishBlock, brokerVars, bounds
<1>4. /\ wire["ds"] \in Seq(Ops) /\ memory["ds"] \in Seq(Deliveries) /\ backpressure \in Seq(Blocks)
      /\ fulls \in Nat
  BY BothWorkers DEF Typed
<1>5. chan["ds"] = "open" /\ Tagged("ds") /\ cur \in unacked["ds"]
  BY <1>1, <1>2 DEF Clean, Tagged
<1>6. ASSUME NEW ops \in Seq(Ops), wire'["ds"] = wire["ds"] \o ops,
             \A b : OnHold(b) => OnHold(b)'
      PROVE  \A b : Passed(b) => Passed(b)'
  <2>1. \A o : OnWire("ds", o) => OnWire("ds", o)'
    BY <1>6, WireGrows, BothWorkers
  <2> QED
    BY <1>3, <1>6, <2>1, PassedStays
<1>7. CASE PublishDeltas
  <2> PICK op : op = Doc("delta", bl)
    OBVIOUS
  <2>1. op \in Ops /\ ~IsAck(op)
    BY <1>2, OpsTyped, WhatOpsAre DEF IsAck
  <2>2. <<op>> \in Seq(Ops) /\ DOMAIN <<op>> = {1} /\ <<op>>[1] = op
    BY <2>1, Single
  <2>3. memory' = memory /\ backpressure' = backpressure /\ Write("ds", <<op>>)
    BY <1>2, <1>7 DEF PublishDeltas, dsVars
  <2>4. step'["ds"] # "block"
    BY <1>7, BothWorkers DEF PublishDeltas, Typed
  <2>5. wire'["ds"] = wire["ds"] \o <<op>>
    BY <2>2, <2>3, Wrote, BothWorkers
  <2>6. \A j \in DOMAIN <<op>> : ~IsAck(<<op>>[j])
    BY <2>1, <2>2
  <2>7. \A b : OnHold(b) => OnHold(b)'
    BY <2>3 DEF OnHold
  <2>8. \A b : Passed(b) => Passed(b)'
    BY <1>6, <2>2, <2>5, <2>7
  <2> QED
    BY <1>3, <2>2, <2>3, <2>4, <2>5, <2>6, <2>8, DsWritesTraces
<1>8. CASE RouteTrace
  <2> PICK op : op = Trace(bl)
    OBVIOUS
  <2>1. op \in Ops /\ ~IsAck(op)
    BY <1>2, OpsTyped, WhatOpsAre DEF IsAck
  <2>2. <<op>> \in Seq(Ops) /\ DOMAIN <<op>> = {1} /\ <<op>>[1] = op
    BY <2>1, Single
  <2>3. memory' = memory
    BY <1>8 DEF RouteTrace
  <2>4. CASE Write("ds", <<op>>) /\ backpressure' = backpressure
    <3>1. wire'["ds"] = wire["ds"] \o <<op>>
      BY <2>2, <2>4, Wrote, BothWorkers
    <3>2. \A j \in DOMAIN <<op>> : ~IsAck(<<op>>[j])
      BY <2>1, <2>2
    <3>3. OnWire("ds", op)'
      <4>1. \A j \in DOMAIN <<op>> : OnWire("ds", <<op>>[j])'
        BY <2>2, <3>1, WireGrows, BothWorkers
      <4> QED
        BY <2>2, <4>1
    <3>4. \A b : OnHold(b) => OnHold(b)'
      BY <2>4 DEF OnHold
    <3>5. \A b : Passed(b) => Passed(b)'
      BY <1>6, <2>2, <3>1, <3>4
    <3> QED
      BY <1>3, <2>2, <2>3, <3>1, <3>2, <3>3, <3>5, DsWritesTraces
  <2>5. CASE waitToSend /\ wire' = wire /\ backpressure' = Append(backpressure, bl)
    <3>1. wire'["ds"] = wire["ds"] \o <<>> /\ <<>> \in Seq(Ops)
      BY <1>4, <2>5
    <3>2. \A j \in DOMAIN <<>> : ~IsAck(<<>>[j])
      OBVIOUS
    <3>3. /\ \A i \in DOMAIN backpressure :
                i \in DOMAIN backpressure' /\ backpressure'[i] = backpressure[i]
          /\ Len(backpressure) + 1 \in DOMAIN backpressure'
          /\ backpressure'[Len(backpressure) + 1] = bl
      BY <1>2, <1>4, <2>5, Appended
    <3>4. (\A b : OnHold(b) => OnHold(b)') /\ OnHold(bl)'
      BY <3>3 DEF OnHold
    <3>5. \A b : Passed(b) => Passed(b)'
      BY <1>6, <3>1, <3>4
    <3>6. Passed(bl)'
      <4>1. fulls' > 0
        BY <1>3, <1>4, <2>5
      <4> QED
        BY <3>4, <4>1 DEF Passed, OnHold
    <3> QED
      BY <1>3, <2>3, <3>1, <3>2, <3>5, <3>6, DsWritesTraces
  <2> QED
    BY <1>2, <1>5, <1>8, <2>4, <2>5 DEF RouteTrace, Backpressure
<1>9. CASE FinishBlock
  <2> PICK ops : ops = BlockOps(Current("ds"))
    OBVIOUS
  <2>1. /\ ops \in Seq(Ops) /\ DOMAIN ops = {1, 2}
        /\ ops[1] = Doc("block", bl) /\ ops[2] = Ack(cur)
    BY <1>2, OpsTyped, Pair DEF BlockOps
  <2>2. ~IsAck(ops[1]) /\ IsAck(ops[2]) /\ ops[2].tag = cur.tag
    BY <2>1, WhatOpsAre DEF IsAck
  <2>3. /\ step["ds"] = "block" /\ Write("ds", ops) /\ NextDelivery("ds") /\ backpressure' = backpressure
    BY <1>9 DEF FinishBlock, dsVars
  <2>4. /\ memory'["ds"] = Tail(memory["ds"]) /\ step'["ds"] = "idle"
    BY <1>1, <2>3, Forgot, BothWorkers
  <2>5. ops \in Seq(Ops)
    BY <2>1
  <2>6. wire'["ds"] = wire["ds"] \o ops
    BY <2>3, <2>5, Wrote, BothWorkers
  <2>7. \A b : OnHold(b) => OnHold(b)'
    BY <2>3 DEF OnHold
  <2>8. \A b : Passed(b) => Passed(b)'
    BY <1>6, <2>5, <2>6, <2>7
  <2>9. /\ \A o, n : WrittenBefore("ds", o, n) => WrittenBefore("ds", o, n)'
        /\ \A o : OnWire("ds", o) => \A n \in Nat : n > len => WrittenBefore("ds", o, n)'
    BY <2>5, <2>6, WireGrows, BothWorkers
  <2>10. \A b : Owed("ds", b) => Owed("ds", b)'
    BY <1>3 DEF Owed
  <2>11. ASSUME TracesFollow PROVE TracesFollow'
    <3>1. \A b \in Blocks : Owed("ds", b)' \/ Passed(b)'
      BY <2>8, <2>10, <2>11 DEF TracesFollow
    <3>2. ASSUME NEW i \in DOMAIN wire'["ds"], NEW d \in unacked'["ds"],
                 IsAck(wire'["ds"][i]) /\ wire'["ds"][i].tag = d.tag
          PROVE  Passed(d.block)' \/ WrittenBefore("ds", Trace(d.block), i)'
      <4>1. \/ i \in DOMAIN wire["ds"] /\ wire'["ds"][i] = wire["ds"][i]
            \/ \E j \in DOMAIN ops : i = Len(wire["ds"]) + j /\ wire'["ds"][i] = ops[j]
        BY <2>5, <2>6, WireSplits, BothWorkers, Zenon
      <4>2. CASE i \in DOMAIN wire["ds"] /\ wire'["ds"][i] = wire["ds"][i]
        <5>1. Passed(d.block) \/ WrittenBefore("ds", Trace(d.block), i)
          BY <1>3, <2>11, <3>2, <4>2 DEF TracesFollow
        <5> QED
          BY <2>8, <2>9, <5>1
      <4>3. CASE \E j \in DOMAIN ops : i = Len(wire["ds"]) + j /\ wire'["ds"][i] = ops[j]
        <5>1. i = len + 2 /\ wire'["ds"][i].tag = cur.tag
          BY <2>1, <2>2, <3>2, <4>3
        <5>2. d = cur
          BY <1>3, <1>5, <3>2, <5>1 DEF Tagged
        <5>3. Passed(bl) \/ OnWire("ds", Trace(bl))
          BY <2>3, <2>11 DEF TracesFollow
        <5>4. i \in Nat /\ i > len
          BY <1>4, <5>1
        <5>5. Passed(bl)' \/ WrittenBefore("ds", Trace(bl), i)'
          BY <2>8, <2>9, <5>3, <5>4
        <5> QED
          BY <5>2, <5>5
      <4> QED
        BY <4>1, <4>2, <4>3
    <3> QED
      BY <2>4, <3>1, <3>2 DEF TracesFollow, IsAck
  <2> QED
    BY <2>11
<1> QED
  BY <1>7, <1>8, <1>9 DEF DsStep

\* 'drain' sends what waited, in order.
LEMMA DsDrainsTraces ==
    ASSUME Typed, Drain,
           \A b : InPool(b) => InPool(b)'
    PROVE  TracesFollow => TracesFollow'
<1> PICK cur : cur = memory["ds"][1].block
  OBVIOUS
<1>1. PICK k \in 0 .. Len(backpressure), again \in BOOLEAN, ops \in Seq(Ops) :
          /\ DOMAIN ops = 1 .. k /\ \A i \in 1 .. k : ops[i] = Trace(backpressure[i])
          /\ wire'["ds"] = wire["ds"] \o ops
          /\ backpressure' = SubSeq(backpressure, k + 1, Len(backpressure))
          /\ again => fulls' = fulls + 1
          /\ ~again => fulls' = fulls
  BY DrainFacts
<1>2. \A j \in DOMAIN ops : ~IsAck(ops[j])
  BY <1>1, WhatOpsAre DEF IsAck
<1>3. UNCHANGED <<ready, unacked, memory, step>>
  BY DEF Drain, brokerVars
<1>4. fulls > 0 => fulls' > 0
  <2>1. fulls \in Nat
    BY DEF Typed
  <2> QED
    BY <1>1, <2>1
<1>5. /\ \A o : OnWire("ds", o) => OnWire("ds", o)'
      /\ \A j \in DOMAIN ops : OnWire("ds", ops[j])'
  BY <1>1, WireGrows, BothWorkers
<1>6. ASSUME NEW b, OnHold(b) PROVE OnHold(b)' \/ OnWire("ds", Trace(b))'
  <2>1. PICK i \in DOMAIN backpressure : backpressure[i] = b
    BY <1>6 DEF OnHold
  <2>2. backpressure \in Seq(Blocks) /\ k \in Nat /\ Len(backpressure) \in Nat
    BY <1>1 DEF Typed
  <2>3. i \in 1 .. Len(backpressure)
    BY <2>1, <2>2
  <2>4. CASE i <= k
    <3>1. i \in 1 .. k
      BY <2>2, <2>3, <2>4
    <3>2. i \in DOMAIN ops /\ ops[i] = Trace(b)
      BY <1>1, <2>1, <3>1
    <3> QED
      BY <1>5, <3>2
  <2>5. CASE i > k
    <3>1. i - k \in 1 .. Len(backpressure) - k /\ (k + 1) + (i - k) - 1 = i
      BY <1>1, <2>2, <2>3, <2>5
    <3>2. /\ DOMAIN backpressure' = 1 .. Len(backpressure) - k
          /\ \A n \in 1 .. Len(backpressure) - k : backpressure'[n] = backpressure[(k + 1) + n - 1]
      BY <1>1, <2>2
    <3>3. i - k \in DOMAIN backpressure' /\ backpressure'[i - k] = b
      BY <2>1, <3>1, <3>2
    <3> QED
      BY <3>3 DEF OnHold
  <2> QED
    BY <2>2, <2>3, <2>4, <2>5
<1>7. \A b : Passed(b) => Passed(b)'
  BY <1>4, <1>5, <1>6, PassedStays
<1>8. step'["ds"] # "block" \/ step["ds"] = "block"
  BY <1>3
<1> QED
  BY <1>1, <1>2, <1>3, <1>7, <1>8, DsWritesTraces

LEMMA DsDeliveredTraces ==
    ASSUME Typed, Clean("ds"), Deliver("ds"),
           \A b : InPool(b) => InPool(b)'
    PROVE  TracesFollow => TracesFollow'
<1> PICK d : d = [tag |-> nextTag["ds"], block |-> Head(ready["ds"])]
  OBVIOUS
<1>1. /\ chan["ds"] = "open" /\ ready["ds"] # <<>>
      /\ unacked'["ds"] = unacked["ds"] \cup {d} /\ memory'["ds"] = Append(memory["ds"], d)
      /\ ready'["ds"] = Tail(ready["ds"])
      /\ UNCHANGED <<docs, wire, step, chan, backpressure, fulls>>
  BY BothWorkers DEF Deliver, Typed, dsVars, bounds
<1>2. ready["ds"] \in Seq(Blocks) /\ nextTag["ds"] \in Nat \ {0} /\ memory["ds"] \in Seq(Deliveries)
  BY BothWorkers DEF Typed
<1>3. d \in Deliveries /\ d.tag = nextTag["ds"] /\ d.block = Head(ready["ds"])
  <2>1. Head(ready["ds"]) \in Blocks
    BY <1>1, <1>2, Tailed
  <2> QED
    BY <1>2, <2>1 DEF Deliveries
<1>4. \A i \in DOMAIN memory["ds"] : memory'["ds"][i] = memory["ds"][i]
  BY <1>1, <1>2, <1>3, Appended
<1>5. \A b : b \in ToSet(ready["ds"]) => b = d.block \/ b \in ToSet(ready'["ds"])
  <2> SUFFICES ASSUME NEW i \in DOMAIN ready["ds"], ready["ds"][i] # d.block
               PROVE  ready["ds"][i] \in ToSet(ready'["ds"])
    BY DEF ToSet
  <2>1. /\ Head(ready["ds"]) = ready["ds"][1]
        /\ i = 1 \/ (i - 1 \in DOMAIN Tail(ready["ds"]) /\ Tail(ready["ds"])[i - 1] = ready["ds"][i])
    BY <1>1, <1>2, Tailed
  <2> QED
    BY <1>1, <1>3, <2>1 DEF ToSet
<1>6. ASSUME NEW b, Owed("ds", b) PROVE Owed("ds", b)'
  <2>1. CASE b \in ToSet(ready["ds"])
    BY <1>1, <1>5, <2>1 DEF Owed
  <2>2. CASE \E e \in unacked["ds"] : e.block = b
    BY <1>1, <2>2 DEF Owed
  <2> QED
    BY <1>6, <2>1, <2>2 DEF Owed
<1>7. \A b : Passed(b) => Passed(b)'
  <2>1. \A b : OnHold(b) => OnHold(b)'
    BY <1>1 DEF OnHold
  <2>2. \A o : OnWire("ds", o) => OnWire("ds", o)'
    BY <1>1 DEF OnWire
  <2> QED
    BY <1>1, <2>1, <2>2, PassedStays
<1>8. Tagged("ds")
  BY <1>1 DEF Clean
<1>9. \A e \in unacked["ds"] : e.tag # d.tag
  <2>1. \A e \in unacked["ds"] : e.tag \in Nat /\ e.tag < nextTag["ds"]
    BY <1>8, BothWorkers DEF Tagged, Typed, Deliveries
  <2> QED
    BY <1>2, <1>3, <2>1
<1>10. \A i \in DOMAIN wire["ds"] : IsAck(wire["ds"][i]) => wire["ds"][i].tag # d.tag
  BY <1>8, <1>9 DEF Tagged
<1>11. ASSUME TracesFollow PROVE TracesFollow'
  <2>1. \A b \in Blocks : Owed("ds", b)' \/ Passed(b)'
    BY <1>6, <1>7, <1>11 DEF TracesFollow
  <2>2. ASSUME NEW i \in DOMAIN wire'["ds"], NEW e \in unacked'["ds"],
               IsAck(wire'["ds"][i]) /\ wire'["ds"][i].tag = e.tag
        PROVE  Passed(e.block)' \/ WrittenBefore("ds", Trace(e.block), i)'
    <3>1. e \in unacked["ds"]
      BY <1>1, <1>10, <2>2
    <3>2. Passed(e.block) \/ WrittenBefore("ds", Trace(e.block), i)
      BY <1>1, <1>11, <2>2, <3>1 DEF TracesFollow
    <3> QED
      BY <1>1, <1>7, <3>2 DEF WrittenBefore
  <2>3. step'["ds"] = "block" =>
            Passed(memory["ds"][1].block)' \/ OnWire("ds", Trace(memory["ds"][1].block))'
    <3> PICK b : b = memory["ds"][1].block
      OBVIOUS
    <3>1. step["ds"] = "block" => memory'["ds"][1].block = b
      <4>1. step["ds"] = "block" => memory["ds"] # <<>>
        BY BothWorkers DEF Typed
      <4>2. step["ds"] = "block" => 1 \in DOMAIN memory["ds"]
        BY <1>2, <4>1
      <4> QED
        BY <1>4, <4>2
    <3>2. step["ds"] = "block" => Passed(b) \/ OnWire("ds", Trace(b))
      BY <1>11 DEF TracesFollow
    <3>3. step'["ds"] = "block" => Passed(b)' \/ OnWire("ds", Trace(b))'
      BY <1>1, <1>7, <3>2 DEF OnWire
    <3>4. step'["ds"] = "block" => b = memory'["ds"][1].block
      BY <1>1, <3>1
    <3> QED
      BY <3>3, <3>4 DEF Passed, InPool, Owed, ActionsWritten, OnWire
  <2> QED
    BY <2>1, <2>2, <2>3 DEF TracesFollow, IsAck
<1> QED
  BY <1>11

\* The broker reads one operation of the deserializer: a trace joins the pool worker's
\* queue, and what an acknowledgement settles was routed before.
LEMMA DsReadTraces ==
    ASSUME Typed, StoreDoc("ds") \/ QueueTrace("ds") \/ Settle("ds"),
           \A b : InPool(b) => InPool(b)'
    PROVE  TracesFollow => TracesFollow'
<1> SUFFICES ASSUME TracesFollow PROVE TracesFollow'
  OBVIOUS
<1> PICK first : first = Head(wire["ds"])
  OBVIOUS
<1>1. /\ wire["ds"] # <<>> /\ wire'["ds"] = Tail(wire["ds"])
      /\ UNCHANGED <<memory, step, backpressure, fulls>>
      /\ wire["ds"] \in Seq(Ops)
  <2>1. wire["ds"] # <<>> /\ TakeOp("ds") /\ UNCHANGED <<memory, step, backpressure, fulls>>
    BY DEF StoreDoc, QueueTrace, Settle, Reads, dsVars, bounds
  <2> QED
    BY <2>1, Took, BothWorkers DEF Typed
<1>2. /\ first = wire["ds"][1] /\ 1 \in DOMAIN wire["ds"]
      /\ \A i \in DOMAIN wire'["ds"] :
            i \in Nat /\ i + 1 \in DOMAIN wire["ds"] /\ wire'["ds"][i] = wire["ds"][i + 1]
      /\ \A i \in DOMAIN wire["ds"] :
            i = 1 \/ (i \in Nat /\ i - 1 \in DOMAIN wire'["ds"] /\ wire'["ds"][i - 1] = wire["ds"][i])
  BY <1>1, Tailed
<1>3. ready'["ds"] = ready["ds"] /\ unacked'["ds"] \subseteq unacked["ds"]
  <2>1. CASE StoreDoc("ds")
    BY <2>1 DEF StoreDoc
  <2>2. CASE QueueTrace("ds")
    BY <2>2, BothWorkers DEF QueueTrace, Typed
  <2>3. CASE Settle("ds")
    BY <2>3, BothWorkers DEF Settle, Typed
  <2> QED
    BY <2>1, <2>2, <2>3
<1>4. ASSUME NEW b, first = Trace(b) PROVE InPool(b)'
  <2>1. first.op = "trace" /\ first.block = b
    BY <1>4, WhatOpsAre
  <2>2. QueueTrace("ds")
    BY <2>1 DEF StoreDoc, QueueTrace, Settle, Reads
  <2>3. b \in Blocks /\ ready["pool"] \in Seq(Blocks)
    <3>1. first \in Ops
      BY <1>1, <1>2, Tailed
    <3> QED
      BY <2>1, <3>1, OpsOfAKind, BothWorkers DEF Typed
  <2>4. ready'["pool"] = Append(ready["pool"], b)
    BY <2>1, <2>2, BothWorkers DEF QueueTrace, Typed
  <2>5. b \in ToSet(ready'["pool"])
    <3>1. Len(ready["pool"]) + 1 \in DOMAIN ready'["pool"] /\ ready'["pool"][Len(ready["pool"]) + 1] = b
      BY <2>3, <2>4, Appended
    <3> QED
      BY <3>1 DEF ToSet
  <2> QED
    BY <2>5 DEF InPool, Owed
<1>5. ASSUME NEW o, OnWire("ds", o), o # first PROVE OnWire("ds", o)'
  <2>1. PICK i \in DOMAIN wire["ds"] : wire["ds"][i] = o
    BY <1>5 DEF OnWire
  <2>2. i - 1 \in DOMAIN wire'["ds"] /\ wire'["ds"][i - 1] = o
    BY <1>2, <1>5, <2>1
  <2> QED
    BY <2>2 DEF OnWire
<1>6. ASSUME NEW o, NEW n \in Nat, WrittenBefore("ds", o, n + 1), o # first
      PROVE  WrittenBefore("ds", o, n)'
  <2>1. PICK i \in DOMAIN wire["ds"] : wire["ds"][i] = o /\ i < n + 1
    BY <1>6 DEF WrittenBefore
  <2>2. i - 1 \in DOMAIN wire'["ds"] /\ wire'["ds"][i - 1] = o /\ i \in Nat
    BY <1>2, <1>6, <2>1
  <2>3. i - 1 < n
    BY <2>1, <2>2
  <2> QED
    BY <2>2, <2>3 DEF WrittenBefore
<1>7. \A b : Passed(b) => Passed(b)'
  <2>1. \A b : OnHold(b) => OnHold(b)'
    BY <1>1 DEF OnHold
  <2>2. \A b : OnWire("ds", Trace(b)) => OnWire("ds", Trace(b))' \/ InPool(b)'
    BY <1>4, <1>5
  <2> QED
    BY <1>1, <2>1, <2>2, PassedStays
<1>8. ASSUME NEW d \in unacked["ds"], d \notin unacked'["ds"] PROVE Passed(d.block)
  <2>1. Settle("ds")
    BY <1>8 DEF StoreDoc, QueueTrace
  <2>2. d \in Acked("ds")
    BY <1>8, <2>1, BothWorkers DEF Settle, Typed
  <2>3. IsAck(wire["ds"][1]) /\ wire["ds"][1].tag = d.tag
    BY <1>2, <2>1, <2>2 DEF Settle, Reads, Acked, IsAck
  <2>4. Passed(d.block) \/ WrittenBefore("ds", Trace(d.block), 1)
    BY <1>2, <2>3 DEF TracesFollow
  <2>5. \A o : ~WrittenBefore("ds", o, 1)
    BY <1>1 DEF WrittenBefore
  <2> QED
    BY <2>4, <2>5
<1>9. ASSUME NEW b \in Blocks PROVE Owed("ds", b)' \/ Passed(b)'
  <2>1. CASE Passed(b)
    BY <1>7, <2>1
  <2>2. CASE b \in ToSet(ready["ds"])
    BY <1>3, <2>2 DEF Owed
  <2>3. CASE \E d \in unacked["ds"] : d.block = b
    <3>1. PICK d \in unacked["ds"] : d.block = b
      BY <2>3
    <3>2. CASE d \in unacked'["ds"]
      BY <3>1, <3>2 DEF Owed
    <3>3. CASE d \notin unacked'["ds"]
      BY <1>7, <1>8, <3>1, <3>3
    <3> QED
      BY <3>2, <3>3
  <2> QED
    BY <2>1, <2>2, <2>3 DEF TracesFollow, Owed
<1>10. ASSUME NEW i \in DOMAIN wire'["ds"], NEW d \in unacked'["ds"],
              IsAck(wire'["ds"][i]) /\ wire'["ds"][i].tag = d.tag
       PROVE  Passed(d.block)' \/ WrittenBefore("ds", Trace(d.block), i)'
  <2>1. Passed(d.block) \/ WrittenBefore("ds", Trace(d.block), i + 1)
    BY <1>2, <1>3, <1>10 DEF TracesFollow
  <2>2. CASE Passed(d.block)
    BY <1>7, <2>2
  <2>3. CASE Trace(d.block) = first
    BY <1>4, <2>3 DEF Passed
  <2>4. CASE WrittenBefore("ds", Trace(d.block), i + 1) /\ Trace(d.block) # first
    BY <1>2, <1>6, <2>4
  <2> QED
    BY <2>1, <2>2, <2>3, <2>4
<1>11. step'["ds"] = "block" =>
          Passed(memory["ds"][1].block)' \/ OnWire("ds", Trace(memory["ds"][1].block))'
  <2> PICK b : b = memory["ds"][1].block
    OBVIOUS
  <2>1. step["ds"] = "block" => Passed(b) \/ OnWire("ds", Trace(b))
    BY DEF TracesFollow
  <2>2. OnWire("ds", Trace(b)) => Passed(b)' \/ OnWire("ds", Trace(b))'
    BY <1>4, <1>5 DEF Passed
  <2>3. step'["ds"] = "block" => Passed(b)' \/ OnWire("ds", Trace(b))'
    BY <1>1, <1>7, <2>1, <2>2
  <2>4. b = memory'["ds"][1].block
    BY <1>1
  <2> QED
    BY <2>3, <2>4 DEF Passed, InPool, Owed, ActionsWritten, OnWire
<1> QED
  BY <1>9, <1>10, <1>11 DEF TracesFollow, IsAck

\* A deserializer that ends before any backpressure.
LEMMA DsStoppedTraces ==
    ASSUME Typed, Stop("ds"), fulls = 0,
           \A b : InPool(b) => InPool(b)'
    PROVE  TracesFollow => TracesFollow'
<1>1. /\ wire'["ds"] = <<>> /\ step'["ds"] = "idle" /\ Requeue("ds")
  BY BothWorkers DEF Stop, Typed
<1>2. /\ \A b : b \in ToSet(ready["ds"]) => b \in ToSet(ready'["ds"])
      /\ \A d \in unacked["ds"] : d.block \in ToSet(ready'["ds"])
  BY <1>1, Requeued, BothWorkers
<1>3. \A b : Owed("ds", b) => Owed("ds", b)'
  BY <1>2 DEF Owed
<1>4. \A b : Passed(b) => Passed(b)'
  <2>1. \A b : Passed(b) => InPool(b)
    BY DEF Passed
  <2> QED
    BY <2>1 DEF Passed
<1>5. ASSUME TracesFollow PROVE TracesFollow'
  <2>1. \A b \in Blocks : Owed("ds", b)' \/ Passed(b)'
    BY <1>3, <1>4, <1>5 DEF TracesFollow
  <2> QED
    BY <1>1, <2>1 DEF TracesFollow
<1> QED
  BY <1>5

\* Steps on the deserializer's side leave the pool worker as it is.
LEMMA PoolFrame ==
    ASSUME Typed,
           \/ DsStep \/ FillBuffer \/ Drain \/ Deliver("ds") \/ StoreDoc("ds") \/ QueueTrace("ds")
           \/ Settle("ds") \/ Return("ds") \/ Crash("ds") \/ DieOfChannelError("ds") \/ UNCHANGED vars
    PROVE  /\ Clean("pool") => Clean("pool")'
           /\ ActionsFollow => ActionsFollow'
           /\ \A b : InPool(b) => InPool(b)'
           /\ jammed' = jammed /\ txCache' = txCache
<1>1. jammed' = jammed /\ txCache' = txCache /\ docs \subseteq docs'
  BY DEF DsStep, PublishDeltas, RouteTrace, FinishBlock, FillBuffer, Drain, Deliver, StoreDoc,
         QueueTrace, Settle, Return, Reconnect, Relaunch, Crash, DieOfChannelError, Stop,
         brokerVars, vars
<1>2. /\ UNCHANGED <<chan["pool"], unacked["pool"], nextTag["pool"], memory["pool"],
                     wire["pool"], step["pool"]>>
      /\ \A b : b \in ToSet(ready["pool"]) => b \in ToSet(ready'["pool"])
  <2>1. CASE DsStep
    <3>1. UNCHANGED <<ready, unacked, nextTag, chan>>
      BY <2>1 DEF DsStep, PublishDeltas, RouteTrace, FinishBlock, brokerVars
    <3>2. wire'["pool"] = wire["pool"]
      BY <2>1, BothWorkers DEF DsStep, PublishDeltas, RouteTrace, FinishBlock, Write, Typed
    <3>3. memory'["pool"] = memory["pool"] /\ step'["pool"] = step["pool"]
      BY <2>1, BothWorkers DEF DsStep, PublishDeltas, RouteTrace, FinishBlock, NextDelivery, Typed
    <3> QED
      BY <3>1, <3>2, <3>3
  <2>2. CASE FillBuffer
    BY <2>2 DEF FillBuffer, brokerVars
  <2>3. CASE Drain
    <3>1. wire'["pool"] = wire["pool"]
      BY <2>3, DrainFacts
    <3> QED
      BY <2>3, <3>1 DEF Drain, brokerVars
  <2>4. CASE Deliver("ds")
    BY <2>4, BothWorkers DEF Deliver, Typed
  <2>5. CASE StoreDoc("ds")
    BY <2>5, BothWorkers DEF StoreDoc, TakeOp, Typed
  <2>6. CASE QueueTrace("ds")
    <3>1. UNCHANGED <<chan, unacked, nextTag, memory, step>> /\ wire'["pool"] = wire["pool"]
      BY <2>6, BothWorkers DEF QueueTrace, TakeOp, Typed
    <3>2. wire["ds"] \in Seq(Ops) /\ wire["ds"] # <<>> /\ ready["pool"] \in Seq(Blocks)
      BY <2>6, BothWorkers DEF QueueTrace, Reads, Typed
    <3>3. Head(wire["ds"]).block \in Blocks
      <4>1. Head(wire["ds"]) \in Ops /\ Head(wire["ds"]).op = "trace"
        BY <2>6, <3>2, Tailed DEF QueueTrace, Reads
      <4> QED
        BY <4>1, OpsOfAKind
    <3>4. ready'["pool"] = Append(ready["pool"], Head(wire["ds"]).block)
      BY <2>6, BothWorkers DEF QueueTrace, Typed
    <3>5. \A i \in DOMAIN ready["pool"] : i \in DOMAIN ready'["pool"] /\ ready'["pool"][i] = ready["pool"][i]
      BY <3>2, <3>3, <3>4, Appended
    <3> QED
      BY <3>1, <3>5 DEF ToSet
  <2>7. CASE Settle("ds")
    BY <2>7, BothWorkers DEF Settle, TakeOp, Typed
  <2>8. CASE Return("ds")
    BY <2>8, BothWorkers DEF Return, Reconnect, Relaunch, Typed
  <2>9. CASE Crash("ds") \/ DieOfChannelError("ds")
    <3>1. Stop("ds") /\ Requeue("ds") /\ nextTag' = nextTag
      BY <2>9 DEF Crash, DieOfChannelError, Stop
    <3>2. ready'["pool"] = ready["pool"] /\ unacked'["pool"] = unacked["pool"]
      BY <3>1, Requeued, BothWorkers
    <3>3. UNCHANGED <<chan["pool"], memory["pool"], wire["pool"], step["pool"]>>
      BY <3>1, BothWorkers DEF Stop, Typed
    <3> QED
      BY <3>1, <3>2, <3>3
  <2>10. CASE UNCHANGED vars
    BY <2>10 DEF vars, brokerVars
  <2> QED
    BY <2>1, <2>2, <2>3, <2>4, <2>5, <2>6, <2>7, <2>8, <2>9, <2>10
<1> QED
  BY <1>1, <1>2, PoolUntouched

\* Steps on the pool worker's side leave the deserializer's channel and traces as they are.
LEMMA DsFrame ==
    ASSUME Typed, \A b : InPool(b) => InPool(b)',
           \/ FillBuffer \/ PoolStep \/ Deliver("pool") \/ StoreDoc("pool") \/ QueueTrace("pool")
           \/ Settle("pool") \/ Return("pool") \/ Return("ds") \/ Crash("pool")
           \/ DieOfChannelError("pool") \/ UNCHANGED vars
    PROVE  TracesFollow => TracesFollow'
<1>1. fulls > 0 => fulls' > 0
  <2>1. fulls \in Nat
    BY DEF Typed
  <2>2. fulls' = fulls \/ fulls' = fulls + 1
    BY DEF FillBuffer, PoolStep, ProcessTrace, AckTrace, Deliver, StoreDoc, QueueTrace, Settle,
           Return, Reconnect, Relaunch, Crash, DieOfChannelError, bounds, vars
  <2> QED
    BY <2>1, <2>2
<1>2. backpressure' = backpressure
  BY DEF FillBuffer, PoolStep, ProcessTrace, AckTrace, Deliver, StoreDoc, QueueTrace, Settle,
         Return, Reconnect, Relaunch, Crash, DieOfChannelError, Stop, dsVars, vars
<1>3. UNCHANGED <<unacked["ds"], memory["ds"], wire["ds"], step["ds"], ready["ds"]>>
  <2>1. CASE FillBuffer
    BY <2>1 DEF FillBuffer, brokerVars
  <2>2. CASE PoolStep
    <3>1. UNCHANGED <<ready, unacked>>
      BY <2>2 DEF PoolStep, ProcessTrace, AckTrace, brokerVars
    <3>2. wire'["ds"] = wire["ds"]
      BY <2>2, BothWorkers DEF PoolStep, ProcessTrace, AckTrace, Write, Typed
    <3>3. memory'["ds"] = memory["ds"] /\ step'["ds"] = step["ds"]
      BY <2>2, BothWorkers DEF PoolStep, ProcessTrace, AckTrace, NextDelivery, Typed
    <3> QED
      BY <3>1, <3>2, <3>3
  <2>3. CASE Deliver("pool")
    BY <2>3, BothWorkers DEF Deliver, Typed
  <2>4. CASE StoreDoc("pool")
    BY <2>4, BothWorkers DEF StoreDoc, TakeOp, Typed
  <2>5. CASE QueueTrace("pool")
    BY <2>5, BothWorkers DEF QueueTrace, TakeOp, Typed
  <2>6. CASE Settle("pool")
    BY <2>6, BothWorkers DEF Settle, TakeOp, Typed
  <2>7. CASE Return("pool") \/ Return("ds")
    BY <2>7 DEF Return, Reconnect, Relaunch
  <2>8. CASE Crash("pool") \/ DieOfChannelError("pool")
    <3>1. Stop("pool") /\ Requeue("pool")
      BY <2>8 DEF Crash, DieOfChannelError, Stop
    <3>2. ready'["ds"] = ready["ds"] /\ unacked'["ds"] = unacked["ds"]
      BY <3>1, Requeued, BothWorkers
    <3>3. UNCHANGED <<memory["ds"], wire["ds"], step["ds"]>>
      BY <3>1, BothWorkers DEF Stop, Typed
    <3> QED
      BY <3>2, <3>3
  <2>9. CASE UNCHANGED vars
    BY <2>9 DEF vars, brokerVars
  <2> QED
    BY <2>1, <2>2, <2>3, <2>4, <2>5, <2>6, <2>7, <2>8, <2>9
<1> QED
  BY <1>1, <1>2, <1>3, DsUntouchedTraces

\* No backpressure before the write buffer was full.
NeverFull == fulls = 0 => backpressure = <<>> /\ ~waitToSend /\ ~full

LEMMA NeverFullNext ==
    ASSUME Typed, NeverFull, [Next]_vars
    PROVE  NeverFull' /\ (fulls' = 0 => fulls = 0)
<1> SUFFICES ASSUME fulls' = 0 PROVE fulls = 0 /\ backpressure' = <<>> /\ ~waitToSend' /\ ~full'
  BY DEF NeverFull
<1>1. fulls \in Nat
  BY DEF Typed
<1>2. ~FillBuffer
  BY <1>1 DEF FillBuffer
<1>3. ~Drain
  <2> SUFFICES ASSUME Drain PROVE FALSE
    OBVIOUS
  <2>1. full
    BY DEF Drain
  <2>2. fulls' = fulls \/ fulls' = fulls + 1
    BY DrainFacts
  <2> QED
    BY <1>1, <2>1, <2>2 DEF NeverFull
<1>4. fulls' = fulls
  BY <1>2, <1>3 DEF Next, DsStep, PublishDeltas, RouteTrace, FinishBlock, PoolStep, ProcessTrace,
        AckTrace, BrokerStep, Deliver, StoreDoc, QueueTrace, Settle, RefuseAck, LoseConnection,
        Crash, DieOfChannelError, Return, Reconnect, Relaunch, bounds, vars
<1>5. backpressure = <<>> /\ ~waitToSend /\ ~full
  BY <1>4 DEF NeverFull
<1>6. CASE RouteTrace
  BY <1>4, <1>5, <1>6 DEF RouteTrace
<1>7. CASE \E w \in Workers : Crash(w) \/ DieOfChannelError(w)
  BY <1>4, <1>5, <1>7 DEF Crash, DieOfChannelError, Stop
<1>8. CASE \E w \in Workers : RefuseAck(w) \/ LoseConnection(w)
  <2>1. waitToSend' = waitToSend /\ backpressure' = backpressure
    BY <1>8 DEF RefuseAck, LoseConnection
  <2>2. ~full'
    BY <1>5, <1>8, Zenon DEF RefuseAck, LoseConnection
  <2> QED
    BY <1>4, <1>5, <2>1, <2>2
<1>9. CASE UNCHANGED <<backpressure, waitToSend, full>>
  BY <1>4, <1>5, <1>9
<1>10. \/ UNCHANGED <<backpressure, waitToSend, full>>
       \/ RouteTrace
       \/ \E w \in Workers : Crash(w) \/ DieOfChannelError(w)
       \/ \E w \in Workers : RefuseAck(w) \/ LoseConnection(w)
  BY <1>2, <1>3 DEF Next, DsStep, PublishDeltas, FinishBlock, PoolStep, ProcessTrace,
        AckTrace, BrokerStep, Deliver, StoreDoc, QueueTrace, Settle,
        Return, Reconnect, Relaunch, dsVars, vars
<1> QED
  BY <1>4, <1>6, <1>7, <1>8, <1>9, <1>10

LEMMA TraceInvInit == Init => TraceInv
<1> SUFFICES ASSUME Init PROVE TraceInv
  OBVIOUS
<1>1. /\ \A w \in Workers : /\ unacked[w] = {} /\ wire[w] = <<>> /\ memory[w] = <<>>
                            /\ step[w] = "idle" /\ chan[w] = "open"
      /\ ready["ds"] = [b \in Blocks |-> b]
      /\ ~jammed /\ ~waitToSend /\ ~full /\ backpressure = <<>>
  BY BothWorkers DEF Init
<1>2. Clean("ds") /\ Clean("pool")
  BY <1>1, BothWorkers DEF Clean, Tagged
<1>3. \A b \in Blocks : Owed("ds", b)
  BY <1>1 DEF Owed, ToSet
<1>4. TracesFollow
  BY <1>1, <1>3, BothWorkers DEF TracesFollow
<1>5. ActionsFollow
  BY <1>1, BothWorkers DEF ActionsFollow
<1> QED
  BY <1>1, <1>2, <1>4, <1>5 DEF TraceInv

Regime == crashes = 0 \/ (fulls = 0 /\ txCache)

\* What a step keeps, while connections hold.
LEMMA TraceStep ==
    ASSUME Typed, TraceInv, [Next]_vars, losses = 0, losses' = 0,
           fulls' = 0 => fulls = 0
    PROVE  Clean("pool")' /\ ~jammed' /\ (Regime' => TracesFollow' /\ ActionsFollow')
<1>1. /\ Clean("ds") /\ Clean("pool") /\ ~jammed
      /\ fulls = 0 => ~waitToSend
      /\ Regime => TracesFollow /\ ActionsFollow
  BY DEF TraceInv, Regime
<1>2. crashes \in Nat /\ fulls \in Nat
  BY DEF Typed
<1>3. ASSUME crashes' = crashes, txCache' = txCache, Regime' PROVE Regime
  BY <1>3 DEF Regime
<1>4. ASSUME crashes' = crashes + 1, txCache' = txCache, Regime' PROVE Regime /\ fulls = 0 /\ txCache
  BY <1>2, <1>4 DEF Regime
<1>5. CASE DsStep \/ Drain \/ Deliver("ds") \/ StoreDoc("ds") \/ QueueTrace("ds") \/ Settle("ds")
  <2>1. /\ Clean("pool")' /\ ~jammed' /\ txCache' = txCache
        /\ ActionsFollow => ActionsFollow'
        /\ \A b : InPool(b) => InPool(b)'
    BY <1>1, <1>5, PoolFrame
  <2>2. crashes' = crashes
    BY <1>5 DEF DsStep, PublishDeltas, RouteTrace, FinishBlock, Drain, Deliver, StoreDoc,
               QueueTrace, Settle, bounds
  <2>3. TracesFollow => TracesFollow'
    BY <1>1, <1>5, <2>1, DsRoutes, DsDrainsTraces, DsDeliveredTraces, DsReadTraces
  <2> QED
    BY <1>1, <1>3, <2>1, <2>2, <2>3
<1>6. CASE FillBuffer \/ Return("ds") \/ UNCHANGED vars
  <2>1. /\ Clean("pool")' /\ ~jammed' /\ txCache' = txCache
        /\ ActionsFollow => ActionsFollow'
        /\ \A b : InPool(b) => InPool(b)'
    BY <1>1, <1>6, PoolFrame
  <2>2. crashes' = crashes
    BY <1>6 DEF FillBuffer, Return, Reconnect, Relaunch, bounds, vars
  <2>3. TracesFollow => TracesFollow'
    BY <1>6, <2>1, DsFrame
  <2> QED
    BY <1>1, <1>3, <2>1, <2>2, <2>3
<1>7. CASE PoolStep \/ Deliver("pool") \/ StoreDoc("pool") \/ QueueTrace("pool") \/ Settle("pool")
           \/ Return("pool")
  <2>1. Clean("pool")' /\ ~jammed'
    <3>1. CASE PoolStep
      BY <1>1, <3>1, PoolWorks
    <3>2. CASE ~PoolStep
      <4>1. Clean("pool")'
        BY <1>1, <1>7, <3>2, CleanDeliver, CleanRead, CleanReturn, BothWorkers
      <4>2. jammed' = jammed
        BY <1>7, <3>2 DEF Deliver, StoreDoc, QueueTrace, Settle, Return, Reconnect, Relaunch
      <4> QED
        BY <1>1, <4>1, <4>2
    <3> QED
      BY <3>1, <3>2
  <2>2. crashes' = crashes /\ txCache' = txCache
    BY <1>7 DEF PoolStep, ProcessTrace, AckTrace, Deliver, StoreDoc, QueueTrace, Settle, Return,
               Reconnect, Relaunch, bounds
  <2>3. ASSUME ActionsFollow PROVE ActionsFollow' /\ \A b : InPool(b) => InPool(b)'
    BY <1>1, <1>7, <2>3, PoolWorks, PoolDelivered, PoolRead, PoolReturns
  <2>4. ASSUME ActionsFollow, TracesFollow PROVE TracesFollow'
    BY <1>7, <2>3, <2>4, DsFrame
  <2> QED
    BY <1>1, <1>3, <2>1, <2>2, <2>3, <2>4
<1>8. CASE Crash("ds") \/ DieOfChannelError("ds")
  <2>1. /\ Clean("pool")' /\ ~jammed' /\ txCache' = txCache
        /\ ActionsFollow => ActionsFollow'
        /\ \A b : InPool(b) => InPool(b)'
    BY <1>1, <1>8, PoolFrame
  <2>2. crashes' = crashes + 1 /\ Stop("ds")
    BY <1>8 DEF Crash, DieOfChannelError
  <2>3. fulls = 0 => (TracesFollow => TracesFollow')
    BY <2>1, <2>2, DsStoppedTraces
  <2> QED
    BY <1>1, <1>4, <2>1, <2>2, <2>3
<1>9. CASE Crash("pool") \/ DieOfChannelError("pool")
  <2>1. crashes' = crashes + 1 /\ Stop("pool") /\ txCache' = txCache /\ ~jammed'
    BY <1>9 DEF Crash, DieOfChannelError, Stop
  <2>2. Clean("pool")'
    BY <2>1, CleanStop, BothWorkers
  <2>3. ASSUME txCache PROVE ActionsFollow' /\ \A b : InPool(b) => InPool(b)'
    BY <2>1, <2>3, PoolStopped
  <2>4. ASSUME txCache, TracesFollow PROVE TracesFollow'
    BY <1>9, <2>3, <2>4, DsFrame
  <2> QED
    BY <1>1, <1>4, <2>1, <2>2, <2>3, <2>4
<1>10. ASSUME NEW w \in Workers PROVE ~RefuseAck(w) /\ ~LoseConnection(w)
  BY <1>1, NeverRefused, BothWorkers DEF LoseConnection
<1>11. ASSUME NEW w \in Workers,
              BrokerStep(w) \/ LoseConnection(w) \/ Crash(w) \/ DieOfChannelError(w) \/ Return(w)
       PROVE  Clean("pool")' /\ ~jammed' /\ (Regime' => TracesFollow' /\ ActionsFollow')
  <2>1. CASE w = "ds"
    BY <1>5, <1>6, <1>8, <1>10, <1>11, <2>1 DEF BrokerStep
  <2>2. CASE w = "pool"
    BY <1>7, <1>9, <1>10, <1>11, <2>2 DEF BrokerStep
  <2> QED
    BY <2>1, <2>2, BothWorkers
<1>12. Next => \/ DsStep \/ Drain \/ FillBuffer \/ PoolStep
               \/ \E w \in Workers : \/ BrokerStep(w) \/ LoseConnection(w) \/ Crash(w)
                                     \/ DieOfChannelError(w) \/ Return(w)
  BY DEF Next
<1> QED
  BY <1>5, <1>6, <1>7, <1>11, <1>12

LEMMA TraceInvNext == Typed /\ TraceInv /\ [Next]_vars /\ BlockInv' => TraceInv'
<1> SUFFICES ASSUME Typed, TraceInv, [Next]_vars, BlockInv', losses' = 0
             PROVE  /\ Clean("ds")' /\ Clean("pool")' /\ ~jammed'
                    /\ (fulls = 0 => backpressure = <<>> /\ ~waitToSend /\ ~full)'
                    /\ (crashes = 0 \/ (fulls = 0 /\ txCache) => TracesFollow /\ ActionsFollow)'
  BY DEF TraceInv
<1>1. losses = 0
  <2>1. losses \in Nat
    BY DEF Typed
  <2>2. losses' = losses \/ losses' = losses + 1
    BY DEF Next, DsStep, PublishDeltas, RouteTrace, FinishBlock, FillBuffer, Drain, PoolStep,
           ProcessTrace, AckTrace, BrokerStep, Deliver, StoreDoc, QueueTrace, Settle, RefuseAck,
           LoseConnection, Crash, DieOfChannelError, Return, Reconnect, Relaunch, bounds, vars
  <2> QED
    BY <2>1, <2>2
<1>2. NeverFull
  BY <1>1 DEF TraceInv, NeverFull
<1>3. NeverFull' /\ (fulls' = 0 => fulls = 0)
  BY <1>2, NeverFullNext
<1>4. Clean("pool")' /\ ~jammed' /\ (Regime' => TracesFollow' /\ ActionsFollow')
  BY <1>1, <1>3, TraceStep
<1>5. Clean("ds")'
  BY DEF BlockInv
<1> QED
  BY <1>3, <1>4, <1>5 DEF NeverFull, Regime

LEMMA TraceInvMeans ==
    ASSUME Typed, TraceInv
    PROVE  TraceAccounted
<1> SUFFICES ASSUME losses = 0 /\ (crashes = 0 \/ (fulls = 0 /\ txCache)), NEW b \in Blocks
             PROVE  TraceAhead(b) \/ Published("action", b)
  BY DEF TraceAccounted
<1>1. Owed("ds", b) \/ Passed(b)
  BY DEF TraceInv, TracesFollow
<1>2. CASE Owed("ds", b)
  BY <1>2 DEF TraceAhead
<1>3. CASE ActionsWritten(b)
  BY <1>3, BothWorkers DEF ActionsWritten, OnWire, Published, ToSet
<1>4. CASE Owed("pool", b)
  BY <1>4 DEF TraceAhead
<1>5. CASE (\E i \in DOMAIN backpressure : backpressure[i] = b) \/ OnWire("ds", Trace(b))
  BY <1>5 DEF TraceAhead, OnWire, ToSet
<1> QED
  BY <1>1, <1>2, <1>3, <1>4, <1>5 DEF Passed, InPool

\* While connections hold, a trace is on its way to the pool worker until its action
\* documents are published: always without a crash, and across crashes while there was no
\* backpressure and the transaction cache delays the pool worker's acknowledgement.
THEOREM TracesAreAccounted == Spec => []TraceAccounted
<1>1. Spec => [](Typed /\ BlockInv /\ TraceInv)
  <2>1. Init => Typed /\ BlockInv /\ TraceInv
    BY TypedInit, BlockInvInit, TraceInvInit
  <2>2. Typed /\ BlockInv /\ TraceInv /\ [Next]_vars => (Typed /\ BlockInv /\ TraceInv)'
    BY TypedNext, BlockInvNext, TraceInvNext
  <2> QED
    BY <2>1, <2>2, PTL DEF Spec
<1>2. Typed /\ TraceInv => TraceAccounted
  BY TraceInvMeans
<1> QED
  BY <1>1, <1>2, PTL
=============================================================================
