--------------------------- MODULE StoreWriters_proofs -------------------------
(***************************************************************************)
(* Theorems about what writes to the store, each under the assumption on   *)
(* its own constants: the ingestor keeps the contract of its queue and     *)
(* loses no more than a prefetch per failure, forked blocks are removed    *)
(* and no others, and pruning spares the blocks that are to be retained.   *)
(***************************************************************************)
EXTENDS StoreWriters, FiniteSetTheorems, SequenceTheorems, WellFoundedInduction, TLAPS

-----------------------------------------------------------------------------
(* Numbers *)

\* Every set of natural numbers that is not empty has a least one.
LEMMA LeastNumber ==
  ASSUME NEW T \in SUBSET Nat, T # {}
  PROVE  \E m \in T : \A k \in T : m <= k
  <1> DEFINE less == {p \in Nat \X Nat : p[1] < p[2]}
  <1>1. IsWellFoundedOn(OpToRel(<, Nat), Nat) BY NatLessThanWellFounded
  <1>2. OpToRel(<, Nat) = less BY DEF OpToRel
  <1>3. PICK x \in T : \A y \in T : <<y, x>> \notin less
    <2>. HIDE DEF less
    <2>. QED BY <1>1, <1>2, WFMin
  <1>4. ASSUME NEW y \in T PROVE x <= y
    <2>1. x \in Nat /\ y \in Nat /\ <<y, x>> \in Nat \X Nat OBVIOUS
    <2>2. ~ (y < x) BY <1>3, <2>1
    <2>. QED BY <2>1, <2>2
  <1>. QED BY <1>4

\* Every set of numbers up to n that is not empty has a greatest one.
LEMMA GreatestNumber ==
  ASSUME NEW n \in Nat, NEW T \in SUBSET (0 .. n), T # {}
  PROVE  \E m \in T : \A k \in T : k <= m
  <1> DEFINE U == {n - k : k \in T}
  <1>1. U \in SUBSET Nat /\ U # {}
    <2>1. \A k \in T : n - k \in Nat OBVIOUS
    <2>. QED BY <2>1
  <1>2. PICK u \in U : \A v \in U : u <= v BY <1>1, LeastNumber
  <1>3. PICK m \in T : u = n - m OBVIOUS
  <1>4. ASSUME NEW k \in T PROVE k <= m
    <2>1. u <= n - k BY <1>2
    <2>2. m \in 0 .. n /\ k \in 0 .. n OBVIOUS
    <2>. QED BY <1>3, <2>1, <2>2
  <1>. QED BY <1>4

-----------------------------------------------------------------------------
(* The ingestor: sequences and deliveries *)

USE IngestAssumption

\* The elements of a concatenation.
LEMMA ConcatSet ==
  ASSUME NEW S, NEW a \in Seq(S), NEW b \in Seq(S)
  PROVE  a \o b \in Seq(S) /\ ToSet(a \o b) = ToSet(a) \cup ToSet(b)
  <1> DEFINE n == Len(a)
             m == Len(b)
             c == a \o b
  <1>1. n \in Nat /\ m \in Nat /\ DOMAIN a = 1 .. n /\ DOMAIN b = 1 .. m OBVIOUS
  <1>2. /\ c \in Seq(S) /\ Len(c) = n + m
        /\ \A i \in 1 .. n + m : c[i] = IF i <= n THEN a[i] ELSE b[i - n]
    BY ConcatProperties, Zenon
  <1>3. DOMAIN c = 1 .. n + m BY <1>1, <1>2
  <1>. HIDE DEF n, m, c
  <1>4. ASSUME NEW i \in 1 .. n PROVE i \in 1 .. n + m /\ c[i] = a[i]
    BY <1>1, <1>2
  <1>5. ASSUME NEW i \in 1 .. m PROVE n + i \in 1 .. n + m /\ c[n + i] = b[i]
    <2>1. n + i \in 1 .. n + m /\ ~ (n + i <= n) /\ (n + i) - n = i BY <1>1
    <2>. QED BY <1>2, <2>1
  <1>6. ASSUME NEW i \in 1 .. n + m
        PROVE  \/ i \in 1 .. n /\ c[i] = a[i]
               \/ i - n \in 1 .. m /\ c[i] = b[i - n]
    BY <1>1, <1>2
  <1>7. ToSet(c) = ToSet(a) \cup ToSet(b)
    <2>1. ToSet(a) = {a[i] : i \in 1 .. n} BY <1>1 DEF ToSet
    <2>2. ToSet(b) = {b[i] : i \in 1 .. m} BY <1>1 DEF ToSet
    <2>3. ToSet(c) = {c[i] : i \in 1 .. n + m} BY <1>3 DEF ToSet
    <2>4. \A i \in 1 .. n : a[i] \in ToSet(c) BY <1>4, <2>3
    <2>5. \A i \in 1 .. m : b[i] \in ToSet(c) BY <1>5, <2>3
    <2>6. \A i \in 1 .. n + m : c[i] \in ToSet(a) \cup ToSet(b) BY <1>6, <2>1, <2>2
    <2>7. \A x \in ToSet(a) : x \in ToSet(c) BY <2>1, <2>4
    <2>8. \A x \in ToSet(b) : x \in ToSet(c) BY <2>2, <2>5
    <2>9. \A x \in ToSet(c) : x \in ToSet(a) \cup ToSet(b) BY <2>3, <2>6
    <2>. QED BY <2>7, <2>8, <2>9
  <1>. QED BY <1>2, <1>7 DEF c

LEMMA AppendSet ==
  ASSUME NEW S, NEW s \in Seq(S), NEW x \in S
  PROVE  ToSet(Append(s, x)) = ToSet(s) \cup {x}
  <1>1. Append(s, x) = s \o <<x>> /\ <<x>> \in Seq(S) OBVIOUS
  <1>2. ToSet(<<x>>) = {x} BY DEF ToSet
  <1>3. ASSUME NEW b \in Seq(S) PROVE ToSet(s \o b) = ToSet(s) \cup ToSet(b) BY ConcatSet
  <1>. QED BY <1>1, <1>2, <1>3, Zenon

LEMMA HeadAndTail ==
  ASSUME NEW S, NEW s \in Seq(S), s # <<>>
  PROVE  ToSet(s) = {Head(s)} \cup ToSet(Tail(s))
  <1>1. /\ Tail(s) \in Seq(S) /\ Len(Tail(s)) = Len(s) - 1 /\ Head(s) = s[1]
        /\ \A i \in 1 .. Len(Tail(s)) : Tail(s)[i] = s[i + 1]
    BY HeadTailProperties
  <1>2. Len(s) \in Nat \ {0} /\ DOMAIN s = 1 .. Len(s) /\ DOMAIN Tail(s) = 1 .. Len(s) - 1
    BY <1>1
  <1>3. \A i \in 1 .. Len(s) : s[i] \in {Head(s)} \cup ToSet(Tail(s))
    <2>1. ASSUME NEW i \in 2 .. Len(s) PROVE s[i] \in ToSet(Tail(s))
      <3>1. i - 1 \in 1 .. Len(s) - 1 /\ Tail(s)[i - 1] = s[i] BY <1>1, <1>2
      <3>. QED BY <1>2, <3>1 DEF ToSet
    <2>. QED BY <1>1, <1>2, <2>1
  <1>4. \A i \in 1 .. Len(s) - 1 : Tail(s)[i] \in ToSet(s)
    BY <1>1, <1>2 DEF ToSet
  <1>5. Head(s) \in ToSet(s) BY <1>1, <1>2 DEF ToSet
  <1>6. ToSet(Tail(s)) \subseteq ToSet(s) BY <1>2, <1>4 DEF ToSet
  <1>7. ToSet(s) \subseteq {Head(s)} \cup ToSet(Tail(s)) BY <1>2, <1>3 DEF ToSet
  <1>. QED BY <1>5, <1>6, <1>7

\* Requeued deliveries are ready again, and nothing else changes in the queue.
LEMMA RequeueReturns ==
  ASSUME ready \in Seq(Msgs), NEW deliveries \in SUBSET Deliveries, IsFiniteSet(deliveries),
         Requeue(deliveries)
  PROVE  /\ ready' \in Seq(Msgs)
         /\ ToSet(ready') = ToSet(ready) \cup {d.msg : d \in deliveries}
  <1>1. PICK ordered \in InTagOrder(deliveries) :
           ready' = [i \in DOMAIN ordered |-> ordered[i].msg] \o ready
    BY DEF Requeue
  <1> DEFINE n == Cardinality(deliveries)
             msgs == [i \in DOMAIN ordered |-> ordered[i].msg]
  <1>2. n \in Nat BY FS_CardinalityType
  <1>. HIDE DEF n
  <1>3. ordered \in [1 .. n -> deliveries] /\ ToSet(ordered) = deliveries
    BY DEF InTagOrder, n
  <1>4. msgs \in [1 .. n -> Msgs] /\ \A i \in 1 .. n : msgs[i] = ordered[i].msg
    BY <1>3 DEF Deliveries
  <1>5. msgs \in Seq(Msgs) /\ DOMAIN msgs = 1 .. n BY <1>2, <1>4
  <1>6. ToSet(msgs) = {d.msg : d \in deliveries}
    <2>. HIDE DEF msgs
    <2>1. ToSet(msgs) = {msgs[i] : i \in 1 .. n} BY <1>5 DEF ToSet
    <2>2. deliveries = {ordered[i] : i \in 1 .. n} BY <1>3 DEF ToSet
    <2>3. \A x \in ToSet(msgs) : x \in {d.msg : d \in deliveries}
      <3>1. \A i \in 1 .. n : msgs[i] = ordered[i].msg /\ ordered[i] \in deliveries
        BY <1>3, <1>4
      <3>2. \A i \in 1 .. n : msgs[i] \in {d.msg : d \in deliveries} BY <3>1
      <3>. QED BY <2>1, <3>2
    <2>4. \A d \in deliveries : d.msg \in ToSet(msgs) BY <1>4, <2>1, <2>2
    <2>. QED BY <2>3, <2>4
  <1>7. ready' = msgs \o ready BY <1>1
  <1>. HIDE DEF msgs
  <1>. QED BY <1>5, <1>6, <1>7, ConcatSet

\* A request takes the first deliveries that wait and leaves the rest.
LEMMA SplitDeliveries ==
  ASSUME NEW s \in Seq(Deliveries), NEW n \in 0 .. Len(s)
  PROVE  /\ SubSeq(s, 1, n) \in Seq(Deliveries) /\ SubSeq(s, n + 1, Len(s)) \in Seq(Deliveries)
         /\ Len(SubSeq(s, 1, n)) = n
         /\ ToSet(s) = ToSet(SubSeq(s, 1, n)) \cup ToSet(SubSeq(s, n + 1, Len(s)))
  <1>1. Len(s) \in Nat /\ n \in Nat /\ n <= Len(s) OBVIOUS
  <1>2. /\ SubSeq(s, 1, n) \in Seq(Deliveries) /\ Len(SubSeq(s, 1, n)) = n
        /\ SubSeq(s, n + 1, Len(s)) \in Seq(Deliveries)
    BY <1>1
  <1>3. SubSeq(s, 1, n) \o SubSeq(s, n + 1, Len(s)) = SubSeq(s, 1, Len(s))
    <2>1. 1 \in 1 .. Len(s) + 1 /\ n \in 1 - 1 .. Len(s) /\ Len(s) \in n .. Len(s) BY <1>1
    <2>. QED BY <2>1, ConcatAdjacentSubSeq, Zenon
  <1>4. SubSeq(s, 1, Len(s)) = s OBVIOUS
  <1>5. ASSUME NEW a \in Seq(Deliveries), NEW b \in Seq(Deliveries), a \o b = s
        PROVE  ToSet(s) = ToSet(a) \cup ToSet(b)
    <2>1. ToSet(a \o b) = ToSet(a) \cup ToSet(b) BY ConcatSet
    <2>. QED BY <1>5, <2>1, Zenon
  <1>6. ToSet(s) = ToSet(SubSeq(s, 1, n)) \cup ToSet(SubSeq(s, n + 1, Len(s)))
    BY <1>2, <1>3, <1>4, <1>5, Zenon
  <1>. QED BY <1>2, <1>6, Zenon

LEMMA DeliveryFields ==
  ASSUME NEW s \in Seq(Deliveries)
  PROVE  \A i \in DOMAIN s : s[i] \in Deliveries /\ s[i].msg \in Msgs /\ s[i].tag \in Nat
  <1>1. \A i \in DOMAIN s : s[i] \in Deliveries OBVIOUS
  <1>2. \A d \in Deliveries : d.msg \in Msgs /\ d.tag \in Nat BY DEF Deliveries
  <1>. QED BY <1>1, <1>2

LEMMA MsgsOfSet ==
  ASSUME NEW s \in Seq(Deliveries)
  PROVE  MsgsOf(s) = {d.msg : d \in ToSet(s)}
  BY DEF MsgsOf, ToSet

-----------------------------------------------------------------------------
(* Types *)

\* Broker and process state keep their types, and the channel holds finitely many
\* deliveries.
TypesAndFinite == TypeOK /\ IsFiniteSet(unacked)

LEMMA TypesInit == Init => TypesAndFinite
  <1> SUFFICES ASSUME Init PROVE TypesAndFinite OBVIOUS
  <1>1. ready \in Seq(Msgs) /\ unacked = {} /\ buffer = <<>> /\ batch = <<>> BY DEF Init
  <1>2. IsFiniteSet(unacked) BY <1>1, FS_EmptySet
  <1>3. TypeOK BY DEF Init, TypeOK
  <1>. QED BY <1>2, <1>3 DEF TypesAndFinite

\* Deliveries put back by the broker leave the queue well typed.
LEMMA RequeueTypes ==
  ASSUME TypesAndFinite, NEW deliveries \in SUBSET unacked, Requeue(deliveries)
  PROVE  /\ ready' \in Seq(Msgs)
         /\ ToSet(ready') = ToSet(ready) \cup {d.msg : d \in deliveries}
  <1>1. IsFiniteSet(deliveries) BY FS_Subset DEF TypesAndFinite
  <1>2. deliveries \in SUBSET Deliveries /\ ready \in Seq(Msgs) BY DEF TypesAndFinite, TypeOK
  <1>. QED BY <1>1, <1>2, RequeueReturns

LEMMA TypesNext == TypesAndFinite /\ [Next]_vars => TypesAndFinite'
  <1> SUFFICES ASSUME TypesAndFinite, [Next]_vars PROVE TypesAndFinite' OBVIOUS
  <1>0. TypeOK /\ IsFiniteSet(unacked) BY DEF TypesAndFinite
  <1> USE DEF settings, brokerVars, bulkVars, bounds, store
  <1>1. ASSUME Deliver PROVE TypesAndFinite'
    <2> DEFINE delivery == [tag |-> nextTag, msg |-> Head(ready)]
    <2>1. Head(ready) \in Msgs /\ Tail(ready) \in Seq(Msgs)
      BY <1>0, <1>1, HeadTailProperties DEF Deliver, TypeOK
    <2>2. delivery \in Deliveries BY <1>0, <2>1 DEF TypeOK, Deliveries
    <2>3. /\ unacked' = unacked \cup {delivery} /\ buffer' = Append(buffer, delivery)
          /\ nextTag' = nextTag + 1 /\ ready' = Tail(ready)
      BY <1>1 DEF Deliver
    <2>. HIDE DEF delivery
    <2>4. IsFiniteSet(unacked') BY <1>0, <2>3, FS_AddElement
    <2>5. unacked' \subseteq Deliveries /\ buffer' \in Seq(Deliveries) /\ nextTag' \in Nat \ {0}
          /\ ready' \in Seq(Msgs)
      <3>1. unacked \subseteq Deliveries /\ buffer \in Seq(Deliveries) /\ nextTag \in Nat \ {0}
        BY <1>0 DEF TypeOK
      <3>2. Append(buffer, delivery) \in Seq(Deliveries) BY <2>2, <3>1
      <3>3. nextTag + 1 \in Nat \ {0} BY <3>1
      <3>. QED BY <2>1, <2>2, <2>3, <3>1, <3>2, <3>3
    <2>6. UNCHANGED <<settings, channel, bulkVars, store, bounds>> BY <1>1 DEF Deliver
    <2>. QED BY <1>0, <2>4, <2>5, <2>6 DEF TypesAndFinite, TypeOK
  <1>2. ASSUME StartBulk PROVE TypesAndFinite'
    <2>1. PICK n \in Nat : /\ n \in 1 .. Len(buffer)
                           /\ batch' = SubSeq(buffer, 1, n)
                           /\ buffer' = SubSeq(buffer, n + 1, Len(buffer))
      <3>1. prefetch \in Nat \ {0} /\ Len(buffer) \in Nat \ {0}
        <4>1. prefetch \in Nat \ {0} /\ buffer \in Seq(Deliveries)
          BY <1>0, IngestAssumption DEF TypeOK
        <4>2. buffer # <<>> BY <1>2 DEF StartBulk
        <4>. QED BY <4>1, <4>2
      <3>2. PICK m : m = IF Len(buffer) < prefetch THEN Len(buffer) ELSE prefetch OBVIOUS
      <3>3. m \in Nat /\ m \in 1 .. Len(buffer) BY <3>1, <3>2
      <3>4. batch' = SubSeq(buffer, 1, m) /\ buffer' = SubSeq(buffer, m + 1, Len(buffer))
        BY <1>2, <3>2 DEF StartBulk
      <3>. QED BY <3>3, <3>4, Zenon
    <2>2. batch' \in Seq(Deliveries) /\ buffer' \in Seq(Deliveries) /\ Len(batch') = n
      <3>1. n \in 0 .. Len(buffer) /\ buffer \in Seq(Deliveries) BY <1>0, <2>1 DEF TypeOK
      <3>. QED BY <2>1, <3>1, SplitDeliveries, Zenon
    <2>3. batch' # <<>> /\ rejected = {}
      <3>1. Len(batch') # 0 BY <2>1, <2>2
      <3>2. batch = <<>> /\ rejected \subseteq DOMAIN batch BY <1>0, <1>2 DEF TypeOK, StartBulk
      <3>3. rejected = {} BY <3>2
      <3>. QED BY <3>1, <3>3
    <2>4. UNCHANGED <<settings, brokerVars, rejected, store, bounds>> /\ bulk' = "sent"
          /\ current' = TRUE /\ batch = <<>>
      BY <1>0, <1>2 DEF StartBulk, TypeOK
    <2>. QED BY <1>0, <2>2, <2>3, <2>4 DEF TypesAndFinite, TypeOK
  <1>3. ASSUME ExecuteBulk \/ FailBulk PROVE TypesAndFinite'
    <2>1. UNCHANGED <<settings, brokerVars, buffer, batch, current, reported, losses, crashes>>
          /\ bulk = "sent" /\ bulk' \in {"done", "failed"} /\ rejected' \subseteq DOMAIN batch
      BY <1>0, <1>3 DEF ExecuteBulk, FailBulk, TypeOK
    <2>2. written' \subseteq Msgs
      <3>1. \A i \in DOMAIN batch : batch[i].msg \in Msgs BY <1>0, DeliveryFields DEF TypeOK
      <3>2. MsgsOf(batch) \subseteq Msgs /\ written \subseteq Msgs
        BY <1>0, <3>1 DEF TypeOK, MsgsOf
      <3>3. ASSUME ExecuteBulk PROVE written' \subseteq written \cup MsgsOf(batch)
        BY <3>3 DEF ExecuteBulk, MsgsOf
      <3>4. ASSUME FailBulk PROVE written' \subseteq written \cup MsgsOf(batch)
        BY <3>4 DEF FailBulk
      <3>. QED BY <1>3, <3>2, <3>3, <3>4
    <2>3. failures' \in 0 .. MaxFailures /\ rejects' \in 0 .. MaxRejects
      <3>1. failures \in 0 .. MaxFailures /\ rejects \in 0 .. MaxRejects BY <1>0 DEF TypeOK
      <3>2. CASE ExecuteBulk BY <3>1, <3>2 DEF ExecuteBulk, MayFail
      <3>3. CASE FailBulk BY <3>1, <3>3 DEF FailBulk, MayFail
      <3>. QED BY <1>3, <3>2, <3>3
    <2>. QED BY <1>0, <2>1, <2>2, <2>3 DEF TypesAndFinite, TypeOK
  <1>4. ASSUME AckAll \/ LogIndexingErrors PROVE TypesAndFinite'
    <2>1. unacked' \subseteq unacked /\ EndBatch
          /\ UNCHANGED <<settings, ready, nextTag, channel, buffer, written, bounds>>
      BY <1>4 DEF AckAll, LogIndexingErrors
    <2>2. reported' \subseteq Msgs
      <3>1. \A i \in DOMAIN batch : batch[i].msg \in Msgs BY <1>0, DeliveryFields DEF TypeOK
      <3>2. reported \subseteq Msgs /\ rejected \subseteq DOMAIN batch BY <1>0 DEF TypeOK
      <3>3. reported' = reported \/ reported' = reported \cup {batch[i].msg : i \in rejected}
        BY <1>4 DEF AckAll, LogIndexingErrors
      <3>. QED BY <3>1, <3>2, <3>3
    <2>3. IsFiniteSet(unacked') BY <1>0, <2>1, FS_Subset
    <2>. QED BY <1>0, <2>1, <2>2, <2>3 DEF TypesAndFinite, TypeOK, EndBatch
  <1>5. ASSUME NackAll PROVE TypesAndFinite'
    <2>1. ready' \in Seq(Msgs) BY <1>5, RequeueTypes DEF NackAll, NackAllRequeues
    <2>2. unacked' = {} /\ EndBatch /\ UNCHANGED <<settings, nextTag, channel, buffer, store, bounds>>
      BY <1>5 DEF NackAll
    <2>3. IsFiniteSet(unacked') BY <2>2, FS_EmptySet
    <2>. QED BY SMTT(30), <1>0, <2>1, <2>2, <2>3 DEF TypesAndFinite, TypeOK, EndBatch
  <1>6. ASSUME AckOrNack PROVE TypesAndFinite'
    <2>1. PICK back \in SUBSET unacked : Requeue(back)
      BY <1>6 DEF AckOrNack, Nacked
    <2>2. ready' \in Seq(Msgs) BY <2>1, RequeueTypes
    <2>3. unacked' \subseteq unacked /\ channel' \in {channel, "closed"} /\ EndBatch
          /\ UNCHANGED <<settings, nextTag, buffer, store, bounds>>
      BY <1>6 DEF AckOrNack
    <2>4. IsFiniteSet(unacked') BY <1>0, <2>3, FS_Subset
    <2>. QED BY SMTT(30), <1>0, <2>2, <2>3, <2>4 DEF TypesAndFinite, TypeOK, EndBatch
  <1>7. ASSUME Crash \/ SettleOnLostChannel \/ DieOfChannelError PROVE TypesAndFinite'
    <2>1. Stop /\ UNCHANGED <<settings, failures, rejects, losses>> /\ crashes' \in 0 .. MaxCrashes
      BY SMTT(30), <1>0, <1>7 DEF Crash, SettleOnLostChannel, DieOfChannelError, MayFail, TypeOK
    <2>2. ready' \in Seq(Msgs) BY <2>1, RequeueTypes DEF Stop
    <2>3. unacked' = {} /\ channel' = "down" /\ buffer' = <<>> /\ batch' = <<>> /\ bulk' = "idle"
          /\ rejected' = {} /\ current' = TRUE /\ UNCHANGED <<nextTag, store>>
      BY <2>1 DEF Stop
    <2>4. IsFiniteSet(unacked') BY <2>3, FS_EmptySet
    <2>. QED BY SMTT(30), <1>0, <2>1, <2>2, <2>3, <2>4 DEF TypesAndFinite, TypeOK
  <1>8. ASSUME LoseConnection PROVE TypesAndFinite'
    <2>1. ready' \in Seq(Msgs) BY <1>8, RequeueTypes DEF LoseConnection
    <2>2. unacked' = {} /\ channel' = "lost" /\ current' = FALSE
          /\ UNCHANGED <<settings, nextTag, buffer, batch, bulk, rejected, store, failures, rejects,
                         crashes>>
      BY <1>8 DEF LoseConnection
    <2>3. losses' \in 0 .. MaxLosses BY <1>0, <1>8 DEF LoseConnection, MayFail, TypeOK
    <2>4. IsFiniteSet(unacked') BY <2>2, FS_EmptySet
    <2>. QED BY <1>0, <2>1, <2>2, <2>3, <2>4 DEF TypesAndFinite, TypeOK
  <1>9. ASSUME Return PROVE TypesAndFinite'
    <2>1. UNCHANGED <<settings, ready, unacked, buffer, bulkVars, store, bounds>>
          /\ nextTag' \in Nat \ {0} /\ channel' = "open"
      BY <1>9 DEF Return, Reconnect, Relaunch
    <2>. QED BY <1>0, <2>1 DEF TypesAndFinite, TypeOK
  <1>10. ASSUME UNCHANGED vars PROVE TypesAndFinite'
    BY <1>0, <1>10 DEF vars, TypesAndFinite, TypeOK
  <1>. QED BY <1>1, <1>2, <1>3, <1>4, <1>5, <1>6, <1>7, <1>8, <1>9, <1>10 DEF Next, Settle

\* The state of the broker and of the process keeps its types in every behaviour.
THEOREM TypeCorrect == Spec => []TypeOK
  <1>1. TypesAndFinite => TypeOK BY DEF TypesAndFinite
  <1>. QED BY <1>1, TypesInit, TypesNext, PTL DEF Spec

-----------------------------------------------------------------------------
(* Which delivery an item of an answer settles *)

\* The target of an item is a delivery of its document, the same one for every item of
\* that document.
LEMMA TargetIs ==
  ASSUME TypeOK, NEW i \in DOMAIN batch
  PROVE  /\ Target(i) \in DOMAIN batch
         /\ DocOf[batch[Target(i)].msg] = DocOf[batch[i].msg]
         /\ \A j \in DOMAIN batch : DocOf[batch[j].msg] = DocOf[batch[i].msg] => Target(j) = Target(i)
  <1> DEFINE same == {j \in DOMAIN batch : DocOf[batch[j].msg] = DocOf[batch[i].msg]}
  <1>1. Len(batch) \in Nat /\ DOMAIN batch = 1 .. Len(batch) BY DEF TypeOK
  <1>2. same \in SUBSET (0 .. Len(batch)) /\ i \in same BY <1>1
  <1>3. \E m \in same : \A k \in same : k <= m
    <2>. HIDE DEF same
    <2>. QED BY <1>1, <1>2, GreatestNumber
  <1>4. \E m \in DOMAIN batch : /\ DocOf[batch[m].msg] = DocOf[batch[i].msg]
                               /\ \A k \in DOMAIN batch :
                                     DocOf[batch[k].msg] = DocOf[batch[i].msg] => k <= m
    BY <1>3
  <1>5. /\ Target(i) \in DOMAIN batch
        /\ DocOf[batch[Target(i)].msg] = DocOf[batch[i].msg]
    BY <1>4 DEF Target
  <1>6. ASSUME NEW j \in DOMAIN batch, DocOf[batch[j].msg] = DocOf[batch[i].msg]
        PROVE  Target(j) = Target(i)
    BY <1>6 DEF Target
  <1>. QED BY <1>5, <1>6

\* Before the first bad item every item settles a delivery of the channel, each its own.
LEMMA BeforeFirstBad ==
  ASSUME TypeOK
  PROVE  /\ FirstBad \in 1 .. Len(batch) + 1
         /\ \A i \in 1 .. FirstBad - 1 :
               /\ i \in DOMAIN batch /\ KnownTag(TagOf(i))
               /\ \A k \in 1 .. i - 1 : TagOf(k) # TagOf(i)
  <1> DEFINE Bad(i) == ~KnownTag(TagOf(i)) \/ \E k \in 1 .. i - 1 : TagOf(k) = TagOf(i)
             bad == {i \in DOMAIN batch : Bad(i)}
  <1>1. Len(batch) \in Nat /\ DOMAIN batch = 1 .. Len(batch) BY DEF TypeOK
  <1>2. FirstBad = IF bad = {} THEN Len(batch) + 1 ELSE CHOOSE i \in bad : \A k \in bad : i <= k
    BY DEF FirstBad
  <1>3. bad \in SUBSET Nat /\ bad \subseteq 1 .. Len(batch) BY <1>1
  <1>4. \A i \in 1 .. Len(batch) : i \notin bad => ~Bad(i) BY <1>1
  <1>5. /\ FirstBad \in 1 .. Len(batch) + 1
        /\ \A i \in 1 .. FirstBad - 1 : i \in 1 .. Len(batch) /\ i \notin bad
    <2>. HIDE DEF bad
    <2>1. CASE bad = {} BY <1>1, <1>2, <2>1
    <2>2. CASE bad # {}
      <3>1. \E m \in bad : \A k \in bad : m <= k BY <1>3, <2>2, LeastNumber
      <3>2. FirstBad \in bad /\ \A k \in bad : FirstBad <= k BY <1>2, <2>2, <3>1
      <3>. QED BY <1>1, <1>3, <3>2
    <2>. QED BY <2>1, <2>2
  <1>. QED BY <1>1, <1>4, <1>5

-----------------------------------------------------------------------------
(* The invariant *)

\* An outstanding delivery is in memory, or its message was written or reported; and what
\* an answer did not reject was written.
Accounted ==
    /\ \A d \in unacked : \/ d \in ToSet(buffer) \cup ToSet(batch)
                          \/ d.msg \in written \cup reported
    /\ bulk = "done" => \A i \in DOMAIN batch \ rejected : batch[i].msg \in written

\* When no item before the end is bad, an answer settles every delivery of its batch.
LEMMA AnswerSettlesBatch ==
  ASSUME TypeOK, FirstBad > Len(batch), NEW i \in DOMAIN batch, batch[i] \in unacked
  PROVE  batch[i] \in Settled
  <1>1. Len(batch) \in Nat /\ DOMAIN batch = 1 .. Len(batch) BY DEF TypeOK
  <1>2. FirstBad - 1 = Len(batch) /\ FirstBad \in Nat BY <1>1, BeforeFirstBad
  <1>3. \A k \in 1 .. Len(batch) : \A l \in 1 .. k - 1 : TagOf(l) # TagOf(k)
    BY <1>2, BeforeFirstBad
  <1>4. Target(i) \in DOMAIN batch /\ Target(Target(i)) = Target(i)
    BY TargetIs
  <1>5. TagOf(Target(i)) = TagOf(i) BY <1>4 DEF TagOf
  <1>6. Target(i) = i
    <2>1. CASE Target(i) < i BY <1>1, <1>3, <1>4, <1>5, <2>1
    <2>2. CASE i < Target(i) BY <1>1, <1>3, <1>4, <1>5, <2>2
    <2>. QED BY <1>1, <1>4, <2>1, <2>2
  <1>7. TagOf(i) = batch[i].tag BY <1>6 DEF TagOf
  <1>. QED BY <1>1, <1>2, <1>7 DEF Settled

\* The start of a request moves deliveries from the cargo to the batch.
LEMMA StartMoves ==
  ASSUME TypeOK, StartBulk
  PROVE  /\ ToSet(buffer) \cup ToSet(batch) = ToSet(buffer') \cup ToSet(batch')
         /\ batch = <<>>
  <1> DEFINE n == IF Len(buffer) < prefetch THEN Len(buffer) ELSE prefetch
  <1>1. prefetch \in Nat \ {0} /\ Len(buffer) \in Nat /\ buffer \in Seq(Deliveries)
    BY DEF TypeOK
  <1>2. n \in 0 .. Len(buffer) BY <1>1
  <1>3. batch' = SubSeq(buffer, 1, n) /\ buffer' = SubSeq(buffer, n + 1, Len(buffer))
    BY DEF StartBulk
  <1>. HIDE DEF n
  <1>4. ToSet(buffer) = ToSet(batch') \cup ToSet(buffer')
    BY <1>1, <1>2, <1>3, SplitDeliveries, Zenon
  <1>5. batch = <<>> BY DEF TypeOK, StartBulk
  <1>6. ToSet(<<>>) = {} BY DEF ToSet
  <1>. QED BY <1>4, <1>5, <1>6

LEMMA AccountedInit == Init => Accounted
  BY DEF Init, Accounted

LEMMA AccountedNext == TypesAndFinite /\ Accounted /\ [Next]_vars => Accounted'
  <1> SUFFICES ASSUME TypesAndFinite, Accounted, [Next]_vars PROVE Accounted' OBVIOUS
  <1>0. TypeOK BY DEF TypesAndFinite
  <1> USE DEF settings, brokerVars, bulkVars, bounds, store
  <1>1. ASSUME Deliver PROVE Accounted'
    <2> DEFINE delivery == [tag |-> nextTag, msg |-> Head(ready)]
    <2>1. unacked' = unacked \cup {delivery} /\ buffer' = Append(buffer, delivery)
      BY <1>1 DEF Deliver
    <2>2. UNCHANGED <<batch, bulk, rejected, written, reported>> BY <1>1 DEF Deliver
    <2>3. delivery \in Deliveries
      <3>1. Head(ready) \in Msgs BY <1>0, <1>1, HeadTailProperties DEF Deliver, TypeOK
      <3>. QED BY <1>0, <3>1 DEF TypeOK, Deliveries
    <2>. HIDE DEF delivery
    <2>4. ToSet(buffer') = ToSet(buffer) \cup {delivery}
      BY SMTT(30), <1>0, <2>1, <2>3, AppendSet DEF TypeOK
    <2>. QED BY <2>1, <2>2, <2>4 DEF Accounted
  <1>2. ASSUME StartBulk PROVE Accounted'
    <2>1. ToSet(buffer) \cup ToSet(batch) = ToSet(buffer') \cup ToSet(batch')
      BY <1>0, <1>2, StartMoves
    <2>2. UNCHANGED <<unacked, written, reported>> /\ bulk' = "sent" BY <1>2 DEF StartBulk
    <2>. QED BY <2>1, <2>2 DEF Accounted
  <1>3. ASSUME ExecuteBulk \/ FailBulk PROVE Accounted'
    <2>1. UNCHANGED <<unacked, buffer, batch, reported>> /\ written \subseteq written'
      BY <1>3 DEF ExecuteBulk, FailBulk
    <2>2. bulk' = "done" => \A i \in DOMAIN batch \ rejected' : batch[i].msg \in written'
      BY <1>3 DEF ExecuteBulk, FailBulk
    <2>. QED BY <2>1, <2>2 DEF Accounted
  <1>4. ASSUME unacked' = {}, bulk' # "done" PROVE Accounted'
    BY <1>4 DEF Accounted
  <1>5. ASSUME AckAll \/ NackAll \/ Crash \/ SettleOnLostChannel \/ DieOfChannelError
        PROVE  Accounted'
    BY <1>4, <1>5 DEF AckAll, NackAll, Crash, SettleOnLostChannel, DieOfChannelError, Stop, EndBatch,
                      SettledByAckAll
  <1>6. ASSUME AckOrNack PROVE Accounted'
    <2>1. bulk' = "idle" /\ UNCHANGED <<buffer, written, reported>> /\ bulk = "done"
      BY <1>6 DEF AckOrNack, EndBatch
    <2>2. CASE FirstBad > Len(batch)
      <3>1. unacked' = unacked \ Settled BY <1>6, <2>2 DEF AckOrNack
      <3>2. ASSUME NEW d \in unacked' PROVE d \in ToSet(buffer) \/ d.msg \in written \cup reported
        <4>1. ASSUME d \in ToSet(batch) PROVE FALSE
          <5>1. PICK i \in DOMAIN batch : d = batch[i] BY <4>1 DEF ToSet
          <5>. QED BY <1>0, <2>2, <3>1, <5>1, AnswerSettlesBatch
        <4>. QED BY <3>1, <4>1 DEF Accounted
      <3>. QED BY <2>1, <3>2 DEF Accounted
    <2>3. CASE ~ (FirstBad > Len(batch))
      <3>1. unacked' = {} BY <1>6, <2>3 DEF AckOrNack
      <3>. QED BY <1>4, <2>1, <3>1
    <2>. QED BY <2>2, <2>3
  <1>7. ASSUME LogIndexingErrors PROVE Accounted'
    <2>1. bulk' = "idle" /\ bulk = "done" /\ UNCHANGED <<unacked, buffer, written>>
          /\ reported' = reported \cup {batch[i].msg : i \in rejected}
      BY <1>7 DEF LogIndexingErrors, EndBatch
    <2>2. ASSUME NEW i \in DOMAIN batch PROVE batch[i].msg \in written \cup reported'
      <3>1. CASE i \in rejected BY <2>1, <3>1
      <3>2. CASE i \notin rejected BY <2>1, <3>2 DEF Accounted
      <3>. QED BY <3>1, <3>2
    <2>3. \A d \in ToSet(batch) : d.msg \in written \cup reported' BY <2>2 DEF ToSet
    <2>. QED BY <2>1, <2>3 DEF Accounted
  <1>8. ASSUME LoseConnection PROVE Accounted'
    <2>1. unacked' = {} /\ UNCHANGED <<batch, bulk, rejected, written>>
      BY <1>8 DEF LoseConnection
    <2>. QED BY <2>1 DEF Accounted
  <1>9. ASSUME Return \/ UNCHANGED vars PROVE Accounted'
    BY <1>9 DEF Return, Reconnect, Relaunch, vars, Accounted
  <1>. QED BY <1>1, <1>2, <1>3, <1>5, <1>6, <1>7, <1>8, <1>9 DEF Next, Settle

-----------------------------------------------------------------------------
(* Implementation of the contract *)

\* A step that only moves messages into memory, out of the queue's view, takes.
LEMMA TakeStep ==
  ASSUME Held' = Held, InMemory \subseteq InMemory', InMemory' \subseteq InMemory \cup Held,
         UNCHANGED <<written, reported>>
  PROVE  Contract!Next
  <1>1. InMemory' \ InMemory \in SUBSET Held /\ InMemory' = InMemory \cup (InMemory' \ InMemory)
    OBVIOUS
  <1>2. Contract!Take BY <1>1 DEF Contract!Take
  <1>3. Misdirected' \in BOOLEAN BY DEF Misdirected
  <1>. QED BY <1>2, <1>3 DEF Contract!Next

\* A step that writes messages that are in memory writes.
LEMMA WriteStep ==
  ASSUME Held' = Held, InMemory' = InMemory, written \subseteq written',
         written' \subseteq written \cup InMemory, UNCHANGED reported
  PROVE  Contract!Next
  <1>1. written' \ written \in SUBSET InMemory /\ written' = written \cup (written' \ written)
    OBVIOUS
  <1>2. Contract!Write BY <1>1 DEF Contract!Write
  <1>3. Misdirected' \in BOOLEAN BY DEF Misdirected
  <1>. QED BY <1>2, <1>3 DEF Contract!Next

\* A step that only drops messages, and accounts for those that leave the queue, releases.
LEMMA ReleaseStep ==
  ASSUME Held' \subseteq Held, InMemory' \subseteq InMemory, UNCHANGED written,
         reported \subseteq reported', reported' \subseteq reported \cup InMemory,
         Misdirected \/ Held \ Held' \subseteq written \cup InMemory' \cup reported'
  PROVE  Contract!Next
  <1> DEFINE settled == Held \ Held'
             dropped == InMemory \ InMemory'
             some == reported' \ reported
  <1>1. settled \in SUBSET Held /\ dropped \in SUBSET InMemory /\ some \in SUBSET InMemory
    OBVIOUS
  <1>2. Held' = Held \ settled /\ InMemory' = InMemory \ dropped /\ reported' = reported \cup some
    OBVIOUS
  <1>3. Misdirected \/ settled \subseteq written \cup InMemory' \cup reported' OBVIOUS
  <1>. HIDE DEF settled, dropped, some
  <1>4. reported' \in {reported \cup s : s \in SUBSET InMemory} BY <1>1, <1>2
  <1>5. Contract!Release BY <1>1, <1>2, <1>3, <1>4 DEF Contract!Release
  <1>6. Misdirected' \in BOOLEAN BY DEF Misdirected
  <1>. QED BY <1>5, <1>6 DEF Contract!Next

\* What the queue and the memory hold, in terms of deliveries.
LEMMA HoldingsAre ==
  ASSUME TypeOK
  PROVE  InMemory = {d.msg : d \in ToSet(buffer) \cup ToSet(batch)}
  <1>1. buffer \in Seq(Deliveries) /\ batch \in Seq(Deliveries) BY DEF TypeOK
  <1>2. MsgsOf(buffer) = {d.msg : d \in ToSet(buffer)} /\ MsgsOf(batch) = {d.msg : d \in ToSet(batch)}
    BY <1>1, MsgsOfSet
  <1>. QED BY <1>2 DEF InMemory

\* Unless the answer is misdirected, what its items settle for good was written.
LEMMA SettledWasWritten ==
  ASSUME TypeOK, Accounted, bulk = "done", ~Misdirected, NEW d \in Settled \ Nacked
  PROVE  d.msg \in written
  <1>1. PICK i \in 1 .. FirstBad - 1 : TagOf(i) = d.tag BY DEF Settled
  <1>2. d \in unacked /\ i \in DOMAIN batch BY <1>1, BeforeFirstBad DEF Settled
  <1>3. i \notin rejected BY <1>1, <1>2 DEF Nacked
  <1>4. batch[i].msg \in written BY <1>2, <1>3 DEF Accounted
  <1>. QED BY <1>1, <1>2, <1>4 DEF Misdirected

LEMMA ContractInit == Init => Contract!Init
  <1> SUFFICES ASSUME Init PROVE Contract!Init OBVIOUS
  <1>1. ready = Queue /\ unacked = {} /\ buffer = <<>> /\ batch = <<>> /\ written = {} /\ reported = {}
    BY DEF Init
  <1>2. ToSet(Queue) = Msgs
    <2>1. \A i \in DOMAIN Queue : Queue[i] \in Msgs OBVIOUS
    <2>. QED BY <2>1 DEF ToSet
  <1>3. Held = Msgs BY <1>1, <1>2 DEF Held
  <1>4. InMemory = {} BY <1>1 DEF InMemory, MsgsOf
  <1>5. ~Misdirected BY <1>1 DEF Misdirected
  <1>. QED BY <1>1, <1>3, <1>4, <1>5 DEF Contract!Init

LEMMA ContractNext ==
  TypesAndFinite /\ TypesAndFinite' /\ Accounted /\ [Next]_vars => [Contract!Next]_(Contract!vars)
  <1> SUFFICES ASSUME TypesAndFinite, TypesAndFinite', Accounted, [Next]_vars
               PROVE  [Contract!Next]_(Contract!vars)
    OBVIOUS
  <1>0. TypeOK /\ TypeOK' BY DEF TypesAndFinite
  <1>t. /\ InMemory = {d.msg : d \in ToSet(buffer) \cup ToSet(batch)}
        /\ InMemory' = {d.msg : d \in ToSet(buffer') \cup ToSet(batch')}
    <2>1. InMemory = {d.msg : d \in ToSet(buffer) \cup ToSet(batch)} BY <1>0, HoldingsAre
    <2>2. buffer' \in Seq(Deliveries) /\ batch' \in Seq(Deliveries) BY <1>0 DEF TypeOK
    <2>3. /\ MsgsOf(buffer') = {d.msg : d \in ToSet(buffer')}
          /\ MsgsOf(batch') = {d.msg : d \in ToSet(batch')}
      BY <2>2, MsgsOfSet
    <2>4. InMemory' = MsgsOf(buffer') \cup MsgsOf(batch') BY DEF InMemory, MsgsOf
    <2>. QED BY <2>1, <2>3, <2>4
  <1>h. /\ Held = ToSet(ready) \cup {d.msg : d \in unacked}
        /\ Held' = ToSet(ready') \cup {d.msg : d \in unacked'}
    BY DEF Held
  <1>e. \A s : s = <<>> => ToSet(s) = {} BY DEF ToSet
  <1> USE DEF settings, brokerVars, bulkVars, bounds, store
  <1>1. ASSUME Deliver PROVE Contract!Next
    <2> DEFINE delivery == [tag |-> nextTag, msg |-> Head(ready)]
    <2>1. /\ unacked' = unacked \cup {delivery} /\ buffer' = Append(buffer, delivery)
          /\ ready' = Tail(ready) /\ UNCHANGED <<batch, written, reported>>
      BY <1>1 DEF Deliver
    <2>2. delivery.msg = Head(ready) OBVIOUS
    <2>3. delivery \in Deliveries BY <1>0, <2>1 DEF TypeOK
    <2>. HIDE DEF delivery
    <2>4. ToSet(ready) = {Head(ready)} \cup ToSet(Tail(ready))
      BY <1>0, <1>1, HeadAndTail DEF Deliver, TypeOK
    <2>5. ToSet(buffer') = ToSet(buffer) \cup {delivery}
      <3>1. buffer \in Seq(Deliveries) BY <1>0 DEF TypeOK
      <3>. QED BY <2>1, <2>3, <3>1, AppendSet
    <2>6. Held' = Held BY <1>h, <2>1, <2>2, <2>4
    <2>7. InMemory' = InMemory \cup {delivery.msg} BY <1>t, <2>1, <2>5
    <2>8. delivery.msg \in Held BY <1>h, <2>2, <2>4
    <2>. QED BY <2>1, <2>6, <2>7, <2>8, TakeStep
  <1>2. ASSUME StartBulk PROVE Contract!Next
    <2>1. ToSet(buffer) \cup ToSet(batch) = ToSet(buffer') \cup ToSet(batch')
      BY <1>0, <1>2, StartMoves
    <2>2. UNCHANGED <<ready, unacked, written, reported>> BY <1>2 DEF StartBulk
    <2>3. InMemory' = InMemory /\ Held' = Held BY <1>t, <1>h, <2>1, <2>2
    <2>. QED BY <2>2, <2>3, TakeStep
  <1>3. ASSUME ExecuteBulk \/ FailBulk PROVE Contract!Next
    <2>1. UNCHANGED <<ready, unacked, buffer, batch, reported>> /\ written \subseteq written'
      BY <1>3 DEF ExecuteBulk, FailBulk
    <2>2. written' \subseteq written \cup MsgsOf(batch)
      <3>1. ASSUME ExecuteBulk PROVE written' \subseteq written \cup MsgsOf(batch)
        BY <3>1 DEF ExecuteBulk, MsgsOf
      <3>2. ASSUME FailBulk PROVE written' \subseteq written \cup MsgsOf(batch)
        BY <3>2 DEF FailBulk
      <3>. QED BY <1>3, <3>1, <3>2
    <2>3. InMemory' = InMemory /\ Held' = Held BY <1>t, <1>h, <2>1
    <2>4. MsgsOf(batch) \subseteq InMemory BY DEF InMemory
    <2>. QED BY <2>1, <2>2, <2>3, <2>4, WriteStep
  <1>4. ASSUME AckAll PROVE Contract!Next
    <2>1. /\ unacked' = {} /\ batch' = <<>> /\ UNCHANGED <<ready, buffer, written, reported>>
          /\ bulk = "done" /\ rejected = {}
      BY <1>4 DEF AckAll, SettledByAckAll, EndBatch
    <2>2. \A d \in ToSet(batch) : d.msg \in written BY <2>1 DEF Accounted, ToSet
    <2>3. \A d \in unacked : d.msg \in written \cup InMemory' \cup reported
      BY <1>t, <1>e, <2>1, <2>2 DEF Accounted
    <2>4. Held' \subseteq Held /\ InMemory' \subseteq InMemory BY <1>t, <1>h, <1>e, <2>1
    <2>5. \A m \in Held \ Held' : m \in written \cup InMemory' \cup reported'
      BY <1>h, <2>1, <2>3
    <2>. QED BY <2>1, <2>4, <2>5, ReleaseStep
  <1>5. ASSUME NEW requeued \in SUBSET unacked, Requeue(requeued), unacked' = {},
               \A d \in unacked \ requeued : Misdirected \/ d.msg \in written,
               buffer' = buffer \/ buffer' = <<>>, batch' = batch \/ batch' = <<>>,
               UNCHANGED store
        PROVE  Contract!Next
    <2>1. ToSet(ready') = ToSet(ready) \cup {d.msg : d \in requeued}
      BY <1>5, RequeueTypes
    <2>2. Held' \subseteq Held BY <1>5, <1>h, <2>1
    <2>3. InMemory' \subseteq InMemory BY <1>5, <1>t, <1>e
    <2>4. Misdirected \/ Held \ Held' \subseteq written
      <3>1. \A m \in Held \ Held' : \E d \in unacked \ requeued : m = d.msg
        BY <1>5, <1>h, <2>1
      <3>. QED BY <1>5, <3>1
    <2>. QED BY <1>5, <2>2, <2>3, <2>4, ReleaseStep
  <1>6. ASSUME NackAll \/ Crash \/ SettleOnLostChannel \/ DieOfChannelError \/ LoseConnection
        PROVE  Contract!Next
    <2>1. /\ Requeue(unacked) /\ unacked' = {} /\ UNCHANGED store
          /\ buffer' = buffer \/ buffer' = <<>>
          /\ batch' = batch \/ batch' = <<>>
      BY <1>6 DEF NackAll, NackAllRequeues, Crash, SettleOnLostChannel, DieOfChannelError,
                  LoseConnection, Stop, EndBatch
    <2>. QED BY <1>5, <2>1
  <1>7. ASSUME AckOrNack PROVE Contract!Next
    <2>1. bulk = "done" /\ batch' = <<>> /\ UNCHANGED <<buffer, store>>
      BY <1>7 DEF AckOrNack, EndBatch
    <2>2. \A d \in Settled \ Nacked : Misdirected \/ d.msg \in written
      BY <1>0, <2>1, SettledWasWritten
    <2>3. CASE FirstBad > Len(batch)
      <3>1. Requeue(Nacked) /\ unacked' = unacked \ Settled /\ Nacked \in SUBSET unacked
        BY <1>7, <2>3 DEF AckOrNack, Nacked
      <3>2. ToSet(ready') = ToSet(ready) \cup {d.msg : d \in Nacked} BY <3>1, RequeueTypes
      <3>3. Held' \subseteq Held BY <1>h, <3>1, <3>2
      <3>4. InMemory' \subseteq InMemory BY <1>t, <1>e, <2>1
      <3>5. Misdirected \/ Held \ Held' \subseteq written
        <4>1. \A m \in Held \ Held' : \E d \in Settled \ Nacked : m = d.msg
          BY <1>h, <3>1, <3>2
        <4>. QED BY <2>2, <4>1
      <3>. QED BY <2>1, <3>3, <3>4, <3>5, ReleaseStep
    <2>4. CASE ~ (FirstBad > Len(batch))
      <3> DEFINE requeued == unacked \ (Settled \ Nacked)
      <3>1. Requeue(requeued) /\ unacked' = {} BY <1>7, <2>4 DEF AckOrNack
      <3>2. unacked \ requeued \subseteq Settled \ Nacked OBVIOUS
      <3>3. requeued \in SUBSET unacked OBVIOUS
      <3>. HIDE DEF requeued
      <3>. QED BY <1>5, <2>1, <2>2, <3>1, <3>2, <3>3
    <2>. QED BY <2>3, <2>4
  <1>8. ASSUME LogIndexingErrors PROVE Contract!Next
    <2>1. /\ batch' = <<>> /\ UNCHANGED <<ready, unacked, buffer, written>>
          /\ reported' = reported \cup {batch[i].msg : i \in rejected} /\ rejected \subseteq DOMAIN batch
      BY <1>0, <1>8 DEF LogIndexingErrors, EndBatch, TypeOK
    <2>2. {batch[i].msg : i \in rejected} \subseteq InMemory BY <2>1 DEF InMemory, MsgsOf
    <2>3. Held' = Held /\ InMemory' \subseteq InMemory BY <1>t, <1>h, <1>e, <2>1
    <2>. QED BY <2>1, <2>2, <2>3, ReleaseStep
  <1>9. ASSUME Return \/ UNCHANGED vars PROVE Contract!Next
    <2>1. UNCHANGED <<ready, unacked, buffer, batch, written, reported>>
      BY <1>9 DEF Return, Reconnect, Relaunch, vars
    <2>2. Held' = Held /\ InMemory' = InMemory BY <1>t, <1>h, <2>1
    <2>. QED BY <2>1, <2>2, TakeStep
  <1>. QED BY <1>1, <1>2, <1>3, <1>4, <1>6, <1>7, <1>8, <1>9 DEF Next, Settle

-----------------------------------------------------------------------------
(* Misdirected answers *)

\* Deliveries whose tags an answer may use.
Outstanding == unacked \cup ToSet(buffer) \cup ToSet(batch)

\* Until a connection is lost, tags are given once, in the channel of this process.
TagsOnce ==
    /\ losses = 0 => /\ \A d \in Outstanding : d.tag < nextTag
                     /\ \A d, e \in Outstanding : d.tag = e.tag => d = e
    /\ channel = "down" => Outstanding = {}
    /\ channel = "lost" => losses > 0

LEMMA TagsOnceInit == Init => TagsOnce
  BY DEF Init, TagsOnce, Outstanding, ToSet

LEMMA TagsOnceNext == TypesAndFinite /\ TypesAndFinite' /\ TagsOnce /\ [Next]_vars => TagsOnce'
  <1> SUFFICES ASSUME TypesAndFinite, TypesAndFinite', TagsOnce, [Next]_vars PROVE TagsOnce' OBVIOUS
  <1>0. TypeOK /\ TypeOK' BY DEF TypesAndFinite
  <1>n. losses \in Nat /\ nextTag \in Nat BY <1>0 DEF TypeOK
  <1>e. \A s : s = <<>> => ToSet(s) = {} BY DEF ToSet
  <1>o. Outstanding' = unacked' \cup ToSet(buffer') \cup ToSet(batch')
    BY DEF Outstanding, ToSet
  <1> USE DEF settings, brokerVars, bulkVars, bounds, store
  <1>1. ASSUME Deliver PROVE TagsOnce'
    <2> DEFINE delivery == [tag |-> nextTag, msg |-> Head(ready)]
    <2>1. /\ unacked' = unacked \cup {delivery} /\ buffer' = Append(buffer, delivery)
          /\ channel = "open" /\ nextTag' = nextTag + 1 /\ UNCHANGED <<channel, batch, losses>>
      BY <1>1 DEF Deliver
    <2>2. delivery.tag = nextTag OBVIOUS
    <2>3. delivery \in Deliveries BY <1>0, <2>1 DEF TypeOK
    <2>. HIDE DEF delivery
    <2>4. ToSet(buffer') = ToSet(buffer) \cup {delivery}
      <3>1. buffer \in Seq(Deliveries) BY <1>0 DEF TypeOK
      <3>. QED BY <2>1, <2>3, <3>1, AppendSet
    <2>5. Outstanding' = Outstanding \cup {delivery}
      BY <1>o, <2>1, <2>4 DEF Outstanding
    <2>6. \A d \in Outstanding : d.tag \in Nat
      <3>1. Outstanding \subseteq Deliveries
        <4>1. unacked \subseteq Deliveries /\ buffer \in Seq(Deliveries) /\ batch \in Seq(Deliveries)
          BY <1>0, SMTT(30) DEF TypeOK
        <4>2. ToSet(buffer) \subseteq Deliveries BY <4>1 DEF ToSet
        <4>3. ToSet(batch) \subseteq Deliveries BY <4>1 DEF ToSet
        <4>. QED BY <4>1, <4>2, <4>3 DEF Outstanding
      <3>. QED BY <3>1 DEF Deliveries
    <2>. QED BY <1>n, <2>1, <2>2, <2>5, <2>6 DEF TagsOnce
  <1>2. ASSUME Outstanding' \subseteq Outstanding, UNCHANGED <<nextTag, losses>>,
               channel' \in {channel, "closed"}
        PROVE  TagsOnce'
    <2>1. channel' = "down" => channel = "down" BY <1>2
    <2>2. channel' = "lost" => channel = "lost" BY <1>2
    <2>3. losses' = 0 => /\ \A d \in Outstanding' : d.tag < nextTag'
                         /\ \A d, e \in Outstanding' : d.tag = e.tag => d = e
      BY <1>2 DEF TagsOnce
    <2>4. channel' = "down" => Outstanding' = {} BY <1>2, <2>1 DEF TagsOnce
    <2>5. channel' = "lost" => losses' > 0 BY <1>2, <2>2 DEF TagsOnce
    <2>. QED BY <2>3, <2>4, <2>5 DEF TagsOnce
  <1>3. ASSUME StartBulk PROVE TagsOnce'
    <2>1. Outstanding' = Outstanding
      <3>1. ToSet(buffer) \cup ToSet(batch) = ToSet(buffer') \cup ToSet(batch')
        BY <1>0, <1>3, StartMoves
      <3>2. unacked' = unacked BY <1>3 DEF StartBulk
      <3>. QED BY <1>o, <3>1, <3>2 DEF Outstanding
    <2>2. UNCHANGED <<nextTag, losses, channel>> BY <1>3 DEF StartBulk
    <2>. QED BY <1>2, <2>1, <2>2
  <1>4. ASSUME ExecuteBulk \/ FailBulk \/ AckAll \/ NackAll \/ AckOrNack \/ LogIndexingErrors
               \/ UNCHANGED vars
        PROVE  TagsOnce'
    <2>1. /\ unacked' \subseteq unacked /\ buffer' = buffer /\ (batch' = batch \/ batch' = <<>>)
          /\ UNCHANGED <<nextTag, losses>> /\ channel' \in {channel, "closed"}
      BY <1>4 DEF ExecuteBulk, FailBulk, AckAll, NackAll, AckOrNack, LogIndexingErrors, EndBatch, vars
    <2>2. Outstanding' \subseteq Outstanding BY <1>o, <1>e, <2>1 DEF Outstanding
    <2>. QED BY <1>2, <2>1, <2>2
  <1>5. ASSUME Crash \/ SettleOnLostChannel \/ DieOfChannelError PROVE TagsOnce'
    <2>1. unacked' = {} /\ buffer' = <<>> /\ batch' = <<>> /\ channel' = "down"
      BY <1>5 DEF Crash, SettleOnLostChannel, DieOfChannelError, Stop
    <2>2. Outstanding' = {} BY <1>o, <1>e, <2>1
    <2>. QED BY <2>1, <2>2 DEF TagsOnce
  <1>6. ASSUME LoseConnection PROVE TagsOnce'
    BY <1>n, <1>6 DEF LoseConnection, TagsOnce
  <1>7. ASSUME Return PROVE TagsOnce'
    <2>1. UNCHANGED <<unacked, buffer, batch, losses>> /\ channel' = "open"
          /\ channel \in {"lost", "down"}
      BY <1>7 DEF Return, Reconnect, Relaunch
    <2>2. Outstanding' = Outstanding BY <1>o, <2>1 DEF Outstanding
    <2>. QED BY <1>n, <2>1, <2>2 DEF TagsOnce
  <1>. QED BY <1>1, <1>3, <1>4, <1>5, <1>6, <1>7 DEF Next, Settle

LEMMA MisdirectedOnlyAfter ==
  TypesAndFinite /\ TagsOnce => (Misdirected => losses > 0 \/ SharedDocument)
  <1> SUFFICES ASSUME TypesAndFinite, TagsOnce, Misdirected, ~ (losses > 0) PROVE SharedDocument
    OBVIOUS
  <1>0. TypeOK /\ losses = 0 BY SMTT(30) DEF TypesAndFinite, TypeOK
  <1>1. PICK i \in DOMAIN batch, d \in unacked : TagOf(i) = d.tag /\ d.msg # batch[i].msg
    BY DEF Misdirected
  <1>2. Target(i) \in DOMAIN batch /\ DocOf[batch[Target(i)].msg] = DocOf[batch[i].msg]
    BY <1>0, <1>1, TargetIs
  <1>3. batch[Target(i)].tag = d.tag BY <1>1 DEF TagOf
  <1>4. batch[Target(i)] \in Outstanding /\ d \in Outstanding
    BY <1>1, <1>2 DEF Outstanding, ToSet
  <1>5. d = batch[Target(i)] BY <1>0, <1>3, <1>4 DEF TagsOnce
  <1>6. batch[Target(i)].msg \in Msgs /\ batch[i].msg \in Msgs
    BY <1>0, <1>1, <1>2, DeliveryFields DEF TypeOK
  <1>. QED BY <1>1, <1>2, <1>5, <1>6 DEF SharedDocument

\* For every queue, prefetch, assignment of documents and number of failures: a message only
\* leaves the queue when it was written, is held in memory or was reported, and never
\* returns, unless an answer is misdirected; and none is before a connection is lost or
\* two messages write the same document.
THEOREM ContractIsKept == Spec => ContractKept
  <1> DEFINE Inv == TypesAndFinite /\ Accounted /\ TagsOnce
  <1>1. Init => Inv /\ Contract!Init
    BY TypesInit, AccountedInit, TagsOnceInit, ContractInit
  <1>2. Inv /\ [Next]_vars => Inv'
    BY TypesNext, AccountedNext, TagsOnceNext
  <1>3. Inv /\ Inv' /\ [Next]_vars => [Contract!Next]_(Contract!vars)
    BY ContractNext
  <1>4. Inv => (Misdirected => losses > 0 \/ SharedDocument)
    BY MisdirectedOnlyAfter
  <1>. QED BY <1>1, <1>2, <1>3, <1>4, PTL DEF Spec, ContractKept, Contract!Spec

-----------------------------------------------------------------------------
(* Lost messages *)

-----------------------------------------------------------------------------
(* Lost messages *)

\* The size of an interval.
LEMMA IntervalSize ==
  ASSUME NEW a \in Int, NEW b \in Int, a <= b + 1
  PROVE  IsFiniteSet(a .. b) /\ Cardinality(a .. b) = b - a + 1
  <1>1. IsFiniteSet(a .. b) /\ Cardinality(a .. b) = IF a > b THEN 0 ELSE b - a + 1
    BY FS_Interval, Zenon
  <1>. QED BY <1>1

\* A sequence has no more elements than its length.
LEMMA ImageBound ==
  ASSUME NEW n \in Nat, NEW f
  PROVE  /\ IsFiniteSet({f[i] : i \in 1 .. n})
         /\ Cardinality({f[i] : i \in 1 .. n}) <= n
  <1> DEFINE T == {f[i] : i \in 1 .. n}
             g == [i \in 1 .. n |-> f[i]]
  <1>1. g \in Surjection(1 .. n, T) BY DEF Surjection
  <1>2. IsFiniteSet(1 .. n) /\ Cardinality(1 .. n) = n
    <2>1. 1 \in Int /\ n \in Int /\ 1 <= n + 1 /\ n - 1 + 1 = n OBVIOUS
    <2>. QED BY <2>1, IntervalSize
  <1>. HIDE DEF g, T
  <1>3. IsFiniteSet(T) /\ Cardinality(T) <= n BY <1>1, <1>2, FS_Surjection
  <1>. QED BY <1>3 DEF T

\* A set covered by two others has no more elements than both.
LEMMA SumBound ==
  ASSUME NEW A, NEW B, IsFiniteSet(A), IsFiniteSet(B), NEW T \in SUBSET (A \cup B)
  PROVE  /\ IsFiniteSet(T) /\ Cardinality(T) \in Nat
         /\ Cardinality(A) \in Nat /\ Cardinality(B) \in Nat
         /\ Cardinality(T) <= Cardinality(A) + Cardinality(B)
  <1>1. /\ IsFiniteSet(A \cup B)
        /\ Cardinality(A \cup B) = Cardinality(A) + Cardinality(B) - Cardinality(A \cap B)
    BY FS_Union
  <1>2. IsFiniteSet(A \cap B) BY FS_Intersection
  <1>3. /\ Cardinality(A) \in Nat /\ Cardinality(B) \in Nat /\ Cardinality(A \cap B) \in Nat
        /\ Cardinality(A \cup B) \in Nat
    BY <1>1, <1>2, FS_CardinalityType
  <1>4. IsFiniteSet(T) /\ Cardinality(T) <= Cardinality(A \cup B) BY <1>1, FS_Subset
  <1>5. Cardinality(T) \in Nat BY <1>4, FS_CardinalityType
  <1>. QED BY <1>1, <1>3, <1>4, <1>5

LEMMA FiniteMsgs == IsFiniteSet(Msgs)
  <1>1. Len(Queue) \in Nat /\ DOMAIN Queue = 1 .. Len(Queue) OBVIOUS
  <1>2. Msgs \subseteq {Queue[i] : i \in 1 .. Len(Queue)} BY <1>1
  <1>3. IsFiniteSet({Queue[i] : i \in 1 .. Len(Queue)}) BY <1>1, ImageBound
  <1>. QED BY <1>2, <1>3, FS_Subset

\* The messages the process no longer has, although they were taken and not written:
\* the lost ones, and those that are outstanding without the process knowing them.
Stranded == Msgs \ (ToSet(ready) \cup InMemory \cup written)

\* The messages that neither the queue nor the store has.
Gone == Msgs \ (Held \cup written)

\* All deliveries of the cargo after the first o are outstanding, each once.
TailOf(o) ==
    /\ \A i \in o + 1 .. Len(buffer) : buffer[i] \in unacked
    /\ \A i, j \in o + 1 .. Len(buffer) : buffer[i] = buffer[j] => i = j

\* What the state of the request adds to or takes from the losses the mishaps pay for.
Credit ==
    IF bulk = "idle" THEN prefetch
    ELSE IF bulk = "sent" \/ (bulk = "done" /\ rejected = {}) THEN 0 ELSE 0 - prefetch

\* Tags are given once per channel, the prefetch bounds what is outstanding and what
\* a request holds, and only an open channel has deliveries.
ChannelInv ==
    /\ \A d \in unacked : d.tag < nextTag
    /\ \A d, e \in unacked : d.tag = e.tag => d = e
    /\ Cardinality(unacked) <= prefetch
    /\ Len(batch) <= prefetch
    /\ channel # "open" => unacked = {}
    /\ channel \in {"closed", "down"} => bulk = "idle"
    /\ channel = "down" => buffer = <<>>

\* The mishaps so far pay for the stranded messages and for the old deliveries of the
\* cargo, which nothing would put back.
Budget ==
    /\ Cardinality(Stranded) <= prefetch * Mishaps
    /\ channel = "closed" => Cardinality(Gone) <= prefetch * Mishaps
    /\ channel # "closed" =>
          \E o \in 0 .. Len(buffer) : TailOf(o) /\ Cardinality(Stranded) + o <= prefetch * Mishaps + Credit

\* What is outstanding and not in the tail of the cargo.
LEMMA TailFits ==
  ASSUME TypesAndFinite, ChannelInv, NEW o \in 0 .. Len(buffer), TailOf(o), NEW T,
         T = {buffer[i] : i \in o + 1 .. Len(buffer)}
  PROVE  /\ T \subseteq unacked /\ IsFiniteSet(unacked \ T)
         /\ Cardinality(unacked \ T) \in Nat
         /\ Cardinality(unacked \ T) + Len(buffer) <= o + prefetch
  <1> DEFINE S == o + 1 .. Len(buffer)
             g == [i \in S |-> buffer[i]]
  <1>1. Len(buffer) \in Nat /\ o \in Nat /\ o <= Len(buffer) /\ prefetch \in Nat
        /\ Cardinality(unacked) <= prefetch /\ IsFiniteSet(unacked)
    BY DEF TypesAndFinite, TypeOK, ChannelInv
  <1>2. T \subseteq unacked BY DEF TailOf
  <1>3. IsFiniteSet(S) /\ Cardinality(S) = Len(buffer) - o
    <2>1. PICK n : n = Len(buffer) OBVIOUS
    <2>2. o + 1 \in Int /\ n \in Int /\ o + 1 <= n + 1 /\ n - (o + 1) + 1 = n - o BY <1>1, <2>1
    <2>. QED BY <2>1, <2>2, IntervalSize
  <1>4. g \in Bijection(S, T)
    <2>1. g \in [S -> T] /\ \A y \in T : \E i \in S : g[i] = y OBVIOUS
    <2>2. \A i, j \in S : g[i] = g[j] => i = j BY DEF TailOf
    <2>3. g \in Injection(S, T)
      <3>. HIDE DEF g, S
      <3>. QED BY <2>1, <2>2 DEF Injection, IsInjective
    <2>4. g \in Surjection(S, T)
      <3>. HIDE DEF g, S
      <3>. QED BY <2>1 DEF Surjection
    <2>. QED BY <2>3, <2>4 DEF Bijection
  <1>. HIDE DEF g, S
  <1>5. IsFiniteSet(T) /\ Cardinality(T) = Len(buffer) - o
    BY <1>3, <1>4, FS_Bijection DEF ExistsBijection
  <1>6. /\ IsFiniteSet(unacked \ T)
        /\ Cardinality(unacked \ T) = Cardinality(unacked) - Cardinality(unacked \cap T)
    BY <1>1, FS_Difference
  <1>7. unacked \cap T = T BY <1>2
  <1>8. Cardinality(unacked \ T) \in Nat /\ Cardinality(unacked) \in Nat
    BY <1>1, <1>6, FS_CardinalityType
  <1>9. Cardinality(unacked \ T) = Cardinality(unacked) - (Len(buffer) - o)
    BY <1>5, <1>6, <1>7, Zenon
  <1>10. Cardinality(unacked \ T) + Len(buffer) <= o + prefetch
    BY <1>1, <1>8, <1>9
  <1>. QED BY <1>2, <1>6, <1>8, <1>10

\* Numbers of the budget.
LEMMA Numbers ==
  ASSUME TypesAndFinite
  PROVE  /\ prefetch \in Nat \ {0} /\ Mishaps \in Nat /\ prefetch * Mishaps \in Nat
         /\ IsFiniteSet(Stranded) /\ Cardinality(Stranded) \in Nat
         /\ IsFiniteSet(Gone) /\ Cardinality(Gone) \in Nat
         /\ Len(buffer) \in Nat /\ Len(batch) \in Nat
         /\ DOMAIN buffer = 1 .. Len(buffer) /\ DOMAIN batch = 1 .. Len(batch)
  <1>1. prefetch \in Nat \ {0} BY DEF TypesAndFinite, TypeOK
  <1>2. failures \in Nat /\ rejects \in Nat /\ losses \in Nat /\ crashes \in Nat
    BY DEF TypesAndFinite, TypeOK
  <1>3. Mishaps \in Nat BY <1>2 DEF Mishaps
  <1>4. prefetch * Mishaps \in Nat
    <2>1. \A a, b \in Nat : a * b \in Nat OBVIOUS
    <2>. QED BY <1>1, <1>3, <2>1
  <1>5. Stranded \subseteq Msgs /\ Gone \subseteq Msgs BY DEF Stranded, Gone
  <1>6. IsFiniteSet(Stranded) /\ IsFiniteSet(Gone) BY <1>5, FiniteMsgs, FS_Subset
  <1>7. Cardinality(Stranded) \in Nat /\ Cardinality(Gone) \in Nat BY <1>6, FS_CardinalityType
  <1>8. buffer \in Seq(Deliveries) /\ batch \in Seq(Deliveries) BY DEF TypesAndFinite, TypeOK
  <1>. QED BY <1>1, <1>3, <1>4, <1>6, <1>7, <1>8

\* What a stop of the process would lose.
LEMMA GoneBound ==
  ASSUME TypesAndFinite, Accounted, ChannelInv, Budget
  PROVE  Cardinality(Gone) <= prefetch * Mishaps
                     + (IF channel # "closed" /\ bulk \in {"idle", "sent"} THEN prefetch ELSE 0)
  <1>n. /\ prefetch \in Nat \ {0} /\ prefetch * Mishaps \in Nat
        /\ IsFiniteSet(Stranded) /\ Cardinality(Stranded) \in Nat
        /\ IsFiniteSet(Gone) /\ Cardinality(Gone) \in Nat
        /\ Len(buffer) \in Nat /\ Len(batch) \in Nat
        /\ DOMAIN buffer = 1 .. Len(buffer) /\ DOMAIN batch = 1 .. Len(batch)
    BY Numbers
  <1>b. PICK b : b = prefetch * Mishaps OBVIOUS
  <1>c. b \in Nat BY <1>n, <1>b
  <1>d. /\ prefetch \in Nat /\ Cardinality(Stranded) \in Nat /\ Cardinality(Gone) \in Nat
    BY <1>n
  <1>1. CASE channel = "closed"
    <2>1. Cardinality(Gone) <= b BY <1>1, <1>b DEF Budget
    <2>. QED BY <1>1, <1>b, <1>c, <1>n, <2>1
  <1>2. CASE channel # "closed"
    <2>1. PICK o \in 0 .. Len(buffer) :
             TailOf(o) /\ Cardinality(Stranded) + o <= b + Credit
      BY <1>2, <1>b DEF Budget
    <2> DEFINE msg == [i \in 1 .. o |-> buffer[i].msg]
               bmsg == [i \in 1 .. Len(batch) |-> batch[i].msg]
               old == {msg[i] : i \in 1 .. o}
               last == {bmsg[i] : i \in 1 .. Len(batch)}
               some == IF bulk = "idle" \/ (bulk = "done" /\ rejected = {}) THEN {} ELSE last
    <2>2. Gone \subseteq (Stranded \cup old) \cup some
      <3>1. ASSUME NEW m \in Gone, m \in MsgsOf(buffer) PROVE m \in old
        <4>1. PICK i \in 1 .. Len(buffer) : m = buffer[i].msg BY <1>n, <3>1 DEF MsgsOf
        <4>2. buffer[i] \notin unacked BY <3>1, <4>1 DEF Gone, Held
        <4>3. ~ (i \in o + 1 .. Len(buffer)) BY <2>1, <4>2 DEF TailOf
        <4>4. i \in 1 .. o BY <1>n, <4>3
        <4>. QED BY <4>1, <4>4
      <3>2. ASSUME NEW m \in Gone, m \in MsgsOf(batch) PROVE m \in some
        <4>1. PICK i \in 1 .. Len(batch) : m = batch[i].msg BY <1>n, <3>2 DEF MsgsOf
        <4>2. m \in last BY <4>1
        <4>3. bulk # "idle"
          <5>1. Len(batch) # 0 BY <1>n, <4>1
          <5>2. batch # <<>> BY <5>1
          <5>. QED BY <5>2 DEF TypesAndFinite, TypeOK
        <4>4. ~ (bulk = "done" /\ rejected = {})
          <5>1. m \notin written BY <3>2 DEF Gone
          <5>2. i \in DOMAIN batch BY <1>n, <4>1
          <5>. QED BY <4>1, <5>1, <5>2 DEF Accounted
        <4>. QED BY <4>2, <4>3, <4>4
      <3>3. ASSUME NEW m \in Gone, m \notin InMemory PROVE m \in Stranded
        BY <3>3 DEF Gone, Held, Stranded
      <3>. HIDE DEF old, some
      <3>. QED BY <3>1, <3>2, <3>3 DEF InMemory
    <2>3. o \in Nat BY <1>n
    <2>4. IsFiniteSet(old) /\ Cardinality(old) <= o /\ Cardinality(old) \in Nat
      <3>1. IsFiniteSet(old) /\ Cardinality(old) <= o BY <2>3, ImageBound
      <3>. QED BY <3>1, FS_CardinalityType
    <2>5. /\ IsFiniteSet(some) /\ Cardinality(some) \in Nat /\ Cardinality(some) <= prefetch
          /\ (bulk = "idle" \/ (bulk = "done" /\ rejected = {})) => Cardinality(some) = 0
      <3>1. IsFiniteSet(last) /\ Cardinality(last) <= Len(batch) 
        <4>1. Len(batch) \in Nat BY <1>n
        <4>. QED BY <4>1, ImageBound
      <3>2. Cardinality(last) \in Nat BY <3>1, FS_CardinalityType
      <3>3. Len(batch) <= prefetch BY DEF ChannelInv
      <3>4. some = {} \/ some = last OBVIOUS
      <3>5. (bulk = "idle" \/ (bulk = "done" /\ rejected = {})) => some = {} OBVIOUS
      <3>6. IsFiniteSet({}) /\ Cardinality({}) = 0 BY FS_EmptySet
      <3>. HIDE DEF some, last
      <3>7. Cardinality(last) <= prefetch BY <1>n, <3>1, <3>2, <3>3
      <3>8. 0 \in Nat /\ 0 <= prefetch BY <1>n
      <3>. QED BY <3>1, <3>2, <3>4, <3>5, <3>6, <3>7, <3>8, Zenon
    <2>. HIDE DEF old, some
    <2>6. /\ IsFiniteSet(Stranded \cup old) /\ Cardinality(Stranded \cup old) \in Nat
          /\ Cardinality(Stranded \cup old) <= Cardinality(Stranded) + Cardinality(old)
      BY <1>n, <2>4, SumBound
    <2>7. Cardinality(Gone) <= Cardinality(Stranded \cup old) + Cardinality(some)
      BY <2>2, <2>5, <2>6, SumBound
    <2>8. Cardinality(Gone) <= b + Credit + Cardinality(some)
      <3>1. Credit \in Int BY <1>n DEF Credit
      <3>2. PICK c : c = Credit OBVIOUS
      <3>3. Cardinality(Stranded) + o <= b + c /\ c \in Int BY <2>1, <3>1, <3>2
      <3>4. Cardinality(Gone) <= b + c + Cardinality(some)
        <4>1. PICK g, u, l, w, k : /\ g = Cardinality(Gone) /\ u = Cardinality(Stranded \cup old)
                                   /\ l = Cardinality(Stranded) /\ w = Cardinality(old)
                                   /\ k = Cardinality(some)
          OBVIOUS
        <4>2. /\ g \in Nat /\ u \in Nat /\ l \in Nat /\ w \in Nat /\ k \in Nat
              /\ g <= u + k /\ u <= l + w /\ w <= o /\ l + o <= b + c
          BY <1>d, <2>4, <2>5, <2>6, <2>7, <3>3, <4>1
        <4>3. g <= b + c + k BY <1>c, <2>3, <3>3, <4>2
        <4>. QED BY <4>1, <4>3
      <3>. QED BY <3>2, <3>4
    <2>9. bulk \in {"idle", "sent", "done", "failed"} BY DEF TypesAndFinite, TypeOK
    <2>10. PICK g, k : g = Cardinality(Gone) /\ k = Cardinality(some) OBVIOUS
    <2>11. g \in Nat /\ k \in Nat /\ k <= prefetch /\ g <= b + Credit + k
      BY <1>n, <2>5, <2>8, <2>10
    <2> DEFINE extra == IF channel # "closed" /\ bulk \in {"idle", "sent"} THEN prefetch ELSE 0
    <2>12. g <= b + extra
      <3>1. PICK c, e : c = Credit /\ e = extra OBVIOUS
      <3>2. CASE bulk = "idle"
        <4>1. c = prefetch /\ k = 0 /\ e = prefetch BY <1>2, <2>5, <2>10, <3>1, <3>2 DEF Credit
        <4>. QED BY <1>c, <1>d, <2>11, <3>1, <4>1
      <3>3. CASE bulk = "sent"
        <4>1. c = 0 /\ e = prefetch BY <1>2, <3>1, <3>3 DEF Credit
        <4>. QED BY <1>c, <1>d, <2>11, <3>1, <4>1
      <3>4. CASE bulk = "done" /\ rejected = {}
        <4>1. c = 0 /\ k = 0 /\ e = 0 BY <2>5, <2>10, <3>1, <3>4 DEF Credit
        <4>. QED BY <1>c, <1>d, <2>11, <3>1, <4>1
      <3>5. CASE bulk = "failed" \/ (bulk = "done" /\ rejected # {})
        <4>1. c = 0 - prefetch /\ e = 0 BY <3>1, <3>5 DEF Credit
        <4>. QED BY <1>c, <1>d, <2>11, <3>1, <4>1
      <3>. QED BY <2>9, <3>2, <3>3, <3>4, <3>5
    <2>. QED BY <1>b, <2>10, <2>12
  <1>. QED BY <1>1, <1>2

LEMMA ChannelInit == Init => ChannelInv
  <1> SUFFICES ASSUME Init PROVE ChannelInv OBVIOUS
  <1>1. /\ unacked = {} /\ batch = <<>> /\ channel = "open" /\ prefetch \in Nat \ {0}
    BY DEF Init
  <1>2. Cardinality({}) = 0 BY FS_EmptySet
  <1>3. Cardinality(unacked) <= prefetch /\ Len(batch) <= prefetch BY <1>1, <1>2
  <1>. QED BY <1>1, <1>3 DEF ChannelInv

LEMMA ChannelNext == TypesAndFinite /\ TypesAndFinite' /\ ChannelInv /\ [Next]_vars => ChannelInv'
  <1> SUFFICES ASSUME TypesAndFinite, TypesAndFinite', ChannelInv, [Next]_vars PROVE ChannelInv'
    OBVIOUS
  <1>0. /\ unacked \subseteq Deliveries /\ nextTag \in Nat /\ prefetch \in Nat \ {0}
        /\ buffer \in Seq(Deliveries) /\ batch \in Seq(Deliveries) /\ IsFiniteSet(unacked)
        /\ \A d \in Deliveries : d.tag \in Nat
    BY DEF TypesAndFinite, TypeOK, Deliveries
  <1> USE DEF settings, brokerVars, bulkVars, bounds, store
  <1>1. ASSUME Deliver PROVE ChannelInv'
    <2> DEFINE delivery == [tag |-> nextTag, msg |-> Head(ready)]
    <2>1. /\ unacked' = unacked \cup {delivery} /\ Cardinality(unacked) < prefetch
          /\ channel = "open" /\ nextTag' = nextTag + 1
          /\ UNCHANGED <<channel, batch, bulk, prefetch>>
      BY <1>1 DEF Deliver, Window
    <2>2. delivery.tag = nextTag OBVIOUS
    <2>. HIDE DEF delivery
    <2>3. Cardinality(unacked') <= prefetch
      <3>1. Cardinality(unacked') =
               IF delivery \in unacked THEN Cardinality(unacked) ELSE Cardinality(unacked) + 1
        BY <1>0, <2>1, FS_AddElement
      <3>2. Cardinality(unacked) \in Nat BY <1>0, FS_CardinalityType
      <3>. QED BY <1>0, <2>1, <3>1, <3>2
    <2>4. \A d \in unacked' : d.tag < nextTag'
      BY <1>0, <2>1, <2>2 DEF ChannelInv
    <2>5. \A d, e \in unacked' : d.tag = e.tag => d = e
      BY <1>0, <2>1, <2>2 DEF ChannelInv
    <2>. QED BY <2>1, <2>3, <2>4, <2>5 DEF ChannelInv
  <1>2. ASSUME StartBulk PROVE ChannelInv'
    <2>1. PICK n : n = IF Len(buffer) < prefetch THEN Len(buffer) ELSE prefetch OBVIOUS
    <2>2. n \in 0 .. Len(buffer) /\ n <= prefetch BY <1>0, <2>1
    <2>3. batch' = SubSeq(buffer, 1, n) BY <1>2, <2>1 DEF StartBulk
    <2>4. Len(batch') = n BY <1>0, <2>2, <2>3, SplitDeliveries
    <2>5. UNCHANGED <<unacked, nextTag, channel, prefetch>> /\ channel = "open"
      BY <1>2 DEF StartBulk
    <2>. QED BY <2>2, <2>4, <2>5 DEF ChannelInv
  <1>3. ASSUME unacked' \subseteq unacked, UNCHANGED <<nextTag, prefetch>>,
               batch' = batch \/ batch' = <<>>, bulk' = bulk \/ bulk' = "idle" \/ bulk = "sent",
               channel' = channel \/ unacked' = {},
               channel' = "closed" => channel = "closed" \/ bulk' = "idle",
               channel' = "down" => channel = "down" \/ (bulk' = "idle" /\ buffer' = <<>>),
               buffer' = buffer \/ buffer' = <<>>
        PROVE  ChannelInv'
    <2>1. Cardinality(unacked') <= prefetch
      <3>1. Cardinality(unacked') <= Cardinality(unacked) /\ IsFiniteSet(unacked')
        BY <1>0, <1>3, FS_Subset
      <3>2. Cardinality(unacked') \in Nat /\ Cardinality(unacked) \in Nat
        BY <1>0, <3>1, FS_CardinalityType
      <3>. QED BY <1>0, <3>1, <3>2 DEF ChannelInv
    <2>2. Len(batch') <= prefetch BY <1>0, <1>3 DEF ChannelInv
    <2>3. channel' # "open" => unacked' = {} BY <1>3 DEF ChannelInv
    <2>4. channel' \in {"closed", "down"} => bulk' = "idle"
      BY <1>3 DEF ChannelInv
    <2>5. channel' = "down" => buffer' = <<>> BY <1>3 DEF ChannelInv
    <2>. QED BY <1>3, <2>1, <2>2, <2>3, <2>4, <2>5 DEF ChannelInv
  <1>4. ASSUME ExecuteBulk \/ FailBulk PROVE ChannelInv'
    <2>1. UNCHANGED <<unacked, nextTag, prefetch, batch, channel, buffer>> /\ bulk = "sent"
      BY <1>4 DEF ExecuteBulk, FailBulk
    <2>2. channel \notin {"closed", "down"} BY <2>1 DEF ChannelInv
    <2>. QED BY <1>3, <2>1, <2>2
  <1>5. ASSUME AckAll \/ NackAll \/ LogIndexingErrors PROVE ChannelInv'
    <2>1. /\ unacked' \subseteq unacked /\ UNCHANGED <<nextTag, prefetch, channel, buffer>>
          /\ batch' = <<>> /\ bulk' = "idle"
      BY <1>5 DEF AckAll, NackAll, LogIndexingErrors, EndBatch
    <2>. QED BY <1>3, <2>1
  <1>6. ASSUME AckOrNack PROVE ChannelInv'
    <2>1. /\ unacked' \subseteq unacked /\ UNCHANGED <<nextTag, prefetch, buffer>>
          /\ batch' = <<>> /\ bulk' = "idle"
          /\ channel' = channel \/ (channel' = "closed" /\ unacked' = {})
      BY <1>6 DEF AckOrNack, EndBatch
    <2>. QED BY <1>3, <2>1
  <1>7. ASSUME Crash \/ SettleOnLostChannel \/ DieOfChannelError PROVE ChannelInv'
    <2>1. /\ unacked' = {} /\ buffer' = <<>> /\ batch' = <<>> /\ bulk' = "idle" /\ channel' = "down"
          /\ UNCHANGED <<nextTag, prefetch>>
      BY <1>7 DEF Crash, SettleOnLostChannel, DieOfChannelError, Stop
    <2>. QED BY SMTT(30), <1>3, <2>1
  <1>8. ASSUME LoseConnection PROVE ChannelInv'
    <2>1. unacked' = {} /\ channel' = "lost" /\ UNCHANGED <<nextTag, prefetch, buffer, batch, bulk>>
      BY <1>8 DEF LoseConnection
    <2>. QED BY SMTT(30), <1>3, <2>1
  <1>9. ASSUME Return PROVE ChannelInv'
    <2>1. /\ channel' = "open" /\ channel \in {"lost", "down"}
          /\ UNCHANGED <<unacked, prefetch, buffer, batch, bulk>>
      BY <1>9 DEF Return, Reconnect, Relaunch
    <2>2. unacked' = {} BY <2>1 DEF ChannelInv
    <2>. QED BY <2>1, <2>2 DEF ChannelInv
  <1>10. ASSUME UNCHANGED vars PROVE ChannelInv'
    BY <1>10 DEF vars, ChannelInv
  <1>. QED BY <1>1, <1>2, <1>4, <1>5, <1>6, <1>7, <1>8, <1>9, <1>10 DEF Next, Settle

LEMMA BudgetInit == Init => Budget
  <1> SUFFICES ASSUME Init PROVE Budget OBVIOUS
  <1>1. /\ ready = Queue /\ channel = "open" /\ bulk = "idle" /\ buffer = <<>>
        /\ prefetch \in Nat \ {0}
        /\ failures = 0 /\ rejects = 0 /\ losses = 0 /\ crashes = 0
    BY DEF Init
  <1>2. Stranded = {}
    <2>1. \A m \in Msgs : m \in ToSet(ready) BY <1>1 DEF ToSet
    <2>. QED BY <2>1 DEF Stranded
  <1>3. Cardinality(Stranded) = 0 BY <1>2, FS_EmptySet
  <1>4. Mishaps = 0 /\ prefetch * 0 = 0 BY <1>1 DEF Mishaps
  <1>5. Len(buffer) = 0 /\ 0 \in 0 .. 0 BY <1>1
  <1>6. TailOf(0) BY <1>5 DEF TailOf
  <1>7. Credit = prefetch BY <1>1 DEF Credit
  <1>. QED BY <1>1, <1>3, <1>4, <1>5, <1>6, <1>7 DEF Budget

\* The number of mishaps a step counts, and what the budget grows by.
LEMMA MoreMishaps ==
  ASSUME TypesAndFinite, prefetch' = prefetch, NEW b, b = prefetch * Mishaps
  PROVE  /\ UNCHANGED <<failures, rejects, losses, crashes>> => prefetch' * Mishaps' = b
         /\ \/ failures' = failures + 1 /\ UNCHANGED <<rejects, losses, crashes>>
            \/ rejects' = rejects + 1 /\ UNCHANGED <<failures, losses, crashes>>
            \/ losses' = losses + 1 /\ UNCHANGED <<failures, rejects, crashes>>
            \/ crashes' = crashes + 1 /\ UNCHANGED <<failures, rejects, losses>>
            => prefetch' * Mishaps' = b + prefetch
  <1>1. /\ prefetch \in Nat /\ failures \in Nat /\ rejects \in Nat /\ losses \in Nat
        /\ crashes \in Nat
    <2>1. /\ prefetch \in Prefetches /\ failures \in 0 .. MaxFailures /\ rejects \in 0 .. MaxRejects
          /\ losses \in 0 .. MaxLosses /\ crashes \in 0 .. MaxCrashes
      BY Zenon DEF TypesAndFinite, TypeOK
    <2>2. /\ Prefetches \subseteq Nat /\ MaxFailures \in Nat /\ MaxRejects \in Nat
          /\ MaxLosses \in Nat /\ MaxCrashes \in Nat
      OBVIOUS
    <2>3. \A k \in Nat : 0 .. k \subseteq Nat OBVIOUS
    <2>4. /\ 0 .. MaxFailures \subseteq Nat /\ 0 .. MaxRejects \subseteq Nat
          /\ 0 .. MaxLosses \subseteq Nat /\ 0 .. MaxCrashes \subseteq Nat
      BY <2>2, <2>3, Zenon
    <2>. QED BY <2>1, <2>2, <2>4, Zenon
  <1>2. PICK m : m = Mishaps OBVIOUS
  <1>3. m \in Nat BY <1>1, <1>2 DEF Mishaps
  <1>4. UNCHANGED <<failures, rejects, losses, crashes>> => Mishaps' = m
    BY <1>2 DEF Mishaps
  <1>5. \/ failures' = failures + 1 /\ UNCHANGED <<rejects, losses, crashes>>
        \/ rejects' = rejects + 1 /\ UNCHANGED <<failures, losses, crashes>>
        \/ losses' = losses + 1 /\ UNCHANGED <<failures, rejects, crashes>>
        \/ crashes' = crashes + 1 /\ UNCHANGED <<failures, rejects, losses>>
        => Mishaps' = m + 1
    <2>1. m = failures + rejects + losses + crashes BY <1>2 DEF Mishaps
    <2>2. Mishaps' = failures' + rejects' + losses' + crashes' BY DEF Mishaps
    <2>3. PICK f, r, l, c : f = failures' /\ r = rejects' /\ l = losses' /\ c = crashes' OBVIOUS
    <2>4. Mishaps' = f + r + l + c BY <2>2, <2>3
    <2>5. CASE failures' = failures + 1 /\ UNCHANGED <<rejects, losses, crashes>>
      BY <1>1, <2>1, <2>3, <2>4, <2>5
    <2>6. CASE rejects' = rejects + 1 /\ UNCHANGED <<failures, losses, crashes>>
      BY <1>1, <2>1, <2>3, <2>4, <2>6
    <2>7. CASE losses' = losses + 1 /\ UNCHANGED <<failures, rejects, crashes>>
      BY <1>1, <2>1, <2>3, <2>4, <2>7
    <2>8. CASE crashes' = crashes + 1 /\ UNCHANGED <<failures, rejects, losses>>
      BY <1>1, <2>1, <2>3, <2>4, <2>8
    <2>. QED BY <2>5, <2>6, <2>7, <2>8
  <1>6. prefetch * (m + 1) = prefetch * m + prefetch
    <2>1. \A p, k \in Nat : p * (k + 1) = p * k + p OBVIOUS
    <2>. QED BY <1>1, <1>3, <2>1
  <1>7. b = prefetch * m BY <1>2
  <1>8. ASSUME Mishaps' = m PROVE prefetch' * Mishaps' = b BY <1>7, <1>8
  <1>9. ASSUME Mishaps' = m + 1 PROVE prefetch' * Mishaps' = b + prefetch
    BY <1>6, <1>7, <1>9
  <1>. QED BY <1>4, <1>5, <1>8, <1>9

\* What an answer with errors settles for good or leaves without a delivery: no more
\* messages than the request had.
LEMMA AnswerLoses ==
  ASSUME TypesAndFinite, Accounted, ChannelInv, bulk = "done"
  PROVE  \E X : /\ IsFiniteSet(X) /\ Cardinality(X) <= prefetch
                /\ \A d \in Settled \ Nacked : d.msg \in X
                /\ \A m \in MsgsOf(batch) \ written : m \in X
  <1> DEFINE pick == [i \in 1 .. Len(batch) |->
                         IF i \in rejected THEN batch[i].msg
                         ELSE (CHOOSE d \in unacked : d.tag = TagOf(i)).msg]
             X == {pick[i] : i \in 1 .. Len(batch)}
  <1>1. /\ Len(batch) \in Nat /\ DOMAIN batch = 1 .. Len(batch) /\ Len(batch) <= prefetch
        /\ prefetch \in Nat
    BY Numbers DEF ChannelInv
  <1>2. IsFiniteSet(X) /\ Cardinality(X) <= prefetch
    <2>1. IsFiniteSet(X) /\ Cardinality(X) <= Len(batch) BY <1>1, ImageBound
    <2>2. Cardinality(X) \in Nat BY <2>1, FS_CardinalityType
    <2>. HIDE DEF X
    <2>. QED BY <1>1, <2>1, <2>2
  <1>3. ASSUME NEW d \in Settled \ Nacked PROVE d.msg \in X
    <2>1. PICK i \in 1 .. FirstBad - 1 : TagOf(i) = d.tag BY DEF Settled
    <2>2. d \in unacked /\ i \in DOMAIN batch
      BY <2>1, BeforeFirstBad DEF Settled, TypesAndFinite
    <2>3. i \notin rejected BY <2>1, <2>2 DEF Nacked
    <2>4. (CHOOSE e \in unacked : e.tag = TagOf(i)) = d
      BY <2>1, <2>2 DEF ChannelInv
    <2>5. pick[i] = d.msg BY <1>1, <2>2, <2>3, <2>4
    <2>. QED BY <1>1, <2>2, <2>5
  <1>4. ASSUME NEW m \in MsgsOf(batch) \ written PROVE m \in X
    <2>1. PICK i \in DOMAIN batch : m = batch[i].msg BY DEF MsgsOf
    <2>2. i \in rejected BY <2>1 DEF Accounted
    <2>3. pick[i] = m BY <1>1, <2>1, <2>2
    <2>. QED BY <1>1, <2>3
  <1>. HIDE DEF X
  <1>. QED BY <1>2, <1>3, <1>4

\* What is left of a sequence after its first n elements.
LEMMA RestOf ==
  ASSUME NEW S, NEW s \in Seq(S), NEW n \in 0 .. Len(s)
  PROVE  /\ Len(SubSeq(s, n + 1, Len(s))) = Len(s) - n
         /\ \A i \in 1 .. Len(s) - n : SubSeq(s, n + 1, Len(s))[i] = s[n + i]
  <1>1. Len(s) \in Nat /\ n \in Nat /\ n <= Len(s) OBVIOUS
  <1>2. Len(SubSeq(s, n + 1, Len(s))) = Len(s) - n BY <1>1
  <1>3. ASSUME NEW i \in 1 .. Len(s) - n PROVE SubSeq(s, n + 1, Len(s))[i] = s[n + i]
    <2>1. SubSeq(s, n + 1, Len(s))[i] = s[(n + 1) + i - 1] BY <1>1
    <2>2. (n + 1) + i - 1 = n + i BY <1>1
    <2>. QED BY <2>1, <2>2
  <1>. QED BY <1>2, <1>3

LEMMA BudgetNext ==
  /\ TypesAndFinite /\ TypesAndFinite' /\ Accounted /\ ChannelInv /\ ChannelInv' /\ Budget
  /\ [Next]_vars
  => Budget'
  <1> SUFFICES ASSUME TypesAndFinite, TypesAndFinite', Accounted, ChannelInv, ChannelInv', Budget,
                      [Next]_vars
               PROVE  Budget'
    OBVIOUS
  <1>n. /\ prefetch \in Nat \ {0} /\ prefetch * Mishaps \in Nat
        /\ IsFiniteSet(Stranded) /\ Cardinality(Stranded) \in Nat
        /\ Len(buffer) \in Nat /\ Len(batch) \in Nat
        /\ DOMAIN buffer = 1 .. Len(buffer) /\ DOMAIN batch = 1 .. Len(batch)
        /\ buffer \in Seq(Deliveries)
    BY Numbers DEF TypesAndFinite, TypeOK
  <1>q. prefetch \in Nat \ {0} /\ Len(buffer) \in Nat /\ buffer \in Seq(Deliveries) BY <1>n
  <1>b. PICK b, l : b = prefetch * Mishaps /\ l = Cardinality(Stranded) OBVIOUS
  <1>c. /\ b \in Nat /\ l \in Nat /\ l <= b /\ prefetch \in Nat /\ IsFiniteSet(Stranded)
    <2>1. Cardinality(Stranded) <= prefetch * Mishaps BY DEF Budget
    <2>. QED BY <1>b, <1>n, <2>1
  <1>o. channel # "closed" => \E o \in 0 .. Len(buffer) : TailOf(o) /\ l + o <= b + Credit
    BY <1>b DEF Budget
  <1>g. Cardinality(Gone) <= b + (IF channel # "closed" /\ bulk \in {"idle", "sent"} THEN prefetch ELSE 0)
    BY <1>b, GoneBound
  <1>p. /\ IsFiniteSet(Stranded') /\ Cardinality(Stranded') \in Nat
        /\ IsFiniteSet(Gone') /\ Cardinality(Gone') \in Nat
    <2>1. Stranded' \in SUBSET Msgs /\ Gone' \in SUBSET Msgs BY DEF Stranded, Gone
    <2>2. IsFiniteSet(Stranded') /\ IsFiniteSet(Gone') BY <2>1, FiniteMsgs, FS_Subset
    <2>. QED BY <2>2, FS_CardinalityType
  <1>t. /\ Stranded = Msgs \ (ToSet(ready) \cup InMemory \cup written)
        /\ Stranded' = Msgs \ (ToSet(ready') \cup InMemory' \cup written')
        /\ InMemory = MsgsOf(buffer) \cup MsgsOf(batch)
        /\ InMemory' = MsgsOf(buffer') \cup MsgsOf(batch')
    BY DEF Stranded, InMemory, MsgsOf, ToSet
  <1>e. \A s : s = <<>> => MsgsOf(s) = {} BY DEF MsgsOf
  <1>f. \A k \in Nat : k + 1 .. k = {} OBVIOUS
  <1>batch. /\ IsFiniteSet(MsgsOf(batch)) /\ Cardinality(MsgsOf(batch)) <= prefetch
    <2> DEFINE msg == [i \in 1 .. Len(batch) |-> batch[i].msg]
    <2>1. MsgsOf(batch) = {msg[i] : i \in 1 .. Len(batch)} BY <1>n DEF MsgsOf
    <2>2. Len(batch) \in Nat /\ Len(batch) <= prefetch BY <1>n DEF ChannelInv
    <2>. HIDE DEF msg
    <2>5. /\ IsFiniteSet({msg[i] : i \in 1 .. Len(batch)})
          /\ Cardinality({msg[i] : i \in 1 .. Len(batch)}) <= Len(batch)
      BY <2>2, ImageBound
    <2>3. IsFiniteSet(MsgsOf(batch)) /\ Cardinality(MsgsOf(batch)) <= Len(batch)
      BY <2>1, <2>5
    <2>4. Cardinality(MsgsOf(batch)) \in Nat BY <2>3, FS_CardinalityType
    <2>. QED BY <1>c, <2>2, <2>3, <2>4
  \* How Stranded grows.
  <1>l. ASSUME NEW X, IsFiniteSet(X), Stranded' \subseteq Stranded \cup X
        PROVE  Cardinality(Stranded') <= l + Cardinality(X)
    BY <1>b, <1>c, <1>l, SumBound
  <1>s. ASSUME Stranded' \subseteq Stranded PROVE Cardinality(Stranded') <= l
    BY <1>b, <1>c, <1>s, FS_Subset
  \* A step of a channel that is not closed.
  <1>k. ASSUME NEW o \in 0 .. Len(buffer'), TailOf(o)', channel' # "closed",
               Cardinality(Stranded') <= prefetch' * Mishaps',
               Cardinality(Stranded') + o <= prefetch' * Mishaps' + Credit'
        PROVE  Budget'
    BY <1>k DEF Budget
  \* All of the cargo may be old.
  <1>w. ASSUME UNCHANGED buffer PROVE TailOf(Len(buffer))' /\ Len(buffer) \in 0 .. Len(buffer')
    BY <1>w, <1>q, <1>f DEF TailOf
  <1> USE DEF settings, brokerVars, bulkVars, bounds, store
  <1>1. ASSUME Deliver PROVE Budget'
    <2> DEFINE delivery == [tag |-> nextTag, msg |-> Head(ready)]
    <2>1. /\ unacked' = unacked \cup {delivery} /\ buffer' = Append(buffer, delivery)
          /\ ready' = Tail(ready) /\ channel = "open"
          /\ UNCHANGED <<channel, batch, bulk, rejected, written, prefetch>>
          /\ UNCHANGED <<failures, rejects, losses, crashes>>
      BY <1>1 DEF Deliver
    <2>2. delivery.msg = Head(ready) /\ delivery.tag = nextTag OBVIOUS
    <2>3. delivery \in Deliveries BY <2>1 DEF TypesAndFinite, TypeOK
    <2>. HIDE DEF delivery
    <2>4. Stranded' \subseteq Stranded
      <3>1. ToSet(ready) = {Head(ready)} \cup ToSet(Tail(ready))
        BY <1>1, HeadAndTail DEF Deliver, TypesAndFinite, TypeOK
      <3>3. MsgsOf(buffer) \subseteq MsgsOf(buffer')
        <4>1. \A i \in 1 .. Len(buffer) : i \in DOMAIN buffer' /\ buffer'[i] = buffer[i]
          BY <1>n, <2>1, <2>3
        <4>. QED BY <1>n, <4>1 DEF MsgsOf
      <3>4. Head(ready) \in MsgsOf(buffer')
        <4>1. Len(buffer) + 1 \in DOMAIN buffer' /\ buffer'[Len(buffer) + 1] = delivery
          BY <1>q, <2>1, <2>3
        <4>. QED BY <2>2, <4>1 DEF MsgsOf
      <3>. QED BY <1>t, <2>1, <3>1, <3>3, <3>4
    <2>5. PICK o \in 0 .. Len(buffer) : TailOf(o) /\ l + o <= b + Credit BY <1>o, <2>1
    <2>6. TailOf(o)'
      <3>1. /\ Len(buffer') = Len(buffer) + 1 /\ buffer'[Len(buffer) + 1] = delivery
            /\ \A i \in 1 .. Len(buffer) : buffer'[i] = buffer[i]
        BY <1>n, <2>1, <2>3
      <3>2. \A i \in o + 1 .. Len(buffer') :
               i = Len(buffer) + 1 \/ (i \in o + 1 .. Len(buffer) /\ i \in 1 .. Len(buffer))
        <4>1. PICK len : len = Len(buffer) OBVIOUS
        <4>2. len \in Nat /\ o \in Nat /\ Len(buffer') = len + 1 BY <1>q, <3>1, <4>1
        <4>3. \A i \in o + 1 .. len + 1 : i = len + 1 \/ (i \in o + 1 .. len /\ i \in 1 .. len)
          BY <4>2
        <4>. QED BY <4>1, <4>2, <4>3
      <3>3. delivery \notin unacked
        <4>1. nextTag \in Nat BY DEF TypesAndFinite, TypeOK
        <4>2. \A d \in unacked : d.tag < nextTag BY DEF ChannelInv
        <4>. QED BY <2>2, <4>1, <4>2
      <3>4. \A i \in o + 1 .. Len(buffer) : buffer[i] \in unacked BY <2>5 DEF TailOf
      <3>5. \A i, j \in o + 1 .. Len(buffer) : buffer[i] = buffer[j] => i = j BY <2>5 DEF TailOf
      <3>6. \A i \in o + 1 .. Len(buffer') : buffer'[i] \in unacked'
        BY <2>1, <3>1, <3>2, <3>4
      <3>7. \A i, j \in o + 1 .. Len(buffer') : buffer'[i] = buffer'[j] => i = j
        BY <3>1, <3>2, <3>3, <3>4, <3>5
      <3>. QED BY <3>6, <3>7 DEF TailOf
    <2>7. o \in 0 .. Len(buffer') BY <1>n, <2>1, <2>3
    <2>8. prefetch' * Mishaps' = b BY <1>b, <2>1, MoreMishaps
    <2>9. Credit' = Credit /\ Credit \in Int BY <1>n, <2>1 DEF Credit
    <2>10. Cardinality(Stranded') <= l BY <1>s, <2>4
    <2>11. Cardinality(Stranded') <= b /\ Cardinality(Stranded') + o <= b + Credit
      BY <1>c, <1>q, <1>p, <2>5, <2>9, <2>10
    <2>. QED BY <1>k, <2>1, <2>6, <2>7, <2>8, <2>9, <2>11
  <1>2. ASSUME StartBulk PROVE Budget'
    <2>1. PICK n : n = IF Len(buffer) < prefetch THEN Len(buffer) ELSE prefetch OBVIOUS
    <2>2. n \in 0 .. Len(buffer) /\ n <= prefetch /\ n \in Nat BY <1>n, <2>1
    <2>3. /\ batch' = SubSeq(buffer, 1, n) /\ buffer' = SubSeq(buffer, n + 1, Len(buffer))
          /\ channel = "open" /\ bulk = "idle" /\ bulk' = "sent"
          /\ UNCHANGED <<channel, ready, unacked, written, prefetch>>
          /\ UNCHANGED <<failures, rejects, losses, crashes>>
      BY <1>2, <2>1 DEF StartBulk
    <2>4. Len(buffer') = Len(buffer) - n /\ \A i \in 1 .. Len(buffer) - n : buffer'[i] = buffer[n + i]
      BY <1>q, <2>2, <2>3, RestOf
    <2>5. Stranded' \subseteq Stranded
      <3>1. ToSet(buffer) \cup ToSet(batch) = ToSet(buffer') \cup ToSet(batch')
        BY <1>2, StartMoves DEF TypesAndFinite
      <3>2. MsgsOf(buffer) \cup MsgsOf(batch) = MsgsOf(buffer') \cup MsgsOf(batch')
        <4>1. \A s : MsgsOf(s) = {d.msg : d \in ToSet(s)} BY DEF MsgsOf, ToSet
        <4>. QED BY <3>1, <4>1
      <3>. QED BY <1>t, <2>3, <3>2
    <2>6. Cardinality(Stranded') <= l BY <1>s, <2>5
    <2>7. PICK o \in 0 .. Len(buffer) : TailOf(o) /\ l + o <= b + Credit BY <1>o, <2>3
    <2>8. Credit = prefetch /\ Credit' = 0 BY <2>3 DEF Credit
    <2>9. prefetch' * Mishaps' = b BY <1>b, <2>3, MoreMishaps
    <2>10. \E q \in 0 .. Len(buffer') : /\ o <= n + q /\ l + q <= b
      <3>1. CASE o <= n
        <4>1. 0 \in 0 .. Len(buffer') /\ o <= n + 0 /\ l + 0 <= b BY <1>c, <1>q, <2>2, <2>4, <3>1
        <4>. QED BY <4>1
      <3>2. CASE ~ (o <= n)
        <4>1. n = prefetch BY <1>q, <2>1, <2>2, <3>2
        <4>3. l + o <= b + n BY <2>7, <2>8, <4>1
        <4>4. l \in Nat /\ b \in Nat /\ n \in Nat /\ o \in Nat /\ o <= Len(buffer)
              /\ Len(buffer) \in Nat
          BY <1>c, <1>q, <2>2
        <4>2. o - n \in 0 .. Len(buffer') /\ o <= n + (o - n) /\ l + (o - n) <= b
          BY <2>4, <3>2, <4>3, <4>4
        <4>. QED BY <4>2
      <3>. QED BY <3>1, <3>2
    <2>11. PICK q \in 0 .. Len(buffer') : o <= n + q /\ l + q <= b BY <2>10
    <2>12. TailOf(q)'
      <3>1. \A i \in q + 1 .. Len(buffer') : n + i \in o + 1 .. Len(buffer) /\ buffer'[i] = buffer[n + i]
        <4>. SUFFICES ASSUME NEW i \in q + 1 .. Len(buffer')
                      PROVE  n + i \in o + 1 .. Len(buffer) /\ buffer'[i] = buffer[n + i]
          OBVIOUS
        <4>1. q \in Nat /\ o \in Nat /\ Len(buffer') \in Nat BY <1>q, <2>2, <2>4
        <4>2. i \in Nat /\ q + 1 <= i /\ i <= Len(buffer) - n /\ i \in 1 .. Len(buffer) - n
          BY <1>q, <2>2, <2>4, <4>1
        <4>3. n + i \in o + 1 .. Len(buffer) BY <1>q, <2>2, <2>11, <4>1, <4>2
        <4>. QED BY <2>4, <4>2, <4>3
      <3>2. \A i \in q + 1 .. Len(buffer') : i \in Int BY <2>4
      <3>3. \A i \in q + 1 .. Len(buffer') : buffer'[i] \in unacked' BY <2>3, <2>7, <3>1 DEF TailOf
      <3>6. \A i, j \in o + 1 .. Len(buffer) : buffer[i] = buffer[j] => i = j BY <2>7 DEF TailOf
      <3>4. \A i, j \in q + 1 .. Len(buffer') : buffer'[i] = buffer'[j] => n + i = n + j
        <4>. SUFFICES ASSUME NEW i \in q + 1 .. Len(buffer'), NEW j \in q + 1 .. Len(buffer'),
                             buffer'[i] = buffer'[j]
                      PROVE  n + i = n + j
          OBVIOUS
        <4>1. buffer[n + i] = buffer[n + j] BY <3>1
        <4>2. n + i \in o + 1 .. Len(buffer) /\ n + j \in o + 1 .. Len(buffer) BY <3>1
        <4>. QED BY <3>6, <4>1, <4>2
      <3>5. \A i, j \in q + 1 .. Len(buffer') : buffer'[i] = buffer'[j] => i = j
        <4>1. \A i, j \in Int : n + i = n + j => i = j BY <2>2
        <4>. QED BY <3>2, <3>4, <4>1
      <3>. QED BY <3>3, <3>5 DEF TailOf
    <2>13. Cardinality(Stranded') <= b /\ Cardinality(Stranded') + q <= b + 0
      <3>1. PICK k : k = Cardinality(Stranded') OBVIOUS
      <3>2. k \in Nat /\ k <= l /\ l + q <= b BY <1>p, <2>6, <2>11, <3>1
      <3>3. q \in Nat /\ l \in Nat /\ b \in Nat /\ l <= b BY <1>c, <1>q, <2>2, <2>4
      <3>4. k <= b /\ k + q <= b + 0 BY <3>2, <3>3
      <3>. QED BY <3>1, <3>4
    <2>. QED BY <1>k, <2>3, <2>8, <2>9, <2>12, <2>13
  <1>3. ASSUME ExecuteBulk \/ FailBulk PROVE Budget'
    <2>1. /\ bulk = "sent" /\ written \subseteq written'
          /\ UNCHANGED <<channel, ready, unacked, buffer, batch, prefetch, losses, crashes>>
      BY <1>3 DEF ExecuteBulk, FailBulk
    <2>2. channel # "closed" /\ Credit = 0 BY <2>1 DEF ChannelInv, Credit
    <2>3. Stranded' \subseteq Stranded
      <3>1. InMemory' = InMemory BY <1>t, <2>1
      <3>. QED BY <1>t, <2>1, <3>1
    <2>4. Cardinality(Stranded') <= l BY <1>s, <2>3
    <2>5. PICK o \in 0 .. Len(buffer) : TailOf(o) /\ l + o <= b BY <1>c, <1>o, <1>q, <2>2
    <2>6. TailOf(o)' BY <2>1, <2>5 DEF TailOf
    <2>7. PICK d : d = Credit' OBVIOUS
    <2>8. \/ prefetch' * Mishaps' = b /\ d = 0
          \/ prefetch' * Mishaps' = b + prefetch /\ d = 0 - prefetch
      <3>1. CASE ExecuteBulk /\ rejected' = {}
        <4>1. UNCHANGED <<failures, rejects, losses, crashes>> /\ bulk' = "done"
          BY <3>1 DEF ExecuteBulk
        <4>2. d = 0 BY <2>7, <3>1, <4>1 DEF Credit
        <4>3. prefetch' * Mishaps' = b BY <1>b, <2>1, <4>1, MoreMishaps
        <4>. QED BY <4>2, <4>3
      <3>2. CASE ExecuteBulk /\ rejected' # {}
        <4>1. rejects' = rejects + 1 /\ UNCHANGED <<failures, losses, crashes>> /\ bulk' = "done"
          BY <3>2 DEF ExecuteBulk
        <4>2. d = 0 - prefetch BY <2>1, <2>7, <3>2, <4>1 DEF Credit
        <4>3. prefetch' * Mishaps' = b + prefetch BY <1>b, <2>1, <4>1, MoreMishaps
        <4>. QED BY <4>2, <4>3
      <3>3. CASE FailBulk
        <4>1. failures' = failures + 1 /\ UNCHANGED <<rejects, losses, crashes>> /\ bulk' = "failed"
          BY <3>3 DEF FailBulk
        <4>2. d = 0 - prefetch BY <2>1, <2>7, <4>1 DEF Credit
        <4>3. prefetch' * Mishaps' = b + prefetch BY <1>b, <2>1, <4>1, MoreMishaps
        <4>. QED BY <4>2, <4>3
      <3>. QED BY <1>3, <3>1, <3>2, <3>3
    <2>9. PICK e, k : e = prefetch' * Mishaps' /\ k = Cardinality(Stranded') OBVIOUS
    <2>10. k <= e /\ k + o <= e + d
      <3>1. k \in Nat /\ o \in Nat BY <1>p, <1>q, <2>9
      <3>2. k <= l BY <2>4, <2>9
      <3>3. (e = b /\ d = 0) \/ (e = b + prefetch /\ d = 0 - prefetch) BY <2>8, <2>9
      <3>. QED BY <1>c, <2>5, <3>1, <3>2, <3>3
    <2>. QED BY <1>k, <2>1, <2>2, <2>6, <2>7, <2>9, <2>10
  \* The end of a request, which strands no more messages than its credit allows.
  <1>4. ASSUME NEW w \in Nat, bulk # "idle", channel' # "closed", bulk' = "idle", UNCHANGED buffer,
               UNCHANGED <<prefetch, failures, rejects, losses, crashes>>,
               Cardinality(Stranded') <= l + w, w + Credit <= 0
        PROVE  Budget'
    <2>1. PICK c, k, n : c = Credit /\ k = Cardinality(Stranded') /\ n = Len(buffer) OBVIOUS
    <2>2. c \in Int /\ Credit' = prefetch BY <1>4, <1>q, <2>1 DEF Credit
    <2>3. channel # "closed" BY <1>4 DEF ChannelInv
    <2>4. PICK o \in 0 .. Len(buffer) : TailOf(o) /\ l + o <= b + c BY <1>o, <2>1, <2>3
    <2>5. n \in Nat /\ o \in Nat /\ n <= o + prefetch
      <3>1. PICK T : T = {buffer[i] : i \in o + 1 .. Len(buffer)} OBVIOUS
      <3>2. Cardinality(unacked \ T) \in Nat /\ Cardinality(unacked \ T) + Len(buffer) <= o + prefetch
        BY <2>4, <3>1, TailFits
      <3>. QED BY <1>q, <2>1, <3>2
    <2>6. k \in Nat /\ k <= l + w /\ w + c <= 0 BY <1>4, <1>p, <2>1
    <2>7. k <= b /\ k + n <= b + prefetch BY <1>c, <1>4, <2>2, <2>4, <2>5, <2>6
    <2>8. prefetch' * Mishaps' = b BY <1>b, <1>4, MoreMishaps
    <2>. QED BY <1>4, <1>k, <1>w, <2>1, <2>2, <2>7, <2>8
  <1>5. ASSUME AckAll PROVE Budget'
    <2>1. /\ bulk = "done" /\ rejected = {} /\ bulk' = "idle" /\ batch' = <<>>
          /\ UNCHANGED <<channel, ready, buffer, written, prefetch>>
          /\ UNCHANGED <<failures, rejects, losses, crashes>>
      BY <1>5 DEF AckAll, EndBatch
    <2>2. channel # "closed" /\ Credit = 0 BY <2>1 DEF ChannelInv, Credit
    <2>3. Stranded' \subseteq Stranded
      <3>1. MsgsOf(batch) \subseteq written BY <2>1 DEF Accounted, MsgsOf
      <3>. QED BY <1>t, <2>1, <3>1
    <2>4. Cardinality(Stranded') <= l + 0 /\ 0 + Credit <= 0 /\ 0 \in Nat
      BY <1>c, <1>p, <1>s, <2>2, <2>3
    <2>5. 0 \in Nat /\ bulk # "idle" /\ channel' # "closed" BY <2>1, <2>2
    <2>. QED BY <1>4, <2>1, <2>4, <2>5
  \* The request is answered with errors, or failed: its messages may be stranded.
  <1>6. ASSUME bulk = "failed" \/ (bulk = "done" /\ rejected # {}), bulk' = "idle",
               channel' # "closed", UNCHANGED <<buffer, written, prefetch>>,
               UNCHANGED <<failures, rejects, losses, crashes>>, ToSet(ready) \subseteq ToSet(ready')
        PROVE  Budget'
    <2>1. Credit = 0 - prefetch /\ bulk # "idle" BY <1>6 DEF Credit
    <2>2. Stranded' \subseteq Stranded \cup MsgsOf(batch)
      <3>1. MsgsOf(buffer') = MsgsOf(buffer) BY <1>6 DEF MsgsOf
      <3>. QED BY <1>t, <1>6, <3>1
    <2>3. Cardinality(Stranded') <= l + Cardinality(MsgsOf(batch)) BY <1>l, <1>batch, <2>2
    <2>4. Cardinality(MsgsOf(batch)) \in Nat BY <1>batch, FS_CardinalityType
    <2>5. Cardinality(Stranded') <= l + prefetch /\ prefetch + Credit <= 0
      BY <1>batch, <1>c, <1>p, <2>1, <2>3, <2>4
    <2>. QED BY <1>4, <1>6, <1>q, <2>1, <2>5
  <1>7. ASSUME NackAll PROVE Budget'
    <2>1. /\ bulk = "failed" /\ bulk' = "idle" /\ UNCHANGED <<channel, buffer, written, prefetch>>
          /\ UNCHANGED <<failures, rejects, losses, crashes>> /\ Requeue(unacked)
      BY <1>7 DEF NackAll, NackAllRequeues, EndBatch
    <2>2. ToSet(ready) \subseteq ToSet(ready') BY <2>1, RequeueTypes
    <2>3. channel' # "closed" BY <2>1 DEF ChannelInv
    <2>. QED BY <1>6, <2>1, <2>2, <2>3
  <1>8. ASSUME LogIndexingErrors PROVE Budget'
    <2>1. /\ bulk = "done" /\ rejected # {} /\ bulk' = "idle"
          /\ UNCHANGED <<channel, ready, buffer, written, prefetch>>
          /\ UNCHANGED <<failures, rejects, losses, crashes>>
      BY <1>8 DEF LogIndexingErrors, EndBatch
    <2>2. channel' # "closed" BY <2>1 DEF ChannelInv
    <2>. QED BY <1>6, <2>1, <2>2
  <1>9. ASSUME AckOrNack PROVE Budget'
    <2>1. /\ bulk = "done" /\ rejected # {} /\ bulk' = "idle" /\ UNCHANGED <<buffer, written, prefetch>>
          /\ UNCHANGED <<failures, rejects, losses, crashes>>
      BY <1>9 DEF AckOrNack, EndBatch
    <2>2. CASE FirstBad > Len(batch)
      <3>1. UNCHANGED channel /\ Requeue(Nacked) /\ Nacked \in SUBSET unacked
        BY <1>9, <2>2 DEF AckOrNack, Nacked
      <3>2. ToSet(ready) \subseteq ToSet(ready') BY <3>1, RequeueTypes
      <3>3. channel' # "closed" BY <2>1, <3>1 DEF ChannelInv
      <3>. QED BY <1>6, <2>1, <3>2, <3>3
    <2>3. CASE ~ (FirstBad > Len(batch))
      <3>1. /\ Requeue(unacked \ (Settled \ Nacked)) /\ channel' = "closed" /\ unacked' = {}
        BY <1>9, <2>3 DEF AckOrNack
      <3>2. ToSet(ready') = ToSet(ready) \cup {d.msg : d \in unacked \ (Settled \ Nacked)}
        <4>1. unacked \ (Settled \ Nacked) \in SUBSET unacked OBVIOUS
        <4>. QED BY <3>1, <4>1, RequeueTypes
      <3>3. channel # "closed" /\ Credit = 0 - prefetch BY <2>1 DEF ChannelInv, Credit
      <3>4. PICK o \in 0 .. Len(buffer) : TailOf(o) /\ l + o <= b - prefetch
        <4>1. PICK c : c = Credit OBVIOUS
        <4>2. PICK o \in 0 .. Len(buffer) : TailOf(o) /\ l + o <= b + c BY <1>o, <3>3, <4>1
        <4>3. b + c = b - prefetch BY <1>c, <3>3, <4>1
        <4>. QED BY <4>2, <4>3
      <3>5. PICK X : /\ IsFiniteSet(X) /\ Cardinality(X) <= prefetch
                     /\ \A d \in Settled \ Nacked : d.msg \in X
                     /\ \A m \in MsgsOf(batch) \ written : m \in X
        BY <2>1, AnswerLoses
      <3> DEFINE msg == [i \in 1 .. o |-> buffer[i].msg]
                 old == {msg[i] : i \in 1 .. o}
      <3>6. Gone' \subseteq (Stranded \cup old) \cup X
        <4>. SUFFICES ASSUME NEW m \in Gone', m \notin X PROVE m \in Stranded \cup old
          OBVIOUS
        <4>1. m \in Msgs /\ m \notin ToSet(ready') /\ m \notin written /\ m \notin {d.msg : d \in unacked'}
          BY <2>1 DEF Gone, Held, ToSet
        <4>2. m \notin ToSet(ready) /\ m \notin MsgsOf(batch) BY <3>2, <3>5, <4>1
        <4>3. ASSUME m \in MsgsOf(buffer) PROVE m \in old
          <5>1. PICK i \in 1 .. Len(buffer) : m = buffer[i].msg BY <1>n, <4>3 DEF MsgsOf
          <5>2. buffer[i] \notin unacked BY <3>2, <3>5, <4>1, <5>1
          <5>3. ~ (i \in o + 1 .. Len(buffer)) BY <3>4, <5>2 DEF TailOf
          <5>4. i \in 1 .. o BY <1>q, <5>3
          <5>. QED BY <5>1, <5>4
        <4>. HIDE DEF old
        <4>. QED BY <1>t, <4>1, <4>2, <4>3
      <3>7. o \in Nat BY <1>q
      <3>8. IsFiniteSet(old) /\ Cardinality(old) <= o
        <4>. HIDE DEF msg
        <4>. QED BY <3>7, ImageBound
      <3>. HIDE DEF old
      <3>9. /\ IsFiniteSet(Stranded \cup old)
            /\ Cardinality(Stranded \cup old) <= Cardinality(Stranded) + Cardinality(old)
            /\ Cardinality(Stranded \cup old) \in Nat /\ Cardinality(old) \in Nat
        BY <1>c, <3>8, SumBound
      <3>10. Cardinality(Gone') <= Cardinality(Stranded \cup old) + Cardinality(X) /\ Cardinality(X) \in Nat
        BY <3>5, <3>6, <3>9, SumBound
      <3>11. PICK g, u, w, x : /\ g = Cardinality(Gone') /\ u = Cardinality(Stranded \cup old)
                               /\ w = Cardinality(old) /\ x = Cardinality(X)
        OBVIOUS
      <3>12. /\ g \in Nat /\ u \in Nat /\ w \in Nat /\ x \in Nat /\ g <= u + x /\ u <= l + w
             /\ w <= o /\ x <= prefetch
        BY <1>b, <1>p, <3>5, <3>8, <3>9, <3>10, <3>11
      <3>13. g <= b BY <1>c, <3>4, <3>7, <3>12
      <3>14. Cardinality(Stranded') <= l + prefetch
        <4>1. Stranded' \subseteq Stranded \cup MsgsOf(batch)
          <5>1. MsgsOf(buffer') = MsgsOf(buffer) BY <2>1 DEF MsgsOf
          <5>. QED BY <1>t, <2>1, <3>2, <5>1
        <4>2. Cardinality(Stranded') <= l + Cardinality(MsgsOf(batch)) BY <1>l, <1>batch, <4>1
        <4>3. Cardinality(MsgsOf(batch)) \in Nat BY <1>batch, FS_CardinalityType
        <4>. QED BY <1>batch, <1>c, <1>p, <4>2, <4>3
      <3>15. Cardinality(Stranded') <= b BY <1>c, <1>p, <3>4, <3>7, <3>14
      <3>16. prefetch' * Mishaps' = b BY <1>b, <2>1, MoreMishaps
      <3>. QED BY <3>1, <3>11, <3>13, <3>15, <3>16 DEF Budget
    <2>. QED BY <2>2, <2>3
  \* The end of the process strands what neither the queue nor the store has.
  <1>10. ASSUME Stop, UNCHANGED prefetch, NEW e, e = prefetch' * Mishaps',
                e = b \/ e = b + prefetch,
                e = b => channel = "closed" \/ bulk \notin {"idle", "sent"}
         PROVE  Budget'
    <2>1. /\ Requeue(unacked) /\ channel' = "down" /\ buffer' = <<>> /\ batch' = <<>> /\ bulk' = "idle"
          /\ written' = written
      BY <1>10 DEF Stop
    <2>2. ToSet(ready') = ToSet(ready) \cup {d.msg : d \in unacked} BY <2>1, RequeueTypes
    <2>3. Stranded' = Gone BY <1>t, <1>e, <2>1, <2>2 DEF Gone, Held
    <2>4. PICK k, x : k = Cardinality(Stranded')
                  /\ x = IF channel # "closed" /\ bulk \in {"idle", "sent"} THEN prefetch ELSE 0
      OBVIOUS
    <2>5. k \in Nat /\ k <= b + x BY <1>g, <1>p, <2>3, <2>4
    <2>6. x = 0 \/ (x = prefetch /\ e # b) BY <1>10, <2>4
    <2>7. k <= e /\ k + 0 <= e + prefetch BY <1>c, <1>10, <2>5, <2>6
    <2>8. TailOf(0)' /\ 0 \in 0 .. Len(buffer')
      <3>1. Len(buffer') = 0 BY <2>1
      <3>2. 0 + 1 .. 0 = {} OBVIOUS
      <3>. QED BY <3>1, <3>2 DEF TailOf
    <2>9. Credit' = prefetch BY <1>10, <2>1 DEF Credit
    <2>. QED BY <1>10, <1>k, <2>1, <2>4, <2>7, <2>8, <2>9
  <1>11. ASSUME Crash PROVE Budget'
    <2>1. Stop /\ UNCHANGED prefetch /\ crashes' = crashes + 1 /\ UNCHANGED <<failures, rejects, losses>>
      BY <1>11 DEF Crash
    <2>2. prefetch' * Mishaps' = b + prefetch BY <1>b, <2>1, MoreMishaps
    <2>3. b + prefetch # b BY <1>c, <1>q
    <2>. QED BY <1>10, <2>1, <2>2, <2>3
  <1>12. ASSUME SettleOnLostChannel \/ DieOfChannelError PROVE Budget'
    <2>1. /\ Stop /\ UNCHANGED prefetch /\ UNCHANGED <<failures, rejects, losses, crashes>>
          /\ channel = "closed" \/ bulk \in {"done", "failed"}
      BY <1>12 DEF SettleOnLostChannel, DieOfChannelError
    <2>2. prefetch' * Mishaps' = b BY <1>b, <2>1, MoreMishaps
    <2>. QED BY <1>10, <2>1, <2>2
  <1>13. ASSUME LoseConnection PROVE Budget'
    <2>1. /\ channel = "open" /\ losses' = losses + 1 /\ Requeue(unacked) /\ channel' = "lost"
          /\ UNCHANGED <<prefetch, buffer, batch, bulk, rejected, written, failures, rejects, crashes>>
      BY <1>13 DEF LoseConnection
    <2>2. ToSet(ready) \subseteq ToSet(ready') BY <2>1, RequeueTypes
    <2>3. Stranded' \subseteq Stranded
      <3>1. InMemory' = InMemory BY <1>t, <2>1
      <3>. QED BY <1>t, <2>1, <2>2, <3>1
    <2>4. Cardinality(Stranded') <= l BY <1>s, <2>3
    <2>5. PICK c, k, n : c = Credit /\ k = Cardinality(Stranded') /\ n = Len(buffer) OBVIOUS
    <2>6. c \in Int /\ Credit' = c BY <1>q, <2>1, <2>5 DEF Credit
    <2>7. PICK o \in 0 .. Len(buffer) : TailOf(o) /\ l + o <= b + c BY <1>o, <2>1, <2>5
    <2>8. n \in Nat /\ o \in Nat /\ n <= o + prefetch
      <3>1. PICK T : T = {buffer[i] : i \in o + 1 .. Len(buffer)} OBVIOUS
      <3>2. Cardinality(unacked \ T) \in Nat /\ Cardinality(unacked \ T) + Len(buffer) <= o + prefetch
        BY <2>7, <3>1, TailFits
      <3>. QED BY <1>q, <2>5, <3>2
    <2>9. k \in Nat /\ k <= l BY <1>p, <2>4, <2>5
    <2>10. k <= b + prefetch /\ k + n <= (b + prefetch) + c BY <1>c, <2>6, <2>7, <2>8, <2>9
    <2>11. prefetch' * Mishaps' = b + prefetch BY <1>b, <2>1, MoreMishaps
    <2>12. TailOf(Len(buffer))' /\ Len(buffer) \in 0 .. Len(buffer') BY <1>w, <2>1
    <2>. QED BY <1>k, <2>1, <2>5, <2>6, <2>10, <2>11, <2>12
  <1>14. ASSUME Return \/ UNCHANGED vars PROVE Budget'
    <2>1. /\ UNCHANGED <<ready, unacked, buffer, batch, bulk, rejected, written, prefetch>>
          /\ UNCHANGED <<failures, rejects, losses, crashes>>
          /\ channel' = channel \/ (channel \in {"lost", "down"} /\ channel' = "open")
      BY <1>14 DEF Return, Reconnect, Relaunch, vars
    <2>2. Stranded' = Stranded /\ Gone' = Gone /\ Credit' = Credit
      <3>1. InMemory' = InMemory /\ Held' = Held BY <2>1 DEF InMemory, MsgsOf, Held, ToSet
      <3>2. Credit' = Credit BY <2>1 DEF Credit
      <3>. QED BY <1>t, <2>1, <3>1, <3>2 DEF Gone
    <2>3. \A o \in 0 .. Len(buffer) : TailOf(o) => TailOf(o)' BY <2>1 DEF TailOf
    <2>4. prefetch' * Mishaps' = prefetch * Mishaps BY <1>b, <2>1, MoreMishaps
    <2>5. channel' = "closed" <=> channel = "closed" BY <2>1
    <2>6. Cardinality(Stranded') <= prefetch' * Mishaps' BY <2>2, <2>4 DEF Budget
    <2>7. channel' = "closed" => Cardinality(Gone') <= prefetch' * Mishaps'
      BY <2>2, <2>4, <2>5 DEF Budget
    <2>8. CASE channel' # "closed"
      <3>1. PICK o \in 0 .. Len(buffer) :
               TailOf(o) /\ Cardinality(Stranded) + o <= prefetch * Mishaps + Credit
        BY <2>5, <2>8 DEF Budget
      <3>2. TailOf(o)' /\ Cardinality(Stranded') + o <= prefetch' * Mishaps' + Credit'
        BY <2>2, <2>3, <2>4, <3>1
      <3>3. o \in 0 .. Len(buffer') BY <2>1
      <3>. QED BY <1>k, <2>6, <2>8, <3>2, <3>3
    <2>. QED BY <2>6, <2>7, <2>8 DEF Budget
  <1>. QED BY <1>1, <1>2, <1>3, <1>5, <1>7, <1>8, <1>9, <1>11, <1>12, <1>13, <1>14 DEF Next, Settle

\* For every queue, prefetch, assignment of documents and number of failures: each request
\* that fails, answer with errors, loss of a connection and crash together lose no more than
\* one prefetch of messages, however they follow one another.
THEOREM LossIsBounded == Spec => []LossBounded
  <1> DEFINE Inv == TypesAndFinite /\ Accounted /\ ChannelInv /\ Budget
  <1>1. Init => Inv BY TypesInit, AccountedInit, ChannelInit, BudgetInit
  <1>2. Inv /\ [Next]_vars => Inv'
    <2>1. Inv /\ [Next]_vars => TypesAndFinite' /\ Accounted' BY TypesNext, AccountedNext
    <2>2. Inv /\ [Next]_vars => ChannelInv' BY <2>1, ChannelNext
    <2>3. Inv /\ [Next]_vars => Budget' BY <2>1, <2>2, BudgetNext
    <2>. QED BY <2>1, <2>2, <2>3
  <1>3. Inv => LossBounded
    <2> SUFFICES ASSUME Inv PROVE LossBounded OBVIOUS
    <2>1. Lost \subseteq Stranded BY DEF Lost, Held, Stranded
    <2>2. /\ IsFiniteSet(Stranded) /\ Cardinality(Stranded) \in Nat /\ prefetch * Mishaps \in Nat
      BY Numbers
    <2>3. IsFiniteSet(Lost) /\ Cardinality(Lost) <= Cardinality(Stranded) BY <2>1, <2>2, FS_Subset
    <2>4. Cardinality(Lost) \in Nat BY <2>3, FS_CardinalityType
    <2>5. PICK b : b = prefetch * Mishaps OBVIOUS
    <2>6. Cardinality(Stranded) <= b /\ b \in Nat BY <2>2, <2>5 DEF Budget
    <2>7. Cardinality(Lost) <= b BY <2>2, <2>3, <2>4, <2>6
    <2>. QED BY <2>5, <2>7 DEF LossBounded
  <1>. QED BY <1>1, <1>2, <1>3, PTL DEF Spec

HIDE IngestAssumption

-----------------------------------------------------------------------------
(* Forks *)

Entry == [id : Ids, lib : 1 .. MaxHead]
PassRecord == [step : {"idle", "next", "answered", "delete"}, left : SUBSET Ids,
               at : Ids \cup {NoId}, answer : {"none", "found", "error"}, pending : BOOLEAN]

-----------------------------------------------------------------------------
(* Ids and what SHIP sends *)

\* An id of the model carries its number, and its branch from the fork on.
LEMMA IdFacts ==
    ASSUME NEW b \in {"A", "B"}, NEW n \in 1 .. MaxHead
    PROVE  IdOn(b, n) \in Ids /\ Num(IdOn(b, n)) = n
BY DEF IdOn, Ids, Num

LEMMA NumberOfId ==
    ASSUME NEW id \in Ids
    PROVE  /\ Num(id) \in 1 .. MaxHead
           /\ id = <<Num(id), id[2]>>
           /\ id[2] \in {"A", "B"}
           /\ Num(id) < Fork => id[2] = "A"
           /\ id # NoId
BY ForkAssumption DEF IdOn, Ids, Num, NoId

\* What Emit appends: the blocks of a branch from first to last, each with the lib.
Sent(b, first, last, l) ==
    [i \in 1 .. last - first + 1 |-> [id |-> IdOn(b, first + i - 1), lib |-> l]]

LEMMA SentIsBlocks ==
    ASSUME NEW b \in {"A", "B"}, NEW first \in 1 .. MaxHead, NEW last \in first .. MaxHead,
           NEW l \in 1 .. MaxHead
    PROVE  /\ Sent(b, first, last, l) \in Seq(Entry)
           /\ Len(Sent(b, first, last, l)) = last - first + 1
           /\ \A i \in 1 .. last - first + 1 :
                 Sent(b, first, last, l)[i] = [id |-> IdOn(b, first + i - 1), lib |-> l]
<1> DEFINE k == last - first + 1
           s == Sent(b, first, last, l)
<1>1. k \in Nat /\ MaxHead \in Nat
  BY ForkAssumption
<1>2. \A i \in 1 .. k : first + i - 1 \in 1 .. MaxHead
  BY ForkAssumption
<1>3. \A i \in 1 .. k : [id |-> IdOn(b, first + i - 1), lib |-> l] \in Entry
  BY <1>2, IdFacts DEF Entry
<1>4. s \in [1 .. k -> Entry]
  BY <1>3 DEF Sent
<1>5. s \in Seq(Entry)
  BY <1>1, <1>4, SeqDef
<1>6. Len(s) = k
  BY <1>1, <1>4, <1>5
<1> QED
  BY <1>5, <1>6 DEF Sent

\* Appending to the inbox: what was there stays, the new blocks follow it.
LEMMA EmitAppends ==
    ASSUME inbox \in Seq(Entry), NEW b \in {"A", "B"}, NEW first \in 1 .. MaxHead,
           NEW last \in first .. MaxHead, lib \in 1 .. MaxHead, Emit(b, first, last)
    PROVE  /\ inbox' \in Seq(Entry)
           /\ Len(inbox') = Len(inbox) + last - first + 1
           /\ \A i \in 1 .. Len(inbox) : inbox'[i] = inbox[i]
           /\ \A n \in first .. last :
                 inbox'[Len(inbox) + n - first + 1] = [id |-> IdOn(b, n), lib |-> lib]
           /\ \A i \in 1 .. Len(inbox') :
                 i > Len(inbox) => \E n \in first .. last :
                    i = Len(inbox) + n - first + 1
<1> DEFINE s == Sent(b, first, last, lib)
<1>1. inbox' = inbox \o s
  BY DEF Emit, Sent
<1>2. /\ s \in Seq(Entry) /\ Len(s) = last - first + 1
      /\ \A i \in 1 .. last - first + 1 : s[i] = [id |-> IdOn(b, first + i - 1), lib |-> lib]
  <2>1. /\ Sent(b, first, last, lib) \in Seq(Entry)
        /\ Len(Sent(b, first, last, lib)) = last - first + 1
        /\ \A i \in 1 .. last - first + 1 :
              Sent(b, first, last, lib)[i] = [id |-> IdOn(b, first + i - 1), lib |-> lib]
    BY SentIsBlocks, ZenonT(60)
  <2> QED
    BY <2>1, Zenon
<1> HIDE DEF s
<1>3. /\ inbox \o s \in Seq(Entry) /\ Len(inbox \o s) = Len(inbox) + Len(s)
      /\ \A i \in 1 .. Len(inbox) + Len(s) :
            (inbox \o s)[i] = IF i <= Len(inbox) THEN inbox[i] ELSE s[i - Len(inbox)]
  BY <1>2, ConcatProperties
<1>4. Len(inbox) \in Nat /\ MaxHead \in Nat
  BY LenProperties, ForkAssumption
<1>5. \A n \in first .. last :
         inbox'[Len(inbox) + n - first + 1] = [id |-> IdOn(b, n), lib |-> lib]
  <2> TAKE n \in first .. last
  <2>1. /\ n - first + 1 \in 1 .. last - first + 1
        /\ Len(inbox) + n - first + 1 \in 1 .. Len(inbox) + Len(s)
        /\ ~(Len(inbox) + n - first + 1 <= Len(inbox))
        /\ (Len(inbox) + n - first + 1) - Len(inbox) = n - first + 1
        /\ first + (n - first + 1) - 1 = n
    BY <1>2, <1>4
  <2>2. inbox'[Len(inbox) + n - first + 1] = s[n - first + 1]
    BY <1>1, <1>3, <2>1
  <2> QED
    BY <1>2, <2>1, <2>2
<1>6. \A i \in 1 .. Len(inbox') : i > Len(inbox) =>
         \E n \in first .. last : i = Len(inbox) + n - first + 1
  <2> SUFFICES ASSUME NEW i \in 1 .. Len(inbox'), i > Len(inbox)
               PROVE  \E n \in first .. last : i = Len(inbox) + n - first + 1
    OBVIOUS
  <2>1. i - Len(inbox) + first - 1 \in first .. last
    BY <1>1, <1>2, <1>3, <1>4
  <2>2. i = Len(inbox) + (i - Len(inbox) + first - 1) - first + 1
    BY <1>4
  <2> QED
    BY <2>1, <2>2
<1>7. \A i \in 1 .. Len(inbox) : inbox'[i] = inbox[i]
  BY <1>1, <1>2, <1>3, <1>4
<1> QED
  BY <1>1, <1>2, <1>3, <1>4, <1>5, <1>6, <1>7

-----------------------------------------------------------------------------
(* Types *)

\* What waits in the inbox: each block has the lib of the time it was sent, below the
\* block and between the reader's lib and the chain's; the libs do not decrease.
InboxInv ==
    /\ \A i \in 1 .. Len(inbox) :
          /\ localLib <= inbox[i].lib /\ inbox[i].lib <= lib
          /\ inbox[i].lib < Num(inbox[i].id) /\ Num(inbox[i].id) <= head
    /\ \A i, j \in 1 .. Len(inbox) : i <= j => inbox[i].lib <= inbox[j].lib

USE DEF chainVars, timerVars, failedCalls

LEMMA InitTypes == ForkInit => ForkTypeOK /\ InboxInv
<1> SUFFICES ASSUME ForkInit PROVE ForkTypeOK /\ InboxInv
  OBVIOUS
<1>1. /\ inbox = <<>> /\ Len(inbox) = 0 /\ inbox \in Seq([id : Ids, lib : 1 .. MaxHead])
      /\ pipeline \in Seq(Ids)
  BY DEF ForkInit
<1>2. 1 \in 1 .. MaxHead /\ IdOn("A", 1) \in Ids
  BY ForkAssumption, IdFacts
<1>3. pass \in [Passes -> PassRecord]
  BY DEF ForkInit, Idle, PassRecord
<1>4. /\ head \in 1 .. MaxHead /\ lib \in 1 .. head /\ localLib \in 1 .. lib
      /\ branch \in {"A", "B"}
      /\ {mode, armed} \subseteq BOOLEAN /\ loose \in Nat
  <2>1. 1 \in 1 .. MaxHead
    BY <1>2
  <2>2. head = 1 /\ lib = 1 /\ localLib = 1 /\ branch = "A"
        /\ mode = FALSE /\ armed = FALSE /\ loose = 0
    BY DEF ForkInit
  <2>3. {mode, armed} \subseteq BOOLEAN
    BY <2>2, Zenon
  <2> QED
    BY <2>1, <2>2, <2>3
<1>7. forked \subseteq Ids /\ docs \subseteq Ids /\ spared \subseteq Ids \cup {NoId}
  <2>1. forked = {} /\ docs = {IdOn("A", 1)} /\ spared = {}
    BY Zenon DEF ForkInit
  <2> QED
    BY <1>2, <2>1
<1>5. reversible \in [1 .. MaxHead -> Ids \cup {NoId}]
  BY DEF ForkInit
<1>6. ForkTypeOK
  BY <1>1, <1>3, <1>4, <1>5, <1>7 DEF ForkTypeOK, PassRecord
<1> QED
  BY <1>1, <1>6 DEF InboxInv

\* The chain's steps keep types and inbox.
LEMMA ChainStepTypes ==
    ASSUME ForkTypeOK, InboxInv, ExtendBranch \/ SwitchBranch \/ AdvanceLib
    PROVE  ForkTypeOK' /\ InboxInv'
<1> USE DEF Entry
<1>1. MaxHead \in Nat /\ Fork \in Nat /\ 1 < Fork /\ Fork <= MaxHead
  BY ForkAssumption
<1>2. /\ inbox \in Seq(Entry) /\ lib \in 1 .. MaxHead /\ head \in 1 .. MaxHead /\ localLib \in Nat
      /\ Len(inbox) \in Nat /\ lib <= head
  BY <1>1, LenProperties DEF ForkTypeOK
<1>3. ASSUME NEW b \in {"A", "B"}, NEW first \in 1 .. MaxHead, NEW last \in first .. MaxHead,
             Emit(b, first, last), lib < first, last = head', head <= head', head' <= MaxHead,
             branch' = b,
             UNCHANGED <<lib, reversible, forked, localLib, timerVars, pass, failedCalls, pipeline,
                         docs>>
      PROVE  ForkTypeOK' /\ InboxInv'
  <2>1. /\ inbox' \in Seq(Entry)
        /\ Len(inbox') = Len(inbox) + last - first + 1
        /\ \A i \in 1 .. Len(inbox) : inbox'[i] = inbox[i]
        /\ \A n \in first .. last :
              inbox'[Len(inbox) + n - first + 1] = [id |-> IdOn(b, n), lib |-> lib]
        /\ \A i \in 1 .. Len(inbox') :
              i > Len(inbox) => \E n \in first .. last : i = Len(inbox) + n - first + 1
    <3> HIDE DEF Entry
    <3>1. inbox \in Seq(Entry) /\ lib \in 1 .. MaxHead /\ Emit(b, first, last)
      BY <1>2, <1>3
    <3> QED
      BY <3>1, EmitAppends
  <2>2. ForkTypeOK'
    BY <1>1, <1>2, <1>3, <2>1 DEF ForkTypeOK
  <2>3. \A i \in 1 .. Len(inbox') :
           \/ i \in 1 .. Len(inbox) /\ inbox'[i] = inbox[i]
           \/ /\ i > Len(inbox) /\ inbox'[i].lib = lib
              /\ Num(inbox'[i].id) \in first .. last
    <3>0. \A i \in 1 .. Len(inbox') : i \in 1 .. Len(inbox) \/ i > Len(inbox)
      <4>1. Len(inbox) \in Nat
        BY <1>2
      <4> HIDE DEF Entry
      <4> QED
        BY <4>1
    <3> SUFFICES ASSUME NEW i \in 1 .. Len(inbox'), i > Len(inbox)
                 PROVE  inbox'[i].lib = lib /\ Num(inbox'[i].id) \in first .. last
      BY <2>1, <3>0, Zenon
    <3>1. PICK n \in first .. last : i = Len(inbox) + n - first + 1
      BY <2>1
    <3>2. n \in 1 .. MaxHead
      BY <1>1
    <3>3. Num(IdOn(b, n)) = n
      BY <3>2, IdFacts
    <3>4. inbox'[i] = [id |-> IdOn(b, n), lib |-> lib]
      BY <2>1, <3>1
    <3> QED
      BY <3>3, <3>4
  <2>4. \A i \in 1 .. Len(inbox') :
           /\ localLib <= inbox'[i].lib /\ inbox'[i].lib <= lib
           /\ inbox'[i].lib < Num(inbox'[i].id) /\ Num(inbox'[i].id) <= head'
    <3> TAKE i \in 1 .. Len(inbox')
    <3>1. CASE i \in 1 .. Len(inbox) /\ inbox'[i] = inbox[i]
      <4>1. inbox[i] \in Entry
        BY <1>2, <3>1, ElementOfSeq
      <4>2. Num(inbox[i].id) \in Nat
        BY <1>1, <4>1, NumberOfId
      <4> QED
        BY SMTT(20), <1>1, <1>2, <1>3, <3>1, <4>2 DEF InboxInv
    <3>2. CASE /\ i > Len(inbox) /\ inbox'[i].lib = lib
               /\ Num(inbox'[i].id) \in first .. last
      BY <1>1, <1>2, <1>3, <3>2 DEF ForkTypeOK
    <3> QED
      BY <2>3, <3>1, <3>2
  <2>5. \A i, j \in 1 .. Len(inbox') : i <= j => inbox'[i].lib <= inbox'[j].lib
    <3> SUFFICES ASSUME NEW i \in 1 .. Len(inbox'), NEW j \in 1 .. Len(inbox'), i <= j
                 PROVE  inbox'[i].lib <= inbox'[j].lib
      OBVIOUS
    <3>1. CASE j \in 1 .. Len(inbox)
      <4>1. i \in 1 .. Len(inbox)
        BY <1>2, <2>1, <3>1
      <4>2. inbox[i].lib <= inbox[j].lib
        BY <3>1, <4>1 DEF InboxInv
      <4> QED
        BY <2>1, <3>1, <4>1, <4>2
    <3>2. CASE j > Len(inbox)
      BY SMTT(20), <1>2, <2>3, <2>4, <3>2
    <3> QED
      BY <1>2, <2>1, <3>1, <3>2
  <2> QED
    BY <1>3, <2>2, <2>4, <2>5 DEF InboxInv
<1>4. CASE ExtendBranch
  <2>1. /\ Emit(branch, head + 1, head + 1) /\ head' = head + 1 /\ head < MaxHead
        /\ UNCHANGED <<branch, lib, switches, reversible, forked, localLib, timerVars, pass,
                       failedCalls, pipeline, docs>>
    BY <1>4 DEF ExtendBranch
  <2>2. head + 1 \in 1 .. MaxHead /\ lib < head + 1 /\ branch \in {"A", "B"}
    BY <1>1, <1>2, <2>1 DEF ForkTypeOK
  <2> QED
    BY <1>1, <1>2, <1>3, <2>1, <2>2
<1>5. CASE SwitchBranch
  <2>1. /\ Emit(Other(branch), Fork, head + 1) /\ head' = head + 1 /\ head < MaxHead
        /\ Fork <= head /\ lib < Fork /\ branch' = Other(branch)
        /\ UNCHANGED <<lib, reversible, forked, localLib, timerVars, pass, failedCalls, pipeline,
                       docs>>
    BY <1>5 DEF SwitchBranch
  <2>2. Fork \in 1 .. MaxHead /\ head + 1 \in Fork .. MaxHead /\ Other(branch) \in {"A", "B"}
    BY <1>1, <1>2, <2>1 DEF ForkTypeOK, Other
  <2> QED
    BY <1>1, <1>2, <1>3, <2>1, <2>2
<1>6. CASE AdvanceLib
  <2>1. /\ lib < head /\ lib' = lib + 1
        /\ UNCHANGED <<branch, head, switches, inbox, reversible, forked, localLib, timerVars,
                       pass, failedCalls, pipeline, docs>>
    BY <1>6 DEF AdvanceLib
  <2>2. ForkTypeOK'
    BY <1>1, <1>2, <2>1 DEF ForkTypeOK
  <2>3. \A i \in 1 .. Len(inbox) : inbox[i].lib \in Nat
    <3>1. \A i \in 1 .. Len(inbox) : inbox[i] \in Entry
      BY <1>2, ElementOfSeq
    <3> QED
      BY <1>1, <3>1
  <2>4. InboxInv'
    BY SMTT(30), <1>1, <1>2, <2>1, <2>3 DEF InboxInv
  <2> QED
    BY <2>2, <2>4
<1> QED
  BY <1>4, <1>5, <1>6

\* What a pass keeps in its record.
LEMMA PassRecordStep ==
    ASSUME pass \in [Passes -> PassRecord], NEW p \in Passes
    PROVE  /\ \A q \in SUBSET Ids : [pass EXCEPT ![p] = Started(q)] \in [Passes -> PassRecord]
           /\ [pass EXCEPT ![p] = Idle] \in [Passes -> PassRecord]
           /\ [pass EXCEPT ![p].step = "next"] \in [Passes -> PassRecord]
           /\ [pass EXCEPT ![p].step = "delete"] \in [Passes -> PassRecord]
           /\ [pass EXCEPT ![p].step = "next", ![p].pending = TRUE] \in [Passes -> PassRecord]
<1>1. \A q \in SUBSET Ids : [pass EXCEPT ![p] = Started(q)] \in [Passes -> PassRecord]
  BY DEF Started, PassRecord
<1>2. [pass EXCEPT ![p] = Idle] \in [Passes -> PassRecord]
  BY DEF Idle, PassRecord
<1>3. [pass EXCEPT ![p].step = "next"] \in [Passes -> PassRecord]
  BY DEF PassRecord
<1>4. [pass EXCEPT ![p].step = "delete"] \in [Passes -> PassRecord]
  BY DEF PassRecord
<1>5. [pass EXCEPT ![p].step = "next", ![p].pending = TRUE] \in [Passes -> PassRecord]
  <2> DEFINE r == [pass[p] EXCEPT !.step = "next", !.pending = TRUE]
  <2>1. r \in PassRecord
    BY DEF PassRecord
  <2>2. [pass EXCEPT ![p].step = "next", ![p].pending = TRUE] = [pass EXCEPT ![p] = r]
    OBVIOUS
  <2> HIDE DEF r
  <2> QED
    BY <2>1, <2>2
<1> QED
  BY <1>1, <1>2, <1>3, <1>4, <1>5

LEMMA AnswerRecordStep ==
    ASSUME pass \in [Passes -> PassRecord], NEW p \in Passes, NEW id \in Ids,
           NEW answer \in {"found", "error"},
           pass' = [pass EXCEPT ![p].step = "answered", ![p].at = id, ![p].answer = answer,
                                ![p].left = @ \ {id}]
    PROVE  /\ pass' \in [Passes -> PassRecord]
           /\ pass'[p].step = "answered" /\ pass'[p].at = id /\ pass'[p].left = pass[p].left \ {id}
           /\ pass'[p].pending = pass[p].pending
           /\ \A q \in Passes \ {p} : pass'[q] = pass[q]
<1>1. /\ pass'[p].step = "answered" /\ pass'[p].at = id /\ pass'[p].left = pass[p].left \ {id}
      /\ pass'[p].pending = pass[p].pending /\ pass'[p].answer = answer
  BY DEF PassRecord
<1>2. \A q \in Passes \ {p} : pass'[q] = pass[q]
  BY DEF PassRecord
<1>3. pass' \in [Passes -> PassRecord]
  <2> DEFINE f1 == [pass EXCEPT ![p].step = "answered"]
             f2 == [f1 EXCEPT ![p].at = id]
             f3 == [f2 EXCEPT ![p].answer = answer]
             f4 == [f3 EXCEPT ![p].left = @ \ {id}]
  <2>1. f1 \in [Passes -> PassRecord]
    BY DEF PassRecord
  <2>2. pass' = f4
    OBVIOUS
  <2> HIDE DEF f1
  <2>3. f2 \in [Passes -> PassRecord]
    BY <2>1 DEF PassRecord
  <2> HIDE DEF f2
  <2>4. f3 \in [Passes -> PassRecord]
    BY <2>3 DEF PassRecord
  <2> HIDE DEF f3
  <2>5. f4 \in [Passes -> PassRecord]
    BY <2>4 DEF PassRecord
  <2> QED
    BY <2>2, <2>5
<1> QED
  BY <1>1, <1>2, <1>3

\* What the reader takes from the inbox: a block of the chain, with a number above
\* the lib it carries.
LEMMA HeadOfInbox ==
    ASSUME ForkTypeOK, InboxInv, inbox # <<>>
    PROVE  /\ Head(inbox) = inbox[1] /\ Len(inbox) \in Nat \ {0}
           /\ Head(inbox).id \in Ids /\ Head(inbox).lib \in 1 .. MaxHead
           /\ Num(Head(inbox).id) \in 1 .. MaxHead
           /\ localLib <= Head(inbox).lib /\ Head(inbox).lib <= lib
           /\ Head(inbox).lib < Num(Head(inbox).id) /\ Num(Head(inbox).id) <= head
           /\ Tail(inbox) \in Seq(Entry) /\ Len(Tail(inbox)) = Len(inbox) - 1
           /\ \A i \in 1 .. Len(inbox) - 1 : Tail(inbox)[i] = inbox[i + 1]
           /\ \A i \in 1 .. Len(inbox) : inbox[i] \in Entry
<1>1. inbox \in Seq(Entry)
  BY DEF ForkTypeOK, Entry
<1>2. /\ Head(inbox) = inbox[1] /\ Len(inbox) \in Nat \ {0} /\ Head(inbox) \in Entry
      /\ Tail(inbox) \in Seq(Entry) /\ Len(Tail(inbox)) = Len(inbox) - 1
      /\ \A i \in 1 .. Len(inbox) - 1 : Tail(inbox)[i] = inbox[i + 1]
  BY <1>1, HeadTailProperties, LenProperties, EmptySeq
<1>3. \A i \in 1 .. Len(inbox) : inbox[i] \in Entry
  BY <1>1, ElementOfSeq
<1>4. Head(inbox).id \in Ids /\ Head(inbox).lib \in 1 .. MaxHead
  BY <1>2 DEF Entry
<1>5. Num(Head(inbox).id) \in 1 .. MaxHead
  BY <1>4, NumberOfId
<1>6. 1 \in 1 .. Len(inbox)
  BY <1>2
<1> QED
  BY <1>2, <1>3, <1>4, <1>5, <1>6 DEF InboxInv

\* The maps after a block is registered.
LEMMA ReadBlockMaps ==
    ASSUME ForkTypeOK, InboxInv, ReadBlock
    PROVE  LET e == Head(inbox)
           IN /\ localLib' = e.lib
              /\ \A k \in 1 .. MaxHead :
                    reversible'[k] = IF k = Num(e.id) THEN e.id
                                     ELSE IF localLib < e.lib /\ k <= e.lib THEN NoId
                                     ELSE reversible[k]
              /\ reversible' \in [1 .. MaxHead -> Ids \cup {NoId}]
              /\ pipeline' = Append(pipeline, e.id)
              /\ inbox # <<>> /\ inbox' = Tail(inbox)
              /\ forked' = (forked \ {e.id}) \cup
                     (IF Replaces(e.id, reversible[Num(e.id)]) THEN {reversible[Num(e.id)]} ELSE {})
              /\ IF Replaces(e.id, reversible[Num(e.id)])
                 THEN mode' = TRUE /\ armed' = TRUE /\ loose' = loose
                 ELSE UNCHANGED timerVars
              /\ UNCHANGED <<branch, head, lib, switches, pass, callFailures, spared, docs>>
<1> DEFINE e == Head(inbox)
           id == e.id
           n == Num(id)
           registered == [reversible EXCEPT ![n] = id]
<1>1. inbox # <<>>
  BY DEF ReadBlock
<1>2. /\ id \in Ids /\ n \in 1 .. MaxHead /\ e.lib \in 1 .. MaxHead /\ localLib <= e.lib /\ e.lib < n
      /\ localLib \in Nat /\ MaxHead \in Nat
  BY <1>1, HeadOfInbox, ForkAssumption DEF ForkTypeOK
<1>3. /\ IF e.lib > localLib
         THEN /\ localLib' = e.lib
              /\ reversible' = [k \in 1 .. MaxHead |->
                                   IF CleanUpTo(k, e.lib) THEN NoId ELSE registered[k]]
         ELSE /\ UNCHANGED localLib
              /\ reversible' = registered
  BY DEF ReadBlock
<1>4. /\ registered \in [1 .. MaxHead -> Ids \cup {NoId}]
      /\ \A k \in 1 .. MaxHead : registered[k] = IF k = n THEN id ELSE reversible[k]
  BY <1>2 DEF ForkTypeOK
<1> HIDE DEF registered
<1>5. localLib' = e.lib
  BY <1>2, <1>3
<1>6. \A k \in 1 .. MaxHead :
         reversible'[k] = IF k = n THEN id
                          ELSE IF localLib < e.lib /\ k <= e.lib THEN NoId
                          ELSE reversible[k]
  <2>1. CASE e.lib > localLib
    BY <1>2, <1>3, <1>4, <2>1 DEF CleanUpTo
  <2>2. CASE ~(e.lib > localLib)
    BY <1>2, <1>3, <1>4, <2>2
  <2> QED
    BY <2>1, <2>2
<1>7. reversible' \in [1 .. MaxHead -> Ids \cup {NoId}]
  <2>1. CASE e.lib > localLib
    BY <1>2, <1>3, <1>4, <2>1
  <2>2. CASE ~(e.lib > localLib)
    BY <1>2, <1>3, <1>4, <2>2
  <2> QED
    BY <2>1, <2>2
<1>8. /\ pipeline' = Append(pipeline, e.id) /\ inbox' = Tail(inbox)
      /\ UNCHANGED <<branch, head, lib, switches, pass, callFailures, spared, docs>>
  BY DEF ReadBlock
<1>9. /\ forked' = (forked \ {id}) \cup (IF Replaces(id, reversible[n]) THEN {reversible[n]} ELSE {})
      /\ IF Replaces(id, reversible[n])
         THEN mode' = TRUE /\ armed' = TRUE /\ loose' = loose
         ELSE UNCHANGED timerVars
  BY DEF ReadBlock, Rearm
<1> QED
  BY <1>1, <1>5, <1>6, <1>7, <1>8, <1>9

LEMMA ReadBlockTypes ==
    ASSUME ForkTypeOK, InboxInv, ReadBlock
    PROVE  ForkTypeOK' /\ InboxInv'
<1> DEFINE e == Head(inbox)
<1>1. /\ e.id \in Ids /\ e.lib \in 1 .. MaxHead /\ localLib <= e.lib /\ e.lib <= lib
      /\ Len(inbox) \in Nat \ {0} /\ e = inbox[1] /\ Num(e.id) \in 1 .. MaxHead
      /\ Tail(inbox) \in Seq(Entry) /\ Len(Tail(inbox)) = Len(inbox) - 1
      /\ \A i \in 1 .. Len(inbox) - 1 : Tail(inbox)[i] = inbox[i + 1]
  BY ReadBlockMaps, HeadOfInbox
<1>2. /\ localLib' = e.lib
      /\ reversible' \in [1 .. MaxHead -> Ids \cup {NoId}]
      /\ pipeline' = Append(pipeline, e.id)
      /\ inbox' = Tail(inbox)
      /\ forked' = (forked \ {e.id}) \cup
             (IF Replaces(e.id, reversible[Num(e.id)]) THEN {reversible[Num(e.id)]} ELSE {})
      /\ IF Replaces(e.id, reversible[Num(e.id)])
         THEN mode' = TRUE /\ armed' = TRUE /\ loose' = loose
         ELSE UNCHANGED timerVars
      /\ UNCHANGED <<branch, head, lib, switches, pass, spared, docs>>
  BY ReadBlockMaps
<1> HIDE DEF e
<1>3. forked' \subseteq Ids
  BY <1>1, <1>2 DEF ForkTypeOK, Replaces
<1>4. pipeline' \in Seq(Ids)
  BY <1>1, <1>2, AppendProperties DEF ForkTypeOK
<1>5. {mode, armed}' \subseteq BOOLEAN
  <2>1. mode \in BOOLEAN /\ armed \in BOOLEAN
    BY DEF ForkTypeOK
  <2> QED
    BY <1>2, <2>1, Zenon
<1>6. loose' = loose
  BY <1>2
<1>7. ForkTypeOK'
  <2>1. localLib' \in 1 .. lib'
    BY <1>1, <1>2 DEF ForkTypeOK
  <2>2. inbox' \in Seq([id : Ids, lib : 1 .. MaxHead])
    BY <1>1, <1>2 DEF Entry
  <2> QED
    BY <1>2, <1>3, <1>4, <1>5, <1>6, <2>1, <2>2, Zenon DEF ForkTypeOK
<1>8. InboxInv'
  <2>1. \A i \in 1 .. Len(inbox') : i + 1 \in 1 .. Len(inbox) /\ inbox'[i] = inbox[i + 1]
    BY <1>1, <1>2
  <2>2. 1 \in 1 .. Len(inbox) /\ \A i \in 1 .. Len(inbox) : 1 <= i
    BY <1>1
  <2>3. \A i \in 1 .. Len(inbox') :
           /\ localLib' <= inbox'[i].lib /\ inbox'[i].lib <= lib'
           /\ inbox'[i].lib < Num(inbox'[i].id) /\ Num(inbox'[i].id) <= head'
    BY <1>1, <1>2, <2>1, <2>2 DEF InboxInv
  <2>4. \A i, j \in 1 .. Len(inbox') : i <= j => inbox'[i].lib <= inbox'[j].lib
    BY <2>1 DEF InboxInv
  <2> QED
    BY <2>3, <2>4 DEF InboxInv
<1> QED
  BY <1>7, <1>8

\* The steps that leave chain and inbox alone.
LEMMA OtherStepTypes ==
    ASSUME ForkTypeOK, InboxInv,
           IndexBlock \/ \E p \in Passes : StartPass(p) \/ PassStep(p)
    PROVE  /\ ForkTypeOK' /\ InboxInv'
           /\ UNCHANGED <<branch, head, lib, switches, inbox, reversible, localLib>>
<1>1. UNCHANGED <<branch, head, lib, switches, inbox, reversible, localLib>>
  BY DEF IndexBlock, StartPass, PassStep, AskChain, Dismiss, Postpone, Condemn, DeleteBlock, EndPass
<1>2. InboxInv'
  BY <1>1 DEF InboxInv
<1>3. pass \in [Passes -> PassRecord] /\ mode \in BOOLEAN /\ armed \in BOOLEAN /\ loose \in Nat
  BY DEF ForkTypeOK, PassRecord
<1>4. SUFFICES /\ forked' \subseteq Ids /\ docs' \subseteq Ids /\ pipeline' \in Seq(Ids)
               /\ mode' \in BOOLEAN /\ armed' \in BOOLEAN /\ loose' \in Nat
               /\ pass' \in [Passes -> PassRecord]
  <2>1. ASSUME NEW p \in Passes, Dismiss(p) \/ DeleteBlock(p)
        PROVE  spared' \subseteq Ids \cup {NoId}
    <3>1. pass[p].at \in Ids \cup {NoId} /\ spared \subseteq Ids \cup {NoId}
      BY <1>3 DEF PassRecord, ForkTypeOK
    <3>2. spared' \subseteq spared \cup {pass[p].at}
      BY <2>1, SMTT(30) DEF Dismiss, DeleteBlock, Spare
    <3> QED
      BY <3>1, <3>2
  <2>2. ASSUME NEW p \in Passes, StartPass(p) \/ AskChain(p) \/ Postpone(p) \/ Condemn(p) \/ EndPass(p)
        PROVE  spared' = spared
    BY <2>2 DEF StartPass, AskChain, Postpone, Condemn, EndPass
  <2>3. IndexBlock => spared' = spared
    BY DEF IndexBlock
  <2>4. spared' \subseteq Ids \cup {NoId}
    BY <2>1, <2>2, <2>3 DEF PassStep, ForkTypeOK
  <2> QED
    BY <1>1, <1>2, <2>4 DEF ForkTypeOK, PassRecord
<1>5. CASE IndexBlock
  <2>1. /\ pipeline # <<>> /\ docs' = docs \cup {Head(pipeline)} /\ pipeline' = Tail(pipeline)
        /\ UNCHANGED <<forked, timerVars, pass>>
    BY <1>5 DEF IndexBlock
  <2>2. Head(pipeline) \in Ids /\ Tail(pipeline) \in Seq(Ids)
    BY <2>1, HeadTailProperties DEF ForkTypeOK
  <2> QED
    BY <1>3, <2>1, <2>2 DEF ForkTypeOK
<1>6. ASSUME NEW p \in Passes, StartPass(p)
      PROVE  /\ forked' \subseteq Ids /\ docs' \subseteq Ids /\ pipeline' \in Seq(Ids)
             /\ mode' \in BOOLEAN /\ armed' \in BOOLEAN /\ loose' \in Nat
             /\ pass' \in [Passes -> PassRecord]
  <2>1. /\ pass' = [pass EXCEPT ![p] = Started(forked)]
        /\ UNCHANGED <<forked, docs, pipeline, mode>>
        /\ armed' = FALSE \/ armed' = armed
        /\ (loose > 0 /\ loose' = loose - 1) \/ loose' = loose
    BY <1>6 DEF StartPass
  <2>2. loose' \in Nat
    BY <1>3, <2>1
  <2>3. pass' \in [Passes -> PassRecord]
    BY <1>3, <2>1, PassRecordStep DEF ForkTypeOK
  <2>4. armed' \in BOOLEAN
    BY <1>3, <2>1, Zenon
  <2> QED
    BY <1>3, <2>1, <2>2, <2>3, <2>4 DEF ForkTypeOK
<1>7. ASSUME NEW p \in Passes, AskChain(p)
      PROVE  /\ forked' \subseteq Ids /\ docs' \subseteq Ids /\ pipeline' \in Seq(Ids)
             /\ mode' \in BOOLEAN /\ armed' \in BOOLEAN /\ loose' \in Nat
             /\ pass' \in [Passes -> PassRecord]
  <2>1. PICK id \in pass[p].left, answer \in {"found", "error"} :
           pass' = [pass EXCEPT ![p].step = "answered", ![p].at = id, ![p].answer = answer,
                                ![p].left = @ \ {id}]
    BY <1>7 DEF AskChain
  <2>2. id \in Ids
    BY <1>3 DEF PassRecord
  <2>3. pass' \in [Passes -> PassRecord]
    BY <1>3, <2>1, <2>2, AnswerRecordStep
  <2>4. UNCHANGED <<forked, docs, pipeline, mode, armed, loose>>
    BY <1>7 DEF AskChain
  <2> QED
    BY <1>3, <2>3, <2>4 DEF ForkTypeOK
<1>8. ASSUME NEW p \in Passes, Dismiss(p) \/ Postpone(p) \/ Condemn(p) \/ DeleteBlock(p)
      PROVE  /\ forked' \subseteq Ids /\ docs' \subseteq Ids /\ pipeline' \in Seq(Ids)
             /\ mode' \in BOOLEAN /\ armed' \in BOOLEAN /\ loose' \in Nat
             /\ pass' \in [Passes -> PassRecord]
  <2>1. pass' \in [Passes -> PassRecord]
    <3>1. \/ pass' = [pass EXCEPT ![p].step = "next"]
          \/ pass' = [pass EXCEPT ![p].step = "delete"]
          \/ pass' = [pass EXCEPT ![p].step = "next", ![p].pending = TRUE]
      BY <1>8, Zenon DEF Dismiss, Postpone, Condemn, DeleteBlock
    <3>2. CASE pass' = [pass EXCEPT ![p].step = "next"]
      BY <1>3, <3>2, PassRecordStep
    <3>3. CASE pass' = [pass EXCEPT ![p].step = "delete"]
      BY <1>3, <3>3, PassRecordStep
    <3>4. CASE pass' = [pass EXCEPT ![p].step = "next", ![p].pending = TRUE]
      BY <1>3, <3>4, PassRecordStep
    <3> QED
      BY <3>1, <3>2, <3>3, <3>4
  <2>2. UNCHANGED <<pipeline, mode, armed, loose>> /\ forked' \subseteq forked /\ docs' \subseteq docs
    BY <1>8 DEF Dismiss, Postpone, Condemn, DeleteBlock, Remaining
  <2> QED
    BY <1>3, <2>1, <2>2 DEF ForkTypeOK
<1>9. ASSUME NEW p \in Passes, EndPass(p)
      PROVE  /\ forked' \subseteq Ids /\ docs' \subseteq Ids /\ pipeline' \in Seq(Ids)
             /\ mode' \in BOOLEAN /\ armed' \in BOOLEAN /\ loose' \in Nat
             /\ pass' \in [Passes -> PassRecord]
  <2>1. pass' \in [Passes -> PassRecord]
    BY <1>3, <1>9, PassRecordStep DEF EndPass
  <2>2. /\ UNCHANGED <<pipeline, forked, docs>> /\ mode' = FALSE /\ armed' = FALSE
        /\ loose' = loose + StillArmed + IF pass[p].pending THEN 1 ELSE 0
    BY <1>9 DEF EndPass, ModeAfterPass
  <2>3. loose' \in Nat
    BY <1>3, <2>2 DEF StillArmed
  <2> QED
    BY <2>1, <2>2, <2>3 DEF ForkTypeOK
<1> QED
  BY <1>4, <1>5, <1>6, <1>7, <1>8, <1>9 DEF PassStep

ForkTypeInv == ForkTypeOK /\ InboxInv

LEMMA StepTypes == ForkTypeInv /\ [ForkNext]_forkVars => ForkTypeInv'
<1> SUFFICES ASSUME ForkTypeOK, InboxInv, [ForkNext]_forkVars
             PROVE  ForkTypeOK' /\ InboxInv'
  BY DEF ForkTypeInv
<1>1. CASE UNCHANGED forkVars
  BY <1>1 DEF forkVars, ForkTypeOK, InboxInv
<1>2. CASE ForkNext
  BY <1>2, ChainStepTypes, ReadBlockTypes, OtherStepTypes DEF ForkNext
<1> QED
  BY <1>1, <1>2

\* The reader's maps, timers and passes keep their types, and what waits in the inbox
\* was sent in order and lies between the reader's lib and the chain's.
THEOREM ForkTypesKept == ForkSpec => [](ForkTypeOK /\ InboxInv)
BY InitTypes, StepTypes, PTL DEF ForkSpec, ForkTypeInv

-----------------------------------------------------------------------------
(* No fork is forgotten *)

\* An id is in good hands when a running pass has it before it, asks about it or
\* deletes it, or found that another pass is needed.
InHands(p, id) ==
    /\ pass[p].step # "idle"
    /\ \/ id \in pass[p].left
       \/ pass[p].step \in {"answered", "delete"} /\ id = pass[p].at
       \/ pass[p].pending

ForksInHands == \A id \in forked : armed \/ loose > 0 \/ \E p \in Passes : InHands(p, id)

LEMMA InHandsStep == ForkTypeInv /\ ForksInHands /\ [ForkNext]_forkVars => ForksInHands'
<1> SUFFICES ASSUME ForkTypeOK, InboxInv, ForksInHands, [ForkNext]_forkVars
             PROVE  ForksInHands'
  BY DEF ForkTypeInv
<1>1. pass \in [Passes -> PassRecord] /\ loose \in Nat /\ armed \in BOOLEAN
  BY DEF ForkTypeOK, PassRecord
<1>2. ASSUME forked' \subseteq forked, UNCHANGED <<armed, loose, pass>>
      PROVE  ForksInHands'
  BY <1>2 DEF ForksInHands, InHands
\* Where a pass p takes a step, the others hold what they held.
<1>3. ASSUME NEW p \in Passes, UNCHANGED <<armed, loose>>, forked' \subseteq forked,
             \A q \in Passes \ {p} : pass'[q] = pass[q],
             \A id \in forked' : InHands(p, id) => InHands(p, id)'
      PROVE  ForksInHands'
  <2> SUFFICES ASSUME NEW id \in forked', ~armed, ~(loose > 0)
               PROVE  \E q \in Passes : InHands(q, id)'
    BY <1>3 DEF ForksInHands
  <2>1. PICK q \in Passes : InHands(q, id)
    BY <1>3 DEF ForksInHands
  <2>2. CASE q = p
    BY <1>3, <2>1, <2>2
  <2>3. CASE q # p
    BY <1>3, <2>1, <2>3 DEF InHands
  <2> QED
    BY <2>2, <2>3
<1>4. CASE UNCHANGED forkVars
  BY <1>2, <1>4 DEF forkVars
<1>5. CASE ExtendBranch \/ SwitchBranch \/ AdvanceLib \/ IndexBlock
  BY <1>2, <1>5 DEF ExtendBranch, SwitchBranch, AdvanceLib, IndexBlock
<1>6. CASE ReadBlock
  <2> DEFINE e == Head(inbox)
             old == reversible[Num(e.id)]
  <2>1. /\ forked' = (forked \ {e.id}) \cup (IF Replaces(e.id, old) THEN {old} ELSE {})
        /\ IF Replaces(e.id, old) THEN mode' = TRUE /\ armed' = TRUE /\ loose' = loose
           ELSE UNCHANGED <<mode, armed, loose>>
        /\ pass' = pass
    BY <1>6, ReadBlockMaps
  <2>2. CASE Replaces(e.id, old)
    BY <2>1, <2>2 DEF ForksInHands
  <2>3. CASE ~Replaces(e.id, old)
    BY <1>2, <2>1, <2>3
  <2> QED
    BY <2>2, <2>3
<1>7. ASSUME NEW p \in Passes, StartPass(p)
      PROVE  ForksInHands'
  <2>1. pass'[p].step = "next" /\ pass'[p].left = forked /\ forked' = forked
    BY <1>1, <1>7 DEF StartPass, Started
  <2> QED
    BY <2>1 DEF ForksInHands, InHands
<1>8. ASSUME NEW p \in Passes, AskChain(p)
      PROVE  ForksInHands'
  <2>1. PICK id \in pass[p].left, answer \in {"found", "error"} :
           pass' = [pass EXCEPT ![p].step = "answered", ![p].at = id, ![p].answer = answer,
                                ![p].left = @ \ {id}]
    BY <1>8 DEF AskChain
  <2>2. id \in Ids
    BY <1>1 DEF PassRecord
  <2>3. /\ pass'[p].step = "answered" /\ pass'[p].at = id /\ pass'[p].left = pass[p].left \ {id}
        /\ pass'[p].pending = pass[p].pending
        /\ \A q \in Passes \ {p} : pass'[q] = pass[q]
    BY <1>1, <2>1, <2>2, AnswerRecordStep
  <2>4. UNCHANGED <<forked, armed, loose>> /\ pass[p].step = "next"
    BY <1>8 DEF AskChain
  <2>5. \A i \in forked' : InHands(p, i) => InHands(p, i)'
    BY <2>3, <2>4 DEF InHands
  <2> QED
    BY <1>3, <2>3, <2>4, <2>5
<1>9. ASSUME NEW p \in Passes, Dismiss(p) \/ DeleteBlock(p)
      PROVE  ForksInHands'
  <2>1. /\ pass' = [pass EXCEPT ![p].step = "next"] /\ pass[p].step \in {"answered", "delete"}
        /\ forked' = forked \ {pass[p].at} /\ UNCHANGED <<armed, loose>>
    BY <1>9 DEF Dismiss, DeleteBlock
  <2>2. /\ pass'[p].step = "next" /\ pass'[p].left = pass[p].left
        /\ pass'[p].pending = pass[p].pending
        /\ \A q \in Passes \ {p} : pass'[q] = pass[q]
    BY <1>1, <2>1 DEF PassRecord
  <2>3. \A i \in forked' : InHands(p, i) => InHands(p, i)'
    BY <2>1, <2>2 DEF InHands
  <2> QED
    BY <1>3, <2>1, <2>2, <2>3
<1>10. ASSUME NEW p \in Passes, Postpone(p)
       PROVE  ForksInHands'
  <2>1. /\ pass' = [pass EXCEPT ![p].step = "next", ![p].pending = TRUE]
        /\ UNCHANGED <<forked, armed, loose>>
    BY <1>10 DEF Postpone
  <2>2. /\ pass'[p].step = "next" /\ pass'[p].pending
        /\ \A q \in Passes \ {p} : pass'[q] = pass[q]
    BY <1>1, <2>1 DEF PassRecord
  <2>3. \A i \in forked' : InHands(p, i) => InHands(p, i)'
    BY <2>1, <2>2 DEF InHands
  <2> QED
    BY <1>3, <2>1, <2>2, <2>3
<1>11. ASSUME NEW p \in Passes, Condemn(p)
       PROVE  ForksInHands'
  <2>1. /\ pass' = [pass EXCEPT ![p].step = "delete"] /\ pass[p].step = "answered"
        /\ forked' \subseteq forked /\ UNCHANGED <<armed, loose>>
    BY <1>11 DEF Condemn
  <2>2. /\ pass'[p].step = "delete" /\ pass'[p].left = pass[p].left /\ pass'[p].at = pass[p].at
        /\ pass'[p].pending = pass[p].pending
        /\ \A q \in Passes \ {p} : pass'[q] = pass[q]
    BY <1>1, <2>1 DEF PassRecord
  <2>3. \A i \in forked' : InHands(p, i) => InHands(p, i)'
    BY <2>1, <2>2 DEF InHands
  <2> QED
    BY <1>3, <2>1, <2>2, <2>3
\* The end of a pass: the timer it forgets still fires, and it arms another one if an
\* id is pending.
<1>12. ASSUME NEW p \in Passes, EndPass(p)
       PROVE  ForksInHands'
  <2>1. /\ pass[p].step = "next" /\ pass[p].left = {} /\ forked' = forked
        /\ loose' = loose + StillArmed + IF pass[p].pending THEN 1 ELSE 0
        /\ pass' = [pass EXCEPT ![p] = Idle]
    BY <1>12 DEF EndPass
  <2>2. \A q \in Passes \ {p} : pass'[q] = pass[q]
    BY <1>1, <2>1
  <2>3. CASE armed \/ loose > 0 \/ pass[p].pending
    <3>1. loose' > 0
      BY <1>1, <2>1, <2>3 DEF StillArmed
    <3> QED
      BY <3>1 DEF ForksInHands
  <2>4. CASE ~(armed \/ loose > 0 \/ pass[p].pending)
    <3> SUFFICES ASSUME NEW id \in forked PROVE \E q \in Passes : InHands(q, id)'
      BY <2>1 DEF ForksInHands
    <3>1. PICK q \in Passes : InHands(q, id)
      BY <2>4 DEF ForksInHands
    <3>2. q # p
      BY <2>1, <2>4, <3>1 DEF InHands
    <3> QED
      BY <2>2, <3>1, <3>2 DEF InHands
  <2> QED
    BY <2>3, <2>4
<1> QED
  BY <1>4, <1>5, <1>6, <1>7, <1>8, <1>9, <1>10, <1>11, <1>12 DEF ForkNext, PassStep

LEMMA InHandsIsCovered == ForksInHands => NoForkForgotten
BY DEF ForksInHands, NoForkForgotten, InHands, Covered

\* No fork is forgotten, however many passes run at once: as long as an id is in
\* forkedBlocks, a timer is going to fire or a running pass has it before it.
THEOREM ForksAreRemembered == ForkSpec => []NoForkForgotten
<1>1. ForkInit => ForksInHands
  BY DEF ForkInit, ForksInHands
<1> QED
  BY <1>1, InitTypes, StepTypes, InHandsStep, InHandsIsCovered, PTL DEF ForkSpec, ForkTypeInv

-----------------------------------------------------------------------------
(* The map follows the chain *)

\* The last block of number n that waits is the chain's; when none waits, the map has
\* the chain's id if n is above the reader's lib, and none otherwise.
LastSent(n) ==
    \E i \in 1 .. Len(inbox) :
        /\ inbox[i].id = IdOn(branch, n)
        /\ \A j \in 1 .. Len(inbox) : j > i => Num(inbox[j].id) # n
Registered(n) ==
    /\ \A i \in 1 .. Len(inbox) : Num(inbox[i].id) # n
    /\ reversible[n] = IF n > localLib THEN IdOn(branch, n) ELSE NoId
MapInv == \A n \in 1 .. head : LastSent(n) \/ Registered(n)

\* Blocks sent on top of what waits are the chain's last word on their numbers.
LEMMA SentIsLast ==
    ASSUME ForkTypeOK, InboxInv, MapInv, NEW first \in 1 .. MaxHead, NEW last \in first .. MaxHead,
           Emit(branch', first, last), branch' \in {"A", "B"}, head' = last, first <= head + 1,
           \A n \in 1 .. first - 1 : IdOn(branch', n) = IdOn(branch, n),
           UNCHANGED <<reversible, localLib>>
    PROVE  MapInv'
<1>1. MaxHead \in Nat /\ head \in 1 .. MaxHead /\ lib \in 1 .. MaxHead /\ inbox \in Seq(Entry)
  BY ForkAssumption DEF ForkTypeOK, Entry
<1>2. /\ Len(inbox') = Len(inbox) + last - first + 1
      /\ \A i \in 1 .. Len(inbox) : inbox'[i] = inbox[i]
      /\ \A n \in first .. last :
            inbox'[Len(inbox) + n - first + 1] = [id |-> IdOn(branch', n), lib |-> lib]
      /\ \A i \in 1 .. Len(inbox') :
            i > Len(inbox) => \E n \in first .. last : i = Len(inbox) + n - first + 1
  BY <1>1, EmitAppends
<1>3. Len(inbox) \in Nat
  BY <1>1, LenProperties
<1>4. \A m \in first .. last :
         /\ inbox'[Len(inbox) + m - first + 1].id = IdOn(branch', m)
         /\ Num(inbox'[Len(inbox) + m - first + 1].id) = m
  <2> TAKE m \in first .. last
  <2>1. m \in 1 .. MaxHead
    BY <1>1
  <2>2. Num(IdOn(branch', m)) = m
    BY <2>1, IdFacts
  <2>3. inbox'[Len(inbox) + m - first + 1] = [id |-> IdOn(branch', m), lib |-> lib]
    BY <1>2
  <2> QED
    BY <2>2, <2>3
<1> SUFFICES ASSUME NEW n \in 1 .. last
             PROVE  LastSent(n)' \/ Registered(n)'
  BY DEF MapInv
<1>5. CASE n \in first .. last
  <2> DEFINE k == Len(inbox) + n - first + 1
  <2>1. k \in 1 .. Len(inbox') /\ k > Len(inbox) /\ inbox'[k].id = IdOn(branch', n)
    BY <1>2, <1>3, <1>4, <1>5
  <2>2. ASSUME NEW j \in 1 .. Len(inbox'), j > k
        PROVE  Num(inbox'[j].id) # n
    <3>1. j > Len(inbox)
      BY <1>3, <1>5, <2>2
    <3>2. PICK m \in first .. last : j = Len(inbox) + m - first + 1
      BY <1>2, <3>1
    <3>3. m # n
      BY <1>3, <1>5, <2>2, <3>2
    <3>4. Num(inbox'[j].id) = m
      BY <1>4, <3>2
    <3> QED
      BY <3>3, <3>4
  <2> HIDE DEF k
  <2> QED
    BY <2>1, <2>2 DEF LastSent
<1>6. CASE n < first
  <2>1. n \in 1 .. head /\ n \in 1 .. first - 1
    BY <1>1, <1>6
  <2>2. ASSUME NEW j \in 1 .. Len(inbox'), j > Len(inbox)
        PROVE  Num(inbox'[j].id) # n
    <3>1. PICK m \in first .. last : j = Len(inbox) + m - first + 1
      BY <1>2, <2>2
    <3>2. Num(inbox'[j].id) = m
      BY <1>4, <3>1
    <3> QED
      BY <1>6, <3>2
  <2>3. IdOn(branch', n) = IdOn(branch, n)
    BY <2>1
  <2>4. CASE LastSent(n)
    <3>1. PICK i \in 1 .. Len(inbox) :
             /\ inbox[i].id = IdOn(branch, n)
             /\ \A j \in 1 .. Len(inbox) : j > i => Num(inbox[j].id) # n
      BY <2>4 DEF LastSent
    <3>2. i \in 1 .. Len(inbox') /\ inbox'[i].id = IdOn(branch', n)
      BY <1>1, <1>2, <1>3, <2>3, <3>1
    <3>3. ASSUME NEW j \in 1 .. Len(inbox'), j > i
          PROVE  Num(inbox'[j].id) # n
      <4>1. CASE j > Len(inbox)
        BY <2>2, <4>1
      <4>2. CASE j \in 1 .. Len(inbox)
        BY <1>2, <3>1, <3>3, <4>2
      <4> QED
        BY <1>3, <4>1, <4>2
    <3> QED
      BY <3>2, <3>3 DEF LastSent
  <2>5. CASE Registered(n)
    <3>1. ASSUME NEW j \in 1 .. Len(inbox')
          PROVE  Num(inbox'[j].id) # n
      <4>1. CASE j > Len(inbox)
        BY <2>2, <4>1
      <4>2. CASE j \in 1 .. Len(inbox)
        BY <1>2, <2>5, <4>2 DEF Registered
      <4> QED
        BY <1>3, <4>1, <4>2
    <3> QED
      BY <2>3, <2>5, <3>1 DEF Registered
  <2> QED
    BY <2>1, <2>4, <2>5 DEF MapInv
<1> QED
  BY <1>5, <1>6

LEMMA MapStep == ForkTypeInv /\ MapInv /\ [ForkNext]_forkVars => MapInv'
<1> SUFFICES ASSUME ForkTypeOK, InboxInv, MapInv, [ForkNext]_forkVars
             PROVE  MapInv'
  BY DEF ForkTypeInv
<1>1. /\ MaxHead \in Nat /\ Fork \in 2 .. MaxHead /\ head \in 1 .. MaxHead /\ lib \in 1 .. head
      /\ branch \in {"A", "B"} /\ localLib \in Nat
  BY ForkAssumption DEF ForkTypeOK
<1>2. ASSUME UNCHANGED <<branch, head, inbox, reversible, localLib>>
      PROVE  MapInv'
  BY <1>2 DEF MapInv, LastSent, Registered
<1>3. CASE UNCHANGED forkVars
  BY <1>2, <1>3 DEF forkVars
<1>4. CASE ExtendBranch
  <2>1. /\ Emit(branch', head + 1, head + 1) /\ head' = head + 1 /\ branch' = branch
        /\ head + 1 \in 1 .. MaxHead
        /\ UNCHANGED <<reversible, localLib>>
    BY <1>1, <1>4 DEF ExtendBranch
  <2> QED
    BY <1>1, <2>1, SentIsLast
<1>5. CASE SwitchBranch
  <2>1. /\ Emit(branch', Fork, head + 1) /\ head' = head + 1 /\ Fork <= head
        /\ head + 1 \in 1 .. MaxHead
        /\ UNCHANGED <<reversible, localLib>>
    BY <1>1, <1>5 DEF SwitchBranch
  <2>2. branch' \in {"A", "B"}
    BY <1>1, <1>5 DEF SwitchBranch, Other
  <2>3. \A n \in 1 .. Fork - 1 : IdOn(branch', n) = IdOn(branch, n)
    BY <1>1 DEF IdOn
  <2> QED
    BY <1>1, <2>1, <2>2, <2>3, SentIsLast
<1>6. CASE AdvanceLib
  BY <1>2, <1>6 DEF AdvanceLib
<1>7. CASE ReadBlock
  <2> DEFINE e == Head(inbox)
  <2>1. /\ e.id \in Ids /\ e.lib \in 1 .. MaxHead /\ localLib <= e.lib /\ e.lib < Num(e.id)
        /\ Len(inbox) \in Nat \ {0} /\ e = inbox[1] /\ Num(e.id) \in 1 .. MaxHead
        /\ inbox' = Tail(inbox) /\ Len(inbox') = Len(inbox) - 1
        /\ \A i \in 1 .. Len(inbox) - 1 : inbox'[i] = inbox[i + 1]
    <3>1. inbox # <<>> /\ inbox' = Tail(inbox)
      BY <1>7, ReadBlockMaps
    <3> QED
      BY <3>1, HeadOfInbox
  <2>2. /\ localLib' = e.lib /\ branch' = branch /\ head' = head
        /\ \A k \in 1 .. MaxHead :
              reversible'[k] = IF k = Num(e.id) THEN e.id
                               ELSE IF localLib < e.lib /\ k <= e.lib THEN NoId
                               ELSE reversible[k]
    BY <1>7, ReadBlockMaps
  <2> HIDE DEF e
  <2> SUFFICES ASSUME NEW n \in 1 .. head
               PROVE  LastSent(n)' \/ Registered(n)'
    BY <2>2 DEF MapInv
  <2>3. n \in 1 .. MaxHead
    BY <1>1
  <2>4. \A j \in 1 .. Len(inbox') : j + 1 \in 1 .. Len(inbox) /\ inbox'[j] = inbox[j + 1]
    BY <2>1
  <2>5. CASE Registered(n)
    <3>1. \A i \in 1 .. Len(inbox') : Num(inbox'[i].id) # n
      BY <2>4, <2>5 DEF Registered
    <3>2. Num(e.id) # n
      BY <2>1, <2>5 DEF Registered
    <3>3. reversible'[n] = IF n > e.lib THEN IdOn(branch, n) ELSE NoId
      BY <1>1, <2>1, <2>2, <2>3, <2>5, <3>2 DEF Registered
    <3> QED
      BY <2>2, <3>1, <3>3 DEF Registered
  <2>6. CASE LastSent(n)
    <3>1. PICK i \in 1 .. Len(inbox) :
             /\ inbox[i].id = IdOn(branch, n)
             /\ \A j \in 1 .. Len(inbox) : j > i => Num(inbox[j].id) # n
      BY <2>6 DEF LastSent
    <3>2. Num(IdOn(branch, n)) = n
      BY <1>1, <2>3, IdFacts
    <3>3. CASE i = 1
      <4>1. e.id = IdOn(branch, n) /\ Num(e.id) = n
        BY <2>1, <3>1, <3>2, <3>3
      <4>2. \A j \in 1 .. Len(inbox') : Num(inbox'[j].id) # n
        BY SMTT(30), <2>4, <3>1, <3>3
      <4>3. reversible'[n] = IdOn(branch, n) /\ n > e.lib
        BY <2>1, <2>2, <2>3, <4>1
      <4> QED
        BY <2>2, <4>2, <4>3 DEF Registered
    <3>4. CASE i > 1
      <4>1. i - 1 \in 1 .. Len(inbox') /\ inbox'[i - 1].id = IdOn(branch, n)
        BY <2>1, <3>1, <3>4
      <4>2. \A j \in 1 .. Len(inbox') : j > i - 1 => Num(inbox'[j].id) # n
        BY <2>4, <3>1, <3>4
      <4> QED
        BY <2>2, <4>1, <4>2 DEF LastSent
    <3> QED
      BY <3>3, <3>4
  <2> QED
    BY <2>5, <2>6 DEF MapInv
<1>8. CASE IndexBlock \/ \E p \in Passes : StartPass(p) \/ PassStep(p)
  BY <1>2, <1>8, OtherStepTypes
<1> QED
  BY <1>3, <1>4, <1>5, <1>6, <1>7, <1>8 DEF ForkNext

\* Once all that was sent is read, the map has exactly the chain's ids above the
\* reader's lib, whatever branches came and went.
THEOREM MapIsTheChain == ForkSpec => []MapFollowsChain
<1>1. ForkInit => MapInv
  <2> SUFFICES ASSUME ForkInit PROVE Registered(1) /\ head = 1
    BY DEF MapInv
  <2>1. inbox = <<>> /\ Len(inbox) = 0 /\ head = 1 /\ localLib = 1
    BY DEF ForkInit
  <2>2. reversible[1] = NoId
    BY ForkAssumption DEF ForkInit
  <2> QED
    BY <2>1, <2>2 DEF Registered
<1>2. MapInv => MapFollowsChain
  BY DEF MapInv, MapFollowsChain, LastSent, Registered
<1> QED
  BY <1>1, <1>2, InitTypes, StepTypes, MapStep, PTL DEF ForkSpec, ForkTypeInv

-----------------------------------------------------------------------------
(* Blocks of the chain stay indexed *)

\* While the chain changes branch at most once, a block of branch "A" never follows
\* one of branch "B" that has its number, in the inbox or in the map.
OrderInv ==
    /\ switches \in Nat
    /\ \A n \in 1 .. MaxHead : reversible[n] # NoId => Num(reversible[n]) = n
    /\ switches = 0 => /\ branch = "A"
                       /\ \A i \in 1 .. Len(inbox) : inbox[i].id[2] = "A"
                       /\ \A n \in 1 .. MaxHead : reversible[n][2] = "A"
    /\ switches = 1 => /\ branch = "B"
                       /\ \A i, j \in 1 .. Len(inbox) :
                             /\ i < j /\ inbox[i].id[2] = "B"
                             /\ Num(inbox[i].id) = Num(inbox[j].id)
                             => inbox[j].id[2] = "B"
                       /\ \A n \in 1 .. MaxHead, i \in 1 .. Len(inbox) :
                             reversible[n][2] = "B" /\ Num(inbox[i].id) = n
                             => inbox[i].id[2] = "B"

LEMMA SentKeepsOrder ==
    ASSUME ForkTypeOK, OrderInv, NEW first \in 1 .. MaxHead, NEW last \in first .. MaxHead,
           Emit(branch', first, last), branch' \in {"A", "B"}, UNCHANGED reversible,
           switches' \in {switches, switches + 1},
           switches' = 0 => branch' = "A", switches' = 1 => branch' = "B"
    PROVE  OrderInv'
<1>1. MaxHead \in Nat /\ head \in 1 .. MaxHead /\ lib \in 1 .. MaxHead /\ inbox \in Seq(Entry)
  BY ForkAssumption DEF ForkTypeOK, Entry
<1>2. /\ Len(inbox') = Len(inbox) + last - first + 1
      /\ \A i \in 1 .. Len(inbox) : inbox'[i] = inbox[i]
      /\ \A n \in first .. last :
            inbox'[Len(inbox) + n - first + 1] = [id |-> IdOn(branch', n), lib |-> lib]
      /\ \A i \in 1 .. Len(inbox') :
            i > Len(inbox) => \E n \in first .. last : i = Len(inbox) + n - first + 1
  BY <1>1, EmitAppends
<1>3. Len(inbox) \in Nat
  BY <1>1, LenProperties
<1>4. \A i \in 1 .. Len(inbox) : inbox[i].id \in Ids
  <2>1. \A i \in 1 .. Len(inbox) : inbox[i] \in Entry
    BY <1>1, ElementOfSeq
  <2> QED
    BY <2>1 DEF Entry
<1>5. ASSUME NEW i \in 1 .. Len(inbox'), i > Len(inbox)
      PROVE  /\ inbox'[i].id \in Ids
             /\ branch' = "A" => inbox'[i].id[2] = "A"
             /\ branch' = "B" /\ Num(inbox'[i].id) >= Fork => inbox'[i].id[2] = "B"
  <2>1. PICK n \in first .. last : i = Len(inbox) + n - first + 1
    BY <1>2, <1>5
  <2>2. n \in 1 .. MaxHead
    BY <1>1
  <2>3. inbox'[i] = [id |-> IdOn(branch', n), lib |-> lib]
    BY <1>2, <2>1
  <2>4. inbox'[i].id = IdOn(branch', n) /\ inbox'[i].id \in Ids /\ Num(inbox'[i].id) = n
    BY <2>2, <2>3, IdFacts
  <2> QED
    BY SMTT(30), <2>2, <2>4, ForkAssumption DEF IdOn
<1>6. \A i \in 1 .. Len(inbox') :
         \/ i \in 1 .. Len(inbox) /\ inbox'[i] = inbox[i]
         \/ i > Len(inbox)
  BY <1>2, <1>3
<1>7. switches' \in Nat /\ (switches' = 0 => switches = 0) /\ (switches' = 1 => switches \in {0, 1})
  BY DEF OrderInv
<1>8. \A n \in 1 .. MaxHead : reversible'[n] # NoId => Num(reversible'[n]) = n
  BY DEF OrderInv
<1>9. ASSUME switches' = 0
      PROVE  /\ branch' = "A"
             /\ \A i \in 1 .. Len(inbox') : inbox'[i].id[2] = "A"
             /\ \A n \in 1 .. MaxHead : reversible'[n][2] = "A"
  BY <1>5, <1>6, <1>7, <1>9 DEF OrderInv
<1>10. ASSUME switches' = 1
       PROVE  /\ branch' = "B"
              /\ \A i, j \in 1 .. Len(inbox') :
                    /\ i < j /\ inbox'[i].id[2] = "B"
                    /\ Num(inbox'[i].id) = Num(inbox'[j].id)
                    => inbox'[j].id[2] = "B"
              /\ \A n \in 1 .. MaxHead, i \in 1 .. Len(inbox') :
                    reversible'[n][2] = "B" /\ Num(inbox'[i].id) = n
                    => inbox'[i].id[2] = "B"
  <2>1. branch' = "B" /\ switches \in {0, 1}
    BY <1>7, <1>10
  <2>2. \A i \in 1 .. Len(inbox') : inbox'[i].id \in Ids
    BY <1>4, <1>5, <1>6
  <2>3. \A i \in 1 .. Len(inbox') : inbox'[i].id[2] = "B" => Num(inbox'[i].id) >= Fork
    <3>1. \A id \in Ids : id[2] = "B" => Num(id) >= Fork
      BY NumberOfId, ForkAssumption
    <3> QED
      BY <2>2, <3>1, Zenon
  <2>4. ASSUME NEW i \in 1 .. Len(inbox'), NEW j \in 1 .. Len(inbox'),
               i < j, inbox'[i].id[2] = "B", Num(inbox'[i].id) = Num(inbox'[j].id)
        PROVE  inbox'[j].id[2] = "B"
    <3>1. CASE j > Len(inbox)
      BY <1>5, <2>1, <2>3, <2>4, <3>1
    <3>2. CASE j \in 1 .. Len(inbox) /\ inbox'[j] = inbox[j]
      <4>1. i \in 1 .. Len(inbox) /\ inbox'[i] = inbox[i]
        BY <1>2, <1>3, <2>4, <3>2
      <4> QED
        BY <2>1, <2>4, <3>2, <4>1 DEF OrderInv
    <3> QED
      BY <1>6, <3>1, <3>2
  <2>5. ASSUME NEW n \in 1 .. MaxHead, NEW i \in 1 .. Len(inbox'),
               reversible'[n][2] = "B", Num(inbox'[i].id) = n
        PROVE  inbox'[i].id[2] = "B"
    <3>1. reversible[n][2] = "B" /\ switches = 1
      BY <2>1, <2>5 DEF OrderInv
    <3>2. CASE i > Len(inbox)
      <4>1. reversible[n] # NoId /\ reversible[n] \in Ids
        BY <3>1 DEF ForkTypeOK, NoId
      <4>2. n >= Fork
        BY SMTT(30), <3>1, <4>1, NumberOfId, ForkAssumption DEF OrderInv
      <4> QED
        BY <1>5, <2>1, <2>5, <3>2, <4>2
    <3>3. CASE i \in 1 .. Len(inbox) /\ inbox'[i] = inbox[i]
      BY <2>5, <3>1, <3>3 DEF OrderInv
    <3> QED
      BY <1>6, <3>2, <3>3
  <2> QED
    BY <2>1, <2>4, <2>5
<1> QED
  BY <1>7, <1>8, <1>9, <1>10 DEF OrderInv

LEMMA OrderStep == ForkTypeInv /\ OrderInv /\ [ForkNext]_forkVars => OrderInv'
<1> SUFFICES ASSUME ForkTypeOK, InboxInv, OrderInv, [ForkNext]_forkVars
             PROVE  OrderInv'
  BY DEF ForkTypeInv
<1>1. /\ MaxHead \in Nat /\ Fork \in 2 .. MaxHead /\ head \in 1 .. MaxHead /\ lib \in 1 .. head
      /\ branch \in {"A", "B"} /\ localLib \in Nat /\ switches \in Nat
  BY ForkAssumption DEF ForkTypeOK, OrderInv
<1>2. ASSUME UNCHANGED <<branch, switches, inbox, reversible>>
      PROVE  OrderInv'
  BY <1>2 DEF OrderInv
<1>3. CASE UNCHANGED forkVars
  BY <1>2, <1>3 DEF forkVars
<1>4. CASE ExtendBranch
  <2>1. /\ Emit(branch', head + 1, head + 1) /\ branch' = branch /\ switches' = switches
        /\ head + 1 \in 1 .. MaxHead /\ UNCHANGED reversible
    BY <1>1, <1>4 DEF ExtendBranch
  <2>2. (switches' = 0 => branch' = "A") /\ (switches' = 1 => branch' = "B")
    BY <2>1 DEF OrderInv
  <2> QED
    BY <1>1, <2>1, <2>2, SentKeepsOrder
<1>5. CASE SwitchBranch
  <2>1. /\ Emit(branch', Fork, head + 1) /\ branch' = Other(branch) /\ switches' = switches + 1
        /\ head + 1 \in Fork .. MaxHead /\ Fork \in 1 .. MaxHead /\ UNCHANGED reversible
    BY <1>1, <1>5 DEF SwitchBranch
  <2>2. branch' \in {"A", "B"} /\ (switches = 0 => branch' = "B")
    BY <1>1, <2>1 DEF Other, OrderInv
  <2>3. (switches' = 0 => branch' = "A") /\ (switches' = 1 => branch' = "B")
    BY <1>1, <2>1, <2>2
  <2> QED
    BY <2>1, <2>2, <2>3, SentKeepsOrder
<1>6. CASE AdvanceLib
  BY <1>2, <1>6 DEF AdvanceLib
<1>7. CASE ReadBlock
  <2> DEFINE e == Head(inbox)
  <2>1. inbox # <<>> /\ inbox' = Tail(inbox) /\ UNCHANGED <<branch, switches>>
    BY <1>7, ReadBlockMaps
  <2>2. /\ e.id \in Ids /\ Len(inbox) \in Nat \ {0} /\ e = inbox[1] /\ Num(e.id) \in 1 .. MaxHead
        /\ Len(inbox') = Len(inbox) - 1
        /\ \A i \in 1 .. Len(inbox) - 1 : inbox'[i] = inbox[i + 1]
    BY <2>1, HeadOfInbox
  <2>3. \A k \in 1 .. MaxHead :
           reversible'[k] = IF k = Num(e.id) THEN e.id
                            ELSE IF localLib < e.lib /\ k <= e.lib THEN NoId
                            ELSE reversible[k]
    BY <1>7, ReadBlockMaps
  <2> HIDE DEF e
  <2>4. \A j \in 1 .. Len(inbox') : j + 1 \in 1 .. Len(inbox) /\ inbox'[j] = inbox[j + 1]
    BY <2>2
  <2>5. 1 \in 1 .. Len(inbox) /\ NoId[2] = "A"
    BY <2>2 DEF NoId
  <2>6. \A n \in 1 .. MaxHead : reversible'[n] # NoId => Num(reversible'[n]) = n
    BY <2>3 DEF OrderInv
  <2>7. ASSUME switches = 0
        PROVE  /\ \A i \in 1 .. Len(inbox') : inbox'[i].id[2] = "A"
               /\ \A n \in 1 .. MaxHead : reversible'[n][2] = "A"
    BY SMTT(30), <2>2, <2>3, <2>4, <2>5, <2>7 DEF OrderInv
  <2>8. ASSUME switches = 1, NEW i \in 1 .. Len(inbox'), NEW j \in 1 .. Len(inbox'),
               i < j, inbox'[i].id[2] = "B", Num(inbox'[i].id) = Num(inbox'[j].id)
        PROVE  inbox'[j].id[2] = "B"
    <3>1. /\ i + 1 \in 1 .. Len(inbox) /\ inbox'[i] = inbox[i + 1]
          /\ j + 1 \in 1 .. Len(inbox) /\ inbox'[j] = inbox[j + 1]
          /\ i + 1 < j + 1
      BY <2>2, <2>4, <2>8
    <3> QED
      BY <2>8, <3>1 DEF OrderInv
  <2>9. ASSUME switches = 1, NEW n \in 1 .. MaxHead, NEW i \in 1 .. Len(inbox'),
               reversible'[n][2] = "B", Num(inbox'[i].id) = n
        PROVE  inbox'[i].id[2] = "B"
    <3>1. i + 1 \in 1 .. Len(inbox) /\ inbox'[i] = inbox[i + 1] /\ 1 < i + 1
      BY <2>2, <2>4
    <3>2. CASE n = Num(e.id)
      <4>1. reversible'[n] = e.id /\ e.id[2] = "B" /\ e = inbox[1]
        BY <2>2, <2>3, <2>9, <3>2
      <4> QED
        BY <2>5, <2>9, <3>1, <3>2, <4>1 DEF OrderInv
    <3>3. CASE n # Num(e.id)
      <4>1. reversible'[n] = reversible[n]
        BY <2>3, <2>5, <2>9, <3>3
      <4> QED
        BY <2>9, <3>1, <4>1 DEF OrderInv
    <3> QED
      BY <3>2, <3>3
  <2>10. (switches = 0 => branch = "A") /\ (switches = 1 => branch = "B")
    BY DEF OrderInv
  <2> QED
    BY <1>1, <2>1, <2>6, <2>7, <2>8, <2>9, <2>10 DEF OrderInv
<1>8. CASE IndexBlock \/ \E p \in Passes : StartPass(p) \/ PassStep(p)
  BY <1>2, <1>8, OtherStepTypes
<1> QED
  BY <1>3, <1>4, <1>5, <1>6, <1>7, <1>8 DEF ForkNext

\* Ids a pass may delete, now or later.
Victims == forked \cup {id \in Ids : \E p \in Passes :
              \/ id \in pass[p].left
              \/ pass[p].step \in {"answered", "delete"} /\ id = pass[p].at}
AtIsId == \A p \in Passes : pass[p].step \in {"answered", "delete"} => pass[p].at \in Ids

\* While the chain changes branch at most once, they are blocks of branch "A" that the
\* chain left.
VictimInv ==
    /\ AtIsId
    /\ switches <= 1 => \A id \in Victims : switches = 1 /\ Num(id) >= Fork /\ id[2] = "A"

LEMMA VictimStep == ForkTypeInv /\ OrderInv /\ VictimInv /\ [ForkNext]_forkVars => VictimInv'
<1> SUFFICES ASSUME ForkTypeOK, InboxInv, OrderInv, VictimInv, [ForkNext]_forkVars
             PROVE  VictimInv'
  BY DEF ForkTypeInv
<1>1. pass \in [Passes -> PassRecord] /\ switches \in Nat
  BY DEF ForkTypeOK, PassRecord, OrderInv
<1>2. ASSUME Victims' \subseteq Victims, AtIsId', switches' = switches
      PROVE  VictimInv'
  BY <1>2 DEF VictimInv
<1>3. ASSUME UNCHANGED <<forked, pass, switches>>
      PROVE  VictimInv'
  BY <1>3 DEF VictimInv, AtIsId, Victims
<1>4. CASE UNCHANGED forkVars
  BY <1>3, <1>4 DEF forkVars
<1>5. CASE ExtendBranch \/ AdvanceLib \/ IndexBlock
  BY <1>3, <1>5 DEF ExtendBranch, AdvanceLib, IndexBlock
\* Before the first change of branch there is nothing to delete, and after the second
\* one nothing is promised.
<1>6. CASE SwitchBranch
  <2>1. UNCHANGED <<forked, pass>> /\ switches' = switches + 1
    BY <1>6 DEF SwitchBranch
  <2>2. AtIsId' /\ Victims' = Victims
    BY <2>1 DEF VictimInv, AtIsId, Victims
  <2>3. switches' <= 1 => switches = 0 /\ switches' = 1
    BY <1>1, <2>1
  <2>4. switches' <= 1 => Victims = {}
    BY <1>1, <2>3 DEF VictimInv
  <2> QED
    BY <2>2, <2>4 DEF VictimInv
<1>7. CASE ReadBlock
  <2> DEFINE e == Head(inbox)
             n == Num(e.id)
             old == reversible[n]
  <2>1. inbox # <<>> /\ UNCHANGED <<branch, switches, pass>>
        /\ forked' = (forked \ {e.id}) \cup (IF Replaces(e.id, old) THEN {old} ELSE {})
    BY <1>7, ReadBlockMaps
  <2>2. /\ e.id \in Ids /\ Len(inbox) \in Nat \ {0} /\ e = inbox[1] /\ n \in 1 .. MaxHead
    BY <2>1, HeadOfInbox
  <2>3. AtIsId' /\ Victims' \subseteq Victims \cup (IF Replaces(e.id, old) THEN {old} ELSE {})
    BY <2>1 DEF VictimInv, AtIsId, Victims
  <2>4. ASSUME Replaces(e.id, old), switches <= 1
        PROVE  switches = 1 /\ Num(old) >= Fork /\ old[2] = "A"
    <3>1. old \in Ids /\ Num(old) = n /\ old # e.id
      BY <2>2, <2>4 DEF Replaces, ForkTypeOK, OrderInv
    <3>2. /\ e.id = <<n, e.id[2]>> /\ e.id[2] \in {"A", "B"} /\ (n < Fork => e.id[2] = "A")
      BY <2>2, NumberOfId
    <3>3. /\ old = <<n, old[2]>> /\ old[2] \in {"A", "B"} /\ (n < Fork => old[2] = "A")
      BY <3>1, NumberOfId
    <3>4. e.id[2] # old[2]
      BY <3>1, <3>2, <3>3
    <3>5. n >= Fork
      BY <2>2, <3>2, <3>3, <3>4, ForkAssumption
    <3>6. 1 \in 1 .. Len(inbox)
      BY <2>2
    <3>7. switches = 1
      BY <1>1, <2>2, <2>4, <3>4, <3>6 DEF OrderInv
    <3>8. old[2] = "A"
      BY <2>2, <3>2, <3>3, <3>4, <3>6, <3>7 DEF OrderInv
    <3> QED
      BY <3>1, <3>5, <3>7, <3>8
  <2> HIDE DEF e, n, old
  <2> QED
    BY <2>1, <2>3, <2>4 DEF VictimInv
<1>8. ASSUME NEW p \in Passes, StartPass(p)
      PROVE  VictimInv'
  <2>1. /\ pass'[p].step = "next" /\ pass'[p].left = forked
        /\ \A q \in Passes \ {p} : pass'[q] = pass[q]
        /\ forked' = forked /\ switches' = switches
    BY <1>1, <1>8 DEF StartPass, Started
  <2>2. AtIsId'
    BY <2>1 DEF VictimInv, AtIsId
  <2>3. Victims' \subseteq Victims
    BY <2>1 DEF Victims
  <2> QED
    BY <1>2, <2>1, <2>2, <2>3
<1>9. ASSUME NEW p \in Passes, AskChain(p)
      PROVE  VictimInv'
  <2>1. PICK id \in pass[p].left, answer \in {"found", "error"} :
           pass' = [pass EXCEPT ![p].step = "answered", ![p].at = id, ![p].answer = answer,
                                ![p].left = @ \ {id}]
    BY <1>9 DEF AskChain
  <2>2. id \in Ids
    BY <1>1 DEF PassRecord
  <2>3. /\ pass'[p].step = "answered" /\ pass'[p].at = id /\ pass'[p].left = pass[p].left \ {id}
        /\ \A q \in Passes \ {p} : pass'[q] = pass[q]
    BY <1>1, <2>1, <2>2, AnswerRecordStep
  <2>4. forked' = forked /\ switches' = switches
    BY <1>9 DEF AskChain
  <2>5. AtIsId'
    BY <2>2, <2>3 DEF VictimInv, AtIsId
  <2>6. Victims' \subseteq Victims
    BY <2>3, <2>4 DEF Victims
  <2> QED
    BY <1>2, <2>4, <2>5, <2>6
<1>10. ASSUME NEW p \in Passes, Dismiss(p) \/ Postpone(p) \/ DeleteBlock(p)
       PROVE  VictimInv'
  <2>1. /\ \/ pass' = [pass EXCEPT ![p].step = "next"]
           \/ pass' = [pass EXCEPT ![p].step = "next", ![p].pending = TRUE]
        /\ forked' \subseteq forked /\ switches' = switches
    BY <1>10 DEF Dismiss, Postpone, DeleteBlock
  <2>2. /\ pass'[p].step = "next" /\ pass'[p].left = pass[p].left
        /\ \A q \in Passes \ {p} : pass'[q] = pass[q]
    BY <1>1, <2>1 DEF PassRecord
  <2>3. AtIsId'
    BY <2>2 DEF VictimInv, AtIsId
  <2>4. Victims' \subseteq Victims
    BY <2>1, <2>2 DEF Victims
  <2> QED
    BY <1>2, <2>1, <2>3, <2>4
<1>11. ASSUME NEW p \in Passes, Condemn(p)
       PROVE  VictimInv'
  <2>1. /\ pass' = [pass EXCEPT ![p].step = "delete"] /\ pass[p].step = "answered"
        /\ forked' \subseteq forked /\ switches' = switches
    BY <1>11 DEF Condemn
  <2>2. /\ pass'[p].step = "delete" /\ pass'[p].left = pass[p].left /\ pass'[p].at = pass[p].at
        /\ \A q \in Passes \ {p} : pass'[q] = pass[q]
    BY <1>1, <2>1 DEF PassRecord
  <2>3. AtIsId'
    BY <2>1, <2>2 DEF VictimInv, AtIsId
  <2>4. Victims' \subseteq Victims
    BY <2>1, <2>2 DEF Victims
  <2> QED
    BY <1>2, <2>1, <2>3, <2>4
<1>12. ASSUME NEW p \in Passes, EndPass(p)
       PROVE  VictimInv'
  <2>1. /\ pass'[p].step = "idle" /\ pass'[p].left = {}
        /\ \A q \in Passes \ {p} : pass'[q] = pass[q]
        /\ forked' = forked /\ switches' = switches
    BY <1>1, <1>12 DEF EndPass, Idle
  <2>2. AtIsId'
    BY <2>1 DEF VictimInv, AtIsId
  <2>3. Victims' \subseteq Victims
    BY <2>1 DEF Victims
  <2> QED
    BY <1>2, <2>1, <2>2, <2>3
<1> QED
  BY <1>4, <1>5, <1>6, <1>7, <1>8, <1>9, <1>10, <1>11, <1>12 DEF ForkNext, PassStep

\* A block that waits in the inbox, is on its way to the store or is in the store.
Kept(id) ==
    \/ id \in docs
    \/ \E i \in 1 .. Len(inbox) : inbox[i].id = id
    \/ \E i \in 1 .. Len(pipeline) : pipeline[i] = id
KeptInv == switches <= 1 => \A n \in 1 .. head : Kept(IdOn(branch, n))

LEMMA SentIsKept ==
    ASSUME ForkTypeOK, KeptInv, NEW first \in 1 .. MaxHead, NEW last \in first .. MaxHead,
           Emit(branch', first, last), branch' \in {"A", "B"}, head' = last, first <= head + 1,
           \A n \in 1 .. first - 1 : IdOn(branch', n) = IdOn(branch, n),
           switches' <= 1 => switches <= 1, UNCHANGED <<docs, pipeline>>
    PROVE  KeptInv'
<1>1. MaxHead \in Nat /\ head \in 1 .. MaxHead /\ lib \in 1 .. MaxHead /\ inbox \in Seq(Entry)
  BY ForkAssumption DEF ForkTypeOK, Entry
<1>2. /\ Len(inbox') = Len(inbox) + last - first + 1
      /\ \A i \in 1 .. Len(inbox) : inbox'[i] = inbox[i]
      /\ \A n \in first .. last :
            inbox'[Len(inbox) + n - first + 1] = [id |-> IdOn(branch', n), lib |-> lib]
  BY <1>1, EmitAppends
<1>3. Len(inbox) \in Nat
  BY <1>1, LenProperties
<1>4. \A i \in 1 .. Len(inbox) : i \in 1 .. Len(inbox')
  BY <1>1, <1>2, <1>3
<1>5. \A id : Kept(id) => Kept(id)'
  BY <1>2, <1>4 DEF Kept
<1> SUFFICES ASSUME switches <= 1, NEW n \in 1 .. last
             PROVE  Kept(IdOn(branch, n))'
  BY DEF KeptInv
<1>6. CASE n \in first .. last
  <2>1. Len(inbox) + n - first + 1 \in 1 .. Len(inbox')
    BY <1>2, <1>3, <1>6
  <2>2. inbox'[Len(inbox) + n - first + 1] = [id |-> IdOn(branch', n), lib |-> lib]
    BY <1>2, <1>6
  <2>3. inbox'[Len(inbox) + n - first + 1].id = IdOn(branch', n)
    BY <2>2
  <2> QED
    BY <2>1, <2>3 DEF Kept
<1>7. CASE n < first
  <2>1. n \in 1 .. head /\ n \in 1 .. first - 1
    BY <1>1, <1>7
  <2>2. Kept(IdOn(branch, n)) /\ IdOn(branch', n) = IdOn(branch, n)
    BY <2>1 DEF KeptInv
  <2> QED
    BY <1>5, <2>2
<1> QED
  BY <1>6, <1>7

LEMMA KeptStep ==
    ForkTypeInv /\ OrderInv /\ VictimInv /\ KeptInv /\ [ForkNext]_forkVars => KeptInv'
<1> SUFFICES ASSUME ForkTypeOK, InboxInv, OrderInv, VictimInv, KeptInv, [ForkNext]_forkVars
             PROVE  KeptInv'
  BY DEF ForkTypeInv
<1>1. /\ MaxHead \in Nat /\ Fork \in 2 .. MaxHead /\ head \in 1 .. MaxHead /\ lib \in 1 .. head
      /\ branch \in {"A", "B"} /\ switches \in Nat /\ inbox \in Seq(Entry) /\ pipeline \in Seq(Ids)
  BY ForkAssumption DEF ForkTypeOK, OrderInv, Entry
<1>2. ASSUME \A n \in 1 .. head : Kept(IdOn(branch, n)) => Kept(IdOn(branch, n))',
             UNCHANGED <<branch, head, switches>>
      PROVE  KeptInv'
  BY <1>2 DEF KeptInv
<1>3. ASSUME UNCHANGED <<branch, head, switches, inbox, pipeline, docs>>
      PROVE  KeptInv'
  BY <1>3 DEF KeptInv, Kept
<1>4. CASE UNCHANGED forkVars
  BY <1>3, <1>4 DEF forkVars
<1>5. CASE ExtendBranch
  <2>1. /\ Emit(branch', head + 1, head + 1) /\ head' = head + 1 /\ branch' = branch
        /\ switches' = switches /\ head + 1 \in 1 .. MaxHead
        /\ UNCHANGED <<docs, pipeline>>
    BY <1>1, <1>5 DEF ExtendBranch
  <2> QED
    BY <1>1, <2>1, SentIsKept
<1>6. CASE SwitchBranch
  <2>1. /\ Emit(branch', Fork, head + 1) /\ head' = head + 1 /\ Fork <= head
        /\ switches' = switches + 1 /\ head + 1 \in Fork .. MaxHead /\ Fork \in 1 .. MaxHead
        /\ UNCHANGED <<docs, pipeline>>
    BY <1>1, <1>6 DEF SwitchBranch
  <2>2. branch' \in {"A", "B"}
    BY <1>1, <1>6 DEF SwitchBranch, Other
  <2>3. \A n \in 1 .. Fork - 1 : IdOn(branch', n) = IdOn(branch, n)
    BY <1>1 DEF IdOn
  <2>4. switches' <= 1 => switches <= 1
    BY <1>1, <2>1
  <2> QED
    BY <1>1, <2>1, <2>2, <2>3, <2>4, SentIsKept
<1>7. CASE AdvanceLib
  BY <1>3, <1>7 DEF AdvanceLib
\* What is read goes into the pipeline.
<1>8. CASE ReadBlock
  <2> DEFINE e == Head(inbox)
  <2>1. /\ inbox # <<>> /\ inbox' = Tail(inbox) /\ pipeline' = Append(pipeline, e.id)
        /\ UNCHANGED <<branch, head, switches, docs>>
    BY <1>8, ReadBlockMaps
  <2>2. /\ e.id \in Ids /\ Len(inbox) \in Nat \ {0} /\ e = inbox[1]
        /\ Len(inbox') = Len(inbox) - 1
        /\ \A i \in 1 .. Len(inbox) - 1 : inbox'[i] = inbox[i + 1]
    BY <2>1, HeadOfInbox
  <2>3. /\ Len(pipeline) \in Nat /\ Len(pipeline') = Len(pipeline) + 1
        /\ \A i \in 1 .. Len(pipeline) : pipeline'[i] = pipeline[i]
        /\ pipeline'[Len(pipeline) + 1] = e.id
    BY <1>1, <2>1, <2>2, AppendProperties, LenProperties
  <2> HIDE DEF e
  <2>4. ASSUME NEW id, Kept(id)
        PROVE  Kept(id)'
    <3>1. CASE id \in docs
      BY <2>1, <3>1 DEF Kept
    <3>2. ASSUME NEW i \in 1 .. Len(inbox), inbox[i].id = id
          PROVE  Kept(id)'
      <4>1. CASE i = 1
        <5>1. Len(pipeline) + 1 \in 1 .. Len(pipeline') /\ pipeline'[Len(pipeline) + 1] = id
          BY <2>2, <2>3, <3>2, <4>1
        <5> QED
          BY <5>1 DEF Kept
      <4>2. CASE i # 1
        <5>1. i - 1 \in 1 .. Len(inbox') /\ inbox'[i - 1] = inbox[i]
          BY <2>2, <4>2
        <5> QED
          BY <3>2, <5>1 DEF Kept
      <4> QED
        BY <4>1, <4>2
    <3>3. ASSUME NEW i \in 1 .. Len(pipeline), pipeline[i] = id
          PROVE  Kept(id)'
      <4>1. i \in 1 .. Len(pipeline') /\ pipeline'[i] = id
        BY <2>3, <3>3
      <4> QED
        BY <4>1 DEF Kept
    <3> QED
      BY <2>4, <3>1, <3>2, <3>3 DEF Kept
  <2>5. \A n \in 1 .. head : Kept(IdOn(branch, n)) => Kept(IdOn(branch, n))'
    <3> TAKE n \in 1 .. head
    <3> DEFINE id == IdOn(branch, n)
    <3>1. Kept(id) => Kept(IdOn(branch, n))'
      BY <2>1, <2>4 DEF Kept
    <3> QED
      BY <3>1
  <2> QED
    BY <1>2, <2>1, <2>5
\* What is indexed leaves it.
<1>9. CASE IndexBlock
  <2>1. /\ pipeline # <<>> /\ docs' = docs \cup {Head(pipeline)} /\ pipeline' = Tail(pipeline)
        /\ UNCHANGED <<branch, head, switches, inbox>>
    BY <1>9 DEF IndexBlock
  <2>2. /\ Len(pipeline) \in Nat \ {0} /\ Head(pipeline) = pipeline[1]
        /\ Len(pipeline') = Len(pipeline) - 1
        /\ \A i \in 1 .. Len(pipeline) - 1 : pipeline'[i] = pipeline[i + 1]
    BY <1>1, <2>1, HeadTailProperties, LenProperties, EmptySeq
  <2>3. ASSUME NEW n \in 1 .. head, Kept(IdOn(branch, n))
        PROVE  Kept(IdOn(branch, n))'
    <3> DEFINE id == IdOn(branch, n)
    <3>1. IdOn(branch', n) = id
      BY <2>1
    <3> HIDE DEF id
    <3>2. CASE id \in docs \/ \E i \in 1 .. Len(inbox) : inbox[i].id = id
      BY <2>1, <3>1, <3>2 DEF Kept
    <3>3. ASSUME NEW i \in 1 .. Len(pipeline), pipeline[i] = id
          PROVE  Kept(IdOn(branch, n))'
      <4>1. CASE i = 1
        BY <2>1, <2>2, <3>1, <3>3, <4>1 DEF Kept
      <4>2. CASE i # 1
        <5>1. i - 1 \in 1 .. Len(pipeline') /\ pipeline'[i - 1] = pipeline[i]
          BY <2>2, <4>2
        <5> QED
          BY <3>1, <3>3, <5>1 DEF Kept
      <4> QED
        BY <4>1, <4>2
    <3> QED
      BY <2>3, <3>2, <3>3 DEF Kept, id
  <2> QED
    BY <1>2, <2>1, <2>3
\* A pass deletes a victim only, which is no block of the chain.
<1>10. ASSUME NEW p \in Passes, DeleteBlock(p)
       PROVE  KeptInv'
  <2>1. /\ docs \ {pass[p].at} \subseteq docs' /\ pass[p].step = "delete"
        /\ UNCHANGED <<branch, head, switches, inbox, pipeline>>
    BY <1>10 DEF DeleteBlock, Remaining
  <2>2. pass[p].at \in Victims
    BY <2>1 DEF VictimInv, AtIsId, Victims
  <2>3. ASSUME switches <= 1, NEW n \in 1 .. head
        PROVE  IdOn(branch, n) # pass[p].at
    <3>1. switches = 1 /\ Num(pass[p].at) >= Fork /\ pass[p].at[2] = "A"
      BY <2>2, <2>3 DEF VictimInv
    <3>2. branch = "B"
      BY <3>1 DEF OrderInv
    <3> QED
      BY <1>1, <3>1, <3>2 DEF IdOn, Num
  <2>4. ASSUME switches <= 1, NEW n \in 1 .. head
        PROVE  Kept(IdOn(branch, n))'
    <3>1. Kept(IdOn(branch, n)) /\ IdOn(branch, n) # pass[p].at
      BY <2>3, <2>4 DEF KeptInv
    <3> QED
      BY <2>1, <3>1 DEF Kept
  <2> QED
    BY <2>1, <2>4 DEF KeptInv
<1>11. ASSUME NEW p \in Passes,
              \/ StartPass(p) \/ AskChain(p) \/ Dismiss(p)
              \/ Postpone(p) \/ Condemn(p) \/ EndPass(p)
       PROVE  KeptInv'
  BY <1>3, <1>11 DEF StartPass, AskChain, Dismiss, Postpone, Condemn, EndPass
<1> QED
  BY <1>4, <1>5, <1>6, <1>7, <1>8, <1>9, <1>10, <1>11 DEF ForkNext, PassStep

\* While the chain changes branch once, its blocks are stored or on their way to the
\* store: neither failed calls, nor an advancing lib, nor passes that overlap make the
\* reader delete one.
THEOREM CanonicalIsKept == ForkSpec => []KeepsCanonicalOnce
<1>1. ForkInit => OrderInv /\ VictimInv /\ KeptInv
  <2> SUFFICES ASSUME ForkInit PROVE OrderInv /\ VictimInv /\ KeptInv
    OBVIOUS
  <2>1. /\ inbox = <<>> /\ Len(inbox) = 0 /\ head = 1 /\ branch = "A" /\ switches = 0
        /\ forked = {} /\ \A p \in Passes : pass[p] = Idle
        /\ \A n \in 1 .. MaxHead : reversible[n] = NoId
    BY DEF ForkInit
  <2>2. NoId[2] = "A"
    BY DEF NoId
  <2>3. OrderInv
    BY <2>1, <2>2 DEF OrderInv
  <2>4. \A p \in Passes : pass[p].left = {} /\ pass[p].step = "idle"
    BY <2>1 DEF Idle
  <2>5. VictimInv
    BY <2>1, <2>4 DEF VictimInv, AtIsId, Victims
  <2>6. IdOn("A", 1) \in docs
    BY DEF ForkInit
  <2> QED
    BY <2>1, <2>3, <2>5, <2>6 DEF KeptInv, Kept
<1>2. ForkTypeInv /\ KeptInv => KeepsCanonicalOnce
  <2> SUFFICES ASSUME ForkTypeOK, KeptInv, switches <= 1
               PROVE  KeepsCanonical
    BY DEF ForkTypeInv, KeepsCanonicalOnce
  <2>1. inbox \in Seq(Entry) /\ pipeline \in Seq(Ids)
    BY DEF ForkTypeOK, Entry
  <2>2. DOMAIN inbox = 1 .. Len(inbox) /\ DOMAIN pipeline = 1 .. Len(pipeline)
    BY <2>1, LenProperties
  <2>3. \A id : Kept(id) => id \in docs \cup InFlight
    BY <2>2 DEF Kept, InFlight
  <2> QED
    BY <2>3 DEF KeptInv, KeepsCanonical, Canonical
<1> QED
  BY <1>1, <1>2, InitTypes, StepTypes, OrderStep, VictimStep, KeptStep, PTL
     DEF ForkSpec, ForkTypeInv

HIDE DEF chainVars, timerVars, failedCalls
USE LifecycleAssumption

-----------------------------------------------------------------------------
(* Partitions *)

\* A block lies in its partition.
LEMMA PartitionHolds ==
    ASSUME NEW b \in Nat \ {0}
    PROVE  /\ PartitionOf(b) \in Nat \ {0} /\ PartitionOf(b) <= b
           /\ (PartitionOf(b) - 1) * PartitionSize + 1 <= b /\ b <= PartitionOf(b) * PartitionSize
<1>1. PICK q \in Int : q = PartitionOf(b)
  BY DEF PartitionOf
<1>2. PICK s \in Nat \ {0} : s = PartitionSize
  OBVIOUS
<1>3. q = (b + s - 1) \div s
  BY <1>1, <1>2 DEF PartitionOf
<1>4. q * s <= b + s - 1 /\ b + s - 1 < q * s + s
  BY <1>2, <1>3
<1>5. (q - 1) * s = q * s - s
  BY <1>2
<1>6. (q - 1) * s + 1 <= b /\ b <= q * s
  BY <1>4, <1>5
<1>7. q >= 1
  <2>1. CASE q <= 0
    <3>1. q * s <= 0
      BY <1>2, <2>1
    <3> QED
      BY <1>6, <3>1
  <2> QED
    BY <2>1
<1>8. q - 1 <= (q - 1) * s
  BY <1>2, <1>7
<1> QED
  BY <1>1, <1>2, <1>6, <1>7, <1>8

\* A later partition ends no earlier.
LEMMA Multiples ==
    ASSUME NEW x \in Int, NEW y \in Int
    PROVE  /\ x * PartitionSize \in Int
           /\ x <= y => x * PartitionSize <= y * PartitionSize
           /\ x * PartitionSize > y * PartitionSize => x * PartitionSize >= y * PartitionSize + PartitionSize
<1>1. PICK s \in Nat \ {0} : s = PartitionSize
  OBVIOUS
<1>2. \A n \in Nat : n * s >= 0
  OBVIOUS
<1>3. x <= y => x * s <= y * s
  <2> SUFFICES ASSUME x <= y PROVE x * s <= y * s
    OBVIOUS
  <2>1. (y - x) * s >= 0
    BY <1>2
  <2>2. (y - x) * s = y * s - x * s
    OBVIOUS
  <2> QED
    BY <2>1, <2>2
<1>4. x >= y + 1 => x * s >= y * s + s
  <2> SUFFICES ASSUME x >= y + 1 PROVE x * s >= y * s + s
    OBVIOUS
  <2>1. (x - (y + 1)) * s >= 0
    BY <1>2
  <2>2. (x - (y + 1)) * s = x * s - y * s - s
    OBVIOUS
  <2> QED
    BY <2>1, <2>2
<1>5. x >= y + 1 \/ x <= y
  OBVIOUS
<1> QED
  BY <1>1, <1>3, <1>4, <1>5

\* The retention is a number of partitions.
LEMMA RoundedIs ==
    ASSUME NEW n \in Int
    PROVE  Rounded(n) \in Nat /\ \E r \in Int : Rounded(n) = r * PartitionSize
<1>1. PICK s \in Nat \ {0} : s = PartitionSize
  OBVIOUS
<1>2. CASE n <= 0
  <2>1. 0 = 0 * s
    BY <1>1
  <2> QED
    BY <1>1, <1>2, <2>1 DEF Rounded
<1>3. CASE n > 0
  <2>1. PICK r \in Int : r = n \div s
    BY <1>1
  <2>2. PICK d \in Int : d = n % s
    BY <1>1
  <2>6. n = r * s + d /\ 0 <= d /\ d < s
    <3>1. \A k \in Int, w \in Nat \ {0} : k = w * (k \div w) + (k % w) /\ 0 <= k % w /\ k % w < w
      BY SMTT(60)
    <3>2. n = s * r + d /\ 0 <= d /\ d < s
      BY <1>1, <2>1, <2>2, <3>1
    <3> QED
      BY <1>1, <2>1, <3>2
  <2>3. (r + 1) * s = r * s + s
    BY <1>1
  <2>4. CASE d = 0
    <3>1. Rounded(n) = n /\ n = r * s
      BY <1>1, <1>3, <2>1, <2>2, <2>4, <2>6 DEF Rounded
    <3> QED
      BY <1>1, <1>3, <3>1
  <2>5. CASE d # 0
    <3>1. Rounded(n) = n + (s - d)
      BY <1>1, <1>3, <2>2, <2>5 DEF Rounded
    <3>2. Rounded(n) = (r + 1) * s
      BY <1>1, <2>3, <2>6, <3>1
    <3>3. Rounded(n) \in Nat
      BY <1>1, <1>3, <2>2, <2>6, <3>1
    <3> QED
      BY <1>1, <3>2, <3>3
  <2> QED
    BY <2>4, <2>5
<1> QED
  BY <1>2, <1>3

-----------------------------------------------------------------------------
(* What is deleted *)

\* A running task deletes blocks that had left the retention when it began.
LifecycleInv ==
    /\ retention \in Nat /\ \E r \in Int : retention = r * PartitionSize
    /\ chainTip \in Nat /\ consumedTo \in Nat /\ consumedTo <= chainTip
    /\ documents \in [DocTypes -> SUBSET (1 .. consumedTo)]
    /\ refreshed \in [DocTypes -> SUBSET (1 .. consumedTo)]
    /\ \A t \in DocTypes : refreshed[t] \subseteq documents[t]
    /\ \A old \in tasks : \A b \in old : b \in 1 .. consumedTo /\ b <= chainTip - retention
    /\ RetainedKept

\* The newest partition.
LEMMA NewestIs ==
    ASSUME LifecycleInv, NEW t \in DocTypes, Partitions(t) # {}
    PROVE  /\ Max(Partitions(t)) \in Partitions(t)
           /\ \A p \in Partitions(t) : p \in Nat /\ p <= Max(Partitions(t))
<1>1. Partitions(t) \in SUBSET (0 .. consumedTo) /\ consumedTo \in Nat
  <2> SUFFICES ASSUME NEW b \in documents[t] PROVE PartitionOf(b) \in 0 .. consumedTo
    BY DEF Partitions, LifecycleInv
  <2>1. b \in 1 .. consumedTo /\ consumedTo \in Nat
    BY DEF LifecycleInv
  <2>2. b \in Nat \ {0}
    BY <2>1
  <2> QED
    BY <2>1, <2>2, PartitionHolds
<1>2. PICK m \in Partitions(t) : \A p \in Partitions(t) : p <= m
  BY <1>1, GreatestNumber
<1>3. m \in Partitions(t) /\ \A p \in Partitions(t) : m >= p
  BY <1>1, <1>2
<1>4. Max(Partitions(t)) \in Partitions(t) /\ \A p \in Partitions(t) : Max(Partitions(t)) >= p
  BY <1>3 DEF Max
<1> QED
  BY <1>1, <1>4

\* The size of a part of an interval.
LEMMA FinitePart ==
    ASSUME NEW low \in Int, NEW n \in Int, NEW T \in SUBSET (low + 1 .. n)
    PROVE  Cardinality(T) \in Int /\ Cardinality(T) <= IF low + 1 > n THEN 0 ELSE n - low
<1>1. PICK a \in Int : a = low + 1
  OBVIOUS
<1>2. IsFiniteSet(a .. n) /\ Cardinality(a .. n) = IF a > n THEN 0 ELSE n - a + 1
  BY FS_Interval
<1>3. PICK all : all = a .. n
  OBVIOUS
<1>4. IsFiniteSet(all) /\ T \subseteq all
  BY <1>1, <1>2, <1>3
<1>5. IsFiniteSet(T) /\ Cardinality(T) <= Cardinality(all)
  BY <1>4, FS_Subset
<1>6. Cardinality(T) \in Int
  BY <1>5, FS_CardinalityType
<1> QED
  BY <1>1, <1>2, <1>3, <1>5, <1>6

\* A partition is pruned when the blocks after it are more than the retained ones.
LEMMA PrunedIsOld ==
    ASSUME LifecycleInv, NEW t \in DocTypes, NEW p \in ToPrune(t)
    PROVE  p * PartitionSize <= consumedTo - retention
<1>1. PICK s \in Nat \ {0} : s = PartitionSize
  OBVIOUS
<1>2. PICK last : last = Max(Partitions(t))
  OBVIOUS
<1>3. p \in Partitions(t) /\ Exceeds(TotalFrom(t, p))
  BY DEF ToPrune
<1>4. last \in Partitions(t) /\ last \in Nat /\ p \in Nat /\ p <= last
      /\ \A q \in Partitions(t) : q \in Nat /\ q <= last
  BY <1>2, <1>3, NewestIs
<1>5. /\ retention \in Nat /\ consumedTo \in Nat
      /\ documents[t] \subseteq 1 .. consumedTo /\ refreshed[t] \subseteq 1 .. consumedTo
  BY DEF LifecycleInv
<1>6. PICK newest \in documents[t] : last = PartitionOf(newest)
  BY <1>4 DEF Partitions
<1>7. (last - 1) * s + 1 <= consumedTo
  <2>1. newest \in Nat \ {0} /\ newest <= consumedTo
    BY <1>5
  <2>2. (last - 1) * s + 1 <= newest /\ (last - 1) * s \in Int
    BY <1>1, <1>4, <1>6, <2>1, PartitionHolds
  <2> QED
    BY <1>5, <2>1, <2>2
<1>8. PICK seen : seen = refreshed[t] \cap BlocksIn(last)
  OBVIOUS
<1>9. PICK n \in Int : /\ seen = {} => n = last * s
                       /\ seen # {} => n <= consumedTo /\ \A b \in seen : b <= n
                       /\ \A b \in BlocksOf(t, last) : b <= n
  <2>1. CASE seen = {}
    <3>1. last * s \in Int
      BY <1>1, <1>4
    <3>2. \A b \in BlocksOf(t, last) : b <= last * s
      BY <1>1, <1>4, <3>1 DEF BlocksOf, BlocksIn
    <3> QED
      BY <2>1, <3>1, <3>2
  <2>2. CASE seen # {}
    <3>1. seen \in SUBSET (0 .. consumedTo)
      BY <1>5, <1>8
    <3>2. PICK m \in seen : \A b \in seen : b <= m
      BY <1>5, <2>2, <3>1, GreatestNumber
    <3>3. m \in seen /\ \A b \in seen : m >= b
      BY <3>1, <3>2
    <3>4. Max(seen) \in seen
      BY <3>3 DEF Max
    <3>5. Max(seen) \in 0 .. consumedTo /\ Max(seen) \in Int /\ Max(seen) <= consumedTo
      <4>1. Max(seen) \in 0 .. consumedTo
        BY <3>1, <3>4
      <4> QED
        BY <1>5, <4>1
    <3>7. \A b \in seen : b <= Max(seen)
      <4>1. \A b \in seen : Max(seen) >= b
        BY <3>3 DEF Max
      <4> QED
        BY <3>1, <3>5, <4>1
    <3>6. \A b \in BlocksOf(t, last) : b <= Max(seen)
      BY <1>2, <1>8, <2>2 DEF BlocksOf
    <3> QED
      BY <2>2, <3>5, <3>6, <3>7
  <2> QED
    BY <2>1, <2>2
<1>10. PICK covered : covered = UNION {BlocksOf(t, q) : q \in {q \in Partitions(t) : q >= p}}
  OBVIOUS
<1>11. PICK low \in Int : low = (p - 1) * s
  BY <1>1, <1>4
<1>12. covered \subseteq low + 1 .. n
  <2> SUFFICES ASSUME NEW q \in Partitions(t), q >= p, NEW b \in BlocksOf(t, q)
               PROVE  b \in low + 1 .. n
    BY <1>10
  <2>1. b \in (q - 1) * s + 1 .. q * s /\ q \in Nat /\ q <= last
    BY <1>1, <1>4 DEF BlocksOf, BlocksIn
  <2>2. (q - 1) * s \in Int /\ q * s \in Int /\ low <= (q - 1) * s
    BY <1>1, <1>4, <1>11, <2>1, Multiples
  <2>3. b \in Int /\ low + 1 <= b
    BY <2>1, <2>2
  <2>4. CASE q = last
    BY <1>9, <2>3, <2>4
  <2>5. CASE q # last
    <3>1. q <= last - 1
      BY <1>4, <2>1, <2>5
    <3>2. q * s <= (last - 1) * s /\ (last - 1) * s \in Int
      BY <1>1, <1>4, <2>1, <3>1, Multiples
    <3>3. b <= (last - 1) * s
      BY <2>1, <2>2, <2>3, <3>2
    <3>4. CASE seen = {}
      <4>1. (last - 1) * s <= last * s
        BY <1>1, <1>4, Multiples
      <4> QED
        BY <1>1, <1>4, <1>9, <2>3, <3>2, <3>3, <3>4, <4>1
    <3>5. CASE seen # {}
      <4>1. PICK m \in seen : TRUE
        BY <3>5
      <4>2. m \in (last - 1) * s + 1 .. last * s
        BY <1>1, <1>8, <4>1 DEF BlocksIn
      <4>3. m <= n
        BY <1>9, <3>5, <4>1
      <4> QED
        BY <1>9, <2>3, <3>2, <3>3, <4>2, <4>3
    <3> QED
      BY <3>4, <3>5
  <2> QED
    BY <2>4, <2>5
<1>13. Cardinality(covered) \in Int /\ Cardinality(covered) <= IF low + 1 > n THEN 0 ELSE n - low
  <2> QED
    BY <1>12, FinitePart
<1>14. Cardinality(covered) > retention + s
  BY <1>1, <1>3, <1>10 DEF Exceeds, TotalFrom
<1>15. n > retention + p * s /\ p * s \in Int
  <2>1. (p - 1) * s = p * s - s /\ p * s \in Int
    BY <1>1, <1>4
  <2> QED
    BY <1>1, <1>5, <1>11, <1>13, <1>14, <2>1
<1>16. CASE seen # {}
  BY <1>1, <1>5, <1>9, <1>15, <1>16
<1>17. CASE seen = {}
  <2>1. PICK r \in Int : retention = r * s
    BY <1>1 DEF LifecycleInv
  <2>2. (r + p) * s = retention + p * s /\ r + p \in Int
    BY <1>1, <1>4, <2>1
  <2>3. last * s > (r + p) * s
    BY <1>9, <1>15, <1>17, <2>2
  <2>4. last * s >= (r + p) * s + s
    BY <1>1, <1>4, <2>2, <2>3, Multiples
  <2>5. (last - 1) * s = last * s - s /\ last * s \in Int
    BY <1>1, <1>4
  <2> QED
    BY <1>1, <1>5, <1>7, <1>15, <2>2, <2>4, <2>5
<1> QED
  BY <1>16, <1>17

-----------------------------------------------------------------------------
(* The retained documents *)

LEMMA LifecycleInvInit == IndexLifecycleInit => LifecycleInv
<1> SUFFICES ASSUME IndexLifecycleInit PROVE LifecycleInv
  OBVIOUS
<1>1. PICK m \in RetentionSettings : retention = Rounded(m)
  BY DEF IndexLifecycleInit
<1>2. retention \in Nat /\ \E r \in Int : retention = r * PartitionSize
  BY <1>1, RoundedIs
<1>3. /\ chainTip = 0 /\ consumedTo = 0 /\ tasks = {}
      /\ documents = [t \in DocTypes |-> {}] /\ refreshed = [t \in DocTypes |-> {}]
  BY DEF IndexLifecycleInit
<1>4. RetainedKept
  <2>1. 1 .. consumedTo = {}
    BY <1>3
  <2> QED
    BY <2>1 DEF RetainedKept, KeptOf
<1> QED
  BY <1>2, <1>3, <1>4 DEF LifecycleInv

\* Steps that delete nothing.
keptVars == <<retention, silent, chainTip, consumedTo, documents, refreshed>>

LEMMA NothingDeleted ==
    ASSUME LifecycleInv, UNCHANGED keptVars,
           \A old \in tasks' : \A b \in old : b \in 1 .. consumedTo /\ b <= chainTip - retention
    PROVE  LifecycleInv'
<1>1. RetainedKept'
  BY DEF keptVars, LifecycleInv, RetainedKept, KeptOf
<1> QED
  BY <1>1 DEF keptVars, LifecycleInv

LEMMA ProduceKeeps == LifecycleInv /\ ProduceBlock => LifecycleInv'
<1> SUFFICES ASSUME LifecycleInv, ProduceBlock PROVE LifecycleInv'
  OBVIOUS
<1> USE DEF ProduceBlock
<1>1. /\ retention \in Nat /\ chainTip \in Nat /\ consumedTo \in Nat /\ consumedTo <= chainTip
      /\ chainTip' = chainTip + 1
  BY DEF LifecycleInv
<1>2. RetainedKept'
  <2> SUFFICES ASSUME NEW t \in DocTypes, NEW b \in KeptOf(t)' PROVE b \in documents[t]
    BY DEF RetainedKept
  <2>1. b \in KeptOf(t)
    BY <1>1 DEF KeptOf
  <2> QED
    BY <2>1 DEF LifecycleInv, RetainedKept
<1>3. \A old \in tasks' : \A b \in old : b \in 1 .. consumedTo' /\ b <= chainTip' - retention'
  <2> SUFFICES ASSUME NEW old \in tasks, NEW b \in old
               PROVE  b \in 1 .. consumedTo /\ b <= chainTip + 1 - retention
    BY <1>1
  <2>1. b \in 1 .. consumedTo /\ b <= chainTip - retention
    BY DEF LifecycleInv
  <2> QED
    BY <1>1, <2>1
<1> QED
  BY <1>1, <1>2, <1>3 DEF LifecycleInv

LEMMA ConsumeKeeps == LifecycleInv /\ ConsumeBlock => LifecycleInv'
<1> SUFFICES ASSUME LifecycleInv, ConsumeBlock PROVE LifecycleInv'
  OBVIOUS
<1>1. /\ retention \in Nat /\ chainTip \in Nat /\ consumedTo \in Nat /\ consumedTo < chainTip
      /\ consumedTo' = consumedTo + 1
      /\ documents' = [t \in DocTypes |-> documents[t] \cup ({consumedTo'} \ silent[t])]
      /\ UNCHANGED <<retention, silent, chainTip, refreshed, tasks>>
  BY DEF LifecycleInv, ConsumeBlock
<1>2. 1 .. consumedTo' = (1 .. consumedTo) \cup {consumedTo'}
  BY <1>1
<1>3. RetainedKept'
  <2> SUFFICES ASSUME NEW t \in DocTypes, NEW b \in KeptOf(t)'
               PROVE  b \in documents[t] \cup ({consumedTo'} \ silent[t])
    BY <1>1 DEF RetainedKept
  <2>1. b \notin silent[t]
    BY <1>1 DEF KeptOf
  <2>2. CASE b = consumedTo'
    BY <2>1, <2>2
  <2>3. CASE b # consumedTo'
    <3>1. b \in KeptOf(t)
      BY <1>1, <1>2, <2>3 DEF KeptOf
    <3> QED
      BY <3>1 DEF LifecycleInv, RetainedKept
  <2> QED
    BY <2>2, <2>3
<1>4. /\ documents' \in [DocTypes -> SUBSET (1 .. consumedTo')]
      /\ refreshed' \in [DocTypes -> SUBSET (1 .. consumedTo')]
      /\ \A t \in DocTypes : refreshed'[t] \subseteq documents'[t]
  <2>1. \A t \in DocTypes : /\ documents'[t] = documents[t] \cup ({consumedTo'} \ silent[t])
                            /\ documents[t] \subseteq 1 .. consumedTo
                            /\ refreshed[t] \subseteq documents[t]
    BY <1>1 DEF LifecycleInv
  <2>2. \A t \in DocTypes : documents'[t] \subseteq 1 .. consumedTo'
    BY <1>2, <2>1
  <2>3. documents' \in [DocTypes -> SUBSET (1 .. consumedTo')]
    BY <1>1, <2>2
  <2>4. refreshed' \in [DocTypes -> SUBSET (1 .. consumedTo')]
    BY <1>1, <1>2 DEF LifecycleInv
  <2> QED
    BY <1>1, <2>1, <2>3, <2>4
<1>5. \A old \in tasks' : \A b \in old : b \in 1 .. consumedTo' /\ b <= chainTip' - retention'
  BY <1>1, <1>2 DEF LifecycleInv
<1>6. consumedTo' \in Nat /\ consumedTo' <= chainTip'
  BY <1>1
<1>7. chainTip' \in Nat /\ retention' \in Nat /\ \E r \in Int : retention' = r * PartitionSize
  BY <1>1 DEF LifecycleInv
<1> QED
  BY <1>3, <1>4, <1>5, <1>6, <1>7 DEF LifecycleInv

LEMMA RefreshKeeps == LifecycleInv /\ Refresh => LifecycleInv'
<1> SUFFICES ASSUME LifecycleInv, Refresh PROVE LifecycleInv'
  OBVIOUS
<1>1. RetainedKept'
  BY DEF Refresh, LifecycleInv, RetainedKept, KeptOf
<1> QED
  BY <1>1 DEF Refresh, LifecycleInv

\* What is left after documents of one type are deleted.
LEMMA DeletedKeeps ==
    ASSUME LifecycleInv, NEW t \in DocTypes, NEW gone,
           documents' = [documents EXCEPT ![t] = @ \ gone],
           refreshed' = [refreshed EXCEPT ![t] = @ \ gone],
           UNCHANGED <<retention, silent, chainTip, consumedTo>>, tasks' \subseteq tasks,
           KeptOf(t) \cap gone = {}
    PROVE  LifecycleInv'
<1>1. /\ documents \in [DocTypes -> SUBSET (1 .. consumedTo)]
      /\ refreshed \in [DocTypes -> SUBSET (1 .. consumedTo)]
  BY DEF LifecycleInv
<1>2. /\ documents' \in [DocTypes -> SUBSET (1 .. consumedTo')]
      /\ refreshed' \in [DocTypes -> SUBSET (1 .. consumedTo')]
  BY <1>1
<1>3. \A u \in DocTypes : /\ documents'[u] = IF u = t THEN documents[u] \ gone ELSE documents[u]
                          /\ refreshed'[u] = IF u = t THEN refreshed[u] \ gone ELSE refreshed[u]
  BY <1>1
<1>4. \A u \in DocTypes : refreshed'[u] \subseteq documents'[u]
  BY <1>3 DEF LifecycleInv
<1>5. RetainedKept'
  <2>1. \A u \in DocTypes : KeptOf(u)' = KeptOf(u) /\ KeptOf(u) \subseteq documents[u]
    BY DEF LifecycleInv, RetainedKept, KeptOf
  <2> QED
    BY <1>3, <2>1 DEF RetainedKept
<1>6. /\ \A old \in tasks' : \A b \in old : b \in 1 .. consumedTo' /\ b <= chainTip' - retention'
      /\ retention' \in Nat /\ \E r \in Int : retention' = r * PartitionSize
      /\ chainTip' \in Nat /\ consumedTo' \in Nat /\ consumedTo' <= chainTip'
  BY DEF LifecycleInv
<1> QED
  BY <1>2, <1>4, <1>5, <1>6 DEF LifecycleInv

LEMMA PruneIndicesKeeps == LifecycleInv /\ PruneIndices => LifecycleInv'
<1> SUFFICES ASSUME LifecycleInv, PruneIndices PROVE LifecycleInv'
  OBVIOUS
<1>1. PICK t \in Partitioned : \E pruned \in SUBSET ToPrune(t) :
         /\ documents' = [documents EXCEPT ![t] = Without(@, pruned)]
         /\ refreshed' = [refreshed EXCEPT ![t] = Without(@, pruned)]
         /\ UNCHANGED <<retention, silent, chainTip, consumedTo, tasks>>
  <2>1. PICK i \in DOMAIN checks :
           LET t == Head(checks[i])
           IN  /\ t \in Partitioned
               /\ \E failed \in SUBSET ToPrune(t) :
                     /\ documents' = [documents EXCEPT ![t] = Without(@, ToPrune(t) \ failed)]
                     /\ refreshed' = [refreshed EXCEPT ![t] = Without(@, ToPrune(t) \ failed)]
    BY DEF PruneIndices
  <2>2. UNCHANGED <<retention, silent, chainTip, consumedTo, tasks>>
    BY DEF PruneIndices
  <2>3. PICK t \in Partitioned : t = Head(checks[i])
    BY <2>1
  <2>4. PICK failed \in SUBSET ToPrune(t) :
           /\ documents' = [documents EXCEPT ![t] = Without(@, ToPrune(t) \ failed)]
           /\ refreshed' = [refreshed EXCEPT ![t] = Without(@, ToPrune(t) \ failed)]
    BY <2>1, <2>3
  <2>5. ToPrune(t) \ failed \in SUBSET ToPrune(t)
    OBVIOUS
  <2> QED
    BY <2>2, <2>4, <2>5
<1>6. PICK pruned \in SUBSET ToPrune(t) :
         /\ documents' = [documents EXCEPT ![t] = Without(@, pruned)]
         /\ refreshed' = [refreshed EXCEPT ![t] = Without(@, pruned)]
         /\ UNCHANGED <<retention, silent, chainTip, consumedTo, tasks>>
  BY <1>1
<1>2. t \in DocTypes /\ t # "block"
  BY DEF Partitioned, DocTypes
<1>3. PICK gone : gone = {b \in 1 .. consumedTo : PartitionOf(b) \in pruned}
  OBVIOUS
<1>4. /\ documents' = [documents EXCEPT ![t] = @ \ gone]
      /\ refreshed' = [refreshed EXCEPT ![t] = @ \ gone]
  <2>1. documents[t] \subseteq 1 .. consumedTo /\ refreshed[t] \subseteq 1 .. consumedTo
    BY <1>2 DEF LifecycleInv
  <2>2. Without(documents[t], pruned) = documents[t] \ gone /\ Without(refreshed[t], pruned) = refreshed[t] \ gone
    BY <1>3, <2>1 DEF Without
  <2> QED
    BY <1>6, <2>2
<1>5. KeptOf(t) \cap gone = {}
  <2> SUFFICES ASSUME NEW b \in KeptOf(t), b \in gone PROVE FALSE
    OBVIOUS
  <2>1. consumedTo \in Nat /\ retention \in Nat
    BY DEF LifecycleInv
  <2>2. b \in Nat \ {0} /\ b > consumedTo - retention
    BY <1>2, <2>1 DEF KeptOf
  <2>3. PICK p \in ToPrune(t) : p = PartitionOf(b)
    BY <1>3
  <2>4. p * PartitionSize <= consumedTo - retention
    BY <1>2, PrunedIsOld
  <2>5. b <= p * PartitionSize /\ p * PartitionSize \in Int
    BY <2>2, <2>3, PartitionHolds
  <2> QED
    BY <2>1, <2>2, <2>4, <2>5
<1> QED
  BY <1>2, <1>4, <1>5, <1>6, DeletedKeeps

LEMMA PruneBlocksKeeps == LifecycleInv /\ PruneBlocks => LifecycleInv'
<1> SUFFICES ASSUME LifecycleInv, PruneBlocks PROVE LifecycleInv'
  OBVIOUS
<1>1. PICK old : old = {b \in refreshed["block"] : b <= chainTip - retention}
  OBVIOUS
<1>2. tasks' \subseteq tasks \cup {old} /\ UNCHANGED keptVars
  BY <1>1 DEF PruneBlocks, keptVars
<1>3. \A b \in old : b \in 1 .. consumedTo /\ b <= chainTip - retention
  BY <1>1 DEF LifecycleInv, DocTypes
<1>4. \A o \in tasks' : \A b \in o : b \in 1 .. consumedTo /\ b <= chainTip - retention
  BY <1>2, <1>3 DEF LifecycleInv
<1> QED
  BY <1>2, <1>4, NothingDeleted

LEMMA TaskKeeps == LifecycleInv /\ DeleteTaskCompletes => LifecycleInv'
<1> SUFFICES ASSUME LifecycleInv, DeleteTaskCompletes PROVE LifecycleInv'
  OBVIOUS
<1>1. PICK old \in tasks :
         /\ tasks' = tasks \ {old}
         /\ documents' = [documents EXCEPT !["block"] = @ \ old]
         /\ refreshed' = [refreshed EXCEPT !["block"] = @ \ old]
         /\ UNCHANGED <<retention, silent, chainTip, consumedTo>>
  BY DEF DeleteTaskCompletes
<1>2. KeptOf("block") \cap old = {}
  <2>1. \A b \in old : b \in 1 .. consumedTo /\ b <= chainTip - retention
    BY DEF LifecycleInv
  <2>2. chainTip \in Nat /\ retention \in Nat /\ consumedTo \in Nat
    BY DEF LifecycleInv
  <2> QED
    BY <2>1, <2>2 DEF KeptOf
<1>3. "block" \in DocTypes /\ tasks' \subseteq tasks
  BY <1>1 DEF DocTypes
<1> QED
  BY <1>1, <1>2, <1>3, DeletedKeeps

LEMMA LifecycleInvKept == LifecycleInv /\ [IndexLifecycleNext]_lifecycleVars => LifecycleInv'
<1> SUFFICES ASSUME LifecycleInv, [IndexLifecycleNext]_lifecycleVars PROVE LifecycleInv'
  OBVIOUS
<1>1. CASE UNCHANGED lifecycleVars \/ CheckPruning \/ CheckTieredAllocation \/ ReadHealth
  <2>1. UNCHANGED keptVars /\ tasks' = tasks
    BY <1>1 DEF lifecycleVars, keptVars, CheckPruning, CheckTieredAllocation, ReadHealth
  <2>2. \A old \in tasks : \A b \in old : b \in 1 .. consumedTo /\ b <= chainTip - retention
    BY DEF LifecycleInv
  <2> QED
    BY <2>1, <2>2, NothingDeleted
<1>2. CASE ProduceBlock \/ ConsumeBlock \/ Refresh
  BY <1>2, ProduceKeeps, ConsumeKeeps, RefreshKeeps
<1>3. CASE PruneIndices \/ PruneBlocks \/ DeleteTaskCompletes
  BY <1>3, PruneIndicesKeeps, PruneBlocksKeeps, TaskKeeps
<1> QED
  BY <1>1, <1>2, <1>3 DEF IndexLifecycleNext

\* For every partition size and retention, and whatever a search sees, no check deletes
\* documents of the blocks that are to be retained.
THEOREM RetainedIsKept == IndexLifecycleSpec => []RetainedKept
<1>1. LifecycleInv => RetainedKept
  BY DEF LifecycleInv
<1> QED
  BY <1>1, LifecycleInvInit, LifecycleInvKept, PTL DEF IndexLifecycleSpec

-----------------------------------------------------------------------------
(* Side by side *)

\* Each behaviour of StoreWriters is one of the ingestor, one of the reader with forks and
\* one of the pruning, so that what was proved of each holds of what the run checks.
THEOREM WritersKeepAll ==
    WritersSpec => /\ ContractKept /\ []LossBounded
                   /\ [](NoForkForgotten /\ KeepsCanonicalOnce /\ MapFollowsChain)
                   /\ []RetainedKept
<1>1. WritersInit => Init /\ ForkInit /\ IndexLifecycleInit
  BY DEF WritersInit
<1>2. [WritersNext]_<<writer, vars, forkVars, lifecycleVars>> =>
         [Next]_vars /\ [ForkNext]_forkVars /\ [IndexLifecycleNext]_lifecycleVars
  BY DEF WritersNext
<1>3. WritersSpec => Spec /\ ForkSpec /\ IndexLifecycleSpec
  BY <1>1, <1>2, PTL DEF WritersSpec, Spec, ForkSpec, IndexLifecycleSpec
<1> QED
  BY <1>3, ContractIsKept, LossIsBounded, ForksAreRemembered, CanonicalIsKept, MapIsTheChain,
     RetainedIsKept, PTL

=============================================================================
