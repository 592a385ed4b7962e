-------------------------- MODULE ShipStream_proofs --------------------------
(***************************************************************************)
(* A reader skips no block: for every range, first block of SHIP, batch    *)
(* size and number of lost connections, and for both roles.                *)
(***************************************************************************)
EXTENDS ShipStream, TLAPS

USE StreamAssumption

-----------------------------------------------------------------------------
(* The inductive invariant *)

\* Messages a server can have sent: it is never asked for block Last.
Sendable == {Abi, Status} \cup {Block(n) : n \in 1 .. Last - 1}

Typed ==
    /\ live \in BOOLEAN
    /\ link \in {"offline", "connecting", "online"}
    /\ owed \in Seq({Abi, Status})
    /\ request \in [next : Nat, end : 0 .. Last]
    /\ request.end > 0 => request.next > 0
    /\ inbox \in Seq(Sendable) /\ batch \in Seq(Sendable)
    /\ batchSize \in Nat
    /\ hasABI \in BOOLEAN /\ recovery \in BOOLEAN /\ received \in BOOLEAN
    /\ stale \in BOOLEAN
    /\ local \in 0 .. Last - 1
    /\ staged \in {NoBlock, local}

\* The first block in memory or, when there is none, the one the server sends next.
NextToRead == request.next - Len(batch) - Len(inbox)

\* All messages in memory are of this session, and their order matters: a range
\* reader that has its first block checks the number of each other.
Tracked == ~stale /\ (live \/ ~received)

Quiet == owed = <<>> /\ inbox = <<>> /\ batch = <<>> /\ request = NoRequest

\* Before the request: the server's ABI, or its status, is on its way or was lost;
\* a status comes to a reader that has read no block.
Greeting ==
    /\ request = NoRequest
    /\ Len(owed) + Len(inbox) + Len(batch) <= 1
    /\ \A i \in DOMAIN inbox : inbox[i] \in {Abi, Status}
    /\ \A i \in DOMAIN batch : batch[i] \in {Abi, Status}
    /\ \A i \in DOMAIN owed : owed[i] = Status => local = First - 1
    /\ \A i \in DOMAIN inbox : inbox[i] = Status => local = First - 1
    /\ \A i \in DOMAIN batch : batch[i] = Status => local = First - 1

\* After the request: blocks only, one after the other, and none that SHIP has lies
\* between the last one read and the next.
Flowing ==
    /\ hasABI /\ ~recovery
    /\ owed = <<>>
    /\ \A i \in DOMAIN batch : batch[i] = Block(NextToRead + i - 1)
    /\ \A i \in DOMAIN inbox : inbox[i] = Block(NextToRead + Len(batch) + i - 1)
    /\ NextToRead <= local + 1 \/ NextToRead <= FirstOnShip

Session == IF link = "online" THEN Greeting \/ Flowing ELSE Quiet

\* A range reader without its first block has not entered the range.
Outside == ~live /\ ~received => local < First /\ staged = NoBlock

StreamInv ==
    /\ Typed
    /\ batchSize = 0 => batch = <<>>
    /\ ~hasABI => local = First - 1
    /\ Outside
    /\ Tracked => Session
    /\ NoGap

-----------------------------------------------------------------------------
(* Messages and sequences *)

LEMMA MessagesDiffer ==
    /\ Abi # Status
    /\ \A n : Block(n) # Abi /\ Block(n) # Status
    /\ \A n, m : Block(n) = Block(m) => n = m
<1>1. Abi # Status
  <2>1. Abi.type # Status.type
    BY DEF Abi, Status
  <2> QED
    BY <2>1
<1>2. ASSUME NEW n PROVE Block(n) # Abi /\ Block(n) # Status
  <2>1. Block(n).type # Abi.type /\ Block(n).type # Status.type
    BY DEF Abi, Status, Block
  <2> QED
    BY <2>1
<1>3. ASSUME NEW n, NEW m, Block(n) = Block(m) PROVE n = m
  <2>1. Block(n).num = n /\ Block(m).num = m
    BY DEF Block
  <2> QED
    BY <2>1, <1>3
<1> QED
  BY <1>1, <1>2, <1>3

LEMMA Appended ==
    ASSUME NEW S, NEW s \in Seq(S), NEW x \in S
    PROVE  /\ Append(s, x) \in Seq(S)
           /\ Len(Append(s, x)) = Len(s) + 1
           /\ \A i \in 1 .. Len(s) : Append(s, x)[i] = s[i]
           /\ Append(s, x)[Len(s) + 1] = x
           /\ DOMAIN s = 1 .. Len(s) /\ DOMAIN Append(s, x) = 1 .. Len(s) + 1
  OBVIOUS

LEMMA Tailed ==
    ASSUME NEW S, NEW s \in Seq(S), s # <<>>
    PROVE  /\ Head(s) = s[1] /\ Head(s) \in S /\ 1 \in DOMAIN s
           /\ Tail(s) \in Seq(S)
           /\ Len(Tail(s)) = Len(s) - 1
           /\ \A i \in DOMAIN Tail(s) : i + 1 \in DOMAIN s /\ Tail(s)[i] = s[i + 1]
  OBVIOUS

LEMMA Split ==
    ASSUME NEW S, NEW s \in Seq(S), NEW n \in 0 .. Len(s)
    PROVE  /\ SubSeq(s, 1, n) \in Seq(S) /\ SubSeq(s, n + 1, Len(s)) \in Seq(S)
           /\ Len(SubSeq(s, 1, n)) = n
           /\ Len(SubSeq(s, n + 1, Len(s))) = Len(s) - n
           /\ \A i \in DOMAIN SubSeq(s, 1, n) : i \in DOMAIN s /\ SubSeq(s, 1, n)[i] = s[i]
           /\ \A i \in DOMAIN SubSeq(s, n + 1, Len(s)) :
                 n + i \in DOMAIN s /\ SubSeq(s, n + 1, Len(s))[i] = s[n + i]
  OBVIOUS

LEMMA NothingJoined ==
    ASSUME NEW S, NEW s \in Seq(S), NEW t \in Seq(S), s \o t = <<>>
    PROVE  s = <<>> /\ t = <<>>
<1>1. Len(s \o t) = 0 /\ Len(s) \in Nat /\ Len(t) \in Nat /\ Len(s \o t) = Len(s) + Len(t)
  OBVIOUS
<1>2. Len(s) = 0 /\ Len(t) = 0
  BY <1>1
<1> QED
  BY <1>2

\* The block a step takes out of memory.
LEMMA Taken ==
    ASSUME Typed, NEW msg, NextMessage(msg)
    PROVE  /\ batch # <<>> /\ 1 \in DOMAIN batch /\ batch[1] = msg /\ msg \in Sendable
           /\ batch' \in Seq(Sendable) /\ Len(batch') = Len(batch) - 1
           /\ \A i \in DOMAIN batch' : i + 1 \in DOMAIN batch /\ batch'[i] = batch[i + 1]
           /\ staged = NoBlock
<1>1. batch \in Seq(Sendable) /\ batch # <<>> /\ batch' = Tail(batch) /\ msg = Head(batch)
      /\ staged = NoBlock
  BY DEF Typed, NextMessage
<1> QED
  BY <1>1, Tailed

\* A block that is taken is below Last.
LEMMA BlockBelowLast ==
    ASSUME NEW n \in Nat, Block(n) \in Sendable
    PROVE  n \in 1 .. Last - 1
<1>1. PICK m \in 1 .. Last - 1 : Block(n) = Block(m)
  BY MessagesDiffer DEF Sendable
<1> QED
  BY <1>1, MessagesDiffer

\* What was handed over stays handed over: a step that reads no block keeps NoGap.
LEMMA NothingSkipped ==
    ASSUME Typed, NoGap, stale' = stale \/ stale', local' \in Int, local' <= local \/ local' < First,
           Handled \ {NoBlock} \subseteq Handled',
           UNCHANGED bare
    PROVE  NoGap'
<1> SUFFICES ASSUME ~stale', NEW n \in ReadSoFar' PROVE n \in Handled'
  BY DEF NoGap
<1>1. ~stale
  OBVIOUS
<1>2. n \in First .. Last - 1 /\ n >= FirstOnShip /\ n <= local' /\ n \notin bare
  BY DEF ReadSoFar, Available
<1>3. n <= local
  BY <1>2 DEF Typed
<1>4. n \in Handled
  BY <1>1, <1>2, <1>3 DEF NoGap, ReadSoFar, Available
<1>5. n # NoBlock
  BY <1>2 DEF NoBlock
<1> QED
  BY <1>4, <1>5

\* Before its first block a range reader has nothing to hand over.
LEMMA NothingRead ==
    ASSUME local' \in Int, local' < First
    PROVE  NoGap'
<1>1. ReadSoFar' = {}
  BY DEF ReadSoFar, Available
<1> QED
  BY <1>1 DEF NoGap

-----------------------------------------------------------------------------
(* The invariant holds initially and is kept by every step *)

LEMMA StreamInvInit == Init => StreamInv
<1> SUFFICES ASSUME Init PROVE StreamInv
  OBVIOUS
<1>1. Typed
  <2>1. live \in BOOLEAN
    BY DEF Init
  <2>2. owed = <<>> /\ inbox = <<>> /\ batch = <<>> /\ request = [next |-> 0, end |-> 0]
    BY DEF Init, NoRequest
  <2>3. owed \in Seq({Abi, Status}) /\ inbox \in Seq(Sendable) /\ batch \in Seq(Sendable)
    BY <2>2
  <2>4. request \in [next : Nat, end : 0 .. Last] /\ (request.end > 0 => request.next > 0)
    BY <2>2
  <2>5. local \in 0 .. Last - 1 /\ staged \in {NoBlock, local} /\ batchSize \in Nat
    BY DEF Init
  <2> QED
    BY <2>1, <2>3, <2>4, <2>5 DEF Init, Typed
<1>2. ReadSoFar = {}
  BY DEF Init, ReadSoFar, Available
<1> QED
  BY <1>1, <1>2 DEF Init, StreamInv, Outside, Session, Quiet, NoGap

\* Steps that leave the reader's progress alone keep all but its session.
LEMMA OnlySession ==
    ASSUME StreamInv,
           UNCHANGED <<live, bare, hasABI, received, local, staged, sent>>,
           link' \in {"offline", "connecting", "online"},
           owed' \in Seq({Abi, Status}),
           request' \in [next : Nat, end : 0 .. Last],
           request'.end > 0 => request'.next > 0,
           inbox' \in Seq(Sendable), batch' \in Seq(Sendable),
           batchSize' \in Nat, batchSize' = 0 => batch' = <<>>,
           recovery' \in BOOLEAN, stale' \in BOOLEAN, stale => stale',
           Tracked' => Session'
    PROVE  StreamInv'
<1>1. Typed'
  BY DEF StreamInv, Typed
<1>2. NoGap'
  BY DEF StreamInv, NoGap, ReadSoFar, Available, Handled
<1>3. (~hasABI)' => (local = First - 1)'
  BY DEF StreamInv
<1>4. Outside'
  BY DEF StreamInv, Outside
<1> QED
  BY <1>1, <1>2, <1>3, <1>4 DEF StreamInv

LEMMA StartWSKeeps == StreamInv /\ StartWS => StreamInv'
<1> SUFFICES ASSUME StreamInv, StartWS PROVE StreamInv'
  OBVIOUS
<1>1. link = "offline" /\ link' = "connecting"
      /\ UNCHANGED <<live, bare, owed, request, inbox, batch, batchSize, hasABI, recovery, received,
                     local, staged, sent, stale>>
  BY DEF StartWS, readerVars, historyVars
<1>2. Tracked' => Session'
  BY <1>1 DEF StreamInv, Tracked, Session, Quiet
<1> QED
  BY <1>1, <1>2, OnlySession DEF StreamInv, Typed

LEMMA OpenKeeps == StreamInv /\ Open => StreamInv'
<1> SUFFICES ASSUME StreamInv, Open PROVE StreamInv'
  OBVIOUS
<1>1. link = "connecting" /\ link' = "online" /\ owed' = <<Abi>> /\ request' = NoRequest
      /\ UNCHANGED <<live, bare, inbox, batch, batchSize, hasABI, recovery, received,
                     local, staged, sent, stale>>
  BY DEF Open, readerVars, historyVars
<1>2. owed' \in Seq({Abi, Status}) /\ Len(owed') = 1 /\ DOMAIN owed' = {1} /\ owed'[1] # Status
  BY <1>1, MessagesDiffer
<1>3. request' \in [next : Nat, end : 0 .. Last] /\ request'.end = 0
  BY <1>1 DEF NoRequest
<1>4. ASSUME Tracked' PROVE Session'
  <2>1. Tracked
    BY <1>1, <1>4 DEF Tracked
  <2>2. inbox = <<>> /\ batch = <<>>
    BY <1>1, <2>1 DEF StreamInv, Session, Quiet
  <2>3. Len(inbox') = 0 /\ Len(batch') = 0 /\ DOMAIN inbox' = {} /\ DOMAIN batch' = {}
    BY <1>1, <2>2
  <2>4. Greeting'
    BY <1>1, <1>2, <2>3 DEF Greeting
  <2> QED
    BY <1>1, <2>4 DEF Session
<1> QED
  BY <1>1, <1>2, <1>3, <1>4, OnlySession DEF StreamInv, Typed

LEMMA LoseConnectionKeeps == StreamInv /\ LoseConnection => StreamInv'
<1> SUFFICES ASSUME StreamInv, LoseConnection PROVE StreamInv'
  OBVIOUS
<1>1. /\ link' = "offline" /\ owed' = <<>> /\ request' = NoRequest /\ recovery' = TRUE
      /\ UNCHANGED <<live, bare, inbox, batch, batchSize, hasABI, received, local, staged, sent>>
      /\ stale' = (stale \/ (inbox \o batch # <<>> /\ (live \/ ~received)))
  BY DEF LoseConnection
<1>2. owed' \in Seq({Abi, Status})
  BY <1>1
<1>3. request' \in [next : Nat, end : 0 .. Last] /\ request'.end = 0
  BY <1>1 DEF NoRequest
<1>4. ASSUME Tracked' PROVE Session'
  <2>1. inbox \o batch = <<>>
    BY <1>1, <1>4 DEF Tracked
  <2>2. inbox = <<>> /\ batch = <<>>
    BY <2>1, NothingJoined DEF StreamInv, Typed
  <2> QED
    BY <1>1, <2>2 DEF Session, Quiet
<1>5. stale' \in BOOLEAN /\ (stale => stale')
  BY <1>1 DEF StreamInv, Typed
<1> QED
  BY <1>1, <1>2, <1>3, <1>4, <1>5, OnlySession DEF StreamInv, Typed

LEMMA ServerAnswersKeeps == StreamInv /\ ServerAnswers => StreamInv'
<1> SUFFICES ASSUME StreamInv, ServerAnswers PROVE StreamInv'
  OBVIOUS
<1>1. /\ owed # <<>> /\ inbox' = Append(inbox, Head(owed)) /\ owed' = Tail(owed)
      /\ link = "online"
      /\ UNCHANGED <<live, bare, link, request, batch, batchSize, hasABI, recovery, received,
                     local, staged, sent, stale>>
  BY DEF ServerAnswers, historyVars
<1> DEFINE m == Head(owed)
<1>2. /\ m = owed[1] /\ m \in {Abi, Status} /\ 1 \in DOMAIN owed
      /\ owed' \in Seq({Abi, Status}) /\ Len(owed') = Len(owed) - 1
      /\ \A i \in DOMAIN owed' : i + 1 \in DOMAIN owed /\ owed'[i] = owed[i + 1]
  BY <1>1, Tailed DEF StreamInv, Typed
<1>3. m \in Sendable
  BY <1>2 DEF Sendable
<1> HIDE DEF m
<1>4. /\ inbox' \in Seq(Sendable) /\ Len(inbox') = Len(inbox) + 1
      /\ \A i \in 1 .. Len(inbox) : inbox'[i] = inbox[i]
      /\ inbox'[Len(inbox) + 1] = m
      /\ DOMAIN inbox = 1 .. Len(inbox) /\ DOMAIN inbox' = 1 .. Len(inbox) + 1
  BY <1>1, <1>3, Appended DEF StreamInv, Typed, m
<1>5. ASSUME Tracked' PROVE Session'
  <2>1. Greeting
    <3>1. Tracked
      BY <1>1, <1>5 DEF Tracked
    <3> QED
      BY <1>1, <3>1 DEF StreamInv, Session, Flowing
  <2>2. Len(owed') + Len(inbox') + Len(batch') <= 1
    <3>1. Len(owed) \in Nat /\ Len(inbox) \in Nat /\ Len(batch) \in Nat /\ batch' = batch
      BY <1>1 DEF StreamInv, Typed
    <3> QED
      BY <1>2, <1>4, <2>1, <3>1 DEF Greeting
  <2>3. ASSUME NEW i \in DOMAIN inbox'
        PROVE  inbox'[i] \in {Abi, Status} /\ (inbox'[i] = Status => local' = First - 1)
    <3>1. CASE i \in 1 .. Len(inbox)
      BY <1>1, <1>4, <2>1, <3>1 DEF Greeting
    <3>2. CASE i = Len(inbox) + 1
      BY <1>1, <1>2, <1>4, <2>1, <3>2 DEF Greeting
    <3>3. Len(inbox) \in Nat
      BY DEF StreamInv, Typed
    <3> QED
      BY <1>4, <3>1, <3>2, <3>3
  <2>4. Greeting'
    BY <1>1, <1>2, <2>1, <2>2, <2>3 DEF Greeting
  <2> QED
    BY <1>1, <2>4 DEF Session
<1> QED
  BY <1>1, <1>2, <1>4, <1>5, OnlySession DEF StreamInv, Typed

LEMMA ServerSendsBlockKeeps == StreamInv /\ ServerSendsBlock => StreamInv'
<1> SUFFICES ASSUME StreamInv, ServerSendsBlock PROVE StreamInv'
  OBVIOUS
<1>1. /\ link = "online" /\ request.next < request.end
      /\ inbox' = Append(inbox, Block(request.next))
      /\ UNCHANGED <<live, bare, link, owed, batch, batchSize, hasABI, recovery, received,
                     local, staged, sent, stale>>
  BY DEF ServerSendsBlock, historyVars
<1>2. /\ request' \in [next : Nat, end : 0 .. Last] /\ request'.next = request.next + 1
      /\ request'.end = request.end
  <2>1. request \in [next : Nat, end : 0 .. Last] /\ request.next + 1 \in Nat
    BY DEF StreamInv, Typed
  <2>2. request' = [request EXCEPT !.next = request.next + 1]
    BY DEF ServerSendsBlock
  <2> QED
    BY <2>1, <2>2, Zenon
<1>3. request.next \in Nat /\ request.next \in 1 .. Last - 1
  BY <1>1 DEF StreamInv, Typed
<1>4. Block(request.next) \in Sendable
  BY <1>3 DEF Sendable
<1>5. /\ inbox' \in Seq(Sendable) /\ Len(inbox') = Len(inbox) + 1
      /\ \A i \in 1 .. Len(inbox) : inbox'[i] = inbox[i]
      /\ inbox'[Len(inbox) + 1] = Block(request.next)
      /\ DOMAIN inbox = 1 .. Len(inbox) /\ DOMAIN inbox' = 1 .. Len(inbox) + 1
  BY <1>1, <1>4, Appended DEF StreamInv, Typed
<1>6. ASSUME Tracked' PROVE Session'
  <2>1. Flowing
    <3>1. Tracked
      BY <1>1, <1>6 DEF Tracked
    <3> QED
      BY <1>1, <3>1 DEF StreamInv, Session, Greeting, NoRequest
  <2>2. Len(inbox) \in Nat /\ Len(batch) \in Nat /\ batch' = batch
    BY <1>1 DEF StreamInv, Typed
  <2>3. NextToRead' = NextToRead /\ request.next = NextToRead + Len(batch) + Len(inbox)
    <3>1. Len(inbox') = Len(inbox) + 1 /\ Len(batch') = Len(batch)
      BY <1>5, <2>2, Zenon
    <3>2. request'.next = request.next + 1 /\ request.next \in Nat
      BY <1>2, <1>3, Zenon
    <3> QED
      BY <2>2, <3>1, <3>2 DEF NextToRead
  <2>4. ASSUME NEW i \in DOMAIN inbox'
        PROVE  inbox'[i] = Block(NextToRead' + Len(batch') + i - 1)
    <3>1. CASE i \in 1 .. Len(inbox)
      BY <1>5, <2>1, <2>2, <2>3, <3>1 DEF Flowing
    <3>2. CASE i = Len(inbox) + 1
      <4>1. NextToRead + Len(batch) + i - 1 = request.next
        BY <1>3, <2>2, <3>2 DEF NextToRead
      <4> QED
        BY <1>5, <2>2, <2>3, <3>2, <4>1
    <3> QED
      BY <1>5, <2>2, <3>1, <3>2
  <2>5. Flowing'
    BY <1>1, <2>1, <2>3, <2>4 DEF Flowing
  <2> QED
    BY <1>1, <2>5 DEF Session
<1>7. request'.end > 0 => request'.next > 0
  BY <1>2, <1>3
<1> QED
  BY <1>1, <1>2, <1>5, <1>6, <1>7, OnlySession DEF StreamInv, Typed

LEMMA TakeBatchKeeps == StreamInv /\ TakeBatch => StreamInv'
<1> SUFFICES ASSUME StreamInv, TakeBatch PROVE StreamInv'
  OBVIOUS
<1> DEFINE n == IF Len(inbox) < Prefetch THEN Len(inbox) ELSE Prefetch
<1>1. /\ batchSize = 0 /\ inbox # <<>>
      /\ batch' = IF hasABI THEN SubSeq(inbox, 1, n) ELSE <<Head(inbox)>>
      /\ batchSize' = n /\ inbox' = SubSeq(inbox, n + 1, Len(inbox))
      /\ UNCHANGED <<live, bare, link, owed, request, hasABI, recovery, received,
                     local, staged, sent, stale>>
  BY DEF TakeBatch, serverVars, historyVars
<1>2. inbox \in Seq(Sendable) /\ Len(inbox) \in Nat \ {0} /\ batch = <<>>
  BY <1>1 DEF StreamInv, Typed
<1>3. n \in 1 .. Len(inbox)
  BY <1>2
<1> HIDE DEF n
<1>4. /\ SubSeq(inbox, 1, n) \in Seq(Sendable) /\ inbox' \in Seq(Sendable)
      /\ Len(SubSeq(inbox, 1, n)) = n /\ Len(inbox') = Len(inbox) - n
      /\ \A i \in DOMAIN SubSeq(inbox, 1, n) :
            i \in DOMAIN inbox /\ SubSeq(inbox, 1, n)[i] = inbox[i]
      /\ \A i \in DOMAIN inbox' : n + i \in DOMAIN inbox /\ inbox'[i] = inbox[n + i]
  BY <1>1, <1>2, <1>3, Split
<1>5. /\ Head(inbox) = inbox[1] /\ Head(inbox) \in Sendable /\ 1 \in DOMAIN inbox
      /\ <<Head(inbox)>> \in Seq(Sendable)
  BY <1>1, <1>2
<1>6. /\ batch' \in Seq(Sendable)
      /\ \A i \in DOMAIN batch' : i \in DOMAIN inbox /\ batch'[i] = inbox[i]
      /\ hasABI => Len(batch') = n
      /\ Len(batch') <= n
  <2>1. CASE hasABI
    BY <1>1, <1>3, <1>4, <2>1
  <2>2. CASE ~hasABI
    BY <1>1, <1>3, <1>5, <2>2
  <2> QED
    BY <2>1, <2>2
<1>7. ASSUME Tracked' PROVE Session'
  <2>1. Tracked /\ link = "online"
    BY <1>1, <1>7 DEF Tracked, StreamInv, Session, Quiet
  <2>2. Len(batch') \in Nat /\ Len(owed) \in Nat /\ Len(batch) = 0
    BY <1>2, <1>6 DEF StreamInv, Typed
  <2>3. CASE Greeting
    <3>1. Len(owed') + Len(inbox') + Len(batch') <= 1
      <4>1. Len(owed) + Len(inbox) <= 1
        BY <1>2, <2>2, <2>3 DEF Greeting
      <4>2. owed' = owed /\ Len(inbox') = Len(inbox) - n /\ Len(batch') <= n
        BY <1>1, <1>4, <1>6
      <4> QED
        BY <1>2, <1>3, <2>2, <4>1, <4>2
    <3>2. Greeting'
      BY <1>1, <1>4, <1>6, <2>3, <3>1 DEF Greeting
    <3> QED
      BY <1>1, <2>1, <3>2 DEF Session
  <2>4. CASE Flowing
    <3>1. hasABI /\ Len(batch') = n
      BY <1>6, <2>4 DEF Flowing
    <3>2. NextToRead' = NextToRead /\ NextToRead \in Int
      <4>1. Len(inbox') = Len(inbox) - n /\ request' = request /\ request.next \in Nat
        BY <1>1, <1>4 DEF StreamInv, Typed
      <4> QED
        BY <1>2, <1>3, <2>2, <3>1, <4>1 DEF NextToRead
    <3>3. \A i \in DOMAIN inbox : inbox[i] = Block(NextToRead + i - 1)
      BY <2>2, <2>4, <3>2 DEF Flowing
    <3>4. \A i \in DOMAIN batch' : batch'[i] = Block(NextToRead' + i - 1)
      BY <1>6, <3>2, <3>3
    <3>5. ASSUME NEW i \in DOMAIN inbox'
          PROVE  inbox'[i] = Block(NextToRead' + Len(batch') + i - 1)
      <4>1. i \in Nat
        BY <1>4
      <4>2. inbox'[i] = Block(NextToRead + (n + i) - 1)
        BY <1>4, <3>3
      <4>3. NextToRead + (n + i) - 1 = NextToRead' + Len(batch') + i - 1
        BY <1>3, <3>1, <3>2, <4>1
      <4> QED
        BY <4>2, <4>3
    <3>6. Flowing'
      BY <1>1, <2>4, <3>2, <3>4, <3>5 DEF Flowing
    <3> QED
      BY <1>1, <2>1, <3>6 DEF Session
  <2> QED
    BY <2>1, <2>3, <2>4 DEF StreamInv, Session
<1>8. batchSize' \in Nat /\ batchSize' # 0
  BY <1>1, <1>2, <1>3
<1> QED
  BY <1>1, <1>4, <1>6, <1>7, <1>8, OnlySession DEF StreamInv, Typed

LEMMA AckBatchKeeps == StreamInv /\ AckBatch => StreamInv'
<1> SUFFICES ASSUME StreamInv, AckBatch PROVE StreamInv'
  OBVIOUS
<1>1. /\ batch = <<>> /\ batchSize' = 0
      /\ UNCHANGED <<live, bare, link, owed, request, inbox, batch, hasABI, recovery, received,
                     local, staged, sent, stale>>
  BY DEF AckBatch, historyVars
<1>2. Tracked' => Session'
  BY <1>1 DEF StreamInv, Tracked, Session, Quiet, Greeting, Flowing, NextToRead
<1> QED
  BY <1>1, <1>2, OnlySession DEF StreamInv, Typed

-----------------------------------------------------------------------------
(* Steps that take a message from the batch *)

\* What the message can be while the order of messages matters.
LEMMA WhatIsTaken ==
    ASSUME StreamInv, Tracked, NEW msg, NextMessage(msg)
    PROVE  /\ link = "online"
           /\ \/ /\ Greeting /\ owed = <<>> /\ inbox = <<>> /\ batch' = <<>>
                 /\ msg \in {Abi, Status} /\ (msg = Status => local = First - 1)
              \/ Flowing /\ msg = Block(NextToRead)
<1>1. /\ batch # <<>> /\ 1 \in DOMAIN batch /\ batch[1] = msg
      /\ batch' \in Seq(Sendable) /\ Len(batch') = Len(batch) - 1
  BY Taken DEF StreamInv
<1>2. link = "online" /\ (Greeting \/ Flowing)
  BY <1>1 DEF StreamInv, Session, Quiet
<1>3. Len(batch) \in Nat \ {0} /\ Len(inbox) \in Nat /\ Len(owed) \in Nat
  BY <1>1 DEF StreamInv, Typed
<1>4. CASE Greeting
  <2>1. msg \in {Abi, Status} /\ (msg = Status => local = First - 1)
    BY <1>1, <1>4 DEF Greeting
  <2>2. Len(owed) = 0 /\ Len(inbox) = 0 /\ Len(batch') = 0
    BY <1>1, <1>3, <1>4 DEF Greeting
  <2>3. owed = <<>> /\ inbox = <<>> /\ batch' = <<>>
    BY <1>1, <2>2 DEF StreamInv, Typed
  <2> QED
    BY <1>2, <1>4, <2>1, <2>3
<1>5. CASE Flowing
  <2>1. msg = Block(NextToRead + 1 - 1)
    BY <1>1, <1>5 DEF Flowing
  <2>2. NextToRead + 1 - 1 = NextToRead
    BY <1>3 DEF NextToRead, StreamInv, Typed
  <2> QED
    BY <1>2, <1>5, <2>1, <2>2
<1> QED
  BY <1>2, <1>4, <1>5

\* Nothing is on its way after the greeting was taken.
LEMMA GreetingTaken ==
    ASSUME request' = NoRequest, owed' = <<>>, inbox' = <<>>, batch' = <<>>
    PROVE  Greeting'
<1>1. /\ Len(owed') = 0 /\ Len(inbox') = 0 /\ Len(batch') = 0
      /\ DOMAIN owed' = {} /\ DOMAIN inbox' = {} /\ DOMAIN batch' = {}
  OBVIOUS
<1> QED
  BY <1>1 DEF Greeting

\* A request that is made next to the last block read starts the flow.
LEMMA Requested ==
    ASSUME Typed, NEW from \in Nat \ {0}, NEW to \in 0 .. Last, RequestBlocks(from, to)
    PROVE  /\ request' \in [next : Nat, end : 0 .. Last]
           /\ request'.end > 0 => request'.next > 0
           /\ link = "online" => request'.next = from \/ request'.next = FirstOnShip
<1> DEFINE next == IF from < FirstOnShip THEN FirstOnShip ELSE from
<1>1. next \in Nat /\ next > 0 /\ (next = from \/ next = FirstOnShip)
  OBVIOUS
<1>2. CASE link = "online"
  <2>1. request' = [next |-> next, end |-> to]
    BY <1>2 DEF RequestBlocks
  <2> HIDE DEF next
  <2> QED
    BY <1>1, <2>1
<1>3. CASE link # "online"
  BY <1>3 DEF RequestBlocks, Typed
<1> QED
  BY <1>2, <1>3

LEMMA FlowStarts ==
    ASSUME Typed', hasABI', ~recovery', owed' = <<>>, inbox' = <<>>, batch' = <<>>,
           request'.next <= local' + 1 \/ request'.next <= FirstOnShip
    PROVE  Flowing'
<1>1. Len(inbox') = 0 /\ Len(batch') = 0 /\ DOMAIN inbox' = {} /\ DOMAIN batch' = {}
  OBVIOUS
<1>2. NextToRead' = request'.next
  BY <1>1 DEF NextToRead, Typed
<1> QED
  BY <1>1, <1>2 DEF Flowing

LEMMA ReadFirstABIKeeps == StreamInv /\ ReadFirstABI => StreamInv'
<1> SUFFICES ASSUME StreamInv, ReadFirstABI PROVE StreamInv'
  OBVIOUS
<1>1. /\ ~hasABI /\ NextMessage(Abi) /\ hasABI' = TRUE
      /\ owed' = IF link = "online" THEN Append(owed, Status) ELSE owed
      /\ UNCHANGED <<live, bare, link, request, inbox, batchSize, recovery, received,
                     local, staged, sent, stale>>
  BY DEF ReadFirstABI, historyVars
<1>2. batch # <<>> /\ batch' \in Seq(Sendable)
  BY <1>1, Taken DEF StreamInv
<1>3. owed' \in Seq({Abi, Status})
  BY <1>1, Appended DEF StreamInv, Typed
<1>4. local = First - 1 /\ batchSize # 0
  BY <1>1, <1>2 DEF StreamInv
<1>5. Typed'
  BY <1>1, <1>2, <1>3 DEF StreamInv, Typed
<1>6. ASSUME Tracked' PROVE Session'
  <2>1. Tracked
    BY <1>1, <1>6 DEF Tracked
  <2>2. link = "online" /\ Greeting /\ owed = <<>> /\ inbox = <<>> /\ batch' = <<>>
    BY <1>1, <2>1, WhatIsTaken, MessagesDiffer
  <2>3. owed' = <<Status>>
    BY <1>1, <2>2
  <2>4. /\ Len(owed') = 1 /\ Len(inbox') = 0 /\ Len(batch') = 0
        /\ DOMAIN inbox' = {} /\ DOMAIN batch' = {}
    BY <1>1, <2>2, <2>3
  <2>5. Greeting'
    BY <1>1, <1>4, <2>2, <2>4 DEF Greeting
  <2> QED
    BY <1>1, <2>2, <2>5 DEF Session
<1>7. NoGap' /\ Outside'
  BY <1>1 DEF StreamInv, NoGap, ReadSoFar, Available, Handled, Outside
<1> QED
  BY <1>1, <1>4, <1>5, <1>6, <1>7 DEF StreamInv

LEMMA ReadStatusKeeps == StreamInv /\ ReadStatus => StreamInv'
<1> SUFFICES ASSUME StreamInv, ReadStatus PROVE StreamInv'
  OBVIOUS
<1>1. /\ hasABI /\ ~recovery /\ NextMessage(Status) /\ RequestBlocks(First, Last)
      /\ UNCHANGED <<live, bare, link, owed, inbox, batchSize, hasABI, recovery, received,
                     local, staged, sent, stale>>
  BY DEF ReadStatus, RequestEnd, historyVars
<1>2. batch # <<>> /\ batch' \in Seq(Sendable)
  BY <1>1, Taken DEF StreamInv
<1>3. /\ request' \in [next : Nat, end : 0 .. Last]
      /\ request'.end > 0 => request'.next > 0
      /\ link = "online" => request'.next = First \/ request'.next = FirstOnShip
  <2>1. First \in Nat \ {0} /\ Last \in 0 .. Last
    OBVIOUS
  <2> QED
    BY <1>1, <2>1, Requested DEF StreamInv
<1>4. batchSize # 0
  BY <1>2 DEF StreamInv
<1>5. Typed'
  BY <1>1, <1>2, <1>3 DEF StreamInv, Typed
<1>6. ASSUME Tracked' PROVE Session'
  <2>1. Tracked
    BY <1>1, <1>6 DEF Tracked
  <2>2. link = "online" /\ owed = <<>> /\ inbox = <<>> /\ batch' = <<>> /\ local = First - 1
    BY <1>1, <2>1, WhatIsTaken, MessagesDiffer
  <2>3. request'.next <= local' + 1 \/ request'.next <= FirstOnShip
    BY <1>1, <1>3, <2>2
  <2>4. Flowing'
    BY <1>1, <1>5, <2>2, <2>3, FlowStarts
  <2> QED
    BY <1>1, <2>2, <2>4 DEF Session
<1> QED
  BY <1>1, <1>2, <1>3, <1>4, <1>6, OnlySession DEF StreamInv, Typed

\* Taking the greeting away without a request leaves a session that sends nothing.
LEMMA NothingRequested ==
    ASSUME StreamInv, Tracked, NEW msg, NextMessage(msg), ~Flowing,
           UNCHANGED <<link, owed, inbox, request>>
    PROVE  Session'
<1>1. link = "online" /\ Greeting /\ owed = <<>> /\ inbox = <<>> /\ batch' = <<>>
  BY WhatIsTaken
<1>2. Greeting'
  BY <1>1, GreetingTaken DEF Greeting
<1> QED
  BY <1>1, <1>2 DEF Session

LEMMA RejectABIKeeps == StreamInv /\ RejectABI => StreamInv'
<1> SUFFICES ASSUME StreamInv, RejectABI PROVE StreamInv'
  OBVIOUS
<1>1. /\ NextMessage(Abi)
      /\ UNCHANGED <<live, bare, link, owed, request, inbox, batchSize, hasABI, recovery, received,
                     local, staged, sent, stale>>
  BY DEF RejectABI, serverVars, historyVars
<1>2. batch # <<>> /\ batch' \in Seq(Sendable)
  BY <1>1, Taken DEF StreamInv
<1>3. ASSUME Tracked' PROVE Session'
  <2>1. Tracked
    BY <1>1, <1>3 DEF Tracked
  <2>2. link = "online" /\ Greeting /\ owed = <<>> /\ inbox = <<>> /\ batch' = <<>>
    BY <1>1, <2>1, WhatIsTaken, MessagesDiffer
  <2>3. Greeting'
    BY <1>1, <2>2, GreetingTaken DEF Greeting
  <2> QED
    BY <1>1, <2>2, <2>3 DEF Session
<1> QED
  BY <1>1, <1>2, <1>3, OnlySession DEF StreamInv, Typed

\* Reading block n hands over everything up to it, when nothing SHIP has was missed.
LEMMA ReadNext ==
    ASSUME Typed, NEW n \in Nat, staged = NoBlock, local' = n,
           staged' = n \/ n \in bare,
           UNCHANGED <<live, bare, sent, stale>>,
           \/ NoGap /\ n <= local + 1
           \/ ~stale => n <= FirstOnShip \/ n <= First
           \/ NoGap /\ n <= FirstOnShip
    PROVE  NoGap'
<1> SUFFICES ASSUME ~stale, NEW m \in Available, m <= n
             PROVE  m \in sent \/ m = staged'
  BY DEF NoGap, ReadSoFar, Available, Handled
<1>1. CASE m = n
  BY <1>1 DEF Available
<1>2. CASE m < n
  <2>1. NoGap /\ m <= local
    BY <1>2 DEF Typed, Available
  <2>2. m \in sent \cup {staged}
    BY <2>1 DEF NoGap, ReadSoFar, Available, Handled
  <2>3. m # staged
    BY DEF NoBlock, Available
  <2> QED
    BY <2>2, <2>3
<1> QED
  BY <1>1, <1>2 DEF Available

LEMMA FlowGoesOn ==
    ASSUME Typed, Flowing, NextMessage(Block(NextToRead)), local' = NextToRead, local' \in Nat,
           UNCHANGED <<link, owed, request, inbox, hasABI, recovery>>
    PROVE  Flowing'
<1>1. /\ batch' \in Seq(Sendable) /\ Len(batch') = Len(batch) - 1
      /\ \A i \in DOMAIN batch' : i + 1 \in DOMAIN batch /\ batch'[i] = batch[i + 1]
  BY Taken
<1>2. Len(batch) \in Nat /\ Len(inbox) \in Nat /\ request.next \in Nat
  BY DEF Typed
<1>3. /\ NextToRead \in Int /\ NextToRead' = NextToRead + 1
      /\ NextToRead' + Len(batch') = NextToRead + Len(batch)
  <2>1. Len(batch') = Len(batch) - 1 /\ Len(inbox') = Len(inbox) /\ request'.next = request.next
    BY <1>1
  <2> QED
    BY <1>2, <2>1 DEF NextToRead
<1>4. ASSUME NEW i \in DOMAIN batch' PROVE batch'[i] = Block(NextToRead' + i - 1)
  <2>1. i \in Nat
    BY <1>1
  <2>2. batch'[i] = Block(NextToRead + (i + 1) - 1)
    BY <1>1 DEF Flowing
  <2>3. NextToRead + (i + 1) - 1 = NextToRead' + i - 1
    BY <1>3, <2>1
  <2> QED
    BY <2>2, <2>3
<1>5. ASSUME NEW i \in DOMAIN inbox' PROVE inbox'[i] = Block(NextToRead' + Len(batch') + i - 1)
  BY <1>3 DEF Flowing
<1> QED
  BY <1>3, <1>4, <1>5 DEF Flowing

LEMMA ReadLiveBlockKeeps == StreamInv /\ ReadLiveBlock => StreamInv'
<1> SUFFICES ASSUME StreamInv, ReadLiveBlock PROVE StreamInv'
  OBVIOUS
<1>1. /\ live /\ hasABI /\ ~recovery
      /\ UNCHANGED <<live, bare, link, owed, request, inbox, batchSize, hasABI, recovery, received,
                     sent, stale>>
  BY DEF ReadLiveBlock, serverVars, historyVars
<1>2. PICK n \in 1 .. Last : NextMessage(Block(n)) /\ local' = n /\ staged' = n
  BY DEF ReadLiveBlock
<1>3. batch # <<>> /\ batch' \in Seq(Sendable) /\ Block(n) \in Sendable /\ staged = NoBlock
  BY <1>2, Taken DEF StreamInv
<1>4. n \in 1 .. Last - 1
  BY <1>3, BlockBelowLast
<1>5. Typed'
  BY <1>1, <1>2, <1>3, <1>4 DEF StreamInv, Typed
<1>6. ASSUME ~stale PROVE Flowing /\ n = NextToRead /\ link = "online"
  <2>1. Tracked
    BY <1>1, <1>6 DEF Tracked
  <2> QED
    BY <1>2, <2>1, WhatIsTaken, MessagesDiffer
<1>7. Tracked' => Session'
  <2> SUFFICES ASSUME Tracked' PROVE Session'
    OBVIOUS
  <2>1. Flowing /\ n = NextToRead /\ link = "online"
    BY <1>1, <1>6 DEF Tracked
  <2>2. Flowing'
    BY <1>1, <1>2, <1>4, <2>1, FlowGoesOn DEF StreamInv
  <2> QED
    BY <1>1, <2>1, <2>2 DEF Session
<1>8. NoGap'
  <2>1. CASE stale
    BY <1>1, <2>1 DEF NoGap
  <2>2. CASE ~stale
    <3>1. n <= local + 1 \/ n <= FirstOnShip
      BY <1>6, <2>2 DEF Flowing
    <3> QED
      BY <1>1, <1>2, <1>3, <1>4, <3>1, ReadNext DEF StreamInv
  <2> QED
    BY <2>1, <2>2
<1>9. batchSize' # 0
  BY <1>1, <1>3 DEF StreamInv
<1> QED
  BY <1>1, <1>5, <1>7, <1>8, <1>9 DEF StreamInv, Outside

LEMMA ReadRangeBlockKeeps == StreamInv /\ ReadRangeBlock => StreamInv'
<1> SUFFICES ASSUME StreamInv, ReadRangeBlock PROVE StreamInv'
  OBVIOUS
<1>1. /\ ~live /\ hasABI /\ ~recovery /\ received' = TRUE
      /\ UNCHANGED <<live, bare, link, owed, request, inbox, batchSize, hasABI, recovery, sent, stale>>
  BY DEF ReadRangeBlock, serverVars, historyVars
<1>2. PICK n \in 1 .. Last :
        /\ NextMessage(Block(n))
        /\ LET skipped == ~received /\ n # local + 1
               from == IF skipped THEN n - 1 ELSE local
           IN  IF n = from + 1
               THEN local' = n /\ staged' = IF n \in bare THEN NoBlock ELSE n
               ELSE local' = from /\ staged' = staged
  BY DEF ReadRangeBlock, Follows
<1>3. batch # <<>> /\ batch' \in Seq(Sendable) /\ Block(n) \in Sendable /\ staged = NoBlock
  BY <1>2, Taken DEF StreamInv
<1>4. n \in 1 .. Last - 1 /\ local \in Int
  BY <1>3, BlockBelowLast DEF StreamInv, Typed
<1>5. \/ local' = n /\ (staged' = n \/ (staged' = NoBlock /\ n \in bare)) /\ (received => n = local + 1)
      \/ received /\ local' = local /\ staged' = staged
  BY <1>2, <1>4
<1>6. Typed'
  BY <1>1, <1>3, <1>4, <1>5 DEF StreamInv, Typed
<1>7. NoGap'
  <2>1. CASE received /\ local' = local /\ staged' = staged
    BY <1>1, <2>1 DEF StreamInv, NoGap, ReadSoFar, Available, Handled
  <2>2. CASE local' = n /\ (staged' = n \/ n \in bare) /\ received
    BY <1>1, <1>3, <1>4, <1>5, <2>2, ReadNext DEF StreamInv, Typed
  <2>3. CASE local' = n /\ (staged' = n \/ n \in bare) /\ ~received
    <3>1. ASSUME ~stale PROVE n <= FirstOnShip \/ n <= First
      <4>1. Tracked
        BY <2>3, <3>1 DEF Tracked
      <4>2. Flowing /\ n = NextToRead
        BY <1>2, <4>1, WhatIsTaken, MessagesDiffer
      <4>3. local < First
        BY <1>1, <2>3 DEF StreamInv, Outside
      <4> QED
        BY <1>4, <4>2, <4>3 DEF Flowing
    <3> QED
      BY <1>1, <1>3, <1>4, <2>3, <3>1, ReadNext DEF StreamInv
  <2> QED
    BY <1>5, <2>1, <2>2, <2>3 DEF StreamInv, Typed
<1>8. batchSize' # 0
  BY <1>1, <1>3 DEF StreamInv
<1> QED
  BY <1>1, <1>6, <1>7, <1>8 DEF StreamInv, Outside, Tracked

LEMMA ResumeLiveKeeps == StreamInv /\ ResumeLive => StreamInv'
<1> SUFFICES ASSUME StreamInv, ResumeLive PROVE StreamInv'
  OBVIOUS
<1>1. /\ live /\ hasABI /\ recovery /\ recovery' = FALSE
      /\ RequestBlocks(local + 1, Last)
      /\ UNCHANGED <<live, bare, link, owed, inbox, batchSize, hasABI, received,
                     local, staged, sent, stale>>
  BY DEF ResumeLive, RequestEnd, ResumeFrom, StillRecovering, historyVars
<1>2. PICK msg : NextMessage(msg)
  BY DEF ResumeLive
<1>3. batch # <<>> /\ batch' \in Seq(Sendable)
  BY <1>2, Taken DEF StreamInv
<1>4. local + 1 \in Nat \ {0} /\ Last \in 0 .. Last
  BY DEF StreamInv, Typed
<1>5. /\ request' \in [next : Nat, end : 0 .. Last]
      /\ request'.end > 0 => request'.next > 0
      /\ link = "online" => request'.next = local + 1 \/ request'.next = FirstOnShip
  BY <1>1, <1>4, Requested DEF StreamInv
<1>6. Typed'
  BY <1>1, <1>3, <1>5 DEF StreamInv, Typed
<1>7. ASSUME Tracked' PROVE Session'
  <2>1. Tracked
    BY <1>1, <1>7 DEF Tracked
  <2>2. link = "online" /\ owed = <<>> /\ inbox = <<>> /\ batch' = <<>>
    BY <1>1, <1>2, <2>1, WhatIsTaken DEF Flowing
  <2>3. request'.next <= local' + 1 \/ request'.next <= FirstOnShip
    BY <1>1, <1>4, <1>5, <2>2
  <2>4. Flowing'
    BY <1>1, <1>6, <2>2, <2>3, FlowStarts
  <2> QED
    BY <1>1, <2>2, <2>4 DEF Session
<1>8. batchSize # 0
  BY <1>3 DEF StreamInv
<1> QED
  BY <1>1, <1>3, <1>5, <1>7, <1>8, OnlySession DEF StreamInv, Typed

LEMMA ResumeRangeKeeps == StreamInv /\ ResumeRange => StreamInv'
<1> SUFFICES ASSUME StreamInv, ResumeRange PROVE StreamInv'
  OBVIOUS
<1> DEFINE from == IF local = 0 THEN First ELSE local
           to == IF from > Last - 1 THEN from + 1 ELSE Last - 1
<1>1. /\ ~live /\ hasABI /\ recovery
      /\ UNCHANGED <<live, bare, link, owed, inbox, batchSize, hasABI, received,
                     staged, sent, stale>>
      /\ IF to > from
         THEN RequestBlocks(from, to) /\ local' = from - 1 /\ recovery' = FALSE
         ELSE UNCHANGED <<request, local, recovery>>
  BY DEF ResumeRange, historyVars
<1>2. PICK msg : NextMessage(msg)
  BY DEF ResumeRange
<1>3. batch # <<>> /\ batch' \in Seq(Sendable) /\ staged = NoBlock
  BY <1>2, Taken DEF StreamInv
<1>4. batchSize # 0
  BY <1>3 DEF StreamInv
<1>5. /\ from \in 1 .. Last - 1 /\ to \in 0 .. Last
      /\ from = local \/ from = First
      /\ local < First => from <= First
  BY DEF StreamInv, Typed
<1>6. CASE to > from
  <2>1. /\ request' \in [next : Nat, end : 0 .. Last]
        /\ request'.end > 0 => request'.next > 0
        /\ link = "online" => request'.next = from \/ request'.next = FirstOnShip
    <3>1. from \in Nat \ {0}
      BY <1>5
    <3> HIDE DEF from, to
    <3> QED
      BY <1>1, <1>5, <1>6, <3>1, Requested DEF StreamInv
  <2>2. local' = from - 1 /\ recovery' = FALSE
    BY <1>1, <1>6
  <2>3. local' \in 0 .. Last - 1 /\ (local' <= local \/ local' < First)
        /\ (local < First => local' < First)
    BY <1>5, <2>2 DEF StreamInv, Typed
  <2> HIDE DEF from, to
  <2>4. Typed'
    BY <1>1, <1>3, <2>1, <2>2, <2>3 DEF StreamInv, Typed
  <2>5. ASSUME Tracked' PROVE Session'
    <3>1. Tracked
      BY <1>1, <2>5 DEF Tracked
    <3>2. link = "online" /\ owed = <<>> /\ inbox = <<>> /\ batch' = <<>>
      BY <1>1, <1>2, <3>1, WhatIsTaken DEF Flowing
    <3>3. request'.next <= local' + 1 \/ request'.next <= FirstOnShip
      BY <1>5, <2>1, <2>2, <3>2
    <3>4. Flowing'
      BY <1>1, <2>2, <2>4, <3>2, <3>3, FlowStarts
    <3> QED
      BY <1>1, <3>2, <3>4 DEF Session
  <2>6. NoGap'
    <3>1. Handled' = Handled /\ stale' = stale /\ bare' = bare
      BY <1>1 DEF Handled
    <3>2. local' \in Int
      BY <2>3
    <3> QED
      BY <2>3, <3>1, <3>2, NothingSkipped DEF StreamInv
  <2> QED
    BY <1>1, <1>4, <2>3, <2>4, <2>5, <2>6 DEF StreamInv, Outside
<1>7. CASE ~(to > from)
  <2>1. UNCHANGED <<request, local, recovery>>
    BY <1>1, <1>7
  <2>2. ASSUME Tracked' PROVE Session'
    <3>1. Tracked
      BY <1>1, <2>2 DEF Tracked
    <3>2. ~Flowing
      BY <1>1 DEF Flowing
    <3> QED
      BY <1>1, <1>2, <2>1, <3>1, <3>2, NothingRequested
  <2> HIDE DEF from, to
  <2> QED
    BY <1>1, <1>3, <1>4, <2>1, <2>2, OnlySession DEF StreamInv, Typed
<1> QED
  BY <1>6, <1>7

LEMMA SkipResumeKeeps == StreamInv /\ SkipResume => StreamInv'
<1> SUFFICES ASSUME StreamInv, SkipResume PROVE StreamInv'
  OBVIOUS
<1>1. /\ recovery /\ recovery' = FALSE
      /\ UNCHANGED <<live, bare, link, owed, request, inbox, batchSize, hasABI, received,
                     local, staged, sent, stale>>
  BY DEF SkipResume, serverVars, historyVars
<1>2. PICK msg : NextMessage(msg)
  BY DEF SkipResume
<1>3. batch # <<>> /\ batch' \in Seq(Sendable)
  BY <1>2, Taken DEF StreamInv
<1>4. batchSize # 0
  BY <1>3 DEF StreamInv
<1>5. ASSUME Tracked' PROVE Session'
  <2>1. Tracked /\ ~Flowing
    BY <1>1, <1>5 DEF Tracked, Flowing
  <2> QED
    BY <1>1, <1>2, <2>1, NothingRequested
<1> QED
  BY <1>1, <1>3, <1>4, <1>5, OnlySession DEF StreamInv, Typed

LEMMA FatalSendKeeps == StreamInv /\ FatalSend => StreamInv'
<1> SUFFICES ASSUME StreamInv, FatalSend PROVE StreamInv'
  OBVIOUS
<1>1. /\ link' = "offline" /\ owed' = <<>> /\ request' = NoRequest
      /\ inbox' = <<>> /\ batch' = <<>> /\ batchSize' = 0
      /\ hasABI' = FALSE /\ recovery' = FALSE /\ received' = FALSE
      /\ local' = First - 1 /\ staged' = NoBlock
      /\ UNCHANGED <<live, bare, stale>>
  BY DEF FatalSend, FreshProcess
<1>2. request' \in [next : Nat, end : 0 .. Last] /\ request'.end = 0
  BY <1>1 DEF NoRequest
<1>3. owed' \in Seq({Abi, Status}) /\ inbox' \in Seq(Sendable) /\ batch' \in Seq(Sendable)
  BY <1>1
<1>4. local' \in 0 .. Last - 1 /\ local' < First
  BY <1>1
<1>5. Typed'
  <2>1. live' \in BOOLEAN /\ stale' \in BOOLEAN
    BY <1>1 DEF StreamInv, Typed
  <2>2. hasABI' \in BOOLEAN /\ recovery' \in BOOLEAN /\ received' \in BOOLEAN
    BY <1>1
  <2>3. staged' \in {NoBlock, local'} /\ batchSize' \in Nat
        /\ link' \in {"offline", "connecting", "online"}
    BY <1>1
  <2> QED
    BY <1>2, <1>3, <1>4, <2>1, <2>2, <2>3 DEF Typed
<1>6. Session'
  BY <1>1 DEF Session, Quiet
<1>7. NoGap'
  BY <1>4, NothingRead
<1> QED
  BY <1>1, <1>4, <1>5, <1>6, <1>7 DEF StreamInv, Outside

LEMMA DistributeKeeps == StreamInv /\ Distribute => StreamInv'
<1> SUFFICES ASSUME StreamInv, Distribute PROVE StreamInv'
  OBVIOUS
<1>1. /\ sent' = sent \cup {staged} /\ staged' = NoBlock
      /\ UNCHANGED <<live, bare, link, owed, request, inbox, batch, batchSize, hasABI, recovery, received,
                     local, stale>>
  BY DEF Distribute, serverVars
<1>2. Typed'
  BY <1>1 DEF StreamInv, Typed
<1>3. Tracked' => Session'
  BY <1>1 DEF StreamInv, Tracked, Session, Quiet, Greeting, Flowing, NextToRead
<1>4. Handled \subseteq Handled'
  BY <1>1 DEF Handled
<1>5. NoGap'
  BY <1>1, <1>4 DEF StreamInv, NoGap, ReadSoFar, Available
<1> QED
  BY <1>1, <1>2, <1>3, <1>5 DEF StreamInv, Outside

\* Confirmations, losses of the AMQP connection and the completion poll change none of it.
LEMMA BrokerOnlyKeeps ==
    ASSUME StreamInv,
           UNCHANGED <<live, bare, link, owed, request, inbox, batch, batchSize, hasABI, recovery,
                       received, local, staged, sent, stale>>
    PROVE  StreamInv'
<1>1. Tracked' => Session'
  BY DEF StreamInv, Tracked, Session, Quiet, Greeting, Flowing, NextToRead
<1> QED
  BY <1>1, OnlySession DEF StreamInv, Typed

LEMMA StreamInvKept == StreamInv /\ [Next]_vars => StreamInv'
<1> SUFFICES ASSUME StreamInv, [Next]_vars PROVE StreamInv'
  OBVIOUS
<1>1. CASE ReaderStep
  BY <1>1, TakeBatchKeeps, ReadFirstABIKeeps, ReadStatusKeeps, RejectABIKeeps, ReadLiveBlockKeeps,
     ReadRangeBlockKeeps, ResumeLiveKeeps, ResumeRangeKeeps, SkipResumeKeeps, AckBatchKeeps,
     FatalSendKeeps DEF ReaderStep
<1>2. CASE ShipStep
  BY <1>2, StartWSKeeps, OpenKeeps, ServerAnswersKeeps, ServerSendsBlockKeeps DEF ShipStep
<1>3. CASE Distribute
  BY <1>3, DistributeKeeps
<1>4. CASE Confirm \/ MqBack \/ Complete \/ LoseMq
  <2>1. UNCHANGED <<live, bare, link, owed, request, inbox, batch, batchSize, hasABI, recovery,
                    received, local, staged, sent, stale>>
    BY <1>4 DEF Confirm, MqBack, Complete, LoseMq, serverVars, readerVars, historyVars, brokerVars
  <2> QED
    BY <2>1, BrokerOnlyKeeps
<1>5. CASE LoseConnection
  BY <1>5, LoseConnectionKeeps
<1>6. CASE UNCHANGED vars
  BY <1>6, BrokerOnlyKeeps DEF vars, serverVars, readerVars, historyVars
<1> QED
  BY <1>1, <1>2, <1>3, <1>4, <1>5, <1>6 DEF Next, BrokerStep

\* A range reader, and a live reader none of whose websockets closed with messages in
\* blockReadingQueue, never moves local_block_num past a block that it has not handed to the
\* broker (handleBlockResult and recoverFromDisconnection of state-reader.ts): across any
\* number of lost connections and exits, wherever the range and SHIP's first block are.
THEOREM NoBlockIsSkipped == Spec => []NoGap
<1>1. StreamInv => NoGap
  BY DEF StreamInv
<1> QED
  BY <1>1, StreamInvInit, StreamInvKept, PTL DEF Spec
=============================================================================
