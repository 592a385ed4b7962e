------------------------------ MODULE Streaming_proofs -------------------------
(***************************************************************************)
(* Theorem about Streaming, for every number of sockets, requests and lost *)
(* relay connections: the API process and the router agree on whom they    *)
(* serve.                                                                  *)
(***************************************************************************)
EXTENDS Streaming, TLAPS

-----------------------------------------------------------------------------
(* Invariants *)

SocketStates == {"unused", "open", "closed", "left"}
Ack == [req : Requests, status : {"answered", "cancelled"}]

StreamShapes ==
    /\ sock \in [Sockets -> SocketStates] /\ topicOf \in [Requests -> Topics]
    /\ by \in [Requests -> Sockets \cup {NoSocket}] /\ holder \in [Requests -> Sockets \cup {NoSocket}]
    /\ phase \in [Requests -> Phases]
    /\ clientDeltaRequestMap \in [Sockets -> Seq(Requests)]
    /\ clientActionRequestMap \in [Sockets -> Seq(Requests)]
    /\ relayIds \in Nat /\ toRouter \in Seq(Message) /\ toApi \in Seq(Ack)
    /\ tracked \subseteq [client : Sockets, req : Requests, relay : Nat]
    /\ relay \in Nat
    /\ \A s \in timers : s \in Sockets /\ sock[s] = "closed"

\* A request is filed for the socket that holds it, and for no other.
HasOwn(s) ==
    /\ \A r \in Range(clientDeltaRequestMap[s]) : IsDelta(r) /\ holder[r] = s /\ phase[r] \notin Unfiled
    /\ \A r \in Range(clientActionRequestMap[s]) : ~IsDelta(r) /\ holder[r] = s /\ phase[r] \notin Unfiled
IsFiled(r, s) ==
    IF IsDelta(r) THEN r \in Range(clientDeltaRequestMap[s]) ELSE r \in Range(clientActionRequestMap[s])
Placed(r) ==
    /\ phase[r] \in Unfiled => holder[r] = by[r]
    /\ phase[r] # "unused" => /\ by[r] \in Sockets /\ sock[by[r]] # "unused"
                              /\ holder[r] \in Sockets /\ sock[holder[r]] # "unused"
    /\ phase[r] \notin Unfiled \cup {"resend"} /\ sock[holder[r]] # "left" => IsFiled(r, holder[r])
Located == /\ \A s \in Sockets : HasOwn(s)
           /\ \A r \in Requests : Placed(r)

\* The maps of topics agree with the maps of sockets.
EntryOf(r, s) == [topic |-> topicOf[r], client |-> s, req |-> r]
LastAccount(rs, i) ==
    topicOf[rs[i]] = "account" => \A j \in DOMAIN rs : i < j => topicOf[rs[j]] # "account"
EntriesOf(s) ==
    /\ \A r \in Range(clientDeltaRequestMap[s]) : EntryOf(r, s) \in entries
    /\ LET rs == clientActionRequestMap[s]
       IN  \A i \in DOMAIN rs : LastAccount(rs, i) => EntryOf(rs[i], s) \in entries
EntriesAgree == \A s \in Sockets : EntriesOf(s)

\* What is under way between the API process and the router.
OfRequest(m) == m.type # "client_disconnected"
Truthful(m) ==
    /\ m.type = "request" => phase[m.req] \in {"asked", "resend"} /\ m.client = by[m.req]
    /\ m.type = "cancel_request" => phase[m.req] \in {"cancelling", "resend"}
    /\ m.type = "client_disconnected" => sock[m.client] = "left"
    /\ OfRequest(m) => relay # NoSocket
TruthfulAck(a) ==
    /\ relay # NoSocket /\ phase[a.req] \in {"asked", "cancelling", "resend"}
    /\ a.status = "cancelled" => phase[a.req] # "asked"
MailIsTrue ==
    /\ \A i \in DOMAIN toRouter : Truthful(toRouter[i])
    /\ \A i \in DOMAIN toApi : TruthfulAck(toApi[i])
    /\ \A r \in Requests \ cutOff :
          phase[r] \in {"asked", "answered", "cancelling", "cancelled"} => relay # NoSocket

\* At most one message of a request is under way.
MailIsOnce ==
    /\ \A i, j \in DOMAIN toRouter :
          OfRequest(toRouter[i]) /\ OfRequest(toRouter[j]) /\ toRouter[i].req = toRouter[j].req => i = j
    /\ \A i, j \in DOMAIN toApi : toApi[i].req = toApi[j].req => i = j
    /\ \A i \in DOMAIN toRouter, j \in DOMAIN toApi :
          OfRequest(toRouter[i]) => toRouter[i].req # toApi[j].req

\* The router has a request under the socket that made it; who holds a request that was
\* carried over in time need not fear the router removing it.
RouterKnows ==
    /\ \A t \in tracked : t.client = by[t.req] /\ phase[t.req] # "unused"
    /\ \A r \in Requests \ untimely :
          holder[r] # by[r] => sock[by[r]] = "closed" /\ by[r] \notin timers

\* Whoever is answered with OK, now or soon, is linked.
Answering(r) ==
    \/ phase[r] = "answered"
    \/ \E i \in DOMAIN toRouter : toRouter[i].type = "cancel_request" /\ toRouter[i].req = r
    \/ \E i \in DOMAIN toApi : toApi[i].req = r /\ toApi[i].status = "answered"
LinkOf(r) == [topic |-> topicOf[r], relay |-> relay, req |-> r]
AnsweredIsLinked ==
    \A r \in Requests \ (cutOff \cup untimely) :
        Answering(r) /\ sock[holder[r]] # "left" => LinkOf(r) \in links

ServedInv == /\ StreamShapes /\ Located /\ EntriesAgree /\ MailIsTrue /\ MailIsOnce
             /\ RouterKnows /\ AnsweredIsLinked

-----------------------------------------------------------------------------
(* Queues and maps *)

\* What is left of a queue when its head is taken.
LEMMA Taken ==
    ASSUME NEW S, NEW q \in Seq(S), q # <<>>
    PROVE  /\ Tail(q) \in Seq(S) /\ 1 \in DOMAIN q /\ Head(q) = q[1] /\ Head(q) \in S
           /\ \A i \in DOMAIN Tail(q) : i + 1 \in DOMAIN q /\ Tail(q)[i] = q[i + 1] /\ i + 1 # 1 /\ i \in Int
  OBVIOUS

\* What a queue holds when a message was put at its end.
LEMMA Added ==
    ASSUME NEW S, NEW q \in Seq(S), NEW x \in S
    PROVE  /\ Append(q, x) \in Seq(S)
           /\ \E n \in DOMAIN Append(q, x) :
                 /\ Append(q, x)[n] = x /\ n \notin DOMAIN q
                 /\ \A i \in DOMAIN q : i < n
                 /\ DOMAIN Append(q, x) = DOMAIN q \cup {n}
           /\ \A i \in DOMAIN q : Append(q, x)[i] = q[i] /\ i \in Int
<1>1. Append(q, x) \in Seq(S) /\ Len(q) \in Nat /\ DOMAIN q = 1 .. Len(q)
  OBVIOUS
<1>2. PICK n \in Nat : n = Len(q) + 1
  BY <1>1
<1>3. DOMAIN Append(q, x) = DOMAIN q \cup {n} /\ n \notin DOMAIN q /\ Append(q, x)[n] = x
  BY <1>1, <1>2
<1>4. \A i \in DOMAIN q : Append(q, x)[i] = q[i] /\ i < n /\ i \in Int
  BY <1>1, <1>2
<1> QED
  BY <1>1, <1>3, <1>4

\* What a map of a socket holds when a request was put at its end.
LEMMA RangeAdded ==
    ASSUME NEW S, NEW q \in Seq(S), NEW x \in S
    PROVE  Range(Append(q, x)) = Range(q) \cup {x}
<1>1. PICK n \in DOMAIN Append(q, x) : Append(q, x)[n] = x /\ DOMAIN Append(q, x) = DOMAIN q \cup {n}
  BY Added
<1>2. \A i \in DOMAIN q : Append(q, x)[i] = q[i]
  BY Added
<1> QED
  BY <1>1, <1>2 DEF Range

\* An acknowledgement names a request.
LEMMA AckNames ==
    ASSUME NEW q \in Seq(Ack), NEW i \in DOMAIN q
    PROVE  q[i] \in Ack /\ q[i].req \in Requests
<1>1. q[i] \in Ack
  OBVIOUS
<1> QED
  BY <1>1 DEF Ack

LEMMA RangeEmpty == Range(<<>>) = {}
  BY DEF Range

\* Initially nothing is filed, under way or linked.
LEMMA ServedInit == Init => ServedInv
<1> SUFFICES ASSUME Init PROVE ServedInv
  OBVIOUS
<1> USE DEF Init
<1>1. StreamShapes
  BY DEF StreamShapes, SocketStates, Phases
<1>2. \A s \in Sockets : Range(clientDeltaRequestMap[s]) = {} /\ Range(clientActionRequestMap[s]) = {}
                         /\ DOMAIN clientActionRequestMap[s] = {}
  BY RangeEmpty
<1>3. \A r \in Requests : phase[r] = "unused" /\ holder[r] = by[r]
  OBVIOUS
<1>4. Located
  BY <1>2, <1>3 DEF Located, HasOwn, Placed, Unfiled
<1>5. EntriesAgree
  BY <1>2 DEF EntriesAgree, EntriesOf
<1>6. DOMAIN toRouter = {} /\ DOMAIN toApi = {} /\ relay # NoSocket /\ tracked = {}
  BY DEF NoSocket
<1>7. MailIsTrue /\ MailIsOnce
  BY <1>6 DEF MailIsTrue, MailIsOnce
<1>8. RouterKnows
  BY <1>3, <1>6 DEF RouterKnows
<1>9. AnsweredIsLinked
  BY <1>3, <1>6 DEF AnsweredIsLinked, Answering
<1> QED
  BY <1>1, <1>4, <1>5, <1>7, <1>8, <1>9 DEF ServedInv

\* The invariant is stronger than the property.
LEMMA ServedMeans == ServedInv => AnsweredIsServed
<1> SUFFICES ASSUME ServedInv, NEW r \in Requests, phase[r] = "answered", sock[holder[r]] = "open",
                    r \notin cutOff \cup untimely, ~Overwritten(r)
             PROVE  Served(r)
  BY DEF AnsweredIsServed
<1>1. LinkOf(r) \in links
  BY DEF ServedInv, AnsweredIsLinked, Answering
<1>2. holder[r] \in Sockets
  BY DEF ServedInv, Located, Placed
<1>3. IsFiled(r, holder[r])
  BY DEF ServedInv, Located, Placed, Unfiled
<1>4. EntryOf(r, holder[r]) \in entries
  <2>1. CASE IsDelta(r)
    BY <1>2, <1>3, <2>1 DEF ServedInv, EntriesAgree, EntriesOf, IsFiled
  <2>2. CASE ~IsDelta(r)
    <3>1. PICK rs : rs = clientActionRequestMap[holder[r]]
      OBVIOUS
    <3>2. PICK i \in DOMAIN rs : rs[i] = r
      BY <1>3, <2>2, <3>1 DEF Range, IsFiled
    <3>3. LastAccount(rs, i)
      BY <3>1, <3>2 DEF Overwritten, LastAccount
    <3> QED
      BY <1>2, <3>1, <3>2, <3>3 DEF ServedInv, EntriesAgree, EntriesOf
  <2> QED
    BY <2>1, <2>2
<1>5. LinkOf(r).topic = topicOf[r] /\ LinkOf(r).relay = relay
  BY DEF LinkOf
<1> QED
  BY <1>1, <1>4, <1>5 DEF Served, EntryOf

-----------------------------------------------------------------------------
(* What stays when a step leaves most alone *)

\* A request goes on from one phase to a later one, and sockets do not vanish.
LEMMA LocatedStays ==
    ASSUME StreamShapes, Located,
           UNCHANGED <<clientDeltaRequestMap, clientActionRequestMap, topicOf, by, holder>>,
           \A r \in Requests : \/ phase'[r] = phase[r]
                               \/ phase[r] \notin Unfiled \cup {"resend"} /\ phase'[r] \notin Unfiled,
           \A s \in Sockets : /\ sock[s] # "unused" => sock'[s] # "unused"
                              /\ sock'[s] # "left" => sock[s] # "left"
    PROVE  Located'
<1>1. \A r \in Requests : /\ phase[r] \notin Unfiled => phase'[r] \notin Unfiled
                          /\ phase'[r] \in Unfiled => phase[r] \in Unfiled
                          /\ phase'[r] # "unused" => phase[r] # "unused"
                          /\ phase'[r] \notin Unfiled \cup {"resend"} => phase[r] \notin Unfiled \cup {"resend"}
  BY DEF Unfiled
<1>2. \A s \in Sockets : HasOwn(s)'
  <2>1. \A s \in Sockets :
           Range(clientDeltaRequestMap[s]) \cup Range(clientActionRequestMap[s]) \subseteq Requests
    BY DEF StreamShapes, Range
  <2> QED
    BY <1>1, <2>1 DEF Located, HasOwn, IsDelta
<1>3. ASSUME NEW r \in Requests PROVE Placed(r)'
  BY <1>1 DEF Located, Placed, IsFiled, IsDelta, Unfiled
<1> QED
  BY <1>2, <1>3 DEF Located

\* No map changes.
LEMMA EntriesStay ==
    ASSUME EntriesAgree,
           UNCHANGED <<clientDeltaRequestMap, clientActionRequestMap, topicOf, entries>>
    PROVE  EntriesAgree'
  BY DEF EntriesAgree, EntriesOf, EntryOf, LastAccount

\* No message is sent or taken, and no socket comes back from having left.
LEMMA MailStays ==
    ASSUME MailIsTrue, MailIsOnce, UNCHANGED <<toRouter, toApi, relay, phase, by, cutOff>>,
           \A s \in Sockets : sock[s] = "left" => sock'[s] = "left",
           StreamShapes
    PROVE  MailIsTrue' /\ MailIsOnce'
<1>1. \A i \in DOMAIN toRouter : toRouter[i].client \in Sockets
  BY DEF StreamShapes, Message
<1>2. \A m : OfRequest(m)' <=> OfRequest(m)
  BY DEF OfRequest
<1>3. MailIsTrue'
  BY <1>1, <1>2 DEF MailIsTrue, Truthful, TruthfulAck
<1>4. MailIsOnce'
  BY <1>2 DEF MailIsOnce
<1> QED
  BY <1>3, <1>4

\* The router only forgets.
LEMMA RouterStays ==
    ASSUME RouterKnows, Located, tracked' \subseteq tracked, UNCHANGED <<by, holder, untimely>>,
           \A r \in Requests : phase[r] # "unused" => phase'[r] # "unused",
           \A s \in Sockets : sock[s] = "closed" /\ s \notin timers =>
                             sock'[s] = "closed" /\ s \notin timers',
           StreamShapes
    PROVE  RouterKnows'
<1>1. \A t \in tracked : t.req \in Requests
  BY DEF StreamShapes
<1>2. \A r \in Requests : holder[r] # by[r] => by[r] \in Sockets
  BY DEF Located, Placed, Unfiled
<1>3. \A t \in tracked' : t.client = by'[t.req] /\ phase'[t.req] # "unused"
  BY <1>1 DEF RouterKnows
<1>4. \A r \in Requests \ untimely' :
         holder'[r] # by'[r] => sock'[by'[r]] = "closed" /\ by'[r] \notin timers'
  BY <1>2 DEF RouterKnows
<1> QED
  BY <1>3, <1>4 DEF RouterKnows

\* Whoever is being answered asked or cancels, and has a socket.
LEMMA AnsweringIsOn ==
    ASSUME StreamShapes, Located, MailIsTrue, NEW r \in Requests, Answering(r)
    PROVE  /\ phase[r] \in {"asked", "answered", "cancelling", "resend"}
           /\ by[r] \in Sockets /\ holder[r] \in Sockets
<1>1. phase[r] \in {"asked", "answered", "cancelling", "resend"}
  BY DEF Answering, MailIsTrue, Truthful, TruthfulAck
<1> QED
  BY <1>1 DEF Located, Placed

\* The links of those who are being answered stay, and nobody else is.
LEMMA LinksStay ==
    ASSUME AnsweredIsLinked, Located, MailIsTrue, UNCHANGED <<topicOf, holder, relay, untimely>>,
           cutOff \subseteq cutOff',
           \A r \in Requests : Answering(r)' => Answering(r),
           \A r \in Requests \ (cutOff \cup untimely) :
               Answering(r)' /\ LinkOf(r) \in links => LinkOf(r) \in links',
           \A s \in Sockets : sock'[s] # "left" => sock[s] # "left",
           StreamShapes
    PROVE  AnsweredIsLinked'
<1>1. ASSUME NEW r \in Requests \ (cutOff' \cup untimely'), Answering(r)', sock'[holder'[r]] # "left"
      PROVE  LinkOf(r)' \in links'
  <2>1. Answering(r) /\ r \notin cutOff \cup untimely
    BY <1>1
  <2>2. holder[r] \in Sockets
    BY <2>1, AnsweringIsOn
  <2>3. LinkOf(r) \in links
    BY <1>1, <2>1, <2>2 DEF AnsweredIsLinked
  <2>4. LinkOf(r)' = LinkOf(r)
    BY DEF LinkOf
  <2> QED
    BY <1>1, <2>1, <2>3, <2>4
<1> QED
  BY <1>1 DEF AnsweredIsLinked

-----------------------------------------------------------------------------
(* Sockets *)

\* A new socket has no requests.
LEMMA ConnectServed ==
    ASSUME ServedInv, NEW s \in Sockets, Connect(s)
    PROVE  ServedInv'
<1>1. /\ sock[s] = "unused" /\ sock' = [sock EXCEPT ![s] = "open"]
      /\ UNCHANGED <<topicOf, by, holder, phase>>
      /\ UNCHANGED <<entries, clientDeltaRequestMap, clientActionRequestMap, timers>>
      /\ UNCHANGED <<relay, relayIds, toRouter, toApi, links, tracked, cutOff, untimely>>
  BY DEF Connect, apiVars, relayVars, routerVars, history
<1>2. StreamShapes /\ Located /\ EntriesAgree /\ MailIsTrue /\ MailIsOnce /\ RouterKnows /\ AnsweredIsLinked
  BY DEF ServedInv
<1>3. sock \in [Sockets -> SocketStates]
  BY <1>2 DEF StreamShapes
<1>4. \A x \in Sockets : sock'[x] = IF x = s THEN "open" ELSE sock[x]
  BY <1>1, <1>3
<1>5. sock' \in [Sockets -> SocketStates]
  BY <1>1, <1>3 DEF SocketStates
<1>6. StreamShapes'
  BY <1>1, <1>2, <1>4, <1>5 DEF StreamShapes
<1>7. Located'
  BY <1>1, <1>2, <1>4, LocatedStays
<1>8. EntriesAgree'
  BY <1>1, <1>2, EntriesStay
<1>9. MailIsTrue' /\ MailIsOnce'
  BY <1>1, <1>2, <1>4, MailStays
<1>10. RouterKnows'
  BY <1>1, <1>2, <1>4, RouterStays
<1>11. \A r \in Requests : Answering(r)' => Answering(r)
  BY <1>1 DEF Answering
<1>12. AnsweredIsLinked'
  BY <1>1, <1>2, <1>4, <1>11, LinksStay
<1> QED
  BY <1>6, <1>7, <1>8, <1>9, <1>10, <1>12 DEF ServedInv

\* A socket that closes was open, so that no request was carried over from it in time.
LEMMA DisconnectServed ==
    ASSUME ServedInv, NEW s \in Sockets, Disconnect(s)
    PROVE  ServedInv'
<1>1. /\ sock[s] = "open" /\ sock' = [sock EXCEPT ![s] = "closed"] /\ timers' = timers \cup {s}
      /\ UNCHANGED <<topicOf, by, holder, phase>>
      /\ UNCHANGED <<entries, clientDeltaRequestMap, clientActionRequestMap>>
      /\ UNCHANGED <<relay, relayIds, toRouter, toApi, links, tracked, cutOff, untimely>>
  BY DEF Disconnect, relayVars, routerVars, history
<1>2. StreamShapes /\ Located /\ EntriesAgree /\ MailIsTrue /\ MailIsOnce /\ RouterKnows /\ AnsweredIsLinked
  BY DEF ServedInv
<1>3. sock \in [Sockets -> SocketStates]
  BY <1>2 DEF StreamShapes
<1>4. \A x \in Sockets : sock'[x] = IF x = s THEN "closed" ELSE sock[x]
  BY <1>1, <1>3
<1>5. sock' \in [Sockets -> SocketStates]
  BY <1>1, <1>3 DEF SocketStates
<1>6. StreamShapes'
  BY <1>1, <1>2, <1>4, <1>5 DEF StreamShapes
<1>7. Located'
  BY <1>1, <1>2, <1>4, LocatedStays
<1>8. EntriesAgree'
  BY <1>1, <1>2, EntriesStay
<1>9. MailIsTrue' /\ MailIsOnce'
  BY <1>1, <1>2, <1>4, MailStays
<1>10. RouterKnows'
  BY <1>1, <1>2, <1>4, RouterStays
<1>11. \A r \in Requests : Answering(r)' => Answering(r)
  BY <1>1 DEF Answering
<1>12. AnsweredIsLinked'
  BY <1>1, <1>2, <1>4, <1>11, LinksStay
<1> QED
  BY <1>6, <1>7, <1>8, <1>9, <1>10, <1>12 DEF ServedInv

\* The timer fires: the socket is no longer waited for, and the router is told.
LEMMA LeaveServed ==
    ASSUME ServedInv, NEW s \in Sockets, LeaveForGood(s)
    PROVE  ServedInv'
<1> DEFINE news == [type |-> "client_disconnected", client |-> s]
<1>1. /\ s \in timers /\ timers' = timers \ {s} /\ sock' = [sock EXCEPT ![s] = "left"]
      /\ entries' = DetachedDeltas(s, entries)
      /\ clientDeltaRequestMap' = [clientDeltaRequestMap EXCEPT ![s] = <<>>]
      /\ toRouter' = Append(toRouter, news)
      /\ UNCHANGED <<topicOf, by, holder, phase, clientActionRequestMap>>
      /\ UNCHANGED <<relay, relayIds, toApi, links, tracked, cutOff, untimely>>
  BY DEF LeaveForGood, routerVars, history
<1>2. StreamShapes /\ Located /\ EntriesAgree /\ MailIsTrue /\ MailIsOnce /\ RouterKnows /\ AnsweredIsLinked
  BY DEF ServedInv
<1>3. /\ sock \in [Sockets -> SocketStates] /\ sock[s] = "closed"
      /\ clientDeltaRequestMap \in [Sockets -> Seq(Requests)] /\ toRouter \in Seq(Message)
  BY <1>1, <1>2 DEF StreamShapes
<1>4. \A x \in Sockets : /\ sock'[x] = IF x = s THEN "left" ELSE sock[x]
                         /\ clientDeltaRequestMap'[x] = IF x = s THEN <<>> ELSE clientDeltaRequestMap[x]
  BY <1>1, <1>3
<1>5. sock' \in [Sockets -> SocketStates] /\ clientDeltaRequestMap' \in [Sockets -> Seq(Requests)]
  BY <1>1, <1>3 DEF SocketStates
<1>6. news \in Message /\ ~OfRequest(news) /\ news.type = "client_disconnected" /\ news.client = s
  BY DEF Message, OfRequest
<1>7. PICK n \in DOMAIN toRouter' :
         /\ toRouter'[n] = news /\ toRouter' \in Seq(Message)
         /\ DOMAIN toRouter' = DOMAIN toRouter \cup {n}
         /\ \A i \in DOMAIN toRouter : toRouter'[i] = toRouter[i]
  <2> HIDE DEF news
  <2> QED
    BY <1>1, <1>3, <1>6, Added
<1>8. StreamShapes'
  BY <1>1, <1>2, <1>4, <1>5, <1>7 DEF StreamShapes
<1>9. Located'
  <2>1. \A x \in Sockets : Range(clientDeltaRequestMap'[x]) \subseteq Range(clientDeltaRequestMap[x])
    BY <1>4, RangeEmpty
  <2>2. \A x \in Sockets : HasOwn(x)'
    BY <1>1, <1>2, <2>1 DEF Located, HasOwn, IsDelta
  <2>3. ASSUME NEW r \in Requests PROVE Placed(r)'
    <3>1. phase[r] # "unused" => holder[r] \in Sockets /\ by[r] \in Sockets
      BY <1>2 DEF Located, Placed
    <3>2. phase[r] \notin Unfiled => phase[r] # "unused"
      BY DEF Unfiled
    <3>3. Placed(r)
      BY <1>2 DEF Located
    <3> QED
      BY <1>1, <1>4, <3>1, <3>2, <3>3 DEF Placed, IsFiled, IsDelta, Unfiled
  <2> QED
    BY <2>2, <2>3 DEF Located
<1>10. EntriesAgree'
  <2> SUFFICES ASSUME NEW x \in Sockets PROVE EntriesOf(x)'
    BY DEF EntriesAgree
  <2>1. \A r, y : EntryOf(r, y)' = EntryOf(r, y) /\ EntryOf(r, y).client = y /\ EntryOf(r, y).topic = topicOf[r]
    BY <1>1 DEF EntryOf
  <2>2. \A rs, i : LastAccount(rs, i)' <=> LastAccount(rs, i)
    BY <1>1 DEF LastAccount
  <2>3. \A e \in entries : e.client # s \/ e.topic # "delta" => e \in entries'
    BY <1>1 DEF DetachedDeltas
  <2>4. EntriesOf(x)
    BY <1>2 DEF EntriesAgree
  <2>5. ASSUME NEW r \in Range(clientDeltaRequestMap'[x]) PROVE EntryOf(r, x) \in entries'
    <3>1. x # s /\ r \in Range(clientDeltaRequestMap[x])
      BY <1>4, RangeEmpty
    <3> QED
      BY <2>1, <2>3, <2>4, <3>1 DEF EntriesOf
  <2>6. ASSUME NEW i \in DOMAIN clientActionRequestMap[x], LastAccount(clientActionRequestMap[x], i)
        PROVE  EntryOf(clientActionRequestMap[x][i], x) \in entries'
    <3>1. PICK r : r = clientActionRequestMap[x][i]
      OBVIOUS
    <3>2. r \in Range(clientActionRequestMap[x])
      BY <3>1 DEF Range
    <3>3. topicOf[r] # "delta"
      BY <1>2, <3>2 DEF Located, HasOwn, IsDelta
    <3>4. EntryOf(r, x) \in entries
      BY <2>4, <2>6, <3>1 DEF EntriesOf
    <3> QED
      BY <2>1, <2>3, <3>1, <3>3, <3>4
  <2> QED
    BY <1>1, <2>1, <2>2, <2>5, <2>6 DEF EntriesOf
<1>11. MailIsTrue'
  <2>1. ASSUME NEW i \in DOMAIN toRouter' PROVE Truthful(toRouter[i])'
    <3>1. CASE i = n
      BY <1>4, <1>6, <1>7, <3>1 DEF Truthful, OfRequest
    <3>2. CASE i \in DOMAIN toRouter
      <4>1. toRouter'[i] = toRouter[i] /\ toRouter[i].client \in Sockets
        BY <1>3, <1>7, <3>2 DEF Message
      <4>2. Truthful(toRouter[i])
        BY <1>2, <3>2 DEF MailIsTrue
      <4> QED
        BY <1>1, <1>4, <4>1, <4>2 DEF Truthful, OfRequest
    <3> QED
      BY <1>7, <3>1, <3>2
  <2> QED
    BY <1>1, <1>2, <2>1 DEF MailIsTrue, TruthfulAck
<1>12. MailIsOnce'
  <2>1. \A i \in DOMAIN toRouter' : OfRequest(toRouter'[i]) => i \in DOMAIN toRouter /\ toRouter'[i] = toRouter[i]
    BY <1>6, <1>7
  <2> QED
    BY <1>1, <1>2, <2>1 DEF MailIsOnce, OfRequest
<1>13. RouterKnows'
  BY <1>1, <1>2, <1>4, RouterStays
<1>14. \A r \in Requests : Answering(r)' => Answering(r)
  BY <1>1, <1>6, <1>7 DEF Answering
<1>15. AnsweredIsLinked'
  BY <1>1, <1>2, <1>4, <1>14, LinksStay
<1> QED
  BY <1>8, <1>9, <1>10, <1>11, <1>12, <1>13, <1>15 DEF ServedInv

\* The client is told to ask again.
LEMMA ResendServed ==
    ASSUME ServedInv, NEW s \in Sockets, NEW old \in Sockets, Reconnect(s, old),
           clientDeltaRequestMap[old] = <<>>
    PROVE  ServedInv'
<1>1. /\ sock[s] = "unused" /\ sock[old] # "unused" /\ sock' = [sock EXCEPT ![s] = "open"]
      /\ phase' = [r \in Requests |-> IF holder[r] = old /\ phase[r] \notin Unfiled THEN "resend"
                                     ELSE phase[r]]
      /\ UNCHANGED <<topicOf, by, holder>>
      /\ UNCHANGED <<entries, clientDeltaRequestMap, clientActionRequestMap, timers>>
      /\ UNCHANGED <<relay, relayIds, toRouter, toApi, links, tracked, cutOff, untimely>>
  BY DEF Reconnect, apiVars, relayVars, routerVars
<1>2. StreamShapes /\ Located /\ EntriesAgree /\ MailIsTrue /\ MailIsOnce /\ RouterKnows /\ AnsweredIsLinked
  BY DEF ServedInv
<1>3. sock \in [Sockets -> SocketStates] /\ phase \in [Requests -> Phases]
  BY <1>2 DEF StreamShapes
<1>4. \A x \in Sockets : sock'[x] = IF x = s THEN "open" ELSE sock[x]
  BY <1>1, <1>3
<1>5. sock' \in [Sockets -> SocketStates] /\ phase' \in [Requests -> Phases]
  BY <1>1, <1>3 DEF SocketStates, Phases
<1>6. \A r \in Requests : phase'[r] = IF holder[r] = old /\ phase[r] \notin Unfiled THEN "resend"
                                     ELSE phase[r]
  BY <1>1
<1>7. StreamShapes'
  BY <1>1, <1>2, <1>4, <1>5 DEF StreamShapes
<1>8. Located'
  <2>1. ASSUME NEW x \in Sockets PROVE HasOwn(x)'
    <3>1. \A r \in Range(clientDeltaRequestMap[x]) \cup Range(clientActionRequestMap[x]) : r \in Requests
      BY <1>2 DEF StreamShapes, Range
    <3>2. HasOwn(x)
      BY <1>2 DEF Located
    <3> QED
      BY <1>1, <1>6, <3>1, <3>2 DEF HasOwn, IsDelta, Unfiled
  <2>2. ASSUME NEW r \in Requests PROVE Placed(r)'
    <3>1. Placed(r)
      BY <1>2 DEF Located
    <3>2. CASE holder[r] = old /\ phase[r] \notin Unfiled
      <4>1. by[r] \in Sockets /\ sock[by[r]] # "unused"
        BY <1>1, <3>1, <3>2 DEF Placed, Unfiled
      <4> QED
        BY <1>1, <1>4, <1>6, <3>2, <4>1 DEF Placed, Unfiled
    <3>3. CASE ~(holder[r] = old /\ phase[r] \notin Unfiled)
      BY <1>1, <1>4, <1>6, <3>1, <3>3 DEF Placed, IsFiled, IsDelta, Unfiled
    <3> QED
      BY <3>2, <3>3
  <2> QED
    BY <2>1, <2>2 DEF Located
<1>9. EntriesAgree'
  BY <1>1, <1>2, EntriesStay
<1>10. MailIsTrue' /\ MailIsOnce'
  <2>1. ASSUME NEW i \in DOMAIN toRouter PROVE Truthful(toRouter[i])'
    <3>1. /\ toRouter[i].client \in Sockets /\ Truthful(toRouter[i])
          /\ toRouter[i].type # "client_disconnected" => toRouter[i].req \in Requests
      BY <1>2 DEF StreamShapes, Message, MailIsTrue
    <3> QED
      BY <1>1, <1>4, <1>6, <3>1 DEF Truthful, OfRequest
  <2>2. ASSUME NEW i \in DOMAIN toApi PROVE TruthfulAck(toApi[i])'
    <3>1. TruthfulAck(toApi[i]) /\ toApi \in Seq(Ack)
      BY <1>2 DEF StreamShapes, MailIsTrue
    <3>2. toApi[i].req \in Requests
      BY <3>1, AckNames
    <3> QED
      BY <1>1, <1>6, <3>1, <3>2 DEF TruthfulAck
  <2>3. \A r \in Requests \ cutOff :
           phase'[r] \in {"asked", "answered", "cancelling", "cancelled"} => relay # NoSocket
    BY <1>2, <1>6 DEF MailIsTrue
  <2>4. MailIsTrue'
    BY <1>1, <2>1, <2>2, <2>3 DEF MailIsTrue
  <2>5. MailIsOnce'
    BY <1>1, <1>2 DEF MailIsOnce, OfRequest
  <2> QED
    BY <2>4, <2>5
<1>11. RouterKnows'
  BY <1>1, <1>2, <1>4, <1>6, RouterStays
<1>12. \A r \in Requests : Answering(r)' => Answering(r)
  BY <1>1, <1>6 DEF Answering
<1>13. AnsweredIsLinked'
  BY <1>1, <1>2, <1>4, <1>12, LinksStay
<1> QED
  BY <1>7, <1>8, <1>9, <1>10, <1>11, <1>13 DEF ServedInv

\* What the requests of the old socket are filed as, for the new one; those of other
\* sockets stay.
LEMMA CarriedOverAre ==
    ASSUME StreamShapes, Located, NEW s \in Sockets, NEW old \in Sockets, s # old
    PROVE  /\ \A r \in Range(clientDeltaRequestMap[old]) : EntryOf(r, s) \in CarriedOver(old, s)
           /\ LET rs == clientActionRequestMap[old]
              IN  \A i \in DOMAIN rs : LastAccount(rs, i) => EntryOf(rs[i], s) \in CarriedOver(old, s)
           /\ \A e \in entries : e.client \notin {s, old} => e \in CarriedOver(old, s)
<1>1. PICK ds : ds = clientDeltaRequestMap[old]
  OBVIOUS
<1>2. PICK rs : rs = clientActionRequestMap[old]
  OBVIOUS
<1>3. PICK es : es = Filed(ds, s, entries)
  OBVIOUS
<1>4. PICK fs : fs = Filed(rs, s, es)
  OBVIOUS
<1>5. CarriedOver(old, s) = {e \in fs : ~(e.client = old /\ e.topic = "delta") /\ ~(e.client = old /\ e.topic = "action")}
  BY <1>1, <1>2, <1>3, <1>4 DEF CarriedOver, DetachedDeltas, DetachedActions
<1>6. \A r, x : EntryOf(r, x).client = x /\ EntryOf(r, x).topic = topicOf[r]
  BY DEF EntryOf
<1>7. \A i \in DOMAIN ds : topicOf[ds[i]] = "delta"
  <2>1. \A i \in DOMAIN ds : ds[i] \in Range(clientDeltaRequestMap[old])
    BY <1>1 DEF Range
  <2> QED
    BY <2>1 DEF Located, HasOwn, IsDelta
<1>8. es = entries \cup {EntryOf(ds[i], s) : i \in DOMAIN ds}
  BY <1>3, <1>7 DEF Filed, EntryOf
<1>9. \A e \in es : e.topic # "account" \/ e.client # s => e \in fs
  BY <1>4 DEF Filed
<1>10. ASSUME NEW i \in DOMAIN rs, LastAccount(rs, i) PROVE EntryOf(rs[i], s) \in fs
  <2> DEFINE accounts == {k \in DOMAIN rs : topicOf[rs[k]] = "account"}
             obsolete == {k \in accounts : \E j \in accounts : j > k}
  <2>1. rs \in Seq(Requests) /\ DOMAIN rs \subseteq Int
    BY <1>2 DEF StreamShapes
  <2>2. i \notin obsolete
    BY <1>10, <2>1 DEF LastAccount
  <2>3. {EntryOf(rs[k], s) : k \in DOMAIN rs \ obsolete} \subseteq fs
    BY <1>4 DEF Filed, EntryOf
  <2> HIDE DEF obsolete
  <2> QED
    BY <2>2, <2>3
<1>11. ASSUME NEW r \in Range(clientDeltaRequestMap[old]) PROVE EntryOf(r, s) \in CarriedOver(old, s)
  <2>1. PICK i \in DOMAIN ds : ds[i] = r
    BY <1>1 DEF Range
  <2>2. EntryOf(r, s) \in fs
    BY <1>6, <1>7, <1>8, <1>9, <2>1
  <2> QED
    BY <1>5, <1>6, <2>2
<1>12. ASSUME NEW i \in DOMAIN rs, LastAccount(rs, i) PROVE EntryOf(rs[i], s) \in CarriedOver(old, s)
  BY <1>5, <1>6, <1>10, <1>12
<1>13. ASSUME NEW e \in entries, e.client \notin {s, old} PROVE e \in CarriedOver(old, s)
  BY <1>5, <1>8, <1>9, <1>13
<1> QED
  BY <1>2, <1>11, <1>12, <1>13

\* replaceClientId: what the old socket had is filed for the new one.
LEMMA CarryServed ==
    ASSUME ServedInv, NEW s \in Sockets, NEW old \in Sockets, Reconnect(s, old),
           clientDeltaRequestMap[old] # <<>>
    PROVE  ServedInv'
<1>1. PICK carried : carried = Range(clientDeltaRequestMap[old]) \cup Range(clientActionRequestMap[old])
  OBVIOUS
<1>2. /\ sock[s] = "unused" /\ sock[old] # "unused" /\ sock' = [sock EXCEPT ![s] = "open"]
      /\ entries' = CarriedOver(old, s) /\ timers' = timers \ {old}
      /\ clientDeltaRequestMap' =
           [clientDeltaRequestMap EXCEPT ![s] = clientDeltaRequestMap[old], ![old] = <<>>]
      /\ clientActionRequestMap' =
           [clientActionRequestMap EXCEPT ![s] = clientActionRequestMap[old], ![old] = <<>>]
      /\ holder' = [r \in Requests |-> IF r \in carried THEN s ELSE holder[r]]
      /\ untimely' = IF sock[old] # "closed" THEN untimely \cup carried ELSE untimely
      /\ UNCHANGED <<topicOf, by, phase>>
      /\ UNCHANGED <<relay, relayIds, toRouter, toApi, links, tracked, cutOff>>
  BY <1>1 DEF Reconnect, relayVars, routerVars
<1>3. StreamShapes /\ Located /\ EntriesAgree /\ MailIsTrue /\ MailIsOnce /\ RouterKnows /\ AnsweredIsLinked
  BY DEF ServedInv
<1>4. /\ sock \in [Sockets -> SocketStates] /\ holder \in [Requests -> Sockets \cup {NoSocket}]
      /\ clientDeltaRequestMap \in [Sockets -> Seq(Requests)]
      /\ clientActionRequestMap \in [Sockets -> Seq(Requests)]
  BY <1>3 DEF StreamShapes
<1>5. s # old
  BY <1>2
<1>6. /\ \A x \in Sockets : sock'[x] = IF x = s THEN "open" ELSE sock[x]
      /\ \A x \in Sockets : clientDeltaRequestMap'[x] =
            IF x = old THEN <<>> ELSE IF x = s THEN clientDeltaRequestMap[old] ELSE clientDeltaRequestMap[x]
      /\ \A x \in Sockets : clientActionRequestMap'[x] =
            IF x = old THEN <<>> ELSE IF x = s THEN clientActionRequestMap[old] ELSE clientActionRequestMap[x]
      /\ \A r \in Requests : holder'[r] = IF r \in carried THEN s ELSE holder[r]
  BY <1>2, <1>4, <1>5
<1>7. \A r \in carried : r \in Requests /\ holder[r] = old /\ phase[r] \notin Unfiled
  <2>1. \A r \in carried : r \in Requests
    BY <1>1, <1>4 DEF Range
  <2> QED
    BY <1>1, <1>3, <2>1 DEF Located, HasOwn
<1>8. \A r \in Requests : phase[r] # "unused" => by[r] # s /\ holder[r] # s
  BY <1>2, <1>3 DEF Located, Placed
<1>9. StreamShapes'
  <2>1. sock' \in [Sockets -> SocketStates] /\ holder' \in [Requests -> Sockets \cup {NoSocket}]
    BY <1>2, <1>4 DEF SocketStates
  <2>2. /\ clientDeltaRequestMap' \in [Sockets -> Seq(Requests)]
        /\ clientActionRequestMap' \in [Sockets -> Seq(Requests)]
    <3>1. \A x \in Sockets : clientDeltaRequestMap[x] \in Seq(Requests) /\ clientActionRequestMap[x] \in Seq(Requests)
      BY <1>4
    <3>2. <<>> \in Seq(Requests)
      OBVIOUS
    <3>3. ASSUME NEW f \in [Sockets -> Seq(Requests)], NEW d \in Seq(Requests)
          PROVE  [f EXCEPT ![s] = d, ![old] = <<>>] \in [Sockets -> Seq(Requests)]
      BY <3>2
    <3> QED
      BY <1>2, <1>4, <3>1, <3>3
  <2> QED
    BY <1>2, <1>3, <1>6, <2>1, <2>2 DEF StreamShapes
<1>10. Located'
  <2>1. ASSUME NEW x \in Sockets PROVE HasOwn(x)'
    <3>1. CASE x = old
      BY <1>6, <3>1, RangeEmpty DEF HasOwn
    <3>2. CASE x = s
      <4>1. /\ Range(clientDeltaRequestMap'[x]) = Range(clientDeltaRequestMap[old])
            /\ Range(clientActionRequestMap'[x]) = Range(clientActionRequestMap[old])
        BY <1>5, <1>6, <3>2
      <4>2. HasOwn(old)
        BY <1>3 DEF Located
      <4> QED
        BY <1>1, <1>2, <1>6, <1>7, <3>2, <4>1, <4>2 DEF HasOwn, IsDelta
    <3>3. CASE x # old /\ x # s
      <4>1. HasOwn(x)
        BY <1>3 DEF Located
      <4>2. \A r \in Range(clientDeltaRequestMap[x]) \cup Range(clientActionRequestMap[x]) :
               r \in Requests /\ holder[r] = x
        <5>1. \A r \in Range(clientDeltaRequestMap[x]) \cup Range(clientActionRequestMap[x]) : r \in Requests
          BY <1>4 DEF Range
        <5> QED
          BY <4>1, <5>1 DEF HasOwn
      <4>3. /\ clientDeltaRequestMap'[x] = clientDeltaRequestMap[x]
            /\ clientActionRequestMap'[x] = clientActionRequestMap[x]
        BY <1>6, <3>3
      <4>4. \A r \in Range(clientDeltaRequestMap[x]) \cup Range(clientActionRequestMap[x]) : holder'[r] = x
        BY <1>6, <1>7, <3>3, <4>2
      <4> QED
        BY <1>2, <4>1, <4>3, <4>4 DEF HasOwn, IsDelta
    <3> QED
      BY <3>1, <3>2, <3>3
  <2>2. ASSUME NEW r \in Requests PROVE Placed(r)'
    <3>1. Placed(r) /\ HasOwn(old)
      BY <1>3 DEF Located
    <3>2. CASE r \in carried
      <4>1. IsFiled(r, old)
        BY <1>1, <3>1, <3>2 DEF HasOwn, IsFiled
      <4>2. IsFiled(r, s)'
        BY <1>2, <1>5, <1>6, <4>1 DEF IsFiled, IsDelta
      <4>3. phase[r] # "unused" /\ phase[r] \notin Unfiled
        BY <1>7, <3>2 DEF Unfiled
      <4> QED
        BY <1>2, <1>6, <1>8, <3>1, <3>2, <4>2, <4>3 DEF Placed, Unfiled
    <3>3. CASE r \notin carried
      <4>1. holder'[r] = holder[r]
        BY <1>6, <3>3
      <4>2. CASE phase[r] = "unused"
        BY <1>2, <3>1, <4>1, <4>2 DEF Placed, Unfiled
      <4>3. CASE phase[r] # "unused"
        <5>1. /\ by[r] \in Sockets /\ holder[r] \in Sockets /\ by[r] # s /\ holder[r] # s
              /\ sock'[by[r]] = sock[by[r]] /\ sock'[holder[r]] = sock[holder[r]]
          BY <1>6, <1>8, <3>1, <4>3 DEF Placed
        <5>2. IsFiled(r, holder[r]) => holder[r] # old
          BY <1>1, <3>3 DEF IsFiled
        <5>3. ASSUME IsFiled(r, holder[r]) PROVE IsFiled(r, holder[r])'
          <6>1. PICK x \in Sockets : x = holder[r]
            BY <5>1
          <6>2. /\ clientDeltaRequestMap'[x] = clientDeltaRequestMap[x]
                /\ clientActionRequestMap'[x] = clientActionRequestMap[x]
            BY <1>6, <5>1, <5>2, <5>3, <6>1
          <6> QED
            BY <1>2, <4>1, <5>3, <6>1, <6>2 DEF IsFiled, IsDelta
        <5> QED
          BY <1>2, <3>1, <4>1, <4>3, <5>1, <5>3 DEF Placed, Unfiled
      <4> QED
        BY <4>2, <4>3
    <3> QED
      BY <3>2, <3>3
  <2> QED
    BY <2>1, <2>2 DEF Located
<1>11. EntriesAgree'
  <2>1. \A r, x : EntryOf(r, x)' = EntryOf(r, x) /\ EntryOf(r, x).client = x
    BY <1>2 DEF EntryOf
  <2>2. \A rs, i : LastAccount(rs, i)' <=> LastAccount(rs, i)
    BY <1>2 DEF LastAccount
  <2>3. /\ \A r \in Range(clientDeltaRequestMap[old]) : EntryOf(r, s) \in entries'
        /\ \A i \in DOMAIN clientActionRequestMap[old] :
              LastAccount(clientActionRequestMap[old], i) => EntryOf(clientActionRequestMap[old][i], s) \in entries'
        /\ \A e \in entries : e.client \notin {s, old} => e \in entries'
    BY <1>2, <1>3, <1>5, CarriedOverAre
  <2> SUFFICES ASSUME NEW x \in Sockets PROVE EntriesOf(x)'
    BY DEF EntriesAgree
  <2>4. CASE x = old
    <3>1. Range(clientDeltaRequestMap'[x]) = {} /\ DOMAIN clientActionRequestMap'[x] = {}
      BY <1>6, <2>4, RangeEmpty
    <3> QED
      BY <3>1 DEF EntriesOf
  <2>5. CASE x = s
    <3>1. /\ clientDeltaRequestMap'[x] = clientDeltaRequestMap[old]
          /\ clientActionRequestMap'[x] = clientActionRequestMap[old]
      BY <1>5, <1>6, <2>5
    <3> QED
      BY <2>1, <2>2, <2>3, <2>5, <3>1 DEF EntriesOf
  <2>6. CASE x # old /\ x # s
    <3>1. /\ clientDeltaRequestMap'[x] = clientDeltaRequestMap[x]
          /\ clientActionRequestMap'[x] = clientActionRequestMap[x]
      BY <1>6, <2>6
    <3>2. EntriesOf(x)
      BY <1>3 DEF EntriesAgree
    <3> QED
      BY <2>1, <2>2, <2>3, <2>6, <3>1, <3>2 DEF EntriesOf
  <2> QED
    BY <2>4, <2>5, <2>6
<1>12. MailIsTrue' /\ MailIsOnce'
  <2>1. \A x \in Sockets : sock[x] = "left" => sock'[x] = "left"
    BY <1>2, <1>6
  <2> QED
    BY <1>2, <1>3, <2>1, MailStays
<1>13. ASSUME NEW r \in Requests \ untimely', r \in carried
       PROVE  r \notin untimely /\ sock[old] = "closed" /\ sock[holder[r]] # "left"
  BY <1>2, <1>7, <1>13
<1>14. RouterKnows'
  <2>1. \A t \in tracked' : t.client = by'[t.req] /\ phase'[t.req] # "unused"
    BY <1>2, <1>3 DEF RouterKnows
  <2>2. ASSUME NEW r \in Requests \ untimely', holder'[r] # by'[r]
        PROVE  sock'[by'[r]] = "closed" /\ by'[r] \notin timers'
    <3>1. r \notin untimely
      BY <1>2
    <3>2. CASE holder[r] = by[r]
      <4>1. r \in carried /\ by[r] = old
        BY <1>2, <1>6, <1>7, <2>2, <3>2
      <4> QED
        BY <1>2, <1>5, <1>6, <1>13, <4>1
    <3>3. CASE holder[r] # by[r]
      <4>1. sock[by[r]] = "closed" /\ by[r] \notin timers
        BY <1>3, <3>1, <3>3 DEF RouterKnows
      <4>2. by[r] \in Sockets
        BY <1>3, <3>3 DEF Located, Placed, Unfiled
      <4> QED
        BY <1>2, <1>6, <4>1, <4>2
    <3> QED
      BY <3>2, <3>3
  <2> QED
    BY <2>1, <2>2 DEF RouterKnows
<1>15. AnsweredIsLinked'
  <2> SUFFICES ASSUME NEW r \in Requests \ (cutOff' \cup untimely'), Answering(r)', sock'[holder'[r]] # "left"
               PROVE  LinkOf(r)' \in links'
    BY DEF AnsweredIsLinked
  <2>1. Answering(r)
    BY <1>2 DEF Answering
  <2>2. holder[r] \in Sockets
    BY <1>3, <2>1, AnsweringIsOn
  <2>3. r \notin cutOff \cup untimely /\ sock[holder[r]] # "left"
    BY <1>2, <1>6, <1>13, <2>2
  <2>4. LinkOf(r) \in links
    BY <1>3, <2>1, <2>3 DEF AnsweredIsLinked
  <2> QED
    BY <1>2, <2>4 DEF LinkOf
<1> QED
  BY <1>9, <1>10, <1>11, <1>12, <1>14, <1>15 DEF ServedInv

-----------------------------------------------------------------------------
(* Requests *)

\* A request with a message under way, or filed, is not new.
LEMMA NewHasNoMail ==
    ASSUME StreamShapes, MailIsTrue, NEW r \in Requests,
           phase[r] \notin {"asked", "cancelling", "resend"}
    PROVE  /\ \A i \in DOMAIN toRouter : OfRequest(toRouter[i]) => toRouter[i].req # r
           /\ \A i \in DOMAIN toApi : toApi[i].req # r
<1>1. \A i \in DOMAIN toRouter : OfRequest(toRouter[i]) => toRouter[i].type \in {"request", "cancel_request"}
  BY DEF StreamShapes, Message, OfRequest
<1> QED
  BY <1>1 DEF MailIsTrue, Truthful, TruthfulAck

\* A request that has no mail sends a message.
LEMMA MailSent ==
    ASSUME StreamShapes, MailIsTrue, MailIsOnce, NEW r \in Requests, NEW m \in Message,
           phase[r] \notin {"asked", "cancelling", "resend"},
           phase'[r] \in {"asked", "cancelling"},
           relay # NoSocket, m.req = r, OfRequest(m), Truthful(m)', toRouter' = Append(toRouter, m),
           UNCHANGED <<sock, relay, toApi>>, cutOff \subseteq cutOff',
           \A q \in Requests \ {r} : phase'[q] = phase[q] /\ by'[q] = by[q]
    PROVE  MailIsTrue' /\ MailIsOnce'
<1>1. toRouter \in Seq(Message) /\ toApi \in Seq(Ack)
  BY DEF StreamShapes
<1>2. PICK n \in DOMAIN toRouter' :
         /\ toRouter'[n] = m
         /\ DOMAIN toRouter' = DOMAIN toRouter \cup {n}
         /\ \A i \in DOMAIN toRouter : toRouter'[i] = toRouter[i]
  BY <1>1, Added
<1>3. /\ \A i \in DOMAIN toRouter : OfRequest(toRouter[i]) => toRouter[i].req # r
      /\ \A i \in DOMAIN toApi : toApi[i].req # r
  BY NewHasNoMail
<1>4. \A k : OfRequest(k)' <=> OfRequest(k)
  BY DEF OfRequest
<1>5. ASSUME NEW i \in DOMAIN toRouter PROVE Truthful(toRouter[i])'
  <2>1. Truthful(toRouter[i]) /\ toRouter[i] \in Message /\ toRouter'[i] = toRouter[i]
    BY <1>1, <1>2 DEF MailIsTrue
  <2>2. OfRequest(toRouter[i]) => toRouter[i].req \in Requests \ {r}
    BY <1>3, <2>1 DEF Message, OfRequest
  <2> QED
    BY <2>1, <2>2 DEF Truthful, OfRequest
<1>6. ASSUME NEW i \in DOMAIN toApi PROVE TruthfulAck(toApi[i])'
  <2>1. TruthfulAck(toApi[i])
    BY DEF MailIsTrue
  <2>2. toApi[i].req \in Requests \ {r}
    BY <1>1, <1>3, AckNames
  <2> QED
    BY <2>1, <2>2 DEF TruthfulAck
<1>7. MailIsTrue'
  <2>1. \A i \in DOMAIN toRouter' : Truthful(toRouter[i])'
    BY <1>2, <1>5
  <2> QED
    BY <1>6, <2>1 DEF MailIsTrue
<1>8. MailIsOnce'
  BY <1>2, <1>3, <1>4 DEF MailIsOnce
<1> QED
  BY <1>7, <1>8

\* processStreamRequest after the validation, of a request with socket s.
LEMMA FileServed ==
    ASSUME ServedInv, NEW r \in Requests, NEW s \in Sockets, File(r, s),
           phase[r] \in Unfiled, phase[r] = "unused" \/ by[r] = s, sock[s] # "unused",
           by' = [by EXCEPT ![r] = s], holder' = [holder EXCEPT ![r] = s],
           UNCHANGED <<sock, topicOf, timers, relay, relayIds, toApi, links, tracked, cutOff, untimely>>
    PROVE  ServedInv'
<1> DEFINE m == [type |-> "request", client |-> s, req |-> r]
<1>1. /\ entries' = Filed(<<r>>, s, entries)
      /\ clientDeltaRequestMap' = IF IsDelta(r) THEN [clientDeltaRequestMap EXCEPT ![s] = Append(@, r)]
                                  ELSE clientDeltaRequestMap
      /\ clientActionRequestMap' = IF IsDelta(r) THEN clientActionRequestMap
                                   ELSE [clientActionRequestMap EXCEPT ![s] = Append(@, r)]
      /\ toRouter' = IF relay # NoSocket THEN Append(toRouter, m) ELSE toRouter
      /\ phase' = [phase EXCEPT ![r] = IF relay # NoSocket THEN "asked" ELSE "offline"]
  BY DEF File
<1>2. StreamShapes /\ Located /\ EntriesAgree /\ MailIsTrue /\ MailIsOnce /\ RouterKnows /\ AnsweredIsLinked
  BY DEF ServedInv
<1>3. /\ sock \in [Sockets -> SocketStates] /\ topicOf \in [Requests -> Topics]
      /\ by \in [Requests -> Sockets \cup {NoSocket}] /\ holder \in [Requests -> Sockets \cup {NoSocket}]
      /\ phase \in [Requests -> Phases] /\ toRouter \in Seq(Message)
      /\ clientDeltaRequestMap \in [Sockets -> Seq(Requests)]
      /\ clientActionRequestMap \in [Sockets -> Seq(Requests)]
  BY <1>2 DEF StreamShapes
<1>4. m \in Message /\ m.req = r /\ OfRequest(m) /\ m.type = "request" /\ m.client = s
  BY DEF Message, OfRequest
<1>5. /\ \A q \in Requests : /\ by'[q] = IF q = r THEN s ELSE by[q]
                             /\ holder'[q] = IF q = r THEN s ELSE holder[q]
                             /\ phase'[q] = IF q # r THEN phase[q]
                                            ELSE IF relay # NoSocket THEN "asked" ELSE "offline"
      /\ \A x \in Sockets : x # s => /\ clientDeltaRequestMap'[x] = clientDeltaRequestMap[x]
                                     /\ clientActionRequestMap'[x] = clientActionRequestMap[x]
  BY <1>1, <1>3
<1>6. /\ clientDeltaRequestMap'[s] = IF IsDelta(r) THEN Append(clientDeltaRequestMap[s], r)
                                     ELSE clientDeltaRequestMap[s]
      /\ clientActionRequestMap'[s] = IF IsDelta(r) THEN clientActionRequestMap[s]
                                      ELSE Append(clientActionRequestMap[s], r)
  BY <1>1, <1>3
<1>7. StreamShapes'
  <2>1. phase' \in [Requests -> Phases] /\ by' \in [Requests -> Sockets \cup {NoSocket}]
        /\ holder' \in [Requests -> Sockets \cup {NoSocket}]
    BY <1>1, <1>3 DEF Phases
  <2>2. /\ clientDeltaRequestMap' \in [Sockets -> Seq(Requests)]
        /\ clientActionRequestMap' \in [Sockets -> Seq(Requests)]
    BY <1>1, <1>3
  <2>3. toRouter' \in Seq(Message)
    <3> HIDE DEF m
    <3> QED
      BY <1>1, <1>3, <1>4
  <2> QED
    BY <1>2, <2>1, <2>2, <2>3 DEF StreamShapes
<1>8. /\ Range(clientDeltaRequestMap'[s]) = IF IsDelta(r) THEN Range(clientDeltaRequestMap[s]) \cup {r}
                                            ELSE Range(clientDeltaRequestMap[s])
      /\ Range(clientActionRequestMap'[s]) = IF IsDelta(r) THEN Range(clientActionRequestMap[s])
                                             ELSE Range(clientActionRequestMap[s]) \cup {r}
  <2>1. /\ Range(Append(clientDeltaRequestMap[s], r)) = Range(clientDeltaRequestMap[s]) \cup {r}
        /\ Range(Append(clientActionRequestMap[s], r)) = Range(clientActionRequestMap[s]) \cup {r}
    <3>1. clientDeltaRequestMap[s] \in Seq(Requests) /\ clientActionRequestMap[s] \in Seq(Requests)
      BY <1>3
    <3> QED
      BY <3>1, RangeAdded
  <2> QED
    BY <1>6, <2>1
<1>9. \A x \in Sockets : \A q \in Range(clientDeltaRequestMap[x]) \cup Range(clientActionRequestMap[x]) :
         q \in Requests /\ q # r
  <2>1. \A x \in Sockets : \A q \in Range(clientDeltaRequestMap[x]) \cup Range(clientActionRequestMap[x]) :
           q \in Requests
    BY <1>3 DEF Range
  <2> QED
    BY <1>2, <2>1 DEF Located, HasOwn
<1>10. Located'
  <2>1. ASSUME NEW x \in Sockets PROVE HasOwn(x)'
    <3>1. HasOwn(x)
      BY <1>2 DEF Located
    <3>2. phase'[r] \notin Unfiled
      BY <1>5 DEF Unfiled
    <3>3. CASE x = s
      BY <1>5, <1>8, <1>9, <3>1, <3>2, <3>3 DEF HasOwn, IsDelta
    <3>4. CASE x # s
      BY <1>5, <1>9, <3>1, <3>4 DEF HasOwn, IsDelta
    <3> QED
      BY <3>3, <3>4
  <2>2. ASSUME NEW q \in Requests PROVE Placed(q)'
    <3>1. CASE q = r
      <4>1. IsFiled(r, s)'
        BY <1>8 DEF IsFiled, IsDelta
      <4> QED
        BY <1>5, <3>1, <4>1 DEF Placed, Unfiled
    <3>2. CASE q # r
      <4>1. Placed(q)
        BY <1>2 DEF Located
      <4>2. ASSUME NEW x \in Sockets, IsFiled(q, x) PROVE IsFiled(q, x)'
        <5>1. CASE x = s
          BY <1>8, <4>2, <5>1 DEF IsFiled, IsDelta
        <5>2. CASE x # s
          BY <1>5, <4>2, <5>2 DEF IsFiled, IsDelta
        <5> QED
          BY <5>1, <5>2
      <4> QED
        BY <1>5, <3>2, <4>1, <4>2 DEF Placed, Unfiled
    <3> QED
      BY <3>1, <3>2
  <2> QED
    BY <2>1, <2>2 DEF Located
<1>11. EntriesAgree'
  <2>1. \A q, x : EntryOf(q, x)' = EntryOf(q, x) /\ EntryOf(q, x).client = x /\ EntryOf(q, x).topic = topicOf[q]
    BY DEF EntryOf
  <2>2. \A rs, i : LastAccount(rs, i)' <=> LastAccount(rs, i)
    BY DEF LastAccount
  <2>3. \A e \in entries : e.client # s \/ e.topic # "account" \/ topicOf[r] # "account" => e \in entries'
    BY <1>1 DEF Filed
  <2>4. EntryOf(r, s) \in entries'
    <3> DEFINE rs == <<r>>
               accounts == {k \in DOMAIN rs : topicOf[rs[k]] = "account"}
               obsolete == {k \in accounts : \E j \in accounts : j > k}
    <3>1. DOMAIN rs = {1} /\ rs[1] = r
      OBVIOUS
    <3>2. obsolete = {}
      BY <3>1
    <3>3. {EntryOf(rs[k], s) : k \in DOMAIN rs \ obsolete} \subseteq entries'
      BY <1>1 DEF Filed, EntryOf
    <3> HIDE DEF obsolete, rs
    <3> QED
      BY <3>1, <3>2, <3>3
  <2> SUFFICES ASSUME NEW x \in Sockets PROVE EntriesOf(x)'
    BY DEF EntriesAgree
  <2>5. EntriesOf(x)
    BY <1>2 DEF EntriesAgree
  <2>6. CASE x # s
    <3>1. /\ clientDeltaRequestMap'[x] = clientDeltaRequestMap[x]
          /\ clientActionRequestMap'[x] = clientActionRequestMap[x]
      BY <1>5, <2>6
    <3> QED
      BY <2>1, <2>2, <2>3, <2>5, <2>6, <3>1 DEF EntriesOf
  <2>7. CASE x = s
    <3>1. ASSUME NEW q \in Range(clientDeltaRequestMap'[s]) PROVE EntryOf(q, s) \in entries'
      <4>1. CASE q \in Range(clientDeltaRequestMap[s])
        <5>1. topicOf[q] = "delta"
          BY <1>2, <4>1 DEF Located, HasOwn, IsDelta
        <5> QED
          BY <2>1, <2>3, <2>5, <2>7, <4>1, <5>1 DEF EntriesOf
      <4>2. CASE q = r
        BY <2>4, <4>2
      <4> QED
        BY <1>8, <3>1, <4>1, <4>2
    <3>2. ASSUME NEW i \in DOMAIN clientActionRequestMap'[s], LastAccount(clientActionRequestMap'[s], i)
          PROVE  EntryOf(clientActionRequestMap'[s][i], s) \in entries'
      <4>1. PICK rs : rs = clientActionRequestMap[s]
        OBVIOUS
      <4>2. rs \in Seq(Requests)
        BY <1>3, <4>1
      <4>3. CASE IsDelta(r)
        <5>1. i \in DOMAIN rs /\ LastAccount(rs, i) /\ clientActionRequestMap'[s][i] = rs[i]
          BY <1>6, <3>2, <4>1, <4>3
        <5>2. EntryOf(rs[i], s) \in entries
          BY <2>5, <2>7, <4>1, <5>1 DEF EntriesOf
        <5> QED
          BY <2>1, <2>3, <4>3, <5>1, <5>2 DEF IsDelta
      <4>4. CASE ~IsDelta(r)
        <5>1. PICK qs : qs = clientActionRequestMap'[s]
          OBVIOUS
        <5>2. qs = Append(rs, r)
          BY <1>6, <4>1, <4>4, <5>1
        <5>3. PICK n \in DOMAIN qs : /\ qs[n] = r /\ DOMAIN qs = DOMAIN rs \cup {n}
                                     /\ \A j \in DOMAIN rs : j < n /\ qs[j] = rs[j]
          BY <4>2, <5>2, Added
        <5>4. CASE i = n
          BY <2>4, <5>1, <5>3, <5>4
        <5>5. CASE i \in DOMAIN rs
          <6>1. qs[i] = rs[i] /\ i < n /\ LastAccount(qs, i)
            BY <3>2, <5>1, <5>3, <5>5
          <6>2. LastAccount(rs, i)
            BY <5>3, <6>1 DEF LastAccount
          <6>3. EntryOf(rs[i], s) \in entries
            BY <2>5, <2>7, <4>1, <5>5, <6>2 DEF EntriesOf
          <6>4. topicOf[rs[i]] # "account" \/ topicOf[r] # "account"
            BY <5>3, <6>1 DEF LastAccount
          <6> QED
            BY <2>1, <2>3, <5>1, <6>1, <6>3, <6>4
        <5> QED
          BY <3>2, <5>1, <5>3, <5>4, <5>5
      <4> QED
        BY <4>3, <4>4
    <3> QED
      BY <2>1, <2>2, <2>7, <3>1, <3>2 DEF EntriesOf
  <2> QED
    BY <2>6, <2>7
<1>12. phase[r] \notin {"asked", "cancelling", "resend"}
  BY DEF Unfiled
<1>13. MailIsTrue' /\ MailIsOnce'
  <2>1. CASE relay # NoSocket
    <3>1. toRouter' = Append(toRouter, m) /\ phase'[r] \in {"asked", "cancelling"}
      BY <1>1, <1>5, <2>1
    <3>2. Truthful(m)'
      BY <1>4, <1>5, <2>1 DEF Truthful
    <3> HIDE DEF m
    <3> QED
      BY <1>2, <1>4, <1>5, <1>12, <2>1, <3>1, <3>2, MailSent
  <2>2. CASE relay = NoSocket
    <3>1. UNCHANGED <<toRouter, toApi, sock, relay, cutOff>>
      BY <1>1, <2>2
    <3>2. \A i \in DOMAIN toRouter : ~OfRequest(toRouter[i]) /\ Truthful(toRouter[i])
      BY <1>2, <2>2 DEF MailIsTrue, Truthful
    <3>3. toApi = <<>> \/ DOMAIN toApi = {}
      BY <1>2, <2>2 DEF MailIsTrue, TruthfulAck
    <3>4. MailIsTrue'
      BY <1>2, <1>5, <2>2, <3>1, <3>2, <3>3 DEF MailIsTrue, Truthful, TruthfulAck, OfRequest
    <3>5. MailIsOnce'
      BY <1>2, <3>1 DEF MailIsOnce, OfRequest
    <3> QED
      BY <3>4, <3>5
  <2> QED
    BY <2>1, <2>2
<1>14. RouterKnows'
  <2>1. ASSUME NEW t \in tracked' PROVE t.client = by'[t.req] /\ phase'[t.req] # "unused"
    <3>1. t.req \in Requests /\ t.client = by[t.req] /\ phase[t.req] # "unused"
      BY <1>2 DEF RouterKnows, StreamShapes
    <3> QED
      BY <1>5, <3>1
  <2>2. ASSUME NEW q \in Requests \ untimely', holder'[q] # by'[q]
        PROVE  sock'[by'[q]] = "closed" /\ by'[q] \notin timers'
    BY <1>2, <1>5, <2>2 DEF RouterKnows
  <2> QED
    BY <2>1, <2>2 DEF RouterKnows
<1>15. AnsweredIsLinked'
  <2> SUFFICES ASSUME NEW q \in Requests \ (cutOff' \cup untimely'), Answering(q)', sock'[holder'[q]] # "left"
               PROVE  LinkOf(q)' \in links'
    BY DEF AnsweredIsLinked
  <2>1. Answering(q)
    <3>1. \A i \in DOMAIN toRouter' : toRouter'[i].type = "cancel_request" =>
             i \in DOMAIN toRouter /\ toRouter'[i] = toRouter[i]
      <4>1. CASE relay # NoSocket
        <5>1. toRouter' = Append(toRouter, m)
          BY <1>1, <4>1
        <5>2. m.type # "cancel_request"
          BY <1>4
        <5> HIDE DEF m
        <5> QED
          BY <1>3, <1>4, <5>1, <5>2, Added
      <4> QED
        BY <1>1, <4>1
    <3>2. phase'[q] = "answered" => phase[q] = "answered"
      BY <1>5
    <3> QED
      BY <3>1, <3>2 DEF Answering
  <2>2. phase[q] \in {"asked", "answered", "cancelling", "resend"}
    BY <1>2, <2>1, AnsweringIsOn
  <2>3. q # r
    BY <2>2 DEF Unfiled
  <2>4. LinkOf(q) \in links
    BY <1>2, <1>5, <2>1, <2>3 DEF AnsweredIsLinked
  <2> QED
    BY <2>4 DEF LinkOf
<1> QED
  BY <1>7, <1>10, <1>11, <1>13, <1>14, <1>15 DEF ServedInv

\* The validation begins, or ends without a request to file.
LEMMA ValidationServed ==
    ASSUME ServedInv, NEW r \in Requests, NEW s \in Sockets, NEW v \in Unfiled \ {"unused"},
           phase[r] \in Unfiled, sock[s] # "unused", phase' = [phase EXCEPT ![r] = v],
           phase[r] = "unused" \/ by[r] = s,
           by' = [by EXCEPT ![r] = s], holder' = [holder EXCEPT ![r] = s],
           UNCHANGED <<entries, clientDeltaRequestMap, clientActionRequestMap, toRouter>>,
           UNCHANGED <<sock, topicOf, timers, relay, relayIds, toApi, links, tracked, cutOff, untimely>>
    PROVE  ServedInv'
<1>0. /\ phase[r] \notin {"asked", "answered", "cancelling", "cancelled", "resend"}
      /\ v \notin {"unused", "asked", "answered", "cancelling", "cancelled", "resend"}
  BY DEF Unfiled
<1>1. StreamShapes /\ Located /\ EntriesAgree /\ MailIsTrue /\ MailIsOnce /\ RouterKnows /\ AnsweredIsLinked
  BY DEF ServedInv
<1>2. /\ by \in [Requests -> Sockets \cup {NoSocket}] /\ holder \in [Requests -> Sockets \cup {NoSocket}]
      /\ phase \in [Requests -> Phases]
      /\ clientDeltaRequestMap \in [Sockets -> Seq(Requests)]
      /\ clientActionRequestMap \in [Sockets -> Seq(Requests)]
  BY <1>1 DEF StreamShapes
<1>3. \A q \in Requests : /\ by'[q] = IF q = r THEN s ELSE by[q]
                          /\ holder'[q] = IF q = r THEN s ELSE holder[q]
                          /\ phase'[q] = IF q = r THEN v ELSE phase[q]
  BY <1>2
<1>4. StreamShapes'
  <2>1. phase' \in [Requests -> Phases] /\ by' \in [Requests -> Sockets \cup {NoSocket}]
        /\ holder' \in [Requests -> Sockets \cup {NoSocket}]
    BY <1>2 DEF Phases, Unfiled
  <2> QED
    BY <1>1, <2>1 DEF StreamShapes
<1>5. Located'
  <2>1. ASSUME NEW x \in Sockets PROVE HasOwn(x)'
    <3>1. HasOwn(x)
      BY <1>1 DEF Located
    <3>2. \A q \in Range(clientDeltaRequestMap[x]) \cup Range(clientActionRequestMap[x]) : q \in Requests
      BY <1>2 DEF Range
    <3> QED
      BY <1>3, <3>1, <3>2 DEF HasOwn, IsDelta
  <2>2. ASSUME NEW q \in Requests PROVE Placed(q)'
    <3>1. Placed(q)
      BY <1>1 DEF Located
    <3> QED
      BY <1>3, <3>1 DEF Placed, IsFiled, IsDelta, Unfiled
  <2> QED
    BY <2>1, <2>2 DEF Located
<1>6. EntriesAgree'
  BY <1>1, EntriesStay
<1>7. MailIsTrue' /\ MailIsOnce'
  <2>1. /\ \A i \in DOMAIN toRouter : OfRequest(toRouter[i]) => toRouter[i].req # r
        /\ \A i \in DOMAIN toApi : toApi[i].req # r
    BY <1>0, <1>1, NewHasNoMail
  <2>2. ASSUME NEW i \in DOMAIN toRouter PROVE Truthful(toRouter[i])'
    <3>1. Truthful(toRouter[i]) /\ (OfRequest(toRouter[i]) => toRouter[i].req \in Requests)
      BY <1>1 DEF MailIsTrue, StreamShapes, Message, OfRequest
    <3> QED
      BY <1>3, <2>1, <3>1 DEF Truthful, OfRequest
  <2>3. ASSUME NEW i \in DOMAIN toApi PROVE TruthfulAck(toApi[i])'
    <3>1. TruthfulAck(toApi[i])
      BY <1>1 DEF MailIsTrue
    <3>2. toApi \in Seq(Ack)
      BY <1>1 DEF StreamShapes
    <3>3. toApi[i].req \in Requests
      BY <3>2, AckNames
    <3> QED
      BY <1>3, <2>1, <3>1, <3>3 DEF TruthfulAck
  <2>4. MailIsTrue'
    BY <1>0, <1>1, <1>3, <2>2, <2>3 DEF MailIsTrue
  <2>5. MailIsOnce'
    BY <1>1 DEF MailIsOnce, OfRequest
  <2> QED
    BY <2>4, <2>5
<1>8. RouterKnows'
  <2>1. ASSUME NEW t \in tracked' PROVE t.client = by'[t.req] /\ phase'[t.req] # "unused"
    <3>1. t.req \in Requests /\ t.client = by[t.req] /\ phase[t.req] # "unused"
      BY <1>1 DEF RouterKnows, StreamShapes
    <3> QED
      BY <1>3, <3>1
  <2>2. ASSUME NEW q \in Requests \ untimely', holder'[q] # by'[q]
        PROVE  sock'[by'[q]] = "closed" /\ by'[q] \notin timers'
    BY <1>1, <1>3, <2>2 DEF RouterKnows
  <2> QED
    BY <2>1, <2>2 DEF RouterKnows
<1>9. AnsweredIsLinked'
  <2> SUFFICES ASSUME NEW q \in Requests \ (cutOff' \cup untimely'), Answering(q)', sock'[holder'[q]] # "left"
               PROVE  LinkOf(q)' \in links'
    BY DEF AnsweredIsLinked
  <2>1. Answering(q)
    BY <1>0, <1>3 DEF Answering
  <2>2. q # r
    BY <1>0, <1>1, <2>1, AnsweringIsOn
  <2>3. LinkOf(q) \in links
    BY <1>1, <1>3, <2>1, <2>2 DEF AnsweredIsLinked
  <2> QED
    BY <2>3 DEF LinkOf
<1> QED
  BY <1>4, <1>5, <1>6, <1>7, <1>8, <1>9 DEF ServedInv

\* A client asks.
LEMMA AskServed ==
    ASSUME ServedInv, NEW r \in Requests, AskStream(r)
    PROVE  ServedInv'
<1>1. PICK s \in Sockets :
        /\ sock[s] = "open" /\ by' = [by EXCEPT ![r] = s] /\ holder' = [holder EXCEPT ![r] = s]
        /\ \/ /\ phase' = [phase EXCEPT ![r] = "validating"]
              /\ UNCHANGED <<entries, clientDeltaRequestMap, clientActionRequestMap, toRouter>>
           \/ File(r, s)
           \/ TurnDown(r)
  BY DEF AskStream
<1>2. /\ phase[r] = "unused"
      /\ UNCHANGED <<sock, topicOf, timers, relay, relayIds, toApi, links, tracked, cutOff, untimely>>
  BY DEF AskStream, routerVars
<1>3. phase[r] \in Unfiled /\ sock[s] # "unused"
  BY <1>1, <1>2 DEF Unfiled
<1>4. ASSUME NEW v \in {"validating", "rejected", "failed"}, phase' = [phase EXCEPT ![r] = v],
             UNCHANGED <<entries, clientDeltaRequestMap, clientActionRequestMap, toRouter>>
      PROVE  ServedInv'
  <2>1. v \in Unfiled \ {"unused"}
    BY DEF Unfiled
  <2> QED
    BY <1>1, <1>2, <1>3, <1>4, <2>1, ValidationServed
<1>5. CASE File(r, s)
  BY <1>1, <1>2, <1>3, <1>5, FileServed
<1>6. CASE TurnDown(r)
  BY <1>4, <1>6 DEF TurnDown
<1> QED
  BY <1>1, <1>4, <1>5, <1>6

\* The validation ends, whatever became of the socket.
LEMMA ProcessServed ==
    ASSUME ServedInv, NEW r \in Requests, ProcessStreamRequest(r)
    PROVE  ServedInv'
<1>1. /\ phase[r] = "validating" /\ (File(r, by[r]) \/ TurnDown(r))
      /\ UNCHANGED <<sock, topicOf, by, holder, timers, relay, relayIds, toApi, links, tracked, cutOff, untimely>>
  BY DEF ProcessStreamRequest, routerVars
<1>2. phase[r] \in Unfiled
  BY <1>1 DEF Unfiled
<1>3. by[r] \in Sockets /\ holder[r] = by[r] /\ sock[by[r]] # "unused"
  BY <1>1, <1>2 DEF ServedInv, Located, Placed
<1>4. by \in [Requests -> Sockets \cup {NoSocket}] /\ holder \in [Requests -> Sockets \cup {NoSocket}]
  BY DEF ServedInv, StreamShapes
<1>5. by' = [by EXCEPT ![r] = by[r]] /\ holder' = [holder EXCEPT ![r] = by[r]]
  BY <1>1, <1>3, <1>4
<1>6. CASE File(r, by[r])
  BY <1>1, <1>2, <1>3, <1>5, <1>6, FileServed
<1>7. CASE TurnDown(r)
  <2>1. PICK v \in {"rejected", "failed"} : phase' = [phase EXCEPT ![r] = v]
    BY <1>7 DEF TurnDown
  <2>2. v \in Unfiled \ {"unused"}
    BY DEF Unfiled
  <2>3. UNCHANGED <<entries, clientDeltaRequestMap, clientActionRequestMap, toRouter>>
    BY <1>7 DEF TurnDown
  <2> QED
    BY <1>1, <1>2, <1>3, <1>5, <2>1, <2>2, <2>3, ValidationServed
<1> QED
  BY <1>1, <1>6, <1>7

\* A cancellation is sent while the request is still linked.
LEMMA CancelServed ==
    ASSUME ServedInv, NEW r \in Requests, Cancel(r)
    PROVE  ServedInv'
<1>0. PICK m : m = [type |-> "cancel_request", client |-> holder[r], req |-> r]
  OBVIOUS
<1>1. /\ phase[r] = "answered" /\ relay # NoSocket
      /\ toRouter' = Append(toRouter, m) /\ phase' = [phase EXCEPT ![r] = "cancelling"]
      /\ UNCHANGED <<sock, topicOf, by, holder>>
      /\ UNCHANGED <<entries, clientDeltaRequestMap, clientActionRequestMap, timers>>
      /\ UNCHANGED <<relay, relayIds, toApi, links, tracked, cutOff, untimely>>
  BY <1>0 DEF Cancel, apiVars, routerVars, history
<1>2. StreamShapes /\ Located /\ EntriesAgree /\ MailIsTrue /\ MailIsOnce /\ RouterKnows /\ AnsweredIsLinked
  BY DEF ServedInv
<1>3. phase \in [Requests -> Phases] /\ toRouter \in Seq(Message) /\ holder[r] \in Sockets
  BY <1>1, <1>2 DEF StreamShapes, Located, Placed
<1>4. m \in Message /\ m.req = r /\ OfRequest(m) /\ m.type = "cancel_request"
  BY <1>0, <1>3 DEF Message, OfRequest
<1>5. \A q \in Requests : phase'[q] = IF q = r THEN "cancelling" ELSE phase[q]
  BY <1>1, <1>3
<1>6. StreamShapes'
  <2>1. phase' \in [Requests -> Phases]
    BY <1>1, <1>3 DEF Phases
  <2>2. toRouter' \in Seq(Message)
    BY <1>1, <1>3, <1>4
  <2> QED
    BY <1>1, <1>2, <2>1, <2>2 DEF StreamShapes
<1>7. Located'
  <2>1. \A q \in Requests : \/ phase'[q] = phase[q]
                            \/ phase[q] \notin Unfiled \cup {"resend"} /\ phase'[q] \notin Unfiled
    BY <1>1, <1>5 DEF Unfiled
  <2> QED
    BY <1>1, <1>2, <2>1, LocatedStays
<1>8. EntriesAgree'
  BY <1>1, <1>2, EntriesStay
<1>9. MailIsTrue' /\ MailIsOnce'
  <2>1. Truthful(m)'
    BY <1>1, <1>4, <1>5 DEF Truthful
  <2>2. phase[r] \notin {"asked", "cancelling", "resend"} /\ phase'[r] \in {"asked", "cancelling"}
    BY <1>1, <1>5
  <2>3. \A q \in Requests \ {r} : phase'[q] = phase[q] /\ by'[q] = by[q]
    BY <1>1, <1>5
  <2> QED
    BY <1>1, <1>2, <1>4, <2>1, <2>2, <2>3, MailSent
<1>10. RouterKnows'
  BY <1>1, <1>2, <1>5, RouterStays
<1>11. ASSUME NEW q \in Requests, Answering(q)' PROVE Answering(q)
  <2>1. CASE q = r
    BY <1>1, <2>1 DEF Answering
  <2>2. CASE q # r
    <3>1. \A i \in DOMAIN toRouter' : toRouter'[i].req = q => i \in DOMAIN toRouter /\ toRouter'[i] = toRouter[i]
      BY <1>1, <1>3, <1>4, <2>2, Added
    <3> QED
      BY <1>1, <1>5, <1>11, <2>2, <3>1 DEF Answering
  <2> QED
    BY <2>1, <2>2
<1>12. AnsweredIsLinked'
  BY <1>1, <1>2, <1>11, LinksStay
<1> QED
  BY <1>6, <1>7, <1>8, <1>9, <1>10, <1>12 DEF ServedInv

\* The client's callback.
LEMMA AckServed ==
    ASSUME ServedInv, ReceiveAck
    PROVE  ServedInv'
<1>1. PICK a : a = Head(toApi)
  OBVIOUS
<1>2. /\ toApi # <<>> /\ toApi' = Tail(toApi)
      /\ phase' = [phase EXCEPT ![a.req] = IF @ = "resend" THEN @ ELSE a.status]
      /\ UNCHANGED <<sock, topicOf, by, holder>>
      /\ UNCHANGED <<entries, clientDeltaRequestMap, clientActionRequestMap, timers>>
      /\ UNCHANGED <<relay, relayIds, toRouter, links, tracked, cutOff, untimely>>
  BY <1>1 DEF ReceiveAck, apiVars, routerVars, history
<1>3. StreamShapes /\ Located /\ EntriesAgree /\ MailIsTrue /\ MailIsOnce /\ RouterKnows /\ AnsweredIsLinked
  BY DEF ServedInv
<1>4. toApi \in Seq(Ack) /\ phase \in [Requests -> Phases] /\ toRouter \in Seq(Message)
  BY <1>3 DEF StreamShapes
<1>5. /\ toApi' \in Seq(Ack) /\ 1 \in DOMAIN toApi /\ a = toApi[1] /\ a \in Ack
      /\ \A i \in DOMAIN toApi' : i + 1 \in DOMAIN toApi /\ toApi'[i] = toApi[i + 1] /\ i + 1 # 1 /\ i \in Int
  BY <1>1, <1>2, <1>4, Taken
<1>6. a.req \in Requests /\ a.status \in {"answered", "cancelled"}
  BY <1>5 DEF Ack
<1>7. \A q \in Requests : phase'[q] = IF q = a.req /\ phase[q] # "resend" THEN a.status ELSE phase[q]
  BY <1>2, <1>4, <1>6
<1>8. phase[a.req] \in {"asked", "cancelling", "resend"} /\ relay # NoSocket
      /\ (a.status = "cancelled" => phase[a.req] # "asked")
  BY <1>3, <1>5 DEF MailIsTrue, TruthfulAck
<1>9. /\ \A i \in DOMAIN toRouter : OfRequest(toRouter[i]) => toRouter[i].req # a.req
      /\ \A i \in DOMAIN toApi' : toApi'[i].req # a.req
  BY <1>3, <1>5 DEF MailIsOnce
<1>10. StreamShapes'
  <2>1. phase' \in [Requests -> Phases]
    BY <1>2, <1>4, <1>6 DEF Phases
  <2> QED
    BY <1>2, <1>3, <1>5, <2>1 DEF StreamShapes
<1>11. Located'
  <2>1. \A q \in Requests : \/ phase'[q] = phase[q]
                            \/ phase[q] \notin Unfiled \cup {"resend"} /\ phase'[q] \notin Unfiled
    BY <1>6, <1>7, <1>8 DEF Unfiled
  <2> QED
    BY <1>2, <1>3, <2>1, LocatedStays
<1>12. EntriesAgree'
  BY <1>2, <1>3, EntriesStay
<1>13. MailIsTrue'
  <2>1. ASSUME NEW i \in DOMAIN toRouter PROVE Truthful(toRouter[i])'
    <3>1. Truthful(toRouter[i]) /\ (OfRequest(toRouter[i]) => toRouter[i].req \in Requests)
      BY <1>3, <1>4 DEF MailIsTrue, Message, OfRequest
    <3> QED
      BY <1>2, <1>7, <1>9, <3>1 DEF Truthful, OfRequest
  <2>2. ASSUME NEW i \in DOMAIN toApi' PROVE TruthfulAck(toApi[i])'
    <3>1. toApi'[i].req \in Requests /\ toApi'[i].req # a.req
      BY <1>5, <1>9, AckNames
    <3>2. TruthfulAck(toApi[i + 1]) /\ toApi'[i] = toApi[i + 1]
      BY <1>3, <1>5 DEF MailIsTrue
    <3> QED
      BY <1>2, <1>7, <3>1, <3>2 DEF TruthfulAck
  <2> QED
    BY <1>2, <1>8, <2>1, <2>2 DEF MailIsTrue
<1>14. MailIsOnce'
  <2>1. \A i, j \in DOMAIN toApi' : i + 1 = j + 1 => i = j
    BY <1>5
  <2>2. \A i, j \in DOMAIN toApi' : toApi'[i].req = toApi'[j].req => i = j
    BY <1>3, <1>5, <2>1 DEF MailIsOnce
  <2> QED
    BY <1>2, <1>3, <1>5, <2>2 DEF MailIsOnce, OfRequest
<1>15. RouterKnows'
  <2>1. \A q \in Requests : phase[q] # "unused" => phase'[q] # "unused"
    BY <1>6, <1>7
  <2> QED
    BY <1>2, <1>3, <2>1, RouterStays
<1>16. ASSUME NEW q \in Requests, Answering(q)' PROVE Answering(q)
  <2>1. CASE phase'[q] = "answered"
    BY <1>5, <1>7, <2>1 DEF Answering
  <2>2. CASE \E i \in DOMAIN toRouter' : toRouter'[i].type = "cancel_request" /\ toRouter'[i].req = q
    BY <1>2, <2>2 DEF Answering
  <2>3. CASE \E i \in DOMAIN toApi' : toApi'[i].req = q /\ toApi'[i].status = "answered"
    BY <1>5, <2>3 DEF Answering
  <2> QED
    BY <1>16, <2>1, <2>2, <2>3 DEF Answering
<1>17. AnsweredIsLinked'
  BY <1>2, <1>3, <1>16, LinksStay
<1> QED
  BY <1>10, <1>11, <1>12, <1>13, <1>14, <1>15, <1>17 DEF ServedInv

-----------------------------------------------------------------------------
(* The relay and the router *)

\* The router takes a message and answers it, or not: what holds of the rest.
LEMMA MailHandled ==
    ASSUME StreamShapes, MailIsTrue, MailIsOnce, toRouter # <<>>, toRouter' = Tail(toRouter),
           UNCHANGED <<sock, phase, by, relay, cutOff>>, relay # NoSocket,
           \/ toApi' = toApi
           \/ \E a \in Ack : /\ toApi' = Append(toApi, a) /\ OfRequest(toRouter[1]) /\ toRouter[1].req = a.req
                             /\ phase[a.req] \in {"asked", "cancelling", "resend"}
                             /\ a.status = "cancelled" => phase[a.req] # "asked"
    PROVE  MailIsTrue' /\ MailIsOnce' /\ toRouter' \in Seq(Message) /\ toApi' \in Seq(Ack)
<1>1. toRouter \in Seq(Message) /\ toApi \in Seq(Ack)
  BY DEF StreamShapes
<1>2. /\ toRouter' \in Seq(Message) /\ 1 \in DOMAIN toRouter
      /\ \A i \in DOMAIN toRouter' :
            i + 1 \in DOMAIN toRouter /\ toRouter'[i] = toRouter[i + 1] /\ i + 1 # 1 /\ i \in Int
  BY <1>1, Taken
<1>3. \A k : OfRequest(k)' <=> OfRequest(k)
  BY DEF OfRequest
<1>4. \A i \in DOMAIN toRouter' : Truthful(toRouter[i])'
  BY <1>2 DEF MailIsTrue, Truthful, OfRequest
<1>5. /\ \A i, j \in DOMAIN toRouter' : i + 1 = j + 1 => i = j
      /\ \A i, j \in DOMAIN toRouter' :
            OfRequest(toRouter'[i]) /\ OfRequest(toRouter'[j]) /\ toRouter'[i].req = toRouter'[j].req => i = j
  <2>1. \A i, j \in DOMAIN toRouter' : i + 1 = j + 1 => i = j
    BY <1>2
  <2> QED
    BY <1>2, <2>1 DEF MailIsOnce
<1>6. CASE toApi' = toApi
  <2>1. MailIsTrue'
    BY <1>4, <1>6 DEF MailIsTrue, TruthfulAck
  <2>2. MailIsOnce'
    BY <1>2, <1>3, <1>5, <1>6 DEF MailIsOnce
  <2> QED
    BY <1>1, <1>2, <1>6, <2>1, <2>2
<1>7. ASSUME NEW a \in Ack, toApi' = Append(toApi, a), OfRequest(toRouter[1]), toRouter[1].req = a.req,
             phase[a.req] \in {"asked", "cancelling", "resend"},
             a.status = "cancelled" => phase[a.req] # "asked"
      PROVE  MailIsTrue' /\ MailIsOnce' /\ toApi' \in Seq(Ack)
  <2>1. PICK n \in DOMAIN toApi' :
           /\ toApi'[n] = a /\ toApi' \in Seq(Ack)
           /\ DOMAIN toApi' = DOMAIN toApi \cup {n}
           /\ \A i \in DOMAIN toApi : toApi'[i] = toApi[i]
    BY <1>1, <1>7, Added
  <2>2. TruthfulAck(a)'
    BY <1>7 DEF TruthfulAck
  <2>3. \A i \in DOMAIN toApi : TruthfulAck(toApi[i])'
    BY DEF MailIsTrue, TruthfulAck
  <2>4. MailIsTrue'
    BY <1>4, <2>1, <2>2, <2>3 DEF MailIsTrue
  <2>5. /\ \A i \in DOMAIN toRouter' : OfRequest(toRouter'[i]) => toRouter'[i].req # a.req
        /\ \A i \in DOMAIN toApi : toApi[i].req # a.req
    BY <1>2, <1>7 DEF MailIsOnce
  <2>6. MailIsOnce'
    BY <1>2, <1>3, <1>5, <2>1, <2>5 DEF MailIsOnce
  <2> QED
    BY <2>1, <2>4, <2>6
<1> QED
  BY <1>2, <1>6, <1>7

\* The router links a request before it acknowledges it.
LEMMA AddServed ==
    ASSUME ServedInv, AddRequest
    PROVE  ServedInv'
<1>1. PICK ev : ev = Head(toRouter)
  OBVIOUS
<1> DEFINE t == [client |-> ev.client, req |-> ev.req, relay |-> relay]
           a == [req |-> ev.req, status |-> "answered"]
<1>2. /\ relay # NoSocket /\ toRouter # <<>> /\ ev.type = "request" /\ toRouter' = Tail(toRouter)
      /\ tracked' = tracked \cup {t} /\ links' = links \cup {LinkOf(ev.req)}
      /\ toApi' = Append(toApi, a)
      /\ UNCHANGED <<sock, topicOf, by, holder, phase>>
      /\ UNCHANGED <<entries, clientDeltaRequestMap, clientActionRequestMap, timers>>
      /\ UNCHANGED <<relay, relayIds, cutOff, untimely>>
  BY <1>1 DEF AddRequest, NextEvent, LinkOf, clientVars, apiVars, history
<1>3. StreamShapes /\ Located /\ EntriesAgree /\ MailIsTrue /\ MailIsOnce /\ RouterKnows /\ AnsweredIsLinked
  BY DEF ServedInv
<1>4. toApi \in Seq(Ack) /\ toRouter \in Seq(Message) /\ relay \in Nat
  BY <1>3 DEF StreamShapes
<1>5. /\ 1 \in DOMAIN toRouter /\ ev = toRouter[1] /\ ev \in Message
      /\ \A i \in DOMAIN toRouter' : i + 1 \in DOMAIN toRouter /\ toRouter'[i] = toRouter[i + 1]
  BY <1>1, <1>2, <1>4, Taken
<1>6. ev.req \in Requests /\ ev.client \in Sockets /\ OfRequest(ev)
  BY <1>2, <1>5 DEF Message, OfRequest
<1>7. phase[ev.req] \in {"asked", "resend"} /\ ev.client = by[ev.req]
  BY <1>2, <1>3, <1>5 DEF MailIsTrue, Truthful
<1>8. a \in Ack /\ a.req = ev.req /\ a.status = "answered"
  BY <1>6 DEF Ack
<1>9. MailIsTrue' /\ MailIsOnce' /\ toRouter' \in Seq(Message) /\ toApi' \in Seq(Ack)
  <2> HIDE DEF a
  <2> QED
    BY <1>2, <1>3, <1>5, <1>6, <1>7, <1>8, MailHandled
<1>10. StreamShapes'
  <2>1. t \in [client : Sockets, req : Requests, relay : Nat]
    BY <1>4, <1>6
  <2>2. tracked' \subseteq [client : Sockets, req : Requests, relay : Nat]
    <3> HIDE DEF t
    <3> QED
      BY <1>2, <1>3, <2>1 DEF StreamShapes
  <2> QED
    BY <1>2, <1>3, <1>9, <2>2 DEF StreamShapes
<1>11. Located'
  BY <1>2, <1>3, LocatedStays
<1>12. EntriesAgree'
  BY <1>2, <1>3, EntriesStay
<1>13. RouterKnows'
  BY <1>2, <1>3, <1>7 DEF RouterKnows
<1>14. AnsweredIsLinked'
  <2> SUFFICES ASSUME NEW q \in Requests \ (cutOff' \cup untimely'), Answering(q)', sock'[holder'[q]] # "left"
               PROVE  LinkOf(q)' \in links'
    BY DEF AnsweredIsLinked
  <2>1. LinkOf(q)' = LinkOf(q)
    BY <1>2 DEF LinkOf
  <2>2. CASE q = ev.req
    BY <1>2, <2>1, <2>2
  <2>3. CASE q # ev.req
    <3>1. \A i \in DOMAIN toApi' : toApi'[i].req = q => i \in DOMAIN toApi /\ toApi'[i] = toApi[i]
      <4> HIDE DEF a
      <4> QED
        BY <1>2, <1>4, <1>8, <2>3, Added
    <3>2. Answering(q)
      BY <1>2, <1>5, <3>1 DEF Answering
    <3>3. LinkOf(q) \in links
      BY <1>2, <1>3, <3>2 DEF AnsweredIsLinked
    <3> QED
      BY <1>2, <2>1, <3>3
  <2> QED
    BY <2>2, <2>3
<1> QED
  BY <1>9, <1>10, <1>11, <1>12, <1>13, <1>14 DEF ServedInv

\* A socket that left: what it asked is removed, and whoever holds a request of it in time
\* came back before the timer fired.
LEMMA RemoveServed ==
    ASSUME ServedInv, RemoveClient
    PROVE  ServedInv'
<1>1. PICK ev : ev = Head(toRouter)
  OBVIOUS
<1>2. PICK theirs : theirs = {t \in tracked : t.client = ev.client}
  OBVIOUS
<1>3. /\ relay # NoSocket /\ toRouter # <<>> /\ ev.type = "client_disconnected" /\ toRouter' = Tail(toRouter)
      /\ links' = Unlinked(theirs) /\ tracked' = tracked \ theirs
      /\ UNCHANGED <<sock, topicOf, by, holder, phase>>
      /\ UNCHANGED <<entries, clientDeltaRequestMap, clientActionRequestMap, timers>>
      /\ UNCHANGED <<relay, relayIds, toApi, cutOff, untimely>>
  BY <1>1, <1>2 DEF RemoveClient, NextEvent, clientVars, apiVars, history
<1>4. StreamShapes /\ Located /\ EntriesAgree /\ MailIsTrue /\ MailIsOnce /\ RouterKnows /\ AnsweredIsLinked
  BY DEF ServedInv
<1>5. toRouter \in Seq(Message)
  BY <1>4 DEF StreamShapes
<1>6. /\ 1 \in DOMAIN toRouter /\ ev = toRouter[1]
      /\ \A i \in DOMAIN toRouter' : i + 1 \in DOMAIN toRouter /\ toRouter'[i] = toRouter[i + 1]
  BY <1>1, <1>3, <1>5, Taken
<1>7. sock[ev.client] = "left"
  BY <1>3, <1>4, <1>6 DEF MailIsTrue, Truthful
<1>8. MailIsTrue' /\ MailIsOnce' /\ toRouter' \in Seq(Message)
  BY <1>3, <1>4, MailHandled
<1>9. StreamShapes'
  BY <1>3, <1>4, <1>8 DEF StreamShapes
<1>10. Located'
  BY <1>3, <1>4, LocatedStays
<1>11. EntriesAgree'
  BY <1>3, <1>4, EntriesStay
<1>12. RouterKnows'
  BY <1>3, <1>4, RouterStays
<1>13. \A q \in Requests : Answering(q)' => Answering(q)
  BY <1>3, <1>6 DEF Answering
<1>14. AnsweredIsLinked'
  <2> SUFFICES ASSUME NEW q \in Requests \ (cutOff' \cup untimely'), Answering(q)', sock'[holder'[q]] # "left"
               PROVE  LinkOf(q)' \in links'
    BY DEF AnsweredIsLinked
  <2>1. LinkOf(q)' = LinkOf(q) /\ LinkOf(q).req = q
    BY <1>3 DEF LinkOf
  <2>2. LinkOf(q) \in links
    BY <1>3, <1>4, <1>13 DEF AnsweredIsLinked
  <2>3. \A t \in theirs : t.req # q
    <3> SUFFICES ASSUME NEW t \in theirs, t.req = q PROVE FALSE
      OBVIOUS
    <3>1. sock[by[q]] = "left"
      BY <1>2, <1>4, <1>7 DEF RouterKnows
    <3>2. holder[q] # by[q]
      BY <1>3, <3>1
    <3> QED
      BY <1>3, <1>4, <3>1, <3>2 DEF RouterKnows
  <2> QED
    BY <1>3, <2>1, <2>2, <2>3 DEF Unlinked
<1> QED
  BY <1>8, <1>9, <1>10, <1>11, <1>12, <1>14 DEF ServedInv

\* A cancellation: its own request's links, and no answer of success.
LEMMA RemoveRequestServed ==
    ASSUME ServedInv, RemoveClientRequest
    PROVE  ServedInv'
<1>1. PICK ev : ev = Head(toRouter)
  OBVIOUS
<1>2. PICK it : it = {t \in tracked : t.client = ev.client /\ t.req = ev.req}
  OBVIOUS
<1>3. PICK a : a = [req |-> ev.req, status |-> IF it = {} THEN "answered" ELSE "cancelled"]
  OBVIOUS
<1>4. /\ relay # NoSocket /\ toRouter # <<>> /\ ev.type = "cancel_request" /\ toRouter' = Tail(toRouter)
      /\ links' = Unlinked(it) /\ tracked' = tracked \ it
      /\ toApi' = Append(toApi, a)
      /\ UNCHANGED <<sock, topicOf, by, holder, phase>>
      /\ UNCHANGED <<entries, clientDeltaRequestMap, clientActionRequestMap, timers>>
      /\ UNCHANGED <<relay, relayIds, cutOff, untimely>>
  BY <1>1, <1>2, <1>3 DEF RemoveClientRequest, NextEvent, clientVars, apiVars, history
<1>5. StreamShapes /\ Located /\ EntriesAgree /\ MailIsTrue /\ MailIsOnce /\ RouterKnows /\ AnsweredIsLinked
  BY DEF ServedInv
<1>6. toApi \in Seq(Ack) /\ toRouter \in Seq(Message)
  BY <1>5 DEF StreamShapes
<1>7. /\ 1 \in DOMAIN toRouter /\ ev = toRouter[1] /\ ev \in Message
      /\ \A i \in DOMAIN toRouter' : i + 1 \in DOMAIN toRouter /\ toRouter'[i] = toRouter[i + 1] /\ i + 1 # 1
  BY <1>1, <1>4, <1>6, Taken
<1>8. ev.req \in Requests /\ OfRequest(ev)
  BY <1>4, <1>7 DEF Message, OfRequest
<1>9. phase[ev.req] \in {"cancelling", "resend"}
  BY <1>4, <1>5, <1>7 DEF MailIsTrue, Truthful
<1>10. /\ a \in Ack /\ a.req = ev.req
       /\ a.status = "answered" => it = {}
  BY <1>3, <1>8 DEF Ack
<1>11. MailIsTrue' /\ MailIsOnce' /\ toRouter' \in Seq(Message) /\ toApi' \in Seq(Ack)
  BY <1>4, <1>5, <1>7, <1>8, <1>9, <1>10, MailHandled
<1>12. StreamShapes'
  BY <1>4, <1>5, <1>11 DEF StreamShapes
<1>13. Located'
  BY <1>4, <1>5, LocatedStays
<1>14. EntriesAgree'
  BY <1>4, <1>5, EntriesStay
<1>15. RouterKnows'
  BY <1>4, <1>5, RouterStays
<1>16. AnsweredIsLinked'
  <2> SUFFICES ASSUME NEW q \in Requests \ (cutOff' \cup untimely'), Answering(q)', sock'[holder'[q]] # "left"
               PROVE  LinkOf(q)' \in links'
    BY DEF AnsweredIsLinked
  <2>1. LinkOf(q)' = LinkOf(q) /\ LinkOf(q).req = q
    BY <1>4 DEF LinkOf
  <2>2. \A i \in DOMAIN toApi' : toApi'[i] = a \/ (i \in DOMAIN toApi /\ toApi'[i] = toApi[i])
    BY <1>4, <1>6, <1>10, Added
  <2>3. Answering(q) /\ (q = ev.req => it = {})
    <3>1. CASE q # ev.req
      <4>1. \A i \in DOMAIN toApi' : toApi'[i].req = q => i \in DOMAIN toApi /\ toApi'[i] = toApi[i]
        BY <1>10, <2>2, <3>1
      <4> QED
        BY <1>4, <1>7, <3>1, <4>1 DEF Answering
    <3>2. CASE q = ev.req
      <4>1. Answering(q)
        BY <1>4, <1>7, <3>2 DEF Answering
      <4>2. phase'[q] # "answered"
        BY <1>4, <1>9, <3>2
      <4>3. \A i \in DOMAIN toRouter' : ~(toRouter'[i].type = "cancel_request" /\ toRouter'[i].req = q)
        <5>1. \A i \in DOMAIN toRouter' : toRouter'[i].type = "cancel_request" => OfRequest(toRouter'[i])
          BY DEF OfRequest
        <5> QED
          BY <1>5, <1>7, <1>8, <3>2, <5>1 DEF MailIsOnce
      <4>4. \A i \in DOMAIN toApi : toApi[i].req # q
        BY <1>5, <1>7, <1>8, <3>2 DEF MailIsOnce
      <4>5. a.status = "answered"
        BY <2>2, <4>2, <4>3, <4>4 DEF Answering
      <4> QED
        BY <1>10, <4>1, <4>5
    <3> QED
      BY <3>1, <3>2
  <2>4. LinkOf(q) \in links
    BY <1>4, <1>5, <2>3 DEF AnsweredIsLinked
  <2>5. \A t \in it : t.req # q
    BY <1>2, <2>3
  <2> QED
    BY <1>4, <2>1, <2>4, <2>5 DEF Unlinked
<1> QED
  BY <1>11, <1>12, <1>13, <1>14, <1>15, <1>16 DEF ServedInv

\* Only links of other relays are dropped.
LEMMA DropServed ==
    ASSUME ServedInv, NEW event \in Events, DropDeadRelays(event)
    PROVE  ServedInv'
<1>1. /\ links' = {l \in links : l.relay \notin Targets(event) \ {relay}}
      /\ UNCHANGED <<sock, topicOf, by, holder, phase>>
      /\ UNCHANGED <<entries, clientDeltaRequestMap, clientActionRequestMap, timers>>
      /\ UNCHANGED <<relay, relayIds, toRouter, toApi, tracked, cutOff, untimely>>
  BY DEF DropDeadRelays, clientVars, apiVars, relayVars, history
<1>2. StreamShapes /\ Located /\ EntriesAgree /\ MailIsTrue /\ MailIsOnce /\ RouterKnows /\ AnsweredIsLinked
  BY DEF ServedInv
<1>3. StreamShapes'
  BY <1>1, <1>2 DEF StreamShapes
<1>4. Located' /\ EntriesAgree'
  BY <1>1, <1>2, LocatedStays, EntriesStay
<1>5. MailIsTrue' /\ MailIsOnce'
  BY <1>1, <1>2, MailStays
<1>6. RouterKnows'
  BY <1>1, <1>2, RouterStays
<1>7. \A r \in Requests : Answering(r)' => Answering(r)
  BY <1>1 DEF Answering
<1>8. \A r \in Requests : LinkOf(r) \in links => LinkOf(r) \in links'
  <2>1. \A r \in Requests : LinkOf(r).relay = relay
    BY DEF LinkOf
  <2> QED
    BY <1>1, <2>1
<1>9. AnsweredIsLinked'
  BY <1>1, <1>2, <1>7, <1>8, LinksStay
<1> QED
  BY <1>3, <1>4, <1>5, <1>6, <1>9 DEF ServedInv

\* With the relay go the messages; what was asked before is cut off.
LEMMA LoseServed ==
    ASSUME ServedInv, NEW restart \in BOOLEAN, LoseRelay(restart)
    PROVE  ServedInv'
<1>1. /\ relay' = NoSocket /\ toRouter' = <<>> /\ toApi' = <<>>
      /\ cutOff' = cutOff \cup {r \in Requests : phase[r] \notin Unfiled \cup {"offline"}}
      /\ tracked' \subseteq tracked
      /\ UNCHANGED <<sock, topicOf, by, holder, phase>>
      /\ UNCHANGED <<entries, clientDeltaRequestMap, clientActionRequestMap, timers>>
      /\ UNCHANGED <<relayIds, untimely>>
  BY DEF LoseRelay, clientVars, apiVars, routerVars
<1>2. StreamShapes /\ Located /\ EntriesAgree /\ MailIsTrue /\ MailIsOnce /\ RouterKnows /\ AnsweredIsLinked
  BY DEF ServedInv
<1>3. toRouter' \in Seq(Message) /\ toApi' \in Seq(Ack) /\ relay' \in Nat
      /\ DOMAIN toRouter' = {} /\ DOMAIN toApi' = {}
  BY <1>1 DEF NoSocket
<1>4. StreamShapes'
  BY <1>1, <1>2, <1>3 DEF StreamShapes
<1>5. Located' /\ EntriesAgree'
  BY <1>1, <1>2, LocatedStays, EntriesStay
<1>6. MailIsTrue' /\ MailIsOnce'
  BY <1>1, <1>3 DEF MailIsTrue, MailIsOnce, Unfiled
<1>7. RouterKnows'
  BY <1>1, <1>2, RouterStays
<1>8. AnsweredIsLinked'
  BY <1>1, <1>3 DEF AnsweredIsLinked, Answering, Unfiled
<1> QED
  BY <1>4, <1>5, <1>6, <1>7, <1>8 DEF ServedInv

\* What was emitted while the relay was away concerns no request.
LEMMA ConnectRelayServed ==
    ASSUME ServedInv, ConnectRelay
    PROVE  ServedInv'
<1>1. /\ relay = NoSocket /\ relayIds' = relayIds + 1 /\ relay' = relayIds + 1
      /\ UNCHANGED <<sock, topicOf, by, holder, phase>>
      /\ UNCHANGED <<entries, clientDeltaRequestMap, clientActionRequestMap, timers>>
      /\ UNCHANGED <<toRouter, toApi, links, tracked, cutOff, untimely>>
  BY DEF ConnectRelay, clientVars, apiVars, routerVars, history
<1>2. StreamShapes /\ Located /\ EntriesAgree /\ MailIsTrue /\ MailIsOnce /\ RouterKnows /\ AnsweredIsLinked
  BY DEF ServedInv
<1>3. relay' \in Nat /\ relayIds' \in Nat /\ relay' # NoSocket
  BY <1>1, <1>2 DEF StreamShapes, NoSocket
<1>4. StreamShapes'
  BY <1>1, <1>2, <1>3 DEF StreamShapes
<1>5. Located' /\ EntriesAgree'
  BY <1>1, <1>2, LocatedStays, EntriesStay
<1>6. /\ \A i \in DOMAIN toRouter : ~OfRequest(toRouter[i])
      /\ DOMAIN toApi = {}
  BY <1>1, <1>2 DEF MailIsTrue, Truthful, TruthfulAck
<1>7. MailIsTrue'
  BY <1>1, <1>2, <1>3, <1>6 DEF MailIsTrue, Truthful, OfRequest
<1>8. MailIsOnce'
  BY <1>1, <1>2 DEF MailIsOnce, OfRequest
<1>9. RouterKnows'
  BY <1>1, <1>2, RouterStays
<1>10. \A r \in Requests \ cutOff : ~Answering(r)'
  BY <1>1, <1>2, <1>6 DEF Answering, MailIsTrue, OfRequest
<1>11. AnsweredIsLinked'
  BY <1>1, <1>10 DEF AnsweredIsLinked
<1> QED
  BY <1>4, <1>5, <1>7, <1>8, <1>9, <1>11 DEF ServedInv

-----------------------------------------------------------------------------
(* The theorem *)

LEMMA ServedInvKept == ServedInv /\ [Next]_vars => ServedInv'
<1> SUFFICES ASSUME ServedInv, [Next]_vars PROVE ServedInv'
  OBVIOUS
<1>1. ASSUME NEW s \in Sockets, NEW old \in Sockets, Reconnect(s, old) PROVE ServedInv'
  BY <1>1, ResendServed, CarryServed
<1>2. CASE UNCHANGED vars
  <2>1. /\ UNCHANGED <<sock, topicOf, by, holder, phase>>
        /\ UNCHANGED <<entries, clientDeltaRequestMap, clientActionRequestMap, timers>>
        /\ UNCHANGED <<relay, relayIds, toRouter, toApi, links, tracked, cutOff, untimely>>
    BY <1>2 DEF vars, clientVars, apiVars, relayVars, routerVars, history
  <2>2. StreamShapes /\ Located /\ EntriesAgree /\ MailIsTrue /\ MailIsOnce /\ RouterKnows /\ AnsweredIsLinked
    BY DEF ServedInv
  <2>3. StreamShapes'
    BY <2>1, <2>2 DEF StreamShapes
  <2>4. Located' /\ EntriesAgree' /\ MailIsTrue' /\ MailIsOnce' /\ RouterKnows'
    BY <2>1, <2>2, LocatedStays, EntriesStay, MailStays, RouterStays
  <2>5. \A r \in Requests : Answering(r)' => Answering(r)
    BY <2>1 DEF Answering
  <2>6. AnsweredIsLinked'
    BY <2>1, <2>2, <2>5, LinksStay
  <2> QED
    BY <2>3, <2>4, <2>6 DEF ServedInv
<1> QED
  BY <1>1, <1>2, ConnectServed, DisconnectServed, LeaveServed, AskServed, ProcessServed, CancelServed, AckServed,
     AddServed, RemoveServed, RemoveRequestServed, DropServed, LoseServed, ConnectRelayServed DEF Next, Router

\* AnsweredIsServed: a request answered with OK is linked at the router and has its entry at
\* the API process, under whatever socket its client has come back, but for a loss of the
\* relay, a carry-over outside the five seconds and a later request for the same account.
THEOREM AnsweredAreServed == Spec => []AnsweredIsServed
<1>1. ServedInv => AnsweredIsServed
  BY ServedMeans
<1> QED
  BY <1>1, ServedInit, ServedInvKept, PTL DEF Spec
=============================================================================
