------------------------------ MODULE Streaming ------------------------------
(***************************************************************************)
(* Live streaming: who gets the actions and deltas of new blocks.          *)
(*                                                                         *)
(* A client opens a socket to an API process (src/api/socketManager.ts)    *)
(* and asks for a stream.  The API process keeps the request in maps of    *)
(* its own and passes it over one websocket, the relay, to the router      *)
(* worker of the indexer (src/indexer/workers/ws-router.ts), which links   *)
(* the topic to the relay.  An event reaches a client if the router sends  *)
(* it to the relay and the API process finds the client in its maps: the   *)
(* two sides must agree, while requests, cancellations, closed sockets and *)
(* reconnections travel between them.                                      *)
(*                                                                         *)
(* One API process; one contract and one account.  Not modelled: events in *)
(* flight, filters, the past data a request may ask for, replayOnReconnect,*)
(* and requests filed nowhere (an account and an action, no contract).     *)
(***************************************************************************)
EXTENDS Integers, Sequences, FiniteSets, Functions

CONSTANTS
    MaxSockets,  \* bound: sockets the clients open
    MaxRequests, \* bound: stream requests
    MaxLosses    \* bound: lost relay connections, with or without the router

ASSUME StreamingAssumption == {MaxSockets, MaxRequests, MaxLosses} \subseteq Nat

Sockets == 1 .. MaxSockets
Requests == 1 .. MaxRequests
NoSocket == 0

\* What a request asks, and the maps it is filed in on both sides: a delta's code and
\* table, an action's contract and name, or an account.
Topics == {"delta", "action", "account"}
OfContract == {"delta", "action"}

\* What an event looks up: an action is sent to the followers of its contract and
\* name and to those of the accounts it notifies.
Events == {"delta", "trace"}
LooksUp(event) == IF event = "delta" THEN {"delta"} ELSE {"action", "account"}

VARIABLES
    \* clients
    sock,      \* each socket as the API process sees it: "unused", "open", "closed"
               \* with its timer armed, or "left"
    gone,      \* sockets whose client came back on another
    topicOf,   \* what each request asks
    by,        \* the socket that made it
    holder,    \* the socket the client of a request has now, as far as it knows
    phase,     \* how far a request got
    \* API process
    entries,   \* the topic maps: [topic, client, req]
    clientDeltaRequestMap, clientActionRequestMap, \* the requests of a socket, in order
    timers,    \* disconnectTimeoutMap: sockets whose 5 s timer is armed
    \* relay
    relay,     \* id of the relay's connection, NoSocket when it has none
    relayIds,  \* connections so far
    toRouter,  \* events emitted on the relay and not handled
    toApi,     \* acknowledgements on their way back
    \* router
    links,     \* the relay maps: [topic, relay, req]
    tracked,   \* clientMap: [client, req, relay]
    \* history
    cutOff,    \* requests made before a loss of the relay
    untimely   \* requests carried over from a socket whose timer was not armed yet or
               \* had fired

clientVars == <<sock, gone, topicOf, by, holder, phase>>
apiVars == <<entries, clientDeltaRequestMap, clientActionRequestMap, timers>>
relayVars == <<relay, relayIds, toRouter, toApi>>
routerVars == <<links, tracked>>
history == <<cutOff, untimely>>
vars == <<clientVars, apiVars, relayVars, routerVars, history>>

Phases == {"unused", "validating", \* validateRequest awaits the contract's ABI
           "rejected",             \* answered with ERROR
           "failed",               \* the validation threw: logged and never answered
           "asked",                \* on its way to the router
           "offline",              \* answered with STREAMING_OFFLINE
           "answered",             \* answered with OK
           "cancelling", "cancelled",
           "resend"}               \* the client was told to ask again

\* Requests of which no map holds anything.
Unfiled == {"unused", "validating", "rejected", "failed"}

Init ==
    /\ sock = [s \in Sockets |-> "unused"] /\ gone = {}
    /\ topicOf \in [Requests -> Topics]
    /\ by = [r \in Requests |-> NoSocket]
    /\ holder = [r \in Requests |-> NoSocket]
    /\ phase = [r \in Requests |-> "unused"]
    /\ entries = {} /\ timers = {}
    /\ clientDeltaRequestMap = [s \in Sockets |-> <<>>]
    /\ clientActionRequestMap = [s \in Sockets |-> <<>>]
    /\ relay = 1 /\ relayIds = 1 /\ toRouter = <<>> /\ toApi = <<>>
    /\ links = {} /\ tracked = {}
    /\ cutOff = {} /\ untimely = {}

IsDelta(r) == topicOf[r] = "delta"

-----------------------------------------------------------------------------
(* Clients and the API process *)

\* attachDeltaRequests, attachActionRequests of one request after the other: a client
\* has one entry per account, its last.
Filed(rs, s, es) ==
    LET accounts == {i \in DOMAIN rs : topicOf[rs[i]] = "account"}
        obsolete == {i \in accounts : \E j \in accounts : j > i}
        kept == IF accounts = {} THEN es ELSE {e \in es : ~(e.topic = "account" /\ e.client = s)}
    IN kept \cup {[topic |-> topicOf[rs[i]], client |-> s, req |-> rs[i]] : i \in DOMAIN rs \ obsolete}

\* detachDeltaRequests
DetachedDeltas(s, es) == {e \in es : ~(e.client = s /\ e.topic = "delta")}
\* detachActionRequests looks for the accounts in the payers' map and leaves them.
DetachedActions(s, es) == {e \in es : ~(e.client = s /\ e.topic = "action")}

Connect(s) ==
    /\ sock[s] = "unused" /\ \A t \in Sockets : t < s => sock[t] # "unused"
    /\ sock' = [sock EXCEPT ![s] = "open"]
    /\ UNCHANGED <<gone, topicOf, by, holder, phase, apiVars, relayVars, routerVars, history>>

\* replaceClientId: what old had is filed for s; the router is not told.
CarriedOver_Forgotten(old, s) == DetachedActions(old, DetachedDeltas(old, entries))  \* mutant
CarriedOver(old, s) ==
    LET attached == Filed(clientActionRequestMap[old], s, Filed(clientDeltaRequestMap[old], s, entries))
    IN  DetachedActions(old, DetachedDeltas(old, attached))

\* The client of a socket comes back on a new one and gives the id it had: the API
\* process carries its requests over if it has deltas of that id, or else asks the
\* client to send its requests again.  The old socket may still look open.
Reconnect(s, old) ==
    LET carried == Range(clientDeltaRequestMap[old]) \cup Range(clientActionRequestMap[old]) IN
    /\ sock[s] = "unused" /\ \A t \in Sockets : t < s => sock[t] # "unused"
    /\ sock[old] # "unused" /\ old \notin gone
    /\ sock' = [sock EXCEPT ![s] = "open"]
    /\ gone' = gone \cup {old}
    /\ IF clientDeltaRequestMap[old] # <<>>
       THEN /\ entries' = CarriedOver(old, s)
            /\ clientDeltaRequestMap' =
                 [clientDeltaRequestMap EXCEPT ![s] = clientDeltaRequestMap[old], ![old] = <<>>]
            /\ clientActionRequestMap' =
                 [clientActionRequestMap EXCEPT ![s] = clientActionRequestMap[old], ![old] = <<>>]
            /\ timers' = timers \ {old}
            /\ holder' = [r \in Requests |-> IF r \in carried THEN s ELSE holder[r]]
            /\ untimely' = IF sock[old] # "closed" THEN untimely \cup carried ELSE untimely
            /\ UNCHANGED phase
       ELSE /\ phase' = [r \in Requests |-> IF holder[r] = old /\ phase[r] \notin Unfiled
                                              THEN "resend" ELSE phase[r]]
            /\ UNCHANGED <<apiVars, holder, untimely>>
    /\ UNCHANGED <<topicOf, by, relayVars, routerVars, cutOff>>

\* The API process notices that a socket is closed.
Disconnect(s) ==
    /\ sock[s] = "open"
    /\ sock' = [sock EXCEPT ![s] = "closed"]
    /\ timers' = timers \cup {s}
    /\ UNCHANGED <<gone, topicOf, by, holder, phase, entries, clientDeltaRequestMap, clientActionRequestMap,
                   relayVars, routerVars, history>>

\* The 5 s timer fires: the deltas are removed here, everything at the router.
LeaveForGood(s) ==
    /\ s \in timers
    /\ timers' = timers \ {s}
    /\ sock' = [sock EXCEPT ![s] = "left"]
    /\ entries' = DetachedDeltas(s, entries)
    /\ clientDeltaRequestMap' = [clientDeltaRequestMap EXCEPT ![s] = <<>>]
    /\ toRouter' = Append(toRouter, [type |-> "client_disconnected", client |-> s])
    /\ UNCHANGED <<gone, topicOf, by, holder, phase, clientActionRequestMap, relay, relayIds, toApi,
                   routerVars, history>>

\* A validation that fails files nothing.  What it throws (a delta without scope, an ABI
\* that does not parse, filters that are no array) processStreamRequest catches itself:
\* the handlers' own catch, which would answer ERROR, is never reached.
TurnDown(r) ==
    /\ \E verdict \in {"rejected", "failed"} : phase' = [phase EXCEPT ![r] = verdict]
    /\ UNCHANGED <<entries, clientDeltaRequestMap, clientActionRequestMap, toRouter>>

\* The part of processStreamRequest after the validation: the request is filed for the
\* socket that made it, whatever became of it, and passed on if the relay is connected.
File(r, s) ==
    /\ entries' = Filed(<<r>>, s, entries)
    /\ IF IsDelta(r)
       THEN /\ clientDeltaRequestMap' = [clientDeltaRequestMap EXCEPT ![s] = Append(@, r)]
            /\ UNCHANGED clientActionRequestMap
       ELSE /\ clientActionRequestMap' = [clientActionRequestMap EXCEPT ![s] = Append(@, r)]
            /\ UNCHANGED clientDeltaRequestMap
    /\ IF relay # NoSocket
       THEN /\ toRouter' = Append(toRouter, [type |-> "request", client |-> s, req |-> r])
            /\ phase' = [phase EXCEPT ![r] = "asked"]
       ELSE /\ phase' = [phase EXCEPT ![r] = "offline"]
            /\ UNCHANGED toRouter

\* A stream request: its names, range and filters are looked at.  The validation of one
\* with a contract then awaits the contract's ABI.
AskStream(r) ==
    /\ phase[r] = "unused" /\ \A q \in Requests : q < r => phase[q] # "unused"
    /\ \E s \in Sockets \ gone :
        /\ sock[s] = "open"
        /\ by' = [by EXCEPT ![r] = s]
        /\ holder' = [holder EXCEPT ![r] = s]
        /\ \/ /\ topicOf[r] \in OfContract
              /\ phase' = [phase EXCEPT ![r] = "validating"]
              /\ UNCHANGED <<entries, clientDeltaRequestMap, clientActionRequestMap, toRouter>>
           \/ topicOf[r] \notin OfContract /\ File(r, s)
           \/ TurnDown(r)
    /\ UNCHANGED <<sock, gone, topicOf, timers, relay, relayIds, toApi, routerVars, cutOff, untimely>>

ProcessStreamRequest(r) ==
    /\ phase[r] = "validating"
    /\ File(r, by[r]) \/ TurnDown(r)
    /\ UNCHANGED <<sock, gone, topicOf, by, holder, timers, relay, relayIds, toApi, routerVars, cutOff, untimely>>

\* cancel_stream_request: only the router is told.
Cancel(r) ==
    /\ phase[r] = "answered" /\ sock[holder[r]] = "open" /\ holder[r] \notin gone
    /\ relay # NoSocket
    /\ toRouter' = Append(toRouter, [type |-> "cancel_request", client |-> holder[r], req |-> r])
    /\ phase' = [phase EXCEPT ![r] = "cancelling"]
    /\ UNCHANGED <<sock, gone, topicOf, by, holder, apiVars, relay, relayIds, toApi, routerVars, history>>

\* The acknowledgement of a request or of a cancellation: the client's callback.
ReceiveAck ==
    /\ toApi # <<>>
    /\ LET ack == Head(toApi)
       IN phase' = [phase EXCEPT ![ack.req] = IF @ = "resend" THEN @ ELSE ack.status]
    /\ toApi' = Tail(toApi)
    /\ UNCHANGED <<sock, gone, topicOf, by, holder, apiVars, relay, relayIds, toRouter, routerVars, history>>

-----------------------------------------------------------------------------
(* The relay and the router *)

NextEvent(type) ==
    /\ relay # NoSocket
    /\ toRouter # <<>>
    /\ Head(toRouter).type = type
    /\ toRouter' = Tail(toRouter)

\* addActionRequest, addDeltaRequest
AddRequest ==
    /\ NextEvent("request")
    /\ LET ev == Head(toRouter)
       IN /\ tracked' = tracked \cup {[client |-> ev.client, req |-> ev.req, relay |-> relay]}
          /\ links' = links \cup {[topic |-> topicOf[ev.req], relay |-> relay, req |-> ev.req]}
          /\ toApi' = Append(toApi, [req |-> ev.req, status |-> "answered"])
    /\ UNCHANGED <<clientVars, apiVars, relay, relayIds, history>>

\* removeRequestByID, under the relay the request came from.
Unlinked(ts) == {l \in links : \A t \in ts : ~(l.req = t.req /\ l.relay = t.relay)}

RemoveClient ==
    /\ NextEvent("client_disconnected")
    /\ LET theirs == {t \in tracked : t.client = Head(toRouter).client}
       IN links' = Unlinked(theirs) /\ tracked' = tracked \ theirs
    /\ UNCHANGED <<clientVars, apiVars, relay, relayIds, toApi, history>>

RemoveClientRequest_Silent ==  \* mutant: only what is found is answered
    /\ NextEvent("cancel_request")
    /\ LET ev == Head(toRouter)
           it == {t \in tracked : t.client = ev.client /\ t.req = ev.req}
       IN /\ links' = Unlinked(it) /\ tracked' = tracked \ it
          /\ toApi' = IF it = {} THEN toApi ELSE Append(toApi, [req |-> ev.req, status |-> "cancelled"])
    /\ UNCHANGED <<clientVars, apiVars, relay, relayIds, history>>

\* removeClientRequest: NOT_FOUND unless this socket made the request.
RemoveClientRequest ==
    /\ NextEvent("cancel_request")
    /\ LET ev == Head(toRouter)
           it == {t \in tracked : t.client = ev.client /\ t.req = ev.req}
       IN /\ links' = Unlinked(it) /\ tracked' = tracked \ it
          /\ toApi' = Append(toApi, [req |-> ev.req, status |-> IF it = {} THEN "answered" ELSE "cancelled"])
    /\ UNCHANGED <<clientVars, apiVars, relay, relayIds, history>>

\* Relays the router sends an event to.
Targets(event) == {l.relay : l \in {k \in links : k.topic \in LooksUp(event)}}

\* emitToTargetRelays: links of relays that are gone are removed when an event finds
\* them.
DropDeadRelays(event) ==
    /\ Targets(event) \ {relay} # {}
    /\ links' = {l \in links : l.relay \notin Targets(event) \ {relay}}
    /\ UNCHANGED <<clientVars, apiVars, relayVars, tracked, history>>

\* The relay's connection is lost, what was under way with it.  With restart, the
\* router process went down and comes back empty.
LoseRelay(restart) ==
    /\ relay # NoSocket /\ relayIds <= MaxLosses
    /\ relay' = NoSocket
    /\ toRouter' = <<>> /\ toApi' = <<>>
    /\ cutOff' = cutOff \cup {r \in Requests : phase[r] \notin Unfiled \cup {"offline"}}
    /\ IF restart THEN links' = {} /\ tracked' = {} ELSE UNCHANGED routerVars
    /\ UNCHANGED <<clientVars, apiVars, relayIds, untimely>>

\* It reconnects under a new id.  The id it had is never announced: extraHeaders is
\* read once, before the first connection, so the router never calls replaceRelay.
\* What was emitted in the meantime is sent now.
ConnectRelay ==
    /\ relay = NoSocket
    /\ relayIds' = relayIds + 1
    /\ relay' = relayIds + 1
    /\ UNCHANGED <<clientVars, apiVars, toRouter, toApi, routerVars, history>>

-----------------------------------------------------------------------------
Router == AddRequest \/ RemoveClient \/ RemoveClientRequest

Next ==
    \/ \E s \in Sockets :
        \/ Connect(s)
        \/ \E old \in Sockets : Reconnect(s, old)
        \/ Disconnect(s)
        \/ LeaveForGood(s)
    \/ \E r \in Requests : AskStream(r) \/ ProcessStreamRequest(r) \/ Cancel(r)
    \/ ReceiveAck
    \/ Router
    \/ \E event \in Events : DropDeadRelays(event)
    \/ \E restart \in BOOLEAN : LoseRelay(restart)
    \/ ConnectRelay

Spec == Init /\ [][Next]_vars

\* Both processes and the relay go on; nodeos answers; timers fire.
FairSpec ==
    /\ Spec
    /\ WF_vars(Router) /\ WF_vars(ReceiveAck) /\ WF_vars(ConnectRelay)
    /\ \A s \in Sockets : WF_vars(LeaveForGood(s))
    /\ \A r \in Requests : WF_vars(ProcessStreamRequest(r))

-----------------------------------------------------------------------------
(* Properties *)

Message ==
    [type : {"request", "cancel_request"}, client : Sockets, req : Requests]
        \cup [type : {"client_disconnected"}, client : Sockets]
Relays == 1 .. MaxLosses + 1

\* Every variable has its type: a request is never in a phase, nor a message in a queue,
\* the handlers do not know.
TypeOK ==
    /\ sock \in [Sockets -> {"unused", "open", "closed", "left"}]
    /\ gone \in SUBSET Sockets /\ timers \in SUBSET Sockets
    /\ topicOf \in [Requests -> Topics]
    /\ {by, holder} \subseteq [Requests -> Sockets \cup {NoSocket}]
    /\ phase \in [Requests -> Phases]
    /\ entries \in SUBSET [topic : Topics, client : Sockets, req : Requests]
    /\ {clientDeltaRequestMap, clientActionRequestMap} \subseteq [Sockets -> Seq(Requests)]
    /\ relay \in Relays \cup {NoSocket} /\ relayIds \in Relays
    /\ toRouter \in Seq(Message)
    /\ toApi \in Seq([req : Requests, status : {"answered", "cancelled"}])
    /\ links \in SUBSET [topic : Topics, relay : Relays, req : Requests]
    /\ tracked \in SUBSET [client : Sockets, req : Requests, relay : Relays]
    /\ \A h \in {cutOff, untimely} : h \in SUBSET Requests

\* A later request of the same client for the same account took the entry.
Overwritten(r) ==
    LET rs == clientActionRequestMap[holder[r]]
    IN topicOf[r] = "account"
       /\ \E i, j \in DOMAIN rs : i < j /\ rs[i] = r /\ topicOf[rs[j]] = "account"

\* An event of the request's topic is sent to the relay by the router and to the socket
\* of its client by the API process.
Served(r) ==
    /\ [topic |-> topicOf[r], client |-> holder[r], req |-> r] \in entries
    /\ \E l \in links : l.topic = topicOf[r] /\ l.relay = relay

\* A request answered with OK is served for as long as its client is there, under
\* whatever socket it has come back: the API process and the router agree on it.
\* Except: after a loss of the relay; after a carry-over outside the five seconds (the
\* router removes, or has removed, what the old socket asked); and for the earlier of
\* two requests for an account.
AnsweredIsServed ==
    \A r \in Requests :
        (/\ phase[r] = "answered"
         /\ sock[holder[r]] = "open" /\ holder[r] \notin gone
         /\ r \notin cutOff \cup untimely
         /\ ~Overwritten(r)) => Served(r)

\* Whoever asks or cancels is answered, with an error when the request is invalid.
\* Except: a validation that throws; a relay that is lost in the meantime (the callback
\* of an event sent on a lost connection is never called); and a client that was told
\* to ask again.
RequestsAnswered ==
    \A r \in Requests :
        phase[r] \in {"validating", "asked", "cancelling"}
            ~> \/ phase[r] \in {"answered", "offline", "rejected", "cancelled", "resend"}
               \/ phase[r] = "failed" \/ r \in cutOff
=============================================================================
