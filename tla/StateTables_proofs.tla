-------------------------- MODULE StateTables_proofs --------------------------
(***************************************************************************)
(* What the answer to a pause promises, and what a row of the table shows, *)
(* for every number of queues, rows, blocks, sync commands and failures.   *)
(***************************************************************************)
EXTENDS StateTables, SequenceTheorems, TLAPS

-----------------------------------------------------------------------------
(* What the master may have sent to a worker *)

Messages == {"pause", "resume"}
Orders == {<<>>, <<"pause">>, <<"resume">>, <<"pause", "resume">>}

LEMMA TwoMessages ==
    ASSUME NEW s \in Seq(Messages), NEW t \in Seq(Messages),
           Len(s) = 2, Len(t) = 2, s[1] = t[1], s[2] = t[2]
    PROVE  s = t
<1>1. \A i \in 1 .. Len(s) : s[i] = t[i]
  <2> TAKE i \in 1 .. Len(s)
  <2>1. i = 1 \/ i = 2
    OBVIOUS
  <2> QED
    BY <2>1
<1> QED
  BY <1>1, SeqEqual

LEMMA PauseThenResume == Append(<<"pause">>, "resume") = <<"pause", "resume">>
<1> DEFINE s == Append(<<"pause">>, "resume")
           t == <<"pause", "resume">>
<1>1. <<"pause">> \in Seq(Messages) /\ Len(<<"pause">>) = 1
  BY DEF Messages
<1>2. s \in Seq(Messages) /\ Len(s) = 2 /\ s[1] = "pause" /\ s[2] = "resume"
  BY <1>1, AppendProperties DEF Messages
<1>3. t \in Seq(Messages) /\ Len(t) = 2 /\ t[1] = "pause" /\ t[2] = "resume"
  BY DEF Messages
<1> HIDE DEF s, t
<1>4. s = t
  BY <1>2, <1>3, TwoMessages
<1> QED
  BY <1>4, Zenon DEF s, t

LEMMA OrderFacts ==
    /\ \A o \in Orders : o # <<>> /\ Head(o) = "resume" => o = <<"resume">> /\ Tail(o) = <<>>
    /\ \A o \in Orders : o # <<>> /\ Head(o) = "pause" =>
          \/ o = <<"pause">> /\ Tail(o) = <<>>
          \/ o = <<"pause", "resume">> /\ Tail(o) = <<"resume">>
    /\ Append(<<>>, "pause") = <<"pause">> /\ Append(<<>>, "resume") = <<"resume">>
    /\ <<"pause">> # <<>> /\ <<"resume">> # <<>> /\ <<"pause">> # <<"resume">>
    /\ <<"pause", "resume">> \notin {<<>>, <<"pause">>, <<"resume">>}
BY DEF Orders

-----------------------------------------------------------------------------
(* The state a pause is about *)

USE DEF queueVars, cargoVars, syncVars

\* The parts of the state the argument reads, with their types.
Shapes ==
    /\ queues \in Nat /\ log \in Seq(Delta)
    /\ ready \in [Workers -> Seq(Nat)] /\ unacked \in [Workers -> Seq(Nat)]
    /\ buffer \in [Workers -> Seq(Nat)]
    /\ consumers \in [Workers -> Nat] /\ channel \in [Workers -> {"open", "lost", "down"}]
    /\ inbox \in [Workers -> Seq(Messages)] /\ drainAck \in [Workers -> BOOLEAN]
    /\ emitIdx \in Workers /\ quiet \subseteq Workers

\* A worker that never escaped has at most one consumer, and none while it has no
\* channel, answered the pause, waits for its cargo, is about to be resumed, or, during
\* a command, has nothing more to hear.
Calm(w) ==
    /\ consumers[w] \in {0, 1}
    /\ channel[w] # "open" => consumers[w] = 0
    /\ w \in quiet => consumers[w] = 0 /\ buffer[w] = <<>>
    /\ drainAck[w] => consumers[w] = 0
    /\ inbox[w] \in Orders
    /\ inbox[w] = <<"resume">> => consumers[w] = 0
    /\ sync # "idle" => /\ inbox[w] \in {<<>>, <<"pause">>}
                        /\ inbox[w] = <<>> => consumers[w] = 0

CalmInv == \A w \in Workers \ escaped : Calm(w)

LEMMA InitCalm == Init => Shapes /\ CalmInv
<1> SUFFICES ASSUME Init PROVE Shapes /\ CalmInv
  OBVIOUS
<1>1. queues \in Nat \ {0} /\ 1 \in Workers
  BY TablesAssumption DEF Init, Workers
<1>2. <<>> \in Seq(Nat) /\ <<>> \in Seq(Messages) /\ <<>> \in Seq(Delta) /\ <<>> \in Orders
  BY DEF Orders
<1>3. Shapes
  <2>1. drainAck \in [Workers -> BOOLEAN] /\ quiet \subseteq Workers
    BY DEF Init
  <2>2. consumers \in [Workers -> Nat] /\ emitIdx \in Workers /\ queues \in Nat
    BY <1>1 DEF Init
  <2> QED
    BY <1>2, <2>1, <2>2 DEF Init, Shapes
<1>4. ASSUME NEW w \in Workers PROVE Calm(w)
  <2>1. /\ consumers[w] = 1 /\ channel[w] = "open" /\ quiet = {} /\ drainAck[w] = FALSE
        /\ inbox[w] = <<>> /\ sync = "idle"
    BY DEF Init
  <2> QED
    BY <1>2, <2>1, OrderFacts DEF Calm
<1> QED
  BY <1>3, <1>4 DEF CalmInv

pauseVars == <<queues, log, emitIdx, ready, unacked, buffer, consumers, channel, inbox, drainAck,
               quiet, escaped>>

\* What nobody touches stays as it is.
LEMMA FrameCalm ==
    ASSUME NEW v \in Workers, Calm(v),
           consumers'[v] = consumers[v], channel'[v] = channel[v], v \in quiet' => v \in quiet,
           buffer'[v] = buffer[v], drainAck'[v] => drainAck[v], inbox'[v] = inbox[v],
           sync' # "idle" => sync # "idle"
    PROVE  Calm(v)'
BY DEF Calm

LEMMA FrameStep ==
    ASSUME Shapes, CalmInv, UNCHANGED pauseVars, sync' # "idle" => sync # "idle"
    PROVE  Shapes' /\ CalmInv'
<1>1. Workers' = Workers
  BY DEF pauseVars, Workers
<1>2. Shapes'
  BY <1>1 DEF Shapes, pauseVars
<1>3. CalmInv'
  <2> SUFFICES ASSUME NEW v \in Workers, v \notin escaped
               PROVE  Calm(v)'
    BY <1>1 DEF CalmInv, pauseVars
  <2>1. Calm(v)
    BY DEF CalmInv
  <2> QED
    BY <2>1, FrameCalm DEF pauseVars
<1> QED
  BY <1>2, <1>3

\* A step of one worker: the others are what they were.
WorkerOnly(w) ==
    \A v \in Workers \ {w} :
        /\ consumers'[v] = consumers[v] /\ channel'[v] = channel[v]
        /\ v \in quiet' => v \in quiet
        /\ buffer'[v] = buffer[v] /\ (drainAck'[v] => drainAck[v]) /\ inbox'[v] = inbox[v]

LEMMA WorkerStep ==
    ASSUME CalmInv, NEW w \in Workers, WorkerOnly(w), queues' = queues, sync' = sync,
           escaped \subseteq escaped', w \notin escaped' => Calm(w)'
    PROVE  CalmInv'
<1>1. Workers' = Workers
  BY DEF Workers
<1> SUFFICES ASSUME NEW v \in Workers, v \notin escaped'
             PROVE  Calm(v)'
  BY <1>1 DEF CalmInv
<1>2. Calm(v)
  BY DEF CalmInv
<1>3. CASE v = w
  BY <1>3
<1>4. CASE v # w
  BY <1>2, <1>4, FrameCalm DEF WorkerOnly
<1> QED
  BY <1>3, <1>4

LEMMA StoreAccountCalm ==
    ASSUME Shapes, CalmInv, StoreAccount
    PROVE  Shapes' /\ CalmInv'
<1>1. /\ \E r \in Rows, present \in BOOLEAN : log' = Append(log, [row |-> r, present |-> present])
      /\ ready' = [ready EXCEPT ![emitIdx] = Append(@, Len(log) + 1)]
      /\ emitIdx' = NextIdx
      /\ UNCHANGED <<queues, unacked, consumers, channel, inbox, buffer, drainAck, quiet, escaped, sync>>
  BY DEF StoreAccount
<1>2. Workers' = Workers
  BY <1>1 DEF Workers
<1>3. log' \in Seq(Delta)
  BY <1>1, AppendProperties DEF Shapes, Delta
<1>4. Append(ready[emitIdx], Len(log) + 1) \in Seq(Nat)
  <2>1. Len(log) + 1 \in Nat /\ ready[emitIdx] \in Seq(Nat)
    BY LenProperties DEF Shapes
  <2> QED
    BY <2>1, AppendProperties
<1>5. ready' \in [Workers -> Seq(Nat)]
  BY <1>1, <1>4 DEF Shapes
<1>6. emitIdx' \in Workers
  BY <1>1 DEF Shapes, NextIdx, Workers
<1>7. Shapes'
  BY <1>1, <1>2, <1>3, <1>5, <1>6 DEF Shapes
<1>8. CalmInv'
  <2> SUFFICES ASSUME NEW v \in Workers, v \notin escaped PROVE Calm(v)'
    BY <1>1, <1>2 DEF CalmInv
  <2>1. Calm(v)
    BY DEF CalmInv
  <2> QED
    BY <1>1, <2>1, FrameCalm
<1> QED
  BY <1>7, <1>8

\* The broker delivers to consumers only.
LEMMA DeliverCalm ==
    ASSUME Shapes, CalmInv, NEW w \in Workers, Deliver(w)
    PROVE  Shapes' /\ CalmInv'
<1>1. /\ ready[w] # <<>> /\ Len(unacked[w]) < Prefetch * consumers[w]
      /\ ready' = [ready EXCEPT ![w] = Tail(@)]
      /\ unacked' = [unacked EXCEPT ![w] = Append(@, Head(ready[w]))]
      /\ buffer' = [buffer EXCEPT ![w] = Append(@, Head(ready[w]))]
      /\ UNCHANGED <<queues, log, emitIdx, consumers, channel, inbox, drainAck, quiet, escaped, sync>>
  BY DEF Deliver
<1>2. Workers' = Workers
  BY <1>1 DEF Workers
<1>3. ready[w] \in Seq(Nat) /\ unacked[w] \in Seq(Nat) /\ buffer[w] \in Seq(Nat)
  BY DEF Shapes
<1>4. Tail(ready[w]) \in Seq(Nat) /\ Head(ready[w]) \in Nat
  BY <1>1, <1>3, HeadTailProperties
<1>5. Append(unacked[w], Head(ready[w])) \in Seq(Nat) /\ Append(buffer[w], Head(ready[w])) \in Seq(Nat)
  BY <1>3, <1>4, AppendProperties
<1>6. Shapes'
  BY <1>1, <1>2, <1>4, <1>5 DEF Shapes
<1>7. ASSUME w \notin escaped PROVE Calm(w)'
  <2>1. Calm(w)
    BY <1>7 DEF CalmInv
  <2>2. consumers[w] # 0
    <3> SUFFICES ASSUME consumers[w] = 0 PROVE FALSE
      OBVIOUS
    <3>1. Prefetch * consumers[w] = 0
      BY TablesAssumption
    <3>2. Len(unacked[w]) \in Nat
      BY <1>3, LenProperties
    <3> QED
      BY <1>1, <3>1, <3>2
  <2> QED
    BY <1>1, <2>1, <2>2 DEF Calm
<1>8. WorkerOnly(w)
  BY <1>1 DEF WorkerOnly, Shapes
<1> QED
  BY <1>1, <1>6, <1>7, <1>8, WorkerStep

LEMMA StartBulkCalm ==
    ASSUME Shapes, CalmInv, NEW w \in Workers, StartBulk(w)
    PROVE  Shapes' /\ CalmInv'
<1> DEFINE n == IF Len(buffer[w]) < Prefetch THEN Len(buffer[w]) ELSE Prefetch
<1>1. /\ buffer[w] # <<>>
      /\ buffer' = [buffer EXCEPT ![w] = SubSeq(@, n + 1, Len(@))]
      /\ UNCHANGED <<queues, log, emitIdx, ready, unacked, consumers, channel, inbox, drainAck,
                     quiet, escaped, sync>>
  BY DEF StartBulk
<1>2. Workers' = Workers
  BY <1>1 DEF Workers
<1>3. SubSeq(buffer[w], n + 1, Len(buffer[w])) \in Seq(Nat)
  <2>1. buffer[w] \in Seq(Nat) /\ Len(buffer[w]) \in Nat /\ n \in 0 .. Len(buffer[w])
    BY LenProperties, TablesAssumption DEF Shapes
  <2> QED
    BY <2>1, SubSeqProperties
<1>4. Shapes'
  BY <1>1, <1>2, <1>3 DEF Shapes
<1>5. ASSUME w \notin escaped PROVE Calm(w)'
  BY <1>1, <1>5 DEF CalmInv, Calm
<1>6. WorkerOnly(w)
  BY <1>1 DEF WorkerOnly, Shapes
<1> QED
  BY <1>1, <1>4, <1>5, <1>6, WorkerStep

\* The answer that waited for the cargo: the worker waited without a consumer.
LEMMA FinishBulkCalm ==
    ASSUME Shapes, CalmInv, NEW w \in Workers, FinishBulk(w)
    PROVE  Shapes' /\ CalmInv'
<1>1. UNCHANGED <<queues, log, emitIdx, ready, consumers, channel, inbox, buffer, sync, escaped>>
  BY DEF FinishBulk
<1>2. \/ /\ drainAck[w] /\ buffer[w] = <<>> /\ quiet' = quiet \cup {w}
         /\ drainAck' = [drainAck EXCEPT ![w] = FALSE]
      \/ UNCHANGED <<quiet, drainAck>>
  BY DEF FinishBulk, AnswerPause
<1>3. unacked' \in [Workers -> Seq(Nat)]
  <2>1. unacked' = [unacked EXCEPT ![w] = <<>>] \/ unacked' = unacked
    BY DEF FinishBulk
  <2>2. <<>> \in Seq(Nat)
    OBVIOUS
  <2> QED
    BY <2>1, <2>2 DEF Shapes
<1>4. Workers' = Workers
  BY <1>1 DEF Workers
<1>5. drainAck' \in [Workers -> BOOLEAN] /\ quiet' \subseteq Workers
      /\ \A v \in Workers \ {w} : drainAck'[v] = drainAck[v] /\ (v \in quiet' => v \in quiet)
  BY <1>2 DEF Shapes
<1>6. Shapes'
  BY <1>1, <1>3, <1>4, <1>5 DEF Shapes
<1>7. ASSUME w \notin escaped PROVE Calm(w)'
  <2>1. Calm(w)
    BY <1>7 DEF CalmInv
  <2>2. CASE /\ drainAck[w] /\ buffer[w] = <<>> /\ quiet' = quiet \cup {w}
             /\ drainAck' = [drainAck EXCEPT ![w] = FALSE]
    <3>1. consumers'[w] = 0 /\ buffer'[w] = <<>>
      BY <1>1, <2>1, <2>2 DEF Calm
    <3> QED
      BY <1>1, <2>1, <3>1 DEF Calm
  <2>3. CASE UNCHANGED <<quiet, drainAck>>
    BY <1>1, <2>1, <2>3 DEF Calm
  <2> QED
    BY <1>2, <2>2, <2>3
<1>8. WorkerOnly(w)
  BY <1>1, <1>5 DEF WorkerOnly
<1> QED
  BY <1>1, <1>6, <1>7, <1>8, WorkerStep

LEMMA StopCalm ==
    ASSUME Shapes, CalmInv, NEW w \in Workers, Stop(w)
    PROVE  Shapes' /\ CalmInv'
<1>1. /\ channel' = [channel EXCEPT ![w] = "down"]
      /\ ready' = [ready EXCEPT ![w] = unacked[w] \o @]
      /\ unacked' = [unacked EXCEPT ![w] = <<>>]
      /\ consumers' = [consumers EXCEPT ![w] = 0]
      /\ inbox' = [inbox EXCEPT ![w] = <<>>]
      /\ buffer' = [buffer EXCEPT ![w] = <<>>]
      /\ drainAck' = [drainAck EXCEPT ![w] = FALSE]
      /\ quiet' = quiet \ {w}
      /\ UNCHANGED <<queues, log, emitIdx, sync, escaped>>
  BY DEF Stop
<1>2. Workers' = Workers
  BY <1>1 DEF Workers
<1>3. unacked[w] \o ready[w] \in Seq(Nat)
  BY ConcatProperties DEF Shapes
<1>4. drainAck' \in [Workers -> BOOLEAN] /\ quiet' \subseteq Workers
  BY <1>1 DEF Shapes
<1>5. Shapes'
  BY <1>1, <1>2, <1>3, <1>4 DEF Shapes
<1>6. /\ channel'[w] = "down" /\ consumers'[w] = 0 /\ inbox'[w] = <<>> /\ buffer'[w] = <<>>
      /\ ~drainAck'[w] /\ w \notin quiet'
  BY <1>1 DEF Shapes
<1>7. Calm(w)'
  BY <1>6 DEF Calm, Orders
<1>8. WorkerOnly(w)
  BY <1>1 DEF WorkerOnly, Shapes
<1> QED
  BY <1>1, <1>5, <1>7, <1>8, WorkerStep

LEMMA LoseConnectionCalm ==
    ASSUME Shapes, CalmInv, NEW w \in Workers, LoseConnection(w)
    PROVE  Shapes' /\ CalmInv'
<1>1. /\ channel' = [channel EXCEPT ![w] = "lost"]
      /\ ready' = [ready EXCEPT ![w] = unacked[w] \o @]
      /\ unacked' = [unacked EXCEPT ![w] = <<>>]
      /\ consumers' = [consumers EXCEPT ![w] = 0]
      /\ UNCHANGED <<queues, log, emitIdx, inbox, buffer, drainAck, quiet, sync, escaped>>
  BY DEF LoseConnection
<1>2. Workers' = Workers
  BY <1>1 DEF Workers
<1>3. unacked[w] \o ready[w] \in Seq(Nat)
  BY ConcatProperties DEF Shapes
<1>4. Shapes'
  BY <1>1, <1>2, <1>3 DEF Shapes
<1>5. ASSUME w \notin escaped PROVE Calm(w)'
  <2>1. channel'[w] = "lost" /\ consumers'[w] = 0
    BY <1>1 DEF Shapes
  <2> QED
    BY <1>1, <1>5, <2>1 DEF CalmInv, Calm
<1>6. WorkerOnly(w)
  BY <1>1 DEF WorkerOnly, Shapes
<1> QED
  BY <1>1, <1>4, <1>5, <1>6, WorkerStep

\* A worker that comes back consumes; unless nothing was asked of it, it escaped.
LEMMA AssertQueuesCalm ==
    ASSUME Shapes, CalmInv, NEW w \in Workers, AssertQueues(w)
    PROVE  Shapes' /\ CalmInv'
<1>1. /\ channel' = [channel EXCEPT ![w] = "open"]
      /\ consumers' = [consumers EXCEPT ![w] = 1]
      /\ escaped' = IF \/ sync # "idle" \/ w \in quiet \cup strayed
                       \/ drainAck[w] \/ inbox[w] # <<>>
                    THEN escaped \cup {w} ELSE escaped
      /\ UNCHANGED <<queues, log, emitIdx, ready, unacked, inbox, buffer, drainAck, quiet, sync>>
  BY DEF AssertQueues
<1>2. Workers' = Workers
  BY <1>1 DEF Workers
<1>3. Shapes'
  BY <1>1, <1>2 DEF Shapes
<1>4. channel'[w] = "open" /\ consumers'[w] = 1
  BY <1>1 DEF Shapes
<1>5. ASSUME w \notin escaped' PROVE Calm(w)'
  <2>1. w \notin escaped /\ sync = "idle" /\ w \notin quiet /\ ~drainAck[w] /\ inbox[w] = <<>>
    BY <1>1, <1>5
  <2> QED
    BY <1>1, <1>4, <2>1, OrderFacts DEF Calm, Orders
<1>6. WorkerOnly(w)
  BY <1>1 DEF WorkerOnly, Shapes
<1>7. escaped \subseteq escaped'
  BY <1>1
<1> QED
  BY <1>1, <1>3, <1>5, <1>6, <1>7, WorkerStep

LEMMA PauseIndexerCalm ==
    ASSUME Shapes, CalmInv, NEW w \in Workers, PauseIndexer(w)
    PROVE  Shapes' /\ CalmInv'
<1>1. /\ inbox[w] # <<>> /\ Head(inbox[w]) = "pause"
      /\ inbox' = [inbox EXCEPT ![w] = Tail(@)]
      /\ consumers' = [consumers EXCEPT ![w] = IF @ > 0 THEN @ - 1 ELSE 0]
      /\ UNCHANGED <<queues, log, emitIdx, ready, unacked, channel, buffer, sync, escaped>>
  BY DEF PauseIndexer
<1>2. \/ /\ buffer[w] # <<>> /\ drainAck' = [drainAck EXCEPT ![w] = TRUE] /\ UNCHANGED quiet
      \/ /\ buffer[w] = <<>> /\ quiet' = quiet \cup {w}
         /\ drainAck' = [drainAck EXCEPT ![w] = FALSE]
  BY DEF PauseIndexer, WaitsForDrain, AnswerPause
<1>3. Workers' = Workers
  BY <1>1 DEF Workers
<1>4. Tail(inbox[w]) \in Seq(Messages)
  BY <1>1, HeadTailProperties DEF Shapes
<1>5. drainAck' \in [Workers -> BOOLEAN] /\ quiet' \subseteq Workers
      /\ \A v \in Workers \ {w} : drainAck'[v] = drainAck[v] /\ (v \in quiet' => v \in quiet)
  BY <1>2 DEF Shapes
<1>6. Shapes'
  <2>1. consumers' \in [Workers -> Nat] /\ inbox' \in [Workers -> Seq(Messages)]
    BY SMTT(30), <1>1, <1>4 DEF Shapes
  <2> QED
    BY <1>1, <1>3, <1>5, <2>1 DEF Shapes
<1>7. ASSUME w \notin escaped PROVE Calm(w)'
  <2>1. Calm(w)
    BY <1>7 DEF CalmInv
  <2>2. consumers'[w] = 0
    BY <1>1, <2>1 DEF Calm, Shapes
  <2>3. inbox'[w] = Tail(inbox[w])
    BY <1>1 DEF Shapes
  <2>4. /\ inbox'[w] \in Orders
        /\ inbox[w] \in {<<>>, <<"pause">>} => inbox'[w] = <<>>
    BY <1>1, <2>1, <2>3, OrderFacts DEF Calm, Orders
  <2>5. w \in quiet' => buffer[w] = <<>>
    BY <1>2, <2>1 DEF Calm
  <2> QED
    BY <1>1, <2>1, <2>2, <2>4, <2>5 DEF Calm
<1>8. WorkerOnly(w)
  BY <1>1, <1>5 DEF WorkerOnly, Shapes
<1> QED
  BY <1>1, <1>6, <1>7, <1>8, WorkerStep

\* A worker that is resumed had no consumer left, so that it gets one.
LEMMA ResumeIndexerCalm ==
    ASSUME Shapes, CalmInv, NEW w \in Workers, ResumeIndexer(w)
    PROVE  Shapes' /\ CalmInv'
<1>1. /\ inbox[w] # <<>> /\ Head(inbox[w]) = "resume"
      /\ inbox' = [inbox EXCEPT ![w] = Tail(@)]
      /\ consumers' = [consumers EXCEPT ![w] = IF channel[w] = "open" THEN @ + 1 ELSE @]
      /\ quiet' = quiet \ {w}
      /\ drainAck' = [drainAck EXCEPT ![w] = FALSE]
      /\ UNCHANGED <<queues, log, emitIdx, ready, unacked, channel, buffer, sync, escaped>>
  BY DEF ResumeIndexer
<1>2. Workers' = Workers
  BY <1>1 DEF Workers
<1>3. Tail(inbox[w]) \in Seq(Messages)
  BY <1>1, HeadTailProperties DEF Shapes
<1>4. drainAck' \in [Workers -> BOOLEAN] /\ quiet' \subseteq Workers /\ ~drainAck'[w] /\ w \notin quiet'
  BY <1>1 DEF Shapes
<1>5. consumers' \in [Workers -> Nat]
  BY SMTT(30), <1>1 DEF Shapes
<1>6. Shapes'
  BY <1>1, <1>2, <1>3, <1>4, <1>5 DEF Shapes
<1>7. ASSUME w \notin escaped PROVE Calm(w)'
  <2>1. Calm(w)
    BY <1>7 DEF CalmInv
  <2>2. inbox[w] = <<"resume">> /\ Tail(inbox[w]) = <<>>
    BY <1>1, <2>1, OrderFacts DEF Calm
  <2>3. consumers[w] = 0 /\ sync = "idle"
    BY <2>1, <2>2, OrderFacts DEF Calm
  <2>4. consumers'[w] = (IF channel[w] = "open" THEN 1 ELSE 0) /\ inbox'[w] = <<>>
    BY <1>1, <2>2, <2>3 DEF Shapes
  <2> QED
    BY <1>1, <1>4, <2>3, <2>4, OrderFacts DEF Calm, Orders
<1>8. WorkerOnly(w)
  BY <1>1 DEF WorkerOnly, Shapes
<1> QED
  BY <1>1, <1>6, <1>7, <1>8, WorkerStep

-----------------------------------------------------------------------------
(* The command *)

\* A command begins when the workers have heard all there was to hear.
LEMMA RequestPauseCalm ==
    ASSUME Shapes, CalmInv, RequestPause
    PROVE  Shapes' /\ CalmInv'
<1>1. /\ \A w \in Workers : inbox[w] = <<>>
      /\ drainAck' = [w \in Workers |-> FALSE]
      /\ inbox' = [w \in Workers |-> IF w \in Running THEN Append(inbox[w], "pause") ELSE inbox[w]]
      /\ UNCHANGED <<queues, log, emitIdx, ready, unacked, consumers, channel, buffer, quiet, escaped>>
  BY DEF RequestPause, Tell
<1>2. Workers' = Workers
  BY <1>1 DEF Workers
<1>3. \A w \in Workers : inbox'[w] = IF w \in Running THEN <<"pause">> ELSE <<>>
  BY <1>1, OrderFacts
<1>4. inbox' \in [Workers -> Seq(Messages)]
  <2>1. <<"pause">> \in Seq(Messages) /\ <<>> \in Seq(Messages)
    BY DEF Messages
  <2>2. inbox' = [w \in Workers |-> inbox'[w]]
    BY <1>1
  <2>3. \A w \in Workers : inbox'[w] \in Seq(Messages)
    BY <1>3, <2>1
  <2> QED
    BY <2>2, <2>3
<1>5. drainAck' \in [Workers -> BOOLEAN]
  BY <1>1
<1>6. Shapes'
  BY <1>1, <1>2, <1>4, <1>5 DEF Shapes
<1>7. CalmInv'
  <2> SUFFICES ASSUME NEW v \in Workers, v \notin escaped PROVE Calm(v)'
    BY <1>1, <1>2 DEF CalmInv
  <2>1. Calm(v) /\ ~drainAck'[v]
    BY <1>1 DEF CalmInv
  <2>2. v \notin Running => consumers[v] = 0
    BY <2>1 DEF Calm, Running
  <2>3. inbox'[v] \in {<<>>, <<"pause">>} /\ (inbox'[v] = <<>> => consumers[v] = 0)
    BY <1>3, <2>2, OrderFacts
  <2>4. inbox'[v] \in Orders /\ inbox'[v] # <<"resume">>
    BY <2>3, OrderFacts DEF Orders
  <2> QED
    BY <1>1, <2>1, <2>3, <2>4 DEF Calm
<1> QED
  BY <1>6, <1>7

\* A command ends by resuming workers that have no consumer, or that are to lose the
\* one they have first.
LEMMA FinishSyncCalm ==
    ASSUME Shapes, CalmInv, FinishSync
    PROVE  Shapes' /\ CalmInv'
<1> DEFINE told == IF resumes THEN ToldToResume ELSE {}
<1>1. /\ sync = "copying" /\ sync' = "idle"
      /\ inbox' = [w \in Workers |-> IF w \in told THEN Append(inbox[w], "resume") ELSE inbox[w]]
      /\ UNCHANGED <<queues, log, emitIdx, ready, unacked, consumers, channel, buffer, drainAck,
                     quiet, escaped>>
  BY DEF FinishSync, Tell
<1> HIDE DEF told
<1>2. Workers' = Workers
  BY <1>1 DEF Workers
<1>3. inbox' \in [Workers -> Seq(Messages)]
  <2>1. \A w \in Workers : Append(inbox[w], "resume") \in Seq(Messages)
    BY AppendProperties DEF Shapes, Messages
  <2> QED
    BY <1>1, <2>1 DEF Shapes
<1>4. Shapes'
  BY <1>1, <1>2, <1>3 DEF Shapes
<1>5. CalmInv'
  <2> SUFFICES ASSUME NEW v \in Workers, v \notin escaped PROVE Calm(v)'
    BY <1>1, <1>2 DEF CalmInv
  <2>1. /\ Calm(v) /\ inbox[v] \in {<<>>, <<"pause">>}
        /\ inbox[v] = <<>> => consumers[v] = 0
    BY <1>1 DEF CalmInv, Calm
  <2>2. /\ inbox'[v] \in Orders
        /\ inbox'[v] = <<"resume">> => consumers[v] = 0
    <3>1. inbox'[v] = Append(inbox[v], "resume") \/ inbox'[v] = inbox[v]
      BY <1>1
    <3>2. CASE inbox[v] = <<>>
      BY <2>1, <3>1, <3>2, OrderFacts DEF Orders
    <3>3. CASE inbox[v] = <<"pause">>
      BY <3>1, <3>3, OrderFacts, PauseThenResume DEF Orders
    <3> QED
      BY <2>1, <3>2, <3>3
  <2> QED
    BY <1>1, <2>1, <2>2 DEF Calm
<1> QED
  BY <1>4, <1>5

LEMMA CalmStep == Shapes /\ CalmInv /\ [Next]_vars => Shapes' /\ CalmInv'
<1> SUFFICES ASSUME Shapes, CalmInv, [Next]_vars
             PROVE  Shapes' /\ CalmInv'
  OBVIOUS
<1>1. CASE UNCHANGED vars
  BY <1>1, FrameStep DEF vars, pauseVars
<1>2. CASE ReceivePaused \/ GiveUpPause \/ ReadRow \/ WriteRow \/ FailSync
  <2>1. UNCHANGED pauseVars /\ (sync' # "idle" => sync # "idle")
    BY <1>2 DEF ReceivePaused, GiveUpPause, ReadRow, WriteRow, FailSync, pauseVars
  <2> QED
    BY <2>1, FrameStep
<1>3. ASSUME NEW w \in Workers, Write(w) \/ FailWrite(w)
      PROVE  Shapes' /\ CalmInv'
  <2>1. UNCHANGED pauseVars /\ sync' = sync
    BY <1>3 DEF Write, FailWrite, pauseVars
  <2> QED
    BY <2>1, FrameStep
<1>4. ASSUME NEW w \in Workers, Crash(w) \/ PauseWithoutChannel(w)
      PROVE  Shapes' /\ CalmInv'
  BY <1>4, StopCalm DEF Crash, PauseWithoutChannel
<1>5. ASSUME NEW w \in Workers,
             \/ Deliver(w) \/ StartBulk(w) \/ FinishBulk(w) \/ LoseConnection(w)
             \/ AssertQueues(w) \/ PauseIndexer(w) \/ ResumeIndexer(w)
      PROVE  Shapes' /\ CalmInv'
  BY <1>5, DeliverCalm, StartBulkCalm, FinishBulkCalm, LoseConnectionCalm, AssertQueuesCalm,
     PauseIndexerCalm, ResumeIndexerCalm
<1>6. CASE StoreAccount \/ RequestPause \/ FinishSync
  BY <1>6, StoreAccountCalm, RequestPauseCalm, FinishSyncCalm
<1> QED
  BY <1>1, <1>2, <1>3, <1>4, <1>5, <1>6 DEF Next, Consume, HandleIpc, Copy

LEMMA CalmIsQuiet == Shapes /\ CalmInv => AnsweredWorkerIsQuiet
BY DEF Shapes, CalmInv, Calm, AnsweredWorkerIsQuiet

\* A worker that answered the pause takes nothing from its queue and holds nothing in
\* its cargo until it is resumed, whatever commands follow each other, fail or give up,
\* unless it came back on a new channel while it was to be paused.
THEOREM AnsweredIsQuiet == Spec => []AnsweredWorkerIsQuiet
BY InitCalm, CalmStep, CalmIsQuiet, PTL DEF Spec

-----------------------------------------------------------------------------
(* What a row of the table shows when nothing waits *)

\* Deltas the worker has still to write, now or when its queue delivers them.
ToWrite(w) == ToSet(ready[w]) \cup ToSet(buffer[w]) \cup todo[w]

SameRows(b, c) == log[b].row = log[c].row
IsLast(b) == b \in DOMAIN log /\ \A c \in DOMAIN log : SameRows(b, c) => c <= b

\* Each c of the sequence has a b after it, there or in what follows the sequence.
Behind(s, rest, b, c) ==
    \A i \in DOMAIN s : s[i] = c => b \in rest \/ \E j \in DOMAIN s : i < j /\ s[j] = b

\* Wherever the worker has c, which it will write, or is to be delivered again, it has b
\* after it.
Follows(w, b, c) ==
    /\ Behind(ready[w], {}, b, c)
    /\ Behind(unacked[w], ToSet(ready[w]), b, c)
    /\ Behind(buffer[w], ToSet(ready[w]), b, c)
    /\ c \in todo[w] => b \in (ToSet(ready[w]) \cup ToSet(buffer[w])) \ todo[w]

\* A delta is written or waits; an older one of the row cannot be written after it.
Kept(b) == (\E w \in Workers : b \in ToWrite(w)) \/ table[log[b].row] = Operation(b)
Newest(b) ==
    \A c \in DOMAIN log \ {b}, w \in Workers :
        SameRows(b, c) /\ c \in InHands(w) =>
            (\E v \in Workers \ {w} : b \in ToWrite(v)) \/ Follows(w, b, c)
\* What the command read and has not written is not older than what the row shows.
ReadInTime(b) ==
    \A d \in doc : d.row = log[b].row =>
        \/ d.at = b /\ log[b].present
        \/ d.at < b /\ \E w \in Workers : b \in ToWrite(w)

DeltaShapes ==
    /\ todo \in [Workers -> SUBSET Nat] /\ bulk \in [Workers -> {"idle", "sent", "wedged"}]
    /\ table \in [Rows -> Nat] /\ doc \subseteq [row : Rows, at : DOMAIN log]
    /\ \A w \in Workers : InHands(w) \subseteq DOMAIN log /\ (bulk[w] # "sent" => todo[w] = {})
    /\ \A v, w \in Workers : v # w => InHands(v) \cap InHands(w) = {}

RowsHaveLast ==
    \A r \in Rows :
        \/ DeltasOf(r) = {} /\ table[r] = 0 /\ \A d \in doc : d.row # r
        \/ \E b \in DeltasOf(r) : IsLast(b)

LastsAreKept ==
    \A b \in DOMAIN log \ excused : IsLast(b) => Kept(b) /\ Newest(b) /\ ReadInTime(b)

RowInv == DeltaShapes /\ RowsHaveLast /\ LastsAreKept

LEMMA RowInvInit == Init => RowInv
<1> SUFFICES ASSUME Init PROVE RowInv
  OBVIOUS
<1>1. \A w \in Workers : /\ ready[w] = <<>> /\ unacked[w] = <<>> /\ buffer[w] = <<>>
                         /\ todo[w] = {} /\ bulk[w] = "idle"
  BY DEF Init
<1>2. ToSet(<<>>) = {}
  BY DEF ToSet
<1>3. \A w \in Workers : InHands(w) = {}
  BY <1>1, <1>2 DEF InHands
<1>4. DeltaShapes
  <2>1. /\ todo \in [Workers -> SUBSET Nat] /\ bulk \in [Workers -> {"idle", "sent", "wedged"}]
        /\ table \in [Rows -> Nat] /\ doc \subseteq [row : Rows, at : DOMAIN log]
    BY DEF Init
  <2> QED
    BY <1>1, <1>3, <2>1 DEF DeltaShapes
<1>5. log = <<>> /\ DOMAIN log = {} /\ doc = {} /\ \A r \in Rows : table[r] = 0
  BY DEF Init
<1>6. RowsHaveLast
  BY <1>5 DEF RowsHaveLast, DeltasOf
<1>7. LastsAreKept
  BY <1>5 DEF LastsAreKept
<1> QED
  BY <1>4, <1>6, <1>7 DEF RowInv

-----------------------------------------------------------------------------
(* Sequences of deltas *)

LEMMA SetOfEmpty == ToSet(<<>>) = {}
  BY DEF ToSet

LEMMA SetOfSeq == ASSUME NEW s \in Seq(Nat) PROVE ToSet(s) \subseteq Nat
  BY DEF ToSet

\* Appending and taking the first.
LEMMA AppendedSet ==
    ASSUME NEW s \in Seq(Nat), NEW x \in Nat
    PROVE  /\ Append(s, x) \in Seq(Nat)
           /\ ToSet(Append(s, x)) = ToSet(s) \cup {x}
           /\ \A i \in DOMAIN s : i \in DOMAIN Append(s, x) /\ Append(s, x)[i] = s[i] /\ i < Len(s) + 1
           /\ Len(s) + 1 \in DOMAIN Append(s, x) /\ Append(s, x)[Len(s) + 1] = x
           /\ \A i \in DOMAIN Append(s, x) :
                 (i \in DOMAIN s /\ Append(s, x)[i] = s[i]) \/ (i = Len(s) + 1 /\ Append(s, x)[i] = x)
<1>1. /\ Append(s, x) \in Seq(Nat) /\ Len(s) \in Nat /\ DOMAIN s = 1 .. Len(s)
      /\ DOMAIN Append(s, x) = 1 .. Len(s) + 1
  OBVIOUS
<1>2. (\A i \in 1 .. Len(s) : Append(s, x)[i] = s[i]) /\ Append(s, x)[Len(s) + 1] = x
  OBVIOUS
<1>3. \A i \in DOMAIN Append(s, x) :
         (i \in DOMAIN s /\ Append(s, x)[i] = s[i]) \/ (i = Len(s) + 1 /\ Append(s, x)[i] = x)
  BY <1>1, <1>2
<1>4. \A i \in DOMAIN s : i \in DOMAIN Append(s, x) /\ Append(s, x)[i] = s[i] /\ i < Len(s) + 1
  BY <1>1, <1>2
<1>5. Len(s) + 1 \in DOMAIN Append(s, x)
  BY <1>1
<1>6. ToSet(Append(s, x)) = ToSet(s) \cup {x}
  BY <1>2, <1>3, <1>4, <1>5 DEF ToSet
<1> QED
  BY <1>1, <1>2, <1>3, <1>4, <1>5, <1>6

LEMMA TailSet ==
    ASSUME NEW s \in Seq(Nat), s # <<>>
    PROVE  /\ Head(s) = s[1] /\ Head(s) \in Nat /\ 1 \in DOMAIN s /\ Tail(s) \in Seq(Nat)
           /\ ToSet(s) = {Head(s)} \cup ToSet(Tail(s))
           /\ \A i \in DOMAIN Tail(s) : i \in Nat /\ i + 1 \in DOMAIN s /\ Tail(s)[i] = s[i + 1]
           /\ \A i \in DOMAIN s : i \in Nat /\ (i > 1 => i - 1 \in DOMAIN Tail(s) /\ Tail(s)[i - 1] = s[i])
<1>1. /\ Head(s) = s[1] /\ Head(s) \in Nat /\ 1 \in DOMAIN s
      /\ Tail(s) \in Seq(Nat)
      /\ DOMAIN s = 1 .. Len(s) /\ DOMAIN Tail(s) = 1 .. Len(s) - 1 /\ Len(s) \in Nat
      /\ \A i \in 1 .. Len(s) - 1 : Tail(s)[i] = s[i + 1]
  OBVIOUS
<1>2. ASSUME NEW i \in DOMAIN s, i > 1 PROVE i - 1 \in DOMAIN Tail(s) /\ Tail(s)[i - 1] = s[i]
  <2>1. i - 1 \in 1 .. Len(s) - 1 /\ (i - 1) + 1 = i
    BY <1>1, <1>2
  <2> QED
    BY <1>1, <2>1
<1>3. \A i \in DOMAIN Tail(s) : i \in Nat /\ i + 1 \in DOMAIN s /\ Tail(s)[i] = s[i + 1]
  BY <1>1
<1>4. \A i \in DOMAIN s : i \in Nat /\ (i = 1 \/ i > 1)
  BY <1>1
<1>5. ToSet(s) = {Head(s)} \cup ToSet(Tail(s))
  <2>1. ASSUME NEW i \in DOMAIN s PROVE s[i] \in {Head(s)} \cup ToSet(Tail(s))
    BY <1>1, <1>2, <1>4, <2>1 DEF ToSet
  <2>2. ASSUME NEW i \in DOMAIN Tail(s) PROVE Tail(s)[i] \in ToSet(s)
    BY <1>3, <2>2 DEF ToSet
  <2> QED
    BY <1>1, <2>1, <2>2 DEF ToSet
<1> QED
  BY <1>1, <1>2, <1>3, <1>4, <1>5

LEMMA JoinedSet ==
    ASSUME NEW s \in Seq(Nat), NEW t \in Seq(Nat)
    PROVE  /\ s \o t \in Seq(Nat) /\ ToSet(s \o t) = ToSet(s) \cup ToSet(t)
           /\ \A i \in DOMAIN s : i \in DOMAIN (s \o t) /\ (s \o t)[i] = s[i] /\ i <= Len(s)
           /\ \A j \in DOMAIN t : Len(s) + j \in DOMAIN (s \o t) /\ (s \o t)[Len(s) + j] = t[j]
                                  /\ j \in Nat /\ j > 0
           /\ \A i \in DOMAIN (s \o t) :
                 \/ i \in DOMAIN s /\ (s \o t)[i] = s[i]
                 \/ \E j \in DOMAIN t : i = Len(s) + j /\ (s \o t)[i] = t[j]
<1>1. /\ s \o t \in Seq(Nat) /\ Len(s \o t) = Len(s) + Len(t)
      /\ DOMAIN s = 1 .. Len(s) /\ DOMAIN t = 1 .. Len(t)
      /\ DOMAIN (s \o t) = 1 .. Len(s) + Len(t) /\ Len(s) \in Nat /\ Len(t) \in Nat
  OBVIOUS
<1>2. \A i \in 1 .. Len(s) : (s \o t)[i] = s[i]
  OBVIOUS
<1>3. \A i \in Len(s) + 1 .. Len(s) + Len(t) : (s \o t)[i] = t[i - Len(s)]
  OBVIOUS
<1>4. ASSUME NEW j \in DOMAIN t
      PROVE  /\ Len(s) + j \in DOMAIN (s \o t) /\ (s \o t)[Len(s) + j] = t[j]
             /\ j \in Nat /\ j > 0
  <2>1. /\ Len(s) + j \in Len(s) + 1 .. Len(s) + Len(t) /\ (Len(s) + j) - Len(s) = j
        /\ j \in Nat /\ j > 0
    BY <1>1
  <2> QED
    BY <1>1, <1>3, <2>1
<1>5. ASSUME NEW i \in DOMAIN (s \o t)
      PROVE  \/ i \in DOMAIN s /\ (s \o t)[i] = s[i]
             \/ \E j \in DOMAIN t : i = Len(s) + j /\ (s \o t)[i] = t[j]
  <2>1. CASE i \in 1 .. Len(s)
    BY <1>1, <1>2, <2>1
  <2>2. CASE i \in Len(s) + 1 .. Len(s) + Len(t)
    <3>1. i - Len(s) \in DOMAIN t /\ i = Len(s) + (i - Len(s))
      BY <1>1, <2>2
    <3> QED
      BY <1>3, <2>2, <3>1
  <2> QED
    BY <1>1, <2>1, <2>2
<1>6. \A i \in DOMAIN s : i \in DOMAIN (s \o t) /\ (s \o t)[i] = s[i] /\ i <= Len(s)
  BY <1>1, <1>2
<1>7. ToSet(s \o t) = ToSet(s) \cup ToSet(t)
  <2>1. \A i \in DOMAIN (s \o t) : (s \o t)[i] \in ToSet(s) \cup ToSet(t)
    <3>1. (\A i \in DOMAIN s : s[i] \in ToSet(s)) /\ \A j \in DOMAIN t : t[j] \in ToSet(t)
      BY DEF ToSet
    <3> QED
      BY <1>5, <3>1, Zenon
  <2>2. \A i \in DOMAIN s : s[i] \in ToSet(s \o t)
    BY <1>6, Zenon DEF ToSet
  <2>3. \A j \in DOMAIN t : t[j] \in ToSet(s \o t)
    BY <1>4, Zenon DEF ToSet
  <2>4. ToSet(s \o t) \subseteq ToSet(s) \cup ToSet(t)
    BY <2>1, Zenon DEF ToSet
  <2>5. ToSet(s) \subseteq ToSet(s \o t) /\ ToSet(t) \subseteq ToSet(s \o t)
    BY <2>2, <2>3, Zenon DEF ToSet
  <2> QED
    BY <2>4, <2>5
<1> QED
  BY <1>1, <1>4, <1>5, <1>6, <1>7

\* The cargo takes the first n.
LEMMA SplitSet ==
    ASSUME NEW s \in Seq(Nat), NEW n \in Nat, n <= Len(s)
    PROVE  /\ SubSeq(s, n + 1, Len(s)) \in Seq(Nat)
           /\ \A i \in DOMAIN s :
                 /\ i \in Nat
                 /\ i <= n => s[i] \in ToSet(SubSeq(s, 1, n))
                 /\ i > n => /\ i - n \in DOMAIN SubSeq(s, n + 1, Len(s))
                             /\ SubSeq(s, n + 1, Len(s))[i - n] = s[i]
           /\ \A i \in DOMAIN SubSeq(s, n + 1, Len(s)) :
                 i \in Nat /\ i + n \in DOMAIN s /\ SubSeq(s, n + 1, Len(s))[i] = s[i + n]
           /\ \A x \in ToSet(SubSeq(s, 1, n)) : \E i \in DOMAIN s : i <= n /\ s[i] = x
<1>1. /\ SubSeq(s, n + 1, Len(s)) \in Seq(Nat) /\ DOMAIN s = 1 .. Len(s) /\ Len(s) \in Nat
      /\ DOMAIN SubSeq(s, n + 1, Len(s)) = 1 .. Len(s) - n
      /\ \A i \in 1 .. Len(s) - n : SubSeq(s, n + 1, Len(s))[i] = s[n + i]
  OBVIOUS
<1>2. DOMAIN SubSeq(s, 1, n) = 1 .. n /\ \A i \in 1 .. n : SubSeq(s, 1, n)[i] = s[i]
  OBVIOUS
<1>3. ASSUME NEW i \in DOMAIN s, i > n
      PROVE  /\ i - n \in DOMAIN SubSeq(s, n + 1, Len(s))
             /\ SubSeq(s, n + 1, Len(s))[i - n] = s[i]
  <2>1. i - n \in 1 .. Len(s) - n /\ n + (i - n) = i
    BY <1>1, <1>3
  <2> QED
    BY <1>1, <2>1
<1>4. ASSUME NEW i \in DOMAIN s, i <= n PROVE s[i] \in ToSet(SubSeq(s, 1, n))
  <2>1. i \in 1 .. n
    BY <1>1, <1>4
  <2> QED
    BY <1>2, <2>1 DEF ToSet
<1>5. ASSUME NEW i \in DOMAIN SubSeq(s, n + 1, Len(s))
      PROVE  i \in Nat /\ i + n \in DOMAIN s /\ SubSeq(s, n + 1, Len(s))[i] = s[i + n]
  <2>1. i \in 1 .. Len(s) - n /\ i + n = n + i /\ i + n \in 1 .. Len(s)
    BY <1>1, <1>5
  <2> QED
    BY <1>1, <2>1
<1>6. ASSUME NEW x \in ToSet(SubSeq(s, 1, n)) PROVE \E i \in DOMAIN s : i <= n /\ s[i] = x
  <2>1. PICK i \in 1 .. n : SubSeq(s, 1, n)[i] = x
    BY <1>2 DEF ToSet
  <2>2. i \in DOMAIN s /\ i <= n
    BY <1>1
  <2> QED
    BY <1>2, <2>1, <2>2
<1> QED
  BY <1>1, <1>3, <1>4, <1>5, <1>6

-----------------------------------------------------------------------------
(* What follows c, as the sequences move *)

LEMMA BehindMore ==
    ASSUME NEW s, NEW b, NEW c, NEW rest, NEW more, rest \subseteq more, Behind(s, rest, b, c)
    PROVE  Behind(s, more, b, c)
  BY DEF Behind

LEMMA BehindNothing == \A rest, b, c : Behind(<<>>, rest, b, c)
  BY DEF Behind

LEMMA BehindTail ==
    ASSUME NEW s \in Seq(Nat), s # <<>>, NEW b, NEW c, Behind(s, {}, b, c)
    PROVE  Behind(Tail(s), {}, b, c)
<1> SUFFICES ASSUME NEW i \in DOMAIN Tail(s), Tail(s)[i] = c
             PROVE  \E j \in DOMAIN Tail(s) : i < j /\ Tail(s)[j] = b
  BY DEF Behind
<1>1. i \in Nat /\ i + 1 \in DOMAIN s /\ s[i + 1] = c
  BY TailSet
<1>2. PICK j \in DOMAIN s : i + 1 < j /\ s[j] = b
  BY <1>1 DEF Behind
<1>3. j \in Nat /\ j > 1
  BY <1>1, <1>2, TailSet
<1>4. j - 1 \in DOMAIN Tail(s) /\ Tail(s)[j - 1] = b
  BY <1>2, <1>3, TailSet
<1>5. i < j - 1
  BY <1>1, <1>2, <1>3
<1> QED
  BY <1>4, <1>5

\* The first of the queue is delivered.
LEMMA BehindShift ==
    ASSUME NEW s \in Seq(Nat), s # <<>>, NEW t \in Seq(Nat), NEW b, NEW c,
           Behind(t, ToSet(s), b, c), Behind(s, {}, b, c)
    PROVE  Behind(Append(t, Head(s)), ToSet(Tail(s)), b, c)
<1> DEFINE u == Append(t, Head(s))
<1>1. Head(s) = s[1] /\ Head(s) \in Nat /\ 1 \in DOMAIN s /\ ToSet(s) = {Head(s)} \cup ToSet(Tail(s))
  BY TailSet
<1>2. /\ \A i \in DOMAIN t : i \in DOMAIN u /\ u[i] = t[i] /\ i < Len(t) + 1
      /\ Len(t) + 1 \in DOMAIN u /\ u[Len(t) + 1] = Head(s)
      /\ \A i \in DOMAIN u : (i \in DOMAIN t /\ u[i] = t[i]) \/ (i = Len(t) + 1 /\ u[i] = Head(s))
  BY <1>1, AppendedSet
<1> HIDE DEF u
<1> SUFFICES ASSUME NEW i \in DOMAIN u, u[i] = c
             PROVE  b \in ToSet(Tail(s)) \/ \E j \in DOMAIN u : i < j /\ u[j] = b
  BY DEF Behind, u
<1>3. CASE i \in DOMAIN t /\ u[i] = t[i]
  <2>1. b \in ToSet(s) \/ \E j \in DOMAIN t : i < j /\ t[j] = b
    BY <1>3 DEF Behind
  <2>2. CASE b \in ToSet(s)
    <3>1. b = Head(s) \/ b \in ToSet(Tail(s))
      BY <1>1, <2>2
    <3> QED
      BY <1>2, <1>3, <3>1
  <2> QED
    BY <1>2, <2>1, <2>2
<1>4. CASE u[i] = Head(s)
  <2>1. PICK j \in DOMAIN s : 1 < j /\ s[j] = b
    BY <1>1, <1>4 DEF Behind
  <2>2. j - 1 \in DOMAIN Tail(s) /\ Tail(s)[j - 1] = b
    BY <2>1, TailSet
  <2> QED
    BY <2>2 DEF ToSet
<1> QED
  BY <1>2, <1>3, <1>4

\* The broker puts the unsettled deliveries back.
LEMMA BehindJoined ==
    ASSUME NEW s \in Seq(Nat), NEW t \in Seq(Nat), NEW b, NEW c,
           Behind(s, ToSet(t), b, c), Behind(t, {}, b, c)
    PROVE  Behind(s \o t, {}, b, c)
<1> DEFINE u == s \o t
<1>1. /\ \A i \in DOMAIN s : i \in DOMAIN u /\ u[i] = s[i] /\ i <= Len(s)
      /\ \A j \in DOMAIN t : Len(s) + j \in DOMAIN u /\ u[Len(s) + j] = t[j] /\ j \in Nat /\ j > 0
      /\ \A i \in DOMAIN u : \/ i \in DOMAIN s /\ u[i] = s[i]
                             \/ \E j \in DOMAIN t : i = Len(s) + j /\ u[i] = t[j]
  BY JoinedSet
<1>0. Len(s) \in Nat /\ \A i \in DOMAIN s : i \in Nat
  OBVIOUS
<1> HIDE DEF u
<1> SUFFICES ASSUME NEW i \in DOMAIN u, u[i] = c
             PROVE  \E j \in DOMAIN u : i < j /\ u[j] = b
  BY DEF Behind, u
<1>2. CASE i \in DOMAIN s /\ u[i] = s[i]
  <2>1. b \in ToSet(t) \/ \E j \in DOMAIN s : i < j /\ s[j] = b
    BY <1>2 DEF Behind
  <2>2. CASE b \in ToSet(t)
    <3>1. PICK j \in DOMAIN t : t[j] = b
      BY <2>2 DEF ToSet
    <3>2. Len(s) + j \in DOMAIN u /\ u[Len(s) + j] = b /\ j \in Nat /\ j > 0
      BY <1>1, <3>1
    <3>3. i <= Len(s) /\ i \in Nat
      BY <1>0, <1>1, <1>2
    <3>4. i < Len(s) + j
      BY <1>0, <3>2, <3>3
    <3> QED
      BY <3>2, <3>4
  <2> QED
    BY <1>1, <2>1, <2>2
<1>3. ASSUME NEW k \in DOMAIN t, i = Len(s) + k, u[i] = t[k]
      PROVE  \E j \in DOMAIN u : i < j /\ u[j] = b
  <2>1. PICK j \in DOMAIN t : k < j /\ t[j] = b
    BY <1>3 DEF Behind
  <2>2. Len(s) + j \in DOMAIN u /\ u[Len(s) + j] = b /\ j \in Nat /\ k \in Nat
    BY <1>1, <1>3, <2>1
  <2>3. i < Len(s) + j
    BY <1>0, <1>3, <2>1, <2>2
  <2> QED
    BY <2>2, <2>3
<1> QED
  BY <1>1, <1>2, <1>3

\* A new delta at the end of its queue.
LEMMA BehindAppended ==
    ASSUME NEW s \in Seq(Nat), NEW x \in Nat, NEW b, NEW c, c # x, Behind(s, {}, b, c) \/ b = x
    PROVE  Behind(Append(s, x), {}, b, c)
<1> DEFINE u == Append(s, x)
<1>1. /\ \A i \in DOMAIN s : i \in DOMAIN u /\ u[i] = s[i] /\ i < Len(s) + 1
      /\ Len(s) + 1 \in DOMAIN u /\ u[Len(s) + 1] = x
      /\ \A i \in DOMAIN u : (i \in DOMAIN s /\ u[i] = s[i]) \/ (i = Len(s) + 1 /\ u[i] = x)
  BY AppendedSet
<1> HIDE DEF u
<1> SUFFICES ASSUME NEW i \in DOMAIN u, u[i] = c
             PROVE  \E j \in DOMAIN u : i < j /\ u[j] = b
  BY DEF Behind, u
<1>2. i \in DOMAIN s /\ s[i] = c
  BY <1>1
<1>3. CASE b = x
  BY <1>1, <1>2, <1>3
<1>4. CASE Behind(s, {}, b, c)
  <2>1. PICK j \in DOMAIN s : i < j /\ s[j] = b
    BY <1>2, <1>4 DEF Behind
  <2> QED
    BY <1>1, <2>1
<1> QED
  BY <1>3, <1>4

\* The rest of the cargo.
LEMMA BehindRest ==
    ASSUME NEW s \in Seq(Nat), NEW n \in Nat, n <= Len(s), NEW rest, NEW b, NEW c,
           Behind(s, rest, b, c)
    PROVE  Behind(SubSeq(s, n + 1, Len(s)), rest, b, c)
<1> DEFINE u == SubSeq(s, n + 1, Len(s))
<1>1. /\ \A i \in DOMAIN s : i \in Nat /\ (i > n => i - n \in DOMAIN u /\ u[i - n] = s[i])
      /\ \A i \in DOMAIN u : i \in Nat /\ i + n \in DOMAIN s /\ u[i] = s[i + n]
  BY SplitSet
<1> HIDE DEF u
<1> SUFFICES ASSUME NEW i \in DOMAIN u, u[i] = c, b \notin rest
             PROVE  \E j \in DOMAIN u : i < j /\ u[j] = b
  BY DEF Behind, u
<1>2. i \in Nat /\ i + n \in DOMAIN s /\ s[i + n] = c
  BY <1>1
<1>3. PICK j \in DOMAIN s : i + n < j /\ s[j] = b
  BY <1>2 DEF Behind
<1>4. j \in Nat /\ j > n
  BY <1>1, <1>2, <1>3
<1>5. j - n \in DOMAIN u /\ u[j - n] = b
  BY <1>1, <1>3, <1>4
<1>6. i < j - n
  BY <1>2, <1>3, <1>4
<1> QED
  BY <1>5, <1>6

-----------------------------------------------------------------------------
(* Steps of a worker that write nothing *)

\* A worker hands its deltas on: it forgets none but those that are excused, and keeps
\* the order of what it has.
LEMMA HandsMove ==
    ASSUME Shapes, RowInv, NEW w \in Workers, UNCHANGED <<queues, log, table, doc>>,
           excused \subseteq excused',
           \A v \in Workers \ {w} : UNCHANGED <<ready[v], unacked[v], buffer[v], todo[v]>>,
           InHands(w)' \subseteq InHands(w),
           ToWrite(w) \ excused' \subseteq ToWrite(w)',
           \A b, c \in DOMAIN log :
              b # c /\ SameRows(b, c) /\ b \notin excused' /\ c \in InHands(w)' /\ Follows(w, b, c)
                  => Follows(w, b, c)'
    PROVE  RowsHaveLast' /\ LastsAreKept'
<1>1. Workers' = Workers
  BY DEF Workers
<1>2. /\ \A b : IsLast(b)' <=> IsLast(b)
      /\ \A b, c : SameRows(b, c)' <=> SameRows(b, c)
      /\ \A r : DeltasOf(r)' = DeltasOf(r)
      /\ \A b : Operation(b)' = Operation(b)
  BY DEF IsLast, SameRows, DeltasOf, Operation
<1>3. RowsHaveLast'
  BY <1>2 DEF RowInv, RowsHaveLast
<1>4. \A v \in Workers \ {w} :
         /\ ToWrite(v)' = ToWrite(v) /\ InHands(v)' = InHands(v)
         /\ \A b, c : Follows(v, b, c) => Follows(v, b, c)'
  <2> TAKE v \in Workers \ {w}
  <2>1. UNCHANGED <<ready[v], unacked[v], buffer[v], todo[v]>>
    OBVIOUS
  <2> QED
    BY <2>1 DEF ToWrite, InHands, Follows
<1>5. ASSUME NEW b \in DOMAIN log, b \notin excused', NEW v \in Workers, b \in ToWrite(v)
      PROVE  b \in ToWrite(v)'
  <2>1. CASE v = w
    BY <1>5, <2>1
  <2>2. CASE v # w
    BY <1>4, <1>5, <2>2
  <2> QED
    BY <2>1, <2>2
<1>6. ASSUME NEW b \in DOMAIN log, b \notin excused', IsLast(b)
      PROVE  Kept(b)' /\ Newest(b)' /\ ReadInTime(b)'
  <2>1. Kept(b) /\ Newest(b) /\ ReadInTime(b)
    BY <1>6 DEF RowInv, LastsAreKept
  <2>2. Kept(b)'
    BY <1>1, <1>2, <1>5, <1>6, <2>1 DEF Kept
  <2>3. ASSUME NEW c \in DOMAIN log \ {b}, NEW u \in Workers, SameRows(b, c), c \in InHands(u)'
        PROVE  (\E v \in Workers \ {u} : b \in ToWrite(v)') \/ Follows(u, b, c)'
    <3>1. c \in InHands(u)
      BY <1>4, <2>3
    <3>2. (\E v \in Workers \ {u} : b \in ToWrite(v)) \/ Follows(u, b, c)
      BY <2>1, <2>3, <3>1 DEF Newest
    <3>3. CASE \E v \in Workers \ {u} : b \in ToWrite(v)
      BY <1>5, <1>6, <3>3
    <3>4. CASE Follows(u, b, c)
      BY <1>4, <1>6, <2>3, <3>4
    <3> QED
      BY <3>2, <3>3, <3>4
  <2>4. Newest(b)'
    BY <1>1, <1>2, <2>3 DEF Newest
  <2>5. ReadInTime(b)'
    BY <1>1, <1>5, <1>6, <2>1 DEF ReadInTime
  <2> QED
    BY <2>2, <2>4, <2>5
<1>7. LastsAreKept'
  BY <1>2, <1>6 DEF LastsAreKept
<1> QED
  BY <1>3, <1>7

LEMMA ShapesMove ==
    ASSUME RowInv, NEW w \in Workers, UNCHANGED <<queues, log, table, doc>>,
           \A v \in Workers \ {w} : UNCHANGED <<ready[v], unacked[v], buffer[v], todo[v]>>,
           InHands(w)' \subseteq InHands(w),
           todo' \in [Workers -> SUBSET Nat], bulk' \in [Workers -> {"idle", "sent", "wedged"}],
           \A v \in Workers : bulk'[v] # "sent" => todo'[v] = {}
    PROVE  DeltaShapes'
<1>1. Workers' = Workers
  BY DEF Workers
<1>2. \A v \in Workers : InHands(v)' \subseteq InHands(v)
  <2> TAKE v \in Workers
  <2>1. CASE v # w
    <3>1. UNCHANGED <<ready[v], unacked[v], buffer[v], todo[v]>>
      BY <2>1
    <3> QED
      BY <3>1 DEF InHands
  <2> QED
    BY <2>1
<1>3. \A v \in Workers : InHands(v)' \subseteq DOMAIN log
  BY <1>2 DEF RowInv, DeltaShapes
<1>4. \A u, v \in Workers : u # v => InHands(u)' \cap InHands(v)' = {}
  BY <1>2 DEF RowInv, DeltaShapes
<1>5. table' \in [Rows -> Nat] /\ doc' \subseteq [row : Rows, at : DOMAIN log']
  BY DEF RowInv, DeltaShapes
<1> QED
  BY <1>1, <1>3, <1>4, <1>5 DEF DeltaShapes

LEMMA DeliverRows == ASSUME Shapes, RowInv, NEW w \in Workers, Deliver(w) PROVE RowInv'
<1>1. /\ ready[w] # <<>>
      /\ ready' = [ready EXCEPT ![w] = Tail(@)]
      /\ unacked' = [unacked EXCEPT ![w] = Append(@, Head(ready[w]))]
      /\ buffer' = [buffer EXCEPT ![w] = Append(@, Head(ready[w]))]
      /\ UNCHANGED <<queues, log, table, doc, todo, bulk, excused>>
  BY DEF Deliver
<1>2. /\ ready[w] \in Seq(Nat) /\ unacked[w] \in Seq(Nat) /\ buffer[w] \in Seq(Nat)
      /\ w \in DOMAIN ready /\ w \in DOMAIN unacked /\ w \in DOMAIN buffer
  BY DEF Shapes
<1>3. /\ ready'[w] = Tail(ready[w]) /\ unacked'[w] = Append(unacked[w], Head(ready[w]))
      /\ buffer'[w] = Append(buffer[w], Head(ready[w]))
  BY <1>1, <1>2
<1>4. \A v \in Workers \ {w} : UNCHANGED <<ready[v], unacked[v], buffer[v], todo[v]>>
  BY <1>1 DEF Shapes
<1>5. /\ Head(ready[w]) \in Nat /\ ToSet(ready[w]) = {Head(ready[w])} \cup ToSet(ready'[w])
      /\ ToSet(unacked'[w]) = ToSet(unacked[w]) \cup {Head(ready[w])}
      /\ ToSet(buffer'[w]) = ToSet(buffer[w]) \cup {Head(ready[w])}
  <2>1. Head(ready[w]) \in Nat /\ ToSet(ready[w]) = {Head(ready[w])} \cup ToSet(Tail(ready[w]))
    BY <1>1, <1>2, TailSet
  <2> QED
    BY <1>2, <1>3, <2>1, AppendedSet
<1>6. InHands(w)' = InHands(w) /\ ToWrite(w)' = ToWrite(w)
  BY <1>1, <1>5 DEF InHands, ToWrite
<1>7. ASSUME NEW b, NEW c, Follows(w, b, c) PROVE Follows(w, b, c)'
  <2>1. Behind(ready'[w], {}, b, c)
    BY <1>1, <1>2, <1>3, <1>7, BehindTail DEF Follows
  <2>2. Behind(unacked'[w], ToSet(ready'[w]), b, c) /\ Behind(buffer'[w], ToSet(ready'[w]), b, c)
    BY <1>1, <1>2, <1>3, <1>7, BehindShift DEF Follows
  <2>3. c \in todo[w] => b \in (ToSet(ready'[w]) \cup ToSet(buffer'[w])) \ todo[w]
    BY <1>5, <1>7 DEF Follows
  <2> QED
    BY <1>1, <2>1, <2>2, <2>3 DEF Follows
<1>8. RowsHaveLast' /\ LastsAreKept'
  BY <1>1, <1>4, <1>6, <1>7, HandsMove
<1>9. DeltaShapes'
  BY <1>1, <1>4, <1>6, ShapesMove DEF RowInv, DeltaShapes
<1> QED
  BY <1>8, <1>9 DEF RowInv

LEMMA StartBulkRows == ASSUME Shapes, RowInv, NEW w \in Workers, StartBulk(w) PROVE RowInv'
<1>1. PICK n : n = IF Len(buffer[w]) < Prefetch THEN Len(buffer[w]) ELSE Prefetch
  OBVIOUS
<1>2. PICK batch : batch = ToSet(SubSeq(buffer[w], 1, n))
  OBVIOUS
<1>3. /\ buffer' = [buffer EXCEPT ![w] = SubSeq(@, n + 1, Len(@))]
      /\ todo' = [todo EXCEPT ![w] = batch]
      /\ excused' = excused \cup {b \in batch : \E c \in batch : SameRow(b, c)}
      /\ bulk[w] = "idle" /\ bulk' = [bulk EXCEPT ![w] = "sent"]
      /\ UNCHANGED <<queues, log, table, doc, ready, unacked>>
  BY <1>1, <1>2 DEF StartBulk
<1>4. /\ ready[w] \in Seq(Nat) /\ unacked[w] \in Seq(Nat) /\ buffer[w] \in Seq(Nat)
      /\ w \in DOMAIN buffer /\ w \in DOMAIN todo
  BY DEF Shapes, RowInv, DeltaShapes
<1>5. n \in Nat /\ n <= Len(buffer[w])
  BY <1>1, <1>4, TablesAssumption
<1>6. buffer'[w] = SubSeq(buffer[w], n + 1, Len(buffer[w])) /\ todo'[w] = batch /\ todo[w] = {}
  BY <1>3, <1>4 DEF RowInv, DeltaShapes
<1>7. /\ \A i \in DOMAIN buffer[w] :
            /\ i \in Nat /\ (i <= n => buffer[w][i] \in batch)
            /\ i > n => i - n \in DOMAIN buffer'[w] /\ buffer'[w][i - n] = buffer[w][i]
      /\ \A i \in DOMAIN buffer'[w] : /\ i \in Nat /\ i + n \in DOMAIN buffer[w]
                                      /\ buffer'[w][i] = buffer[w][i + n]
      /\ \A x \in batch : \E i \in DOMAIN buffer[w] : i <= n /\ buffer[w][i] = x
  <2>1. PICK s : s = buffer[w]
    OBVIOUS
  <2>2. PICK rest : rest = SubSeq(s, n + 1, Len(s))
    OBVIOUS
  <2>3. s \in Seq(Nat) /\ n \in Nat /\ n <= Len(s) /\ batch = ToSet(SubSeq(s, 1, n)) /\ buffer'[w] = rest
    BY <1>2, <1>4, <1>5, <1>6, <2>1, <2>2
  <2>4. /\ \A i \in DOMAIN s :
              /\ i \in Nat
              /\ i <= n => s[i] \in ToSet(SubSeq(s, 1, n))
              /\ i > n => /\ i - n \in DOMAIN SubSeq(s, n + 1, Len(s))
                          /\ SubSeq(s, n + 1, Len(s))[i - n] = s[i]
        /\ \A i \in DOMAIN SubSeq(s, n + 1, Len(s)) :
              i \in Nat /\ i + n \in DOMAIN s /\ SubSeq(s, n + 1, Len(s))[i] = s[i + n]
        /\ \A x \in ToSet(SubSeq(s, 1, n)) : \E i \in DOMAIN s : i <= n /\ s[i] = x
    BY <2>3, SplitSet, Zenon
  <2>5. /\ \A i \in DOMAIN s : /\ i \in Nat /\ (i <= n => s[i] \in batch)
                               /\ i > n => i - n \in DOMAIN rest /\ rest[i - n] = s[i]
        /\ \A i \in DOMAIN rest : i \in Nat /\ i + n \in DOMAIN s /\ rest[i] = s[i + n]
        /\ \A x \in batch : \E i \in DOMAIN s : i <= n /\ s[i] = x
    BY <2>2, <2>3, <2>4, Zenon
  <2> QED
    BY <2>1, <2>3, <2>5
<1>8. \A v \in Workers \ {w} : UNCHANGED <<ready[v], unacked[v], buffer[v], todo[v]>>
  BY <1>3 DEF Shapes, RowInv, DeltaShapes
<1>9. ToSet(buffer[w]) = batch \cup ToSet(buffer'[w])
  <2>1. ASSUME NEW i \in DOMAIN buffer[w] PROVE buffer[w][i] \in batch \cup ToSet(buffer'[w])
    <3>1. i <= n \/ i > n
      BY <1>5, <1>7
    <3> QED
      BY <1>7, <3>1 DEF ToSet
  <2>2. \A x \in batch : x \in ToSet(buffer[w])
    BY <1>7 DEF ToSet
  <2>3. \A x \in ToSet(buffer'[w]) : x \in ToSet(buffer[w])
    BY <1>7 DEF ToSet
  <2> QED
    BY <2>1, <2>2, <2>3 DEF ToSet
<1>10. InHands(w)' = InHands(w) /\ ToWrite(w)' = ToWrite(w)
  BY <1>3, <1>6, <1>9 DEF InHands, ToWrite
<1>11. ASSUME NEW b \in DOMAIN log, NEW c \in DOMAIN log, b # c, SameRows(b, c), b \notin excused',
              Follows(w, b, c)
       PROVE  Follows(w, b, c)'
  <2>1. Behind(buffer'[w], ToSet(ready[w]), b, c)
    BY <1>4, <1>5, <1>6, <1>11, BehindRest DEF Follows
  <2>2. ~(b \in batch /\ c \in batch)
    BY <1>3, <1>11 DEF SameRow, SameRows
  <2>3. c \in batch => b \in (ToSet(ready[w]) \cup ToSet(buffer'[w])) \ batch
    <3> SUFFICES ASSUME c \in batch PROVE b \in ToSet(ready[w]) \cup ToSet(buffer'[w])
      BY <2>2
    <3>1. PICK i \in DOMAIN buffer[w] : i <= n /\ buffer[w][i] = c
      BY <1>7
    <3>2. b \in ToSet(ready[w]) \/ \E j \in DOMAIN buffer[w] : i < j /\ buffer[w][j] = b
      BY <1>11, <3>1 DEF Follows, Behind
    <3>3. ASSUME NEW j \in DOMAIN buffer[w], buffer[w][j] = b PROVE b \in ToSet(buffer'[w])
      <4>1. b \in ToSet(buffer[w])
        BY <3>3 DEF ToSet
      <4> QED
        BY <1>9, <2>2, <4>1
    <3> QED
      BY <3>2, <3>3
  <2> QED
    BY <1>3, <1>6, <1>11, <2>1, <2>3 DEF Follows
<1>12. excused \subseteq excused'
  BY <1>3
<1>13. RowsHaveLast' /\ LastsAreKept'
  BY <1>3, <1>8, <1>10, <1>11, <1>12, HandsMove
<1>14. DeltaShapes'
  <2>1. todo' \in [Workers -> SUBSET Nat] /\ bulk' \in [Workers -> {"idle", "sent", "wedged"}]
    <3>1. batch \subseteq Nat
      BY <1>4, <1>9, SetOfSeq
    <3> QED
      BY <1>3, <3>1 DEF RowInv, DeltaShapes
  <2>2. \A v \in Workers : bulk'[v] # "sent" => todo'[v] = {}
    BY <1>3 DEF RowInv, DeltaShapes
  <2> QED
    BY <1>3, <1>8, <1>10, <2>1, <2>2, ShapesMove
<1> QED
  BY <1>13, <1>14 DEF RowInv

LEMMA FailWriteRows == ASSUME Shapes, RowInv, NEW w \in Workers, FailWrite(w) PROVE RowInv'
<1>1. PICK some \in SUBSET todo[w] :
         /\ todo' = [todo EXCEPT ![w] = @ \ some]
         /\ excused' = excused \cup some
         /\ UNCHANGED <<queues, log, table, doc, ready, unacked, buffer, bulk>>
  BY DEF FailWrite
<1>2. todo'[w] = todo[w] \ some
  BY <1>1 DEF RowInv, DeltaShapes
<1>3. \A v \in Workers \ {w} : UNCHANGED <<ready[v], unacked[v], buffer[v], todo[v]>>
  BY <1>1 DEF RowInv, DeltaShapes
<1>4. InHands(w)' \subseteq InHands(w) /\ ToWrite(w) \ excused' \subseteq ToWrite(w)'
  BY <1>1, <1>2 DEF InHands, ToWrite
<1>5. ASSUME NEW b, NEW c, Follows(w, b, c) PROVE Follows(w, b, c)'
  BY <1>1, <1>2, <1>5 DEF Follows
<1>6. RowsHaveLast' /\ LastsAreKept'
  BY <1>1, <1>3, <1>4, <1>5, HandsMove
<1>7. DeltaShapes'
  <2>1. todo' \in [Workers -> SUBSET Nat]
    BY <1>1 DEF RowInv, DeltaShapes
  <2>2. \A v \in Workers : bulk'[v] # "sent" => todo'[v] = {}
    BY <1>1, <1>2, <1>3 DEF RowInv, DeltaShapes
  <2>3. bulk' \in [Workers -> {"idle", "sent", "wedged"}]
    BY <1>1 DEF RowInv, DeltaShapes
  <2> QED
    BY <1>1, <1>3, <1>4, <2>1, <2>2, <2>3, ShapesMove
<1> QED
  BY <1>6, <1>7 DEF RowInv

LEMMA FinishBulkRows == ASSUME Shapes, RowInv, NEW w \in Workers, FinishBulk(w) PROVE RowInv'
<1>1. /\ unacked' = unacked \/ unacked' = [unacked EXCEPT ![w] = <<>>]
      /\ bulk' = [bulk EXCEPT ![w] = "idle"] \/ bulk' = [bulk EXCEPT ![w] = "wedged"]
      /\ todo[w] = {}
      /\ UNCHANGED <<queues, log, table, doc, ready, buffer, todo, excused>>
  BY DEF FinishBulk
<1>2. unacked'[w] = unacked[w] \/ unacked'[w] = <<>>
  BY <1>1 DEF Shapes
<1>3. \A v \in Workers \ {w} : UNCHANGED <<ready[v], unacked[v], buffer[v], todo[v]>>
  BY <1>1 DEF Shapes
<1>4. InHands(w)' \subseteq InHands(w) /\ ToWrite(w)' = ToWrite(w)
  BY <1>1, <1>2, SetOfEmpty DEF InHands, ToWrite
<1>5. ASSUME NEW b, NEW c, Follows(w, b, c) PROVE Follows(w, b, c)'
  BY <1>1, <1>2, <1>5, BehindNothing DEF Follows
<1>6. RowsHaveLast' /\ LastsAreKept'
  BY <1>1, <1>3, <1>4, <1>5, HandsMove
<1>7. DeltaShapes'
  <2>1. bulk' \in [Workers -> {"idle", "sent", "wedged"}]
    BY <1>1 DEF RowInv, DeltaShapes
  <2>2. \A v \in Workers : bulk'[v] # "sent" => todo'[v] = {}
    BY <1>1 DEF RowInv, DeltaShapes
  <2>3. todo' \in [Workers -> SUBSET Nat]
    BY <1>1 DEF RowInv, DeltaShapes
  <2> QED
    BY <1>1, <1>3, <1>4, <2>1, <2>2, <2>3, ShapesMove
<1> QED
  BY <1>6, <1>7 DEF RowInv

\* The process ends: what it had acknowledged and not written is excused.
LEMMA StopRows == ASSUME Shapes, RowInv, NEW w \in Workers, Stop(w) PROVE RowInv'
<1>1. /\ ready' = [ready EXCEPT ![w] = unacked[w] \o @]
      /\ unacked' = [unacked EXCEPT ![w] = <<>>]
      /\ buffer' = [buffer EXCEPT ![w] = <<>>]
      /\ todo' = [todo EXCEPT ![w] = {}] /\ bulk' = [bulk EXCEPT ![w] = "idle"]
      /\ excused' = excused \cup ((ToSet(buffer[w]) \cup todo[w])
                                     \ (ToSet(ready[w]) \cup ToSet(unacked[w])))
      /\ UNCHANGED <<queues, log, table, doc>>
  BY DEF Stop
<1>2. /\ ready[w] \in Seq(Nat) /\ unacked[w] \in Seq(Nat) /\ buffer[w] \in Seq(Nat)
      /\ w \in DOMAIN ready /\ w \in DOMAIN unacked /\ w \in DOMAIN buffer /\ w \in DOMAIN todo
  BY DEF Shapes, RowInv, DeltaShapes
<1>3. /\ ready'[w] = unacked[w] \o ready[w] /\ unacked'[w] = <<>> /\ buffer'[w] = <<>> /\ todo'[w] = {}
  BY <1>1, <1>2
<1>4. \A v \in Workers \ {w} : UNCHANGED <<ready[v], unacked[v], buffer[v], todo[v]>>
  BY <1>1 DEF Shapes, RowInv, DeltaShapes
<1>5. ToSet(ready'[w]) = ToSet(unacked[w]) \cup ToSet(ready[w])
  BY <1>2, <1>3, JoinedSet
<1>6. InHands(w)' \subseteq InHands(w) /\ ToWrite(w) \ excused' \subseteq ToWrite(w)'
  BY <1>1, <1>3, <1>5, SetOfEmpty DEF InHands, ToWrite
<1>7. ASSUME NEW b, NEW c, Follows(w, b, c) PROVE Follows(w, b, c)'
  <2>1. Behind(ready'[w], {}, b, c)
    BY <1>2, <1>3, <1>7, BehindJoined DEF Follows
  <2> QED
    BY <1>3, <2>1, BehindNothing DEF Follows
<1>8. RowsHaveLast' /\ LastsAreKept'
  BY <1>1, <1>4, <1>6, <1>7, HandsMove
<1>9. DeltaShapes'
  <2>1. bulk' \in [Workers -> {"idle", "sent", "wedged"}] /\ todo' \in [Workers -> SUBSET Nat]
    BY <1>1 DEF RowInv, DeltaShapes
  <2>2. \A v \in Workers : bulk'[v] # "sent" => todo'[v] = {}
    BY <1>1, <1>3, <1>4 DEF RowInv, DeltaShapes
  <2> QED
    BY <1>1, <1>4, <1>6, <2>1, <2>2, ShapesMove
<1> QED
  BY <1>8, <1>9 DEF RowInv

LEMMA LoseConnectionRows == ASSUME Shapes, RowInv, NEW w \in Workers, LoseConnection(w) PROVE RowInv'
<1>1. /\ ready' = [ready EXCEPT ![w] = unacked[w] \o @]
      /\ unacked' = [unacked EXCEPT ![w] = <<>>]
      /\ UNCHANGED <<queues, log, table, doc, buffer, todo, bulk, excused>>
  BY DEF LoseConnection
<1>2. /\ ready[w] \in Seq(Nat) /\ unacked[w] \in Seq(Nat)
      /\ w \in DOMAIN ready /\ w \in DOMAIN unacked
  BY DEF Shapes
<1>3. ready'[w] = unacked[w] \o ready[w] /\ unacked'[w] = <<>>
  BY <1>1, <1>2
<1>4. \A v \in Workers \ {w} : UNCHANGED <<ready[v], unacked[v], buffer[v], todo[v]>>
  BY <1>1 DEF Shapes
<1>5. ToSet(ready'[w]) = ToSet(unacked[w]) \cup ToSet(ready[w])
  BY <1>2, <1>3, JoinedSet
<1>6. InHands(w)' \subseteq InHands(w) /\ ToWrite(w) \ excused' \subseteq ToWrite(w)'
  BY <1>1, <1>3, <1>5, SetOfEmpty DEF InHands, ToWrite
<1>7. ASSUME NEW b, NEW c, Follows(w, b, c) PROVE Follows(w, b, c)'
  <2>1. Behind(ready'[w], {}, b, c)
    BY <1>2, <1>3, <1>7, BehindJoined DEF Follows
  <2>2. Behind(buffer[w], ToSet(ready'[w]), b, c)
    BY <1>5, <1>7, BehindMore DEF Follows
  <2> QED
    BY <1>1, <1>3, <1>5, <1>7, <2>1, <2>2, BehindNothing DEF Follows
<1>8. RowsHaveLast' /\ LastsAreKept'
  BY <1>1, <1>4, <1>6, <1>7, HandsMove
<1>9. DeltaShapes'
  BY <1>1, <1>4, <1>6, ShapesMove DEF RowInv, DeltaShapes
<1> QED
  BY <1>8, <1>9 DEF RowInv

-----------------------------------------------------------------------------
(* The last delta of a row *)

LEMMA LogFacts ==
    ASSUME Shapes
    PROVE  /\ DOMAIN log = 1 .. Len(log) /\ Len(log) \in Nat
           /\ \A b \in DOMAIN log : b \in Nat \ {0} /\ log[b] \in Delta /\ log[b].row \in Rows
<1>1. log \in Seq(Delta)
  BY DEF Shapes
<1>2. DOMAIN log = 1 .. Len(log) /\ Len(log) \in Nat /\ \A b \in DOMAIN log : log[b] \in Delta
  BY <1>1
<1>3. \A x \in Delta : x.row \in Rows
  BY DEF Delta
<1> QED
  BY <1>2, <1>3

LEMMA LastIs ==
    ASSUME Shapes, NEW r, NEW b \in DeltasOf(r), IsLast(b)
    PROVE  LastDelta(r) = b
<1>1. \A c \in DeltasOf(r) : c \in Nat /\ c <= b
  BY LogFacts DEF DeltasOf, IsLast, SameRows
<1>2. PICK x : x = CHOOSE y \in DeltasOf(r) : \A c \in DeltasOf(r) : c <= y
  OBVIOUS
<1>3. x \in DeltasOf(r) /\ \A c \in DeltasOf(r) : c <= x
  BY <1>1, <1>2
<1>4. x = b
  BY <1>1, <1>3
<1> QED
  BY <1>2, <1>4 DEF LastDelta

LEMMA OneLast ==
    ASSUME Shapes, NEW b, NEW c, IsLast(b), IsLast(c), SameRows(b, c)
    PROVE  b = c
  BY LogFacts DEF IsLast, SameRows

LEMMA WriteRows == ASSUME Shapes, RowInv, NEW w \in Workers, Write(w) PROVE RowInv'
<1>1. PICK x \in todo[w] :
         /\ table' = [table EXCEPT ![log[x].row] = Operation(x)]
         /\ todo' = [todo EXCEPT ![w] = @ \ {x}]
         /\ excused' =
              IF \/ \E d \in doc : d.row = log[x].row /\ d.at < x
                 \/ \E v \in Workers \ {w} : \E c \in InHands(v) : SameRow(x, c) /\ c < x
              THEN excused \cup {x}
              ELSE excused
         /\ UNCHANGED <<queues, log, doc, ready, unacked, buffer, bulk>>
  BY DEF Write
<1>2. x \in InHands(w) /\ x \in DOMAIN log /\ x \in Nat /\ log[x].row \in Rows
  BY LogFacts DEF InHands, RowInv, DeltaShapes
<1>3. Operation(x) \in Nat
  BY <1>2 DEF Operation
<1>4. /\ todo'[w] = todo[w] \ {x} /\ \A v \in Workers \ {w} : todo'[v] = todo[v]
      /\ table'[log[x].row] = Operation(x)
      /\ \A r \in Rows : r # log[x].row => table'[r] = table[r]
      /\ table' \in [Rows -> Nat] /\ todo' \in [Workers -> SUBSET Nat]
  BY <1>1, <1>2, <1>3 DEF RowInv, DeltaShapes
<1>5. Workers' = Workers
  BY <1>1 DEF Workers
<1>6. /\ \A b : IsLast(b)' <=> IsLast(b)
      /\ \A b, c : SameRows(b, c)' <=> SameRows(b, c)
      /\ \A r : DeltasOf(r)' = DeltasOf(r)
      /\ \A b : Operation(b)' = Operation(b)
  BY <1>1 DEF IsLast, SameRows, DeltasOf, Operation
<1>7. /\ \A v \in Workers : InHands(v)' \subseteq InHands(v)
      /\ \A v \in Workers : ToWrite(v) \ {x} \subseteq ToWrite(v)'
      /\ \A v \in Workers : ToWrite(v) \subseteq InHands(v)
      /\ \A v \in Workers : \A b, c : Follows(v, b, c) => Follows(v, b, c)'
  <2>1. \A v \in Workers : todo'[v] \subseteq todo[v] /\ todo[v] \ {x} \subseteq todo'[v]
    BY <1>4
  <2>2. ASSUME NEW v \in Workers, NEW b, NEW c, Follows(v, b, c) PROVE Follows(v, b, c)'
    BY <1>1, <2>1, <2>2 DEF Follows
  <2> QED
    BY <1>1, <2>1, <2>2 DEF InHands, ToWrite
<1>8. RowsHaveLast'
  <2>1. \A r \in Rows : DeltasOf(r) = {} => r # log[x].row
    BY <1>2 DEF DeltasOf
  <2> QED
    BY <1>1, <1>4, <1>6, <2>1 DEF RowInv, RowsHaveLast
<1>9. DeltaShapes'
  <2>1. \A v \in Workers : bulk'[v] # "sent" => todo'[v] = {}
    BY <1>1, <1>4 DEF RowInv, DeltaShapes
  <2>2. \A v \in Workers : InHands(v)' \subseteq DOMAIN log
    BY <1>7 DEF RowInv, DeltaShapes
  <2>3. \A u, v \in Workers : u # v => InHands(u)' \cap InHands(v)' = {}
    BY <1>7 DEF RowInv, DeltaShapes
  <2>4. bulk' \in [Workers -> {"idle", "sent", "wedged"}] /\ doc' \subseteq [row : Rows, at : DOMAIN log']
    BY <1>1 DEF RowInv, DeltaShapes
  <2> QED
    BY <1>1, <1>4, <1>5, <2>1, <2>2, <2>3, <2>4 DEF DeltaShapes
<1>10. ASSUME NEW b \in DOMAIN log, b \notin excused', IsLast(b), b # x
       PROVE  Kept(b)' /\ Newest(b)' /\ ReadInTime(b)'
  <2>0. b \notin excused /\ log[b].row \in Rows
    BY <1>1, <1>10, LogFacts
  <2>1. Kept(b) /\ Newest(b) /\ ReadInTime(b)
    BY <1>10, <2>0 DEF RowInv, LastsAreKept
  <2>2. \A v \in Workers : b \in ToWrite(v) => b \in ToWrite(v)'
    BY <1>7, <1>10
  <2>3. Kept(b)'
    <3>1. CASE \E v \in Workers : b \in ToWrite(v)
      BY <1>5, <2>2, <3>1 DEF Kept
    <3>2. CASE log[b].row # log[x].row /\ table[log[b].row] = Operation(b)
      <4>1. table'[log[b].row] = Operation(b)
        BY <1>4, <2>0, <3>2
      <4> QED
        BY <1>1, <1>6, <4>1 DEF Kept
    <3>3. CASE log[b].row = log[x].row
      <4>1. (\E v \in Workers \ {w} : b \in ToWrite(v)) \/ Follows(w, b, x)
        BY <1>2, <1>10, <2>1, <3>3 DEF Newest, SameRows
      <4>2. Follows(w, b, x) => b \in ToWrite(w)
        BY <1>1 DEF Follows, ToWrite
      <4> QED
        BY <3>1, <4>1, <4>2
    <3> QED
      BY <2>1, <3>1, <3>2, <3>3 DEF Kept
  <2>4. ASSUME NEW c \in DOMAIN log \ {b}, NEW u \in Workers, SameRows(b, c), c \in InHands(u)'
        PROVE  (\E v \in Workers \ {u} : b \in ToWrite(v)') \/ Follows(u, b, c)'
    <3>1. (\E v \in Workers \ {u} : b \in ToWrite(v)) \/ Follows(u, b, c)
      BY <1>7, <2>1, <2>4 DEF Newest
    <3> QED
      BY <1>7, <2>2, <3>1
  <2>5. Newest(b)'
    BY <1>1, <1>5, <1>6, <2>4 DEF Newest
  <2>6. ReadInTime(b)'
    BY <1>1, <1>5, <2>1, <2>2 DEF ReadInTime
  <2> QED
    BY <2>3, <2>5, <2>6
<1>11. ASSUME IsLast(x), x \notin excused'
       PROVE  Kept(x)' /\ Newest(x)' /\ ReadInTime(x)'
  <2>1. /\ x \notin excused
        /\ \A d \in doc : d.row = log[x].row => ~(d.at < x)
        /\ \A v \in Workers \ {w} : \A c \in InHands(v) : ~(SameRow(x, c) /\ c < x)
    BY <1>1, <1>11
  <2>2. Kept(x) /\ Newest(x) /\ ReadInTime(x)
    BY <1>2, <1>11, <2>1 DEF RowInv, LastsAreKept
  <2>3. Kept(x)'
    BY <1>1, <1>4, <1>6 DEF Kept
  <2>4. ASSUME NEW c \in DOMAIN log \ {x}, NEW u \in Workers, SameRows(x, c), c \in InHands(u)'
        PROVE  Follows(u, x, c)'
    <3>1. c \in InHands(u) /\ c < x /\ SameRow(x, c)
      <4>1. c <= x /\ c \in Nat
        BY <1>11, <2>4, LogFacts DEF IsLast
      <4> QED
        BY <1>2, <1>7, <2>4, <4>1 DEF SameRow, SameRows
    <3>2. u = w
      BY <2>1, <3>1
    <3>3. \A v \in Workers \ {w} : x \notin ToWrite(v)
      BY <1>2, <1>7 DEF RowInv, DeltaShapes
    <3>4. Follows(w, x, c)
      BY <2>2, <2>4, <3>1, <3>2, <3>3 DEF Newest
    <3> QED
      BY <1>7, <3>2, <3>4
  <2>5. Newest(x)'
    BY <1>1, <1>5, <1>6, <2>4 DEF Newest
  <2>6. ReadInTime(x)'
    BY <1>1, <2>1, <2>2 DEF ReadInTime
  <2> QED
    BY <2>3, <2>5, <2>6
<1>12. LastsAreKept'
  BY <1>1, <1>6, <1>10, <1>11 DEF LastsAreKept
<1> QED
  BY <1>8, <1>9, <1>12 DEF RowInv

LEMMA StoreAccountRows == ASSUME Shapes, RowInv, StoreAccount PROVE RowInv'
<1>1. PICK e : e = emitIdx
  OBVIOUS
<1>2. PICK n : n = Len(log) + 1
  OBVIOUS
<1>3. PICK r \in Rows, present \in BOOLEAN : log' = Append(log, [row |-> r, present |-> present])
  BY DEF StoreAccount
<1>4. /\ ready' = [ready EXCEPT ![e] = Append(@, n)]
      /\ UNCHANGED <<queues, table, doc, unacked, buffer, todo, bulk, excused>>
  BY <1>1, <1>2 DEF StoreAccount
<1>5. /\ DOMAIN log' = DOMAIN log \cup {n} /\ n \notin DOMAIN log /\ n \in Nat \ {0}
      /\ \A b \in DOMAIN log : log'[b] = log[b] /\ b < n
      /\ log'[n].row = r
  <2>1. log \in Seq(Delta) /\ [row |-> r, present |-> present] \in Delta
    BY DEF Shapes, Delta
  <2> HIDE DEF Delta
  <2>2. /\ DOMAIN log = 1 .. Len(log) /\ Len(log) \in Nat
        /\ DOMAIN log' = 1 .. Len(log) + 1
        /\ \A b \in 1 .. Len(log) : log'[b] = log[b]
        /\ log'[Len(log) + 1] = [row |-> r, present |-> present]
    BY <1>3, <2>1
  <2> QED
    BY <1>2, <2>2
<1>6. /\ e \in Workers /\ ready[e] \in Seq(Nat) /\ ready'[e] = Append(ready[e], n)
      /\ \A v \in Workers : v # e => ready'[v] = ready[v]
  BY <1>1, <1>4 DEF Shapes
<1>7. ToSet(ready'[e]) = ToSet(ready[e]) \cup {n}
  BY <1>5, <1>6, AppendedSet
<1>8. Workers' = Workers
  BY <1>4 DEF Workers
<1>9. /\ InHands(e)' = InHands(e) \cup {n} /\ ToWrite(e)' = ToWrite(e) \cup {n}
      /\ \A v \in Workers : v # e => InHands(v)' = InHands(v) /\ ToWrite(v)' = ToWrite(v)
  BY <1>4, <1>6, <1>7 DEF InHands, ToWrite
<1>10. \A v \in Workers : InHands(v) \subseteq DOMAIN log /\ n \notin InHands(v) /\ n \notin todo[v]
  <2>1. \A v \in Workers : InHands(v) \subseteq DOMAIN log /\ todo[v] \subseteq InHands(v)
    BY DEF RowInv, DeltaShapes, InHands
  <2> QED
    BY <1>5, <2>1
<1>11. DeltaShapes'
  <2>1. /\ todo' \in [Workers -> SUBSET Nat] /\ bulk' \in [Workers -> {"idle", "sent", "wedged"}]
        /\ table' \in [Rows -> Nat] /\ doc' \subseteq [row : Rows, at : DOMAIN log']
        /\ \A v \in Workers : bulk'[v] # "sent" => todo'[v] = {}
    BY <1>4, <1>5 DEF RowInv, DeltaShapes
  <2>2. \A v \in Workers : InHands(v)' \subseteq DOMAIN log'
    BY <1>5, <1>9, <1>10
  <2>3. \A u, v \in Workers : u # v => InHands(u)' \cap InHands(v)' = {}
    <3>1. \A u, v \in Workers : u # v => InHands(u) \cap InHands(v) = {}
      BY DEF RowInv, DeltaShapes
    <3> QED
      BY <1>9, <1>10, <3>1
  <2> QED
    BY <1>8, <2>1, <2>2, <2>3 DEF DeltaShapes
<1>12. IsLast(n)' /\ \A b \in DOMAIN log : IsLast(b)' => IsLast(b) /\ log[b].row # r
  <2>1. \A b \in DOMAIN log : b \in Nat
    BY LogFacts
  <2>2. IsLast(n)'
    BY <1>5, <2>1 DEF IsLast
  <2>3. ASSUME NEW b \in DOMAIN log, IsLast(b)' PROVE IsLast(b) /\ log[b].row # r
    <3>1. \A c \in DOMAIN log : SameRows(b, c) => c <= b
      BY <1>5, <2>3 DEF IsLast, SameRows
    <3>2. log[b].row = r => n <= b
      BY <1>5, <2>3 DEF IsLast, SameRows
    <3> QED
      BY <1>5, <2>1, <3>1, <3>2 DEF IsLast
  <2> QED
    BY <2>2, <2>3
<1>13. /\ DeltasOf(r)' = DeltasOf(r) \cup {n}
       /\ \A q \in Rows : q # r => DeltasOf(q)' = DeltasOf(q)
  BY <1>5 DEF DeltasOf
<1>14. \A b \in DOMAIN log : IsLast(b) /\ log[b].row # r => IsLast(b)'
  BY <1>5 DEF IsLast, SameRows
<1>15. RowsHaveLast'
  <2> SUFFICES ASSUME NEW q \in Rows
               PROVE  \/ DeltasOf(q)' = {} /\ table'[q] = 0 /\ \A d \in doc' : d.row # q
                      \/ \E b \in DeltasOf(q)' : IsLast(b)'
    BY DEF RowsHaveLast
  <2>1. CASE q = r
    BY <1>12, <1>13, <2>1
  <2>2. CASE q # r /\ DeltasOf(q) = {}
    BY <1>4, <1>13, <2>2 DEF RowInv, RowsHaveLast
  <2>3. CASE q # r /\ DeltasOf(q) # {}
    <3>1. PICK b \in DeltasOf(q) : IsLast(b)
      BY <2>3 DEF RowInv, RowsHaveLast
    <3>2. b \in DOMAIN log /\ log[b].row = q
      BY <3>1 DEF DeltasOf
    <3> QED
      BY <1>13, <1>14, <2>3, <3>1, <3>2
  <2> QED
    BY <2>1, <2>2, <2>3
<1>16. Kept(n)' /\ Newest(n)' /\ ReadInTime(n)'
  <2>1. n \in ToWrite(e)'
    BY <1>9
  <2>2. Kept(n)'
    BY <1>6, <1>8, <2>1 DEF Kept
  <2>3. ASSUME NEW c \in DOMAIN log, c # n PROVE Follows(e, n, c)'
    <3>1. Behind(ready'[e], {}, n, c)
      BY <1>5, <1>6, <2>3, BehindAppended
    <3>2. n \in ToSet(ready'[e])
      BY <1>7
    <3>3. Behind(unacked[e], ToSet(ready'[e]), n, c) /\ Behind(buffer[e], ToSet(ready'[e]), n, c)
      BY <3>2 DEF Behind
    <3> QED
      BY <1>4, <1>6, <1>10, <3>1, <3>2, <3>3 DEF Follows
  <2>4. ASSUME NEW c \in DOMAIN log' \ {n}, NEW u \in Workers
        PROVE  (\E v \in Workers \ {u} : n \in ToWrite(v)') \/ Follows(u, n, c)'
    <3>1. c \in DOMAIN log /\ c # n
      BY <1>5, <2>4
    <3> QED
      BY <1>6, <2>1, <2>3, <3>1
  <2>5. Newest(n)'
    BY <1>8, <2>4 DEF Newest
  <2>6. \A d \in doc' : d.at < n
    BY <1>4, <1>5 DEF RowInv, DeltaShapes
  <2>7. ReadInTime(n)'
    BY <1>6, <1>8, <2>1, <2>6 DEF ReadInTime
  <2> QED
    BY <2>2, <2>5, <2>7
<1>17. ASSUME NEW b \in DOMAIN log, b \notin excused, IsLast(b), log[b].row # r
       PROVE  Kept(b)' /\ Newest(b)' /\ ReadInTime(b)'
  <2>1. Kept(b) /\ Newest(b) /\ ReadInTime(b)
    BY <1>17 DEF RowInv, LastsAreKept
  <2>2. \A v \in Workers : ToWrite(v) \subseteq ToWrite(v)'
    BY <1>9
  <2>3. log'[b] = log[b] /\ b # n
    BY <1>5
  <2>4. Kept(b)'
    BY <1>4, <1>8, <2>1, <2>2, <2>3 DEF Kept, Operation
  <2>5. ASSUME NEW c \in DOMAIN log' \ {b}, NEW u \in Workers, SameRows(b, c)', c \in InHands(u)'
        PROVE  (\E v \in Workers \ {u} : b \in ToWrite(v)') \/ Follows(u, b, c)'
    <3>1. c # n
      BY <1>5, <1>17, <2>3, <2>5 DEF SameRows
    <3>2. c \in DOMAIN log /\ SameRows(b, c) /\ c \in InHands(u)
      <4>1. c \in DOMAIN log
        BY <1>5, <3>1
      <4>2. SameRows(b, c)
        BY <1>5, <2>3, <2>5, <4>1 DEF SameRows
      <4>3. c \in InHands(u)
        BY <1>9, <2>5, <3>1
      <4> QED
        BY <4>1, <4>2, <4>3
    <3>3. (\E v \in Workers \ {u} : b \in ToWrite(v)) \/ Follows(u, b, c)
      BY <2>1, <2>5, <3>2 DEF Newest
    <3>4. ASSUME Follows(u, b, c) PROVE Follows(u, b, c)'
      <4>1. CASE u = e
        <5>1. Behind(ready'[e], {}, b, c)
          BY <1>5, <1>6, <3>1, <3>4, <4>1, BehindAppended DEF Follows
        <5>2. Behind(unacked[e], ToSet(ready'[e]), b, c) /\ Behind(buffer[e], ToSet(ready'[e]), b, c)
          BY <1>7, <3>4, <4>1, BehindMore DEF Follows
        <5>3. c \in todo[e] => b \in (ToSet(ready'[e]) \cup ToSet(buffer[e])) \ todo[e]
          BY <1>7, <3>4, <4>1 DEF Follows
        <5> QED
          BY <1>4, <4>1, <5>1, <5>2, <5>3 DEF Follows
      <4>2. CASE u # e
        BY <1>4, <1>6, <3>4, <4>2 DEF Follows
      <4> QED
        BY <4>1, <4>2
    <3> QED
      BY <2>2, <3>3, <3>4
  <2>6. Newest(b)'
    BY <1>8, <2>5 DEF Newest
  <2>7. ReadInTime(b)'
    BY <1>4, <1>8, <2>1, <2>2, <2>3 DEF ReadInTime
  <2> QED
    BY <2>4, <2>6, <2>7
<1>18. LastsAreKept'
  BY <1>4, <1>5, <1>12, <1>16, <1>17 DEF LastsAreKept
<1> QED
  BY <1>11, <1>15, <1>18 DEF RowInv

-----------------------------------------------------------------------------
(* The command *)

handVars == <<queues, log, ready, unacked, buffer, todo, bulk, excused>>

\* Only the table or what the command read changes.
LEMMA HandsSame ==
    ASSUME RowInv, UNCHANGED handVars,
           table' \in [Rows -> Nat], doc' \subseteq [row : Rows, at : DOMAIN log]
    PROVE  /\ DeltaShapes' /\ Workers' = Workers
           /\ \A v \in Workers : ToWrite(v)' = ToWrite(v)
           /\ \A b : /\ IsLast(b)' <=> IsLast(b)
                     /\ Operation(b)' = Operation(b)
                     /\ Newest(b)' <=> Newest(b)
           /\ \A r : DeltasOf(r)' = DeltasOf(r)
<1>1. Workers' = Workers
  BY DEF handVars, Workers
<1>2. \A v \in Workers : ToWrite(v)' = ToWrite(v) /\ InHands(v)' = InHands(v)
  BY DEF handVars, ToWrite, InHands
<1>3. \A v \in Workers : \A b, c : Follows(v, b, c)' <=> Follows(v, b, c)
  BY DEF handVars, Follows
<1>4. \A b, c : SameRows(b, c)' <=> SameRows(b, c)
  BY DEF handVars, SameRows
<1>5. \A b : (IsLast(b)' <=> IsLast(b)) /\ Operation(b)' = Operation(b)
  BY DEF handVars, IsLast, SameRows, Operation
<1>6. \A b : Newest(b)' <=> Newest(b)
  BY <1>1, <1>2, <1>3, <1>4 DEF Newest, handVars
<1>7. \A r : DeltasOf(r)' = DeltasOf(r)
  BY DEF handVars, DeltasOf
<1>8. DeltaShapes'
  BY <1>1, <1>2 DEF RowInv, DeltaShapes, handVars
<1> QED
  BY <1>1, <1>2, <1>5, <1>6, <1>7, <1>8

LEMMA RowsAlone == ASSUME RowInv, UNCHANGED handVars, UNCHANGED <<table, doc>> PROVE RowInv'
<1>1. table' \in [Rows -> Nat] /\ doc' \subseteq [row : Rows, at : DOMAIN log]
  BY DEF RowInv, DeltaShapes
<1>2. RowsHaveLast'
  BY <1>1, HandsSame DEF RowInv, RowsHaveLast
<1>3. ASSUME NEW b \in DOMAIN log, b \notin excused, IsLast(b)
      PROVE  Kept(b)' /\ Newest(b)' /\ ReadInTime(b)'
  <2>1. Kept(b) /\ Newest(b) /\ ReadInTime(b)
    BY <1>3 DEF RowInv, LastsAreKept
  <2>2. Kept(b)' /\ ReadInTime(b)'
    BY <1>1, <2>1, HandsSame DEF Kept, ReadInTime, handVars
  <2> QED
    BY <1>1, <2>1, <2>2, HandsSame
<1>4. LastsAreKept'
  BY <1>1, <1>3, HandsSame DEF LastsAreKept, handVars
<1> QED
  BY <1>1, <1>2, <1>4, HandsSame DEF RowInv

LEMMA ReadRowRows == ASSUME Shapes, RowInv, ReadRow PROVE RowInv'
<1>1. PICK r \in Rows : doc' = IF OnChain(r) # 0 THEN {[row |-> r, at |-> OnChain(r)]} ELSE {}
  BY DEF ReadRow
<1>2. UNCHANGED handVars /\ table' = table
  BY DEF ReadRow, handVars
<1>3. \/ doc' = {}
      \/ \E b \in DeltasOf(r) : IsLast(b) /\ log[b].present /\ doc' = {[row |-> r, at |-> b]}
  <2> SUFFICES ASSUME OnChain(r) # 0
               PROVE  \E b \in DeltasOf(r) : IsLast(b) /\ log[b].present
                                             /\ doc' = {[row |-> r, at |-> b]}
    BY <1>1
  <2>1. DeltasOf(r) # {}
    BY DEF OnChain, LastDelta
  <2>2. PICK b \in DeltasOf(r) : IsLast(b)
    BY <2>1 DEF RowInv, RowsHaveLast
  <2>3. LastDelta(r) = b
    BY <2>2, LastIs
  <2>4. OnChain(r) = b /\ log[b].present
    BY <2>3 DEF OnChain
  <2> QED
    BY <1>1, <2>2, <2>4
<1>4. doc' \subseteq [row : Rows, at : DOMAIN log] /\ table' \in [Rows -> Nat]
  BY <1>2, <1>3 DEF RowInv, DeltaShapes, DeltasOf
<1>5. RowsHaveLast'
  <2> SUFFICES ASSUME NEW q \in Rows
               PROVE  \/ DeltasOf(q)' = {} /\ table'[q] = 0 /\ \A d \in doc' : d.row # q
                      \/ \E b \in DeltasOf(q)' : IsLast(b)'
    BY DEF RowsHaveLast
  <2>1. CASE \E b \in DeltasOf(q) : IsLast(b)
    BY <1>2, <1>4, <2>1, HandsSame
  <2>2. CASE DeltasOf(q) = {} /\ table[q] = 0
    <3>1. \A d \in doc' : d.row # q
      BY <1>3, <2>2
    <3> QED
      BY <1>2, <1>4, <2>2, <3>1, HandsSame
  <2> QED
    BY <2>1, <2>2 DEF RowInv, RowsHaveLast
<1>6. ASSUME NEW b \in DOMAIN log, b \notin excused, IsLast(b)
      PROVE  Kept(b)' /\ Newest(b)' /\ ReadInTime(b)'
  <2>1. Kept(b) /\ Newest(b)
    BY <1>6 DEF RowInv, LastsAreKept
  <2>2. Kept(b)' /\ Newest(b)'
    BY <1>2, <1>4, <2>1, HandsSame DEF Kept, handVars
  <2>3. ASSUME NEW d \in doc', d.row = log[b].row PROVE d.at = b /\ log[b].present
    <3>1. PICK x \in DeltasOf(r) : IsLast(x) /\ log[x].present /\ d = [row |-> r, at |-> x]
      BY <1>3, <2>3
    <3>2. x = b
      BY <1>6, <2>3, <3>1, OneLast DEF DeltasOf, SameRows
    <3> QED
      BY <3>1, <3>2
  <2>4. ReadInTime(b)'
    BY <1>2, <2>3 DEF ReadInTime, handVars
  <2> QED
    BY <2>2, <2>4
<1>7. LastsAreKept'
  BY <1>2, <1>4, <1>6, HandsSame DEF LastsAreKept, handVars
<1> QED
  BY <1>2, <1>4, <1>5, <1>7, HandsSame DEF RowInv

LEMMA WriteRowRows == ASSUME Shapes, RowInv, WriteRow PROVE RowInv'
<1>1. PICK d \in doc : table' = [table EXCEPT ![d.row] = d.at]
  BY DEF WriteRow
<1>2. UNCHANGED handVars /\ doc' = {}
  BY DEF WriteRow, handVars
<1>3. d.row \in Rows /\ d.at \in Nat
  BY LogFacts DEF RowInv, DeltaShapes
<1>4. /\ table' \in [Rows -> Nat] /\ table'[d.row] = d.at
      /\ \A q \in Rows : q # d.row => table'[q] = table[q]
      /\ doc' \subseteq [row : Rows, at : DOMAIN log]
  BY <1>1, <1>2, <1>3 DEF RowInv, DeltaShapes
<1>5. RowsHaveLast'
  <2> SUFFICES ASSUME NEW q \in Rows
               PROVE  \/ DeltasOf(q)' = {} /\ table'[q] = 0 /\ \A x \in doc' : x.row # q
                      \/ \E b \in DeltasOf(q)' : IsLast(b)'
    BY DEF RowsHaveLast
  <2>1. CASE \E b \in DeltasOf(q) : IsLast(b)
    BY <1>2, <1>4, <2>1, HandsSame
  <2>2. CASE DeltasOf(q) = {} /\ table[q] = 0 /\ \A x \in doc : x.row # q
    <3>1. table'[q] = 0
      BY <1>1, <1>4, <2>2
    <3> QED
      BY <1>2, <1>4, <2>2, <3>1, HandsSame
  <2> QED
    BY <2>1, <2>2 DEF RowInv, RowsHaveLast
<1>6. ASSUME NEW b \in DOMAIN log, b \notin excused, IsLast(b)
      PROVE  Kept(b)' /\ Newest(b)' /\ ReadInTime(b)'
  <2>1. Kept(b) /\ Newest(b) /\ ReadInTime(b) /\ log[b].row \in Rows
    BY <1>6, LogFacts DEF RowInv, LastsAreKept
  <2>2. (\E v \in Workers : b \in ToWrite(v)) \/ table'[log[b].row] = Operation(b)
    <3>1. CASE d.row = log[b].row
      BY <1>1, <1>4, <2>1, <3>1 DEF ReadInTime, Operation
    <3>2. CASE d.row # log[b].row
      BY <1>4, <2>1, <3>2 DEF Kept
    <3> QED
      BY <3>1, <3>2
  <2>3. Kept(b)' /\ Newest(b)'
    BY <1>2, <1>4, <2>1, <2>2, HandsSame DEF Kept, handVars
  <2>4. ReadInTime(b)'
    BY <1>2 DEF ReadInTime
  <2> QED
    BY <2>3, <2>4
<1>7. LastsAreKept'
  BY <1>2, <1>4, <1>6, HandsSame DEF LastsAreKept, handVars
<1> QED
  BY <1>2, <1>4, <1>5, <1>7, HandsSame DEF RowInv

LEMMA FailSyncRows == ASSUME RowInv, FailSync PROVE RowInv'
<1>1. UNCHANGED handVars /\ table' = table /\ doc' = {}
  BY DEF FailSync, handVars
<1>2. table' \in [Rows -> Nat] /\ doc' \subseteq [row : Rows, at : DOMAIN log]
  BY <1>1 DEF RowInv, DeltaShapes
<1>3. RowsHaveLast'
  BY <1>1, <1>2, HandsSame DEF RowInv, RowsHaveLast
<1>4. ASSUME NEW b \in DOMAIN log, b \notin excused, IsLast(b)
      PROVE  Kept(b)' /\ Newest(b)' /\ ReadInTime(b)'
  <2>1. Kept(b) /\ Newest(b)
    BY <1>4 DEF RowInv, LastsAreKept
  <2>2. Kept(b)' /\ Newest(b)'
    BY <1>1, <1>2, <2>1, HandsSame DEF Kept, handVars
  <2>3. ReadInTime(b)'
    BY <1>1 DEF ReadInTime
  <2> QED
    BY <2>2, <2>3
<1>5. LastsAreKept'
  BY <1>1, <1>2, <1>4, HandsSame DEF LastsAreKept, handVars
<1> QED
  BY <1>1, <1>2, <1>3, <1>5, HandsSame DEF RowInv

LEMMA RowInvKept == Shapes /\ RowInv /\ [Next]_vars => RowInv'
<1> SUFFICES ASSUME Shapes, RowInv, [Next]_vars PROVE RowInv'
  OBVIOUS
<1>1. CASE UNCHANGED vars
  BY <1>1, RowsAlone DEF vars, handVars
<1>2. CASE ReceivePaused \/ GiveUpPause \/ RequestPause \/ FinishSync
  <2>1. UNCHANGED handVars /\ UNCHANGED <<table, doc>>
    BY <1>2 DEF ReceivePaused, GiveUpPause, RequestPause, FinishSync, handVars
  <2> QED
    BY <2>1, RowsAlone
<1>3. ASSUME NEW w \in Workers, AssertQueues(w) \/ PauseIndexer(w) \/ ResumeIndexer(w)
      PROVE  RowInv'
  <2>1. UNCHANGED handVars /\ UNCHANGED <<table, doc>>
    BY <1>3 DEF AssertQueues, PauseIndexer, ResumeIndexer, handVars
  <2> QED
    BY <2>1, RowsAlone
<1>4. ASSUME NEW w \in Workers, Crash(w) \/ PauseWithoutChannel(w)
      PROVE  RowInv'
  BY <1>4, StopRows DEF Crash, PauseWithoutChannel
<1>5. ASSUME NEW w \in Workers,
             \/ Deliver(w) \/ StartBulk(w) \/ Write(w) \/ FailWrite(w) \/ FinishBulk(w)
             \/ LoseConnection(w)
      PROVE  RowInv'
  BY <1>5, DeliverRows, StartBulkRows, WriteRows, FailWriteRows, FinishBulkRows, LoseConnectionRows
<1>6. CASE StoreAccount \/ ReadRow \/ WriteRow \/ FailSync
  BY <1>6, StoreAccountRows, ReadRowRows, WriteRowRows, FailSyncRows
<1> QED
  BY <1>1, <1>2, <1>3, <1>4, <1>5, <1>6 DEF Next, Consume, HandleIpc, Copy

LEMMA RowInvMeans == Shapes /\ RowInv => RowsFollowChain
<1> SUFFICES ASSUME Shapes, RowInv, AtRest, NEW r \in Rows, LastDelta(r) \notin excused
             PROVE  table[r] = OnChain(r)
  BY DEF RowsFollowChain
<1>1. \A w \in Workers : ToWrite(w) = {}
  BY SetOfEmpty DEF AtRest, ToWrite
<1>2. CASE DeltasOf(r) = {} /\ table[r] = 0
  BY <1>2 DEF OnChain, LastDelta
<1>3. ASSUME NEW b \in DeltasOf(r), IsLast(b) PROVE table[r] = OnChain(r)
  <2>1. LastDelta(r) = b /\ b \in DOMAIN log /\ log[b].row = r /\ b # 0
    BY <1>3, LastIs, LogFacts DEF DeltasOf
  <2>2. Kept(b)
    BY <1>3, <2>1 DEF RowInv, LastsAreKept
  <2>3. table[r] = Operation(b)
    BY <1>1, <2>1, <2>2 DEF Kept
  <2> QED
    BY <2>1, <2>3 DEF OnChain, Operation
<1> QED
  BY <1>2, <1>3 DEF RowInv, RowsHaveLast

\* When nothing waits to be written, a row is what the last delta of the row made it,
\* for every number of queues, rows, deltas, commands and failures: unless that delta
\* shared a bulk write with another of its row, failed, was lost with a process, overtook
\* an older one in another queue or was overwritten by an older copy.
THEOREM TableFollowsChain == Spec => []RowsFollowChain
<1>1. Init => Shapes /\ CalmInv /\ RowInv
  BY InitCalm, RowInvInit
<1>2. Shapes /\ CalmInv /\ RowInv /\ [Next]_vars => Shapes' /\ CalmInv' /\ RowInv'
  BY CalmStep, RowInvKept
<1> QED
  BY <1>1, <1>2, RowInvMeans, PTL DEF Spec
=============================================================================
