---------------------------- MODULE LiveSchedule ----------------------------
(***************************************************************************)
(* The master's watch over live blocks with settings.bp_monitoring         *)
(* (src/indexer/modules/master.ts): consumed_block notes each block and    *)
(* puts it in liveBlockQueue, whose worker onLiveBlock counts the blocks   *)
(* of each producer, reports those missed at a handoff and the rounds      *)
(* missed between two producers, and follows the producer schedule.        *)
(*                                                                         *)
(* The chain gives each producer PerRound slots (12) in schedule order; a  *)
(* slot may be missed.  Deserializers report the blocks of a live chain in *)
(* order.  The queue's worker runs when the event loop is back at it, on   *)
(* every block that is queued by then.                                     *)
(***************************************************************************)
EXTENDS Integers, Sequences, FiniteSets, SequencesExt

CONSTANTS
    Producers,   \* number of producers of a schedule
    PerRound,    \* slots of a producer in a round
    MaxBlocks,   \* bound: blocks of the chain
    MaxMissed,   \* bound: slots without a block
    MaxSteps     \* bound: turns of the missed-round loop that are followed

Assumption ==
    /\ Producers \in Nat \ {0, 1} /\ PerRound \in Nat \ {0}
    /\ MaxBlocks \in Nat /\ MaxMissed \in Nat /\ MaxSteps \in Nat

VARIABLES
    slot,          \* the chain's next slot
    chain,         \* producer of each block
    missedSlots,   \* history: slots without a block, as <<producer, block before>>
    version,       \* schedule version of the chain, and of the next blocks
    received,      \* blocks consumed_block has seen
    liveQueue,     \* liveBlockQueue
    lastProduced,  \* lastProducedBlockNum
    lastProducer, produced, handoffs,
    active, proposed,  \* versions of activeSchedule and proposedSchedule
    cursor,        \* cIdx of the missed-round loop, or NoLoop
    target,        \* newIdx of that loop
    missedRounds,
    reports        \* logs: <<producer, last block, size>>, in order

schedVars == <<slot, chain, missedSlots, version, received, liveQueue, lastProduced, lastProducer,
               produced, handoffs, active, proposed, cursor, target, missedRounds, reports>>

Names == 1 .. Producers
Nobody == 0
NoLoop == -1

\* Version 2 turns the order of version 1 round.
ProducerOf(v, i) == IF v = 1 THEN i ELSE Producers + 1 - i
PositionOf(v, p) == IF v = 1 THEN p ELSE Producers + 1 - p

Init ==
    /\ slot = 0 /\ chain = <<>> /\ missedSlots = <<>> /\ version = 1
    /\ received = 0 /\ liveQueue = <<>> /\ lastProduced = 0
    /\ lastProducer = Nobody /\ produced = [p \in Names |-> 0] /\ handoffs = 0
    /\ active = 1 /\ proposed = 0
    /\ cursor = NoLoop /\ target = 0 /\ missedRounds = [p \in Names |-> 0] /\ reports = <<>>

monitorState == <<received, liveQueue, lastProduced, lastProducer, produced, handoffs, active,
                  proposed, cursor, target, missedRounds, reports>>

SlotOwner == ProducerOf(version, ((slot \div PerRound) % Producers) + 1)

ProduceBlock ==
    /\ Len(chain) < MaxBlocks
    /\ chain' = Append(chain, [producer |-> SlotOwner, version |-> version])
    /\ slot' = slot + 1
    /\ UNCHANGED <<missedSlots, version, monitorState>>

MissSlot ==
    /\ Len(chain) < MaxBlocks /\ Len(missedSlots) < MaxMissed
    /\ missedSlots' = Append(missedSlots, <<SlotOwner, Len(chain)>>)
    /\ slot' = slot + 1
    /\ UNCHANGED <<chain, version, monitorState>>

\* A new schedule comes into force at the start of a round; new_schedule told
\* the master of it when it was proposed.
ScheduleInForce ==
    /\ version = 1 /\ slot % (PerRound * Producers) = 0 /\ slot > 0 /\ proposed = 2
    /\ version' = 2
    /\ UNCHANGED <<slot, chain, missedSlots, monitorState>>

\* onScheduleUpdate.
ScheduleUpdate ==
    /\ version = 1 /\ proposed = 0 /\ active = 1 /\ cursor = NoLoop
    /\ proposed' = 2
    /\ UNCHANGED <<slot, chain, missedSlots, version, received, liveQueue, lastProduced, lastProducer,
                   produced, handoffs, active, cursor, target, missedRounds, reports>>

\* consumed_block of a live block.
ConsumedBlock ==
    /\ cursor = NoLoop /\ received < Len(chain)
    /\ received' = received + 1
    /\ lastProduced' = received + 1
    /\ liveQueue' = Append(liveQueue, received + 1)
    /\ UNCHANGED <<slot, chain, missedSlots, version, lastProducer, produced, handoffs, active,
                   proposed, cursor, target, missedRounds, reports>>

Report(rs, p, after, size) == Append(rs, <<p, after, size>>)

\* onLiveBlock up to the missed-round loop, on the state s.
Counted(s, n) == n = s.lastProduced + 1 \/ s.lastProduced = 0
Adjacent(s, p) ==
    LET old == PositionOf(s.active, s.lastProducer)
        new == PositionOf(s.active, p)
    IN  new = old + 1 \/ (new = 1 /\ old = Producers)

\* What follows the loop: the producer that handed off and missed some slots.
CloseHandoff(s, p) ==
    LET made == s.produced[s.lastProducer]
    IN  [s EXCEPT !.reports = IF made > 0 /\ made < PerRound
                              THEN Report(@, s.lastProducer, s.lastProduced, PerRound - made) ELSE @,
                  !.produced[s.lastProducer] = 0,
                  !.lastProducer = p]

\* The schedule switch, the count of the block, and whether a handoff is examined.
Count(s, n) ==
    LET block == chain[n]
        p == block.producer
        switched == IF s.proposed # 0 /\ block.version >= s.proposed
                    THEN [s EXCEPT !.active = s.proposed, !.proposed = 0,
                                   !.produced = [q \in Names |-> 0]]
                    ELSE s
    IN  IF ~Counted(switched, n) THEN switched
        ELSE [switched EXCEPT !.produced[p] = @ + 1,
                              !.handoffs = IF s.lastProducer # p /\ @ < 3 THEN @ + 1 ELSE @]

Examines(s, n) ==
    /\ Counted(s, n) /\ s.lastProducer # chain[n].producer
    /\ s.lastProducer # Nobody /\ s.handoffs > 2

\* One block, if its handoff misses no round.
Handle(s, n) ==
    LET c == Count(s, n)
        p == chain[n].producer
        closed == IF Examines(c, n) THEN CloseHandoff(c, p)
                  ELSE IF Counted(c, n) THEN [c EXCEPT !.lastProducer = p] ELSE c
    IN  [closed EXCEPT !.lastProduced = n]

MonitorRecord ==
    [lastProduced |-> lastProduced, lastProducer |-> lastProducer, produced |-> produced,
     handoffs |-> handoffs, active |-> active, proposed |-> proposed, reports |-> reports]

Becomes(s) ==
    /\ lastProduced' = s.lastProduced /\ lastProducer' = s.lastProducer /\ produced' = s.produced
    /\ handoffs' = s.handoffs /\ active' = s.active /\ proposed' = s.proposed /\ reports' = s.reports

MissesRound(s, n) == LET c == Count(s, n) IN Examines(c, n) /\ ~Adjacent(c, chain[n].producer)

\* The queued blocks up to the first that misses a round.
QueueRun ==
    FoldLeft(LAMBDA a, n : IF a.stuck # 0 THEN a
                           ELSE IF MissesRound(a.s, n) THEN [a EXCEPT !.stuck = n]
                           ELSE [s |-> Handle(a.s, n), stuck |-> 0],
             [s |-> MonitorRecord, stuck |-> 0], liveQueue)

ProcessQueue ==
    /\ cursor = NoLoop /\ liveQueue # <<>>
    /\ LET run == QueueRun
           n == run.stuck
       IN  \/ /\ n = 0
              /\ Becomes(run.s) /\ liveQueue' = <<>>
              /\ UNCHANGED <<cursor, target>>
           \/ /\ n # 0
              /\ Becomes(Count(run.s, n))
              /\ cursor' = PositionOf(Count(run.s, n).active, run.s.lastProducer) + 1
              /\ target' = PositionOf(Count(run.s, n).active, chain[n].producer)
              /\ liveQueue' = SelectSeq(liveQueue, LAMBDA m : m >= n)
    /\ UNCHANGED <<slot, chain, missedSlots, version, received, missedRounds>>

\* cIdx++, and back to 0 when it arrives.
NextCursor(c) == IF c + 1 = target THEN 0 ELSE c + 1

\* A turn of the loop: the producer at the cursor missed a round.  The event
\* loop does not run anything else meanwhile.
LoopTurn ==
    /\ cursor # NoLoop /\ cursor # target /\ Len(reports) < MaxSteps
    /\ IF cursor \in Names
       THEN LET p == ProducerOf(active, cursor)
            IN  /\ reports' = Report(reports, p, lastProduced, PerRound)
                /\ missedRounds' = [missedRounds EXCEPT ![p] = @ + 1]
       ELSE UNCHANGED <<reports, missedRounds>>
    /\ cursor' = NextCursor(cursor)
    /\ cursor' < Producers + 2
    /\ UNCHANGED <<slot, chain, missedSlots, version, received, liveQueue, lastProduced, lastProducer,
                   produced, handoffs, active, proposed, target>>

LoopEnds ==
    /\ cursor # NoLoop /\ cursor = target
    /\ LET n == Head(liveQueue)
       IN  Becomes([CloseHandoff(MonitorRecord, chain[n].producer) EXCEPT !.lastProduced = n])
    /\ liveQueue' = Tail(liveQueue)
    /\ cursor' = NoLoop /\ target' = 0
    /\ UNCHANGED <<slot, chain, missedSlots, version, received, missedRounds>>

Next ==
    \/ ProduceBlock \/ MissSlot \/ ScheduleInForce \/ ScheduleUpdate
    \/ ConsumedBlock \/ ProcessQueue \/ LoopTurn \/ LoopEnds

Spec == Init /\ [][Next]_schedVars

-----------------------------------------------------------------------------
\* Types.
TypeOK ==
    /\ received \in 0 .. MaxBlocks /\ lastProduced \in 0 .. MaxBlocks
    /\ produced \in [Names -> Nat] /\ missedRounds \in [Names -> Nat]
    /\ active \in {1, 2} /\ proposed \in {0, 2}

\* A producer misses a round once: "missed a round" (master.ts:1278) is counted
\* once between two handoffs.  It is not: the loop goes back to the start of the
\* schedule when it arrives at the new producer, and never ends.
RoundMissedOnce ==
    cursor # NoLoop => \A i, j \in DOMAIN reports :
        i # j /\ reports[i][3] = PerRound => reports[i] # reports[j]
=============================================================================
