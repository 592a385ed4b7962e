-------------------------- MODULE MasterLifecycle --------------------------
(***************************************************************************)
(* The master process from start to exit (src/indexer/modules/master.ts,   *)
(* indexerMonitor.ts): the start-up checks of runMaster, the workers it    *)
(* launches and relaunches, the monitor's five-second cycles with their    *)
(* idle count, auto-stop and shutdown timers, the graceful stop, and the   *)
(* switch from ABI scan to full indexing.                                  *)
(*                                                                         *)
(* The back-fill readers are the numbers from 1; one live reader and one   *)
(* deserializer stand for the workers of their role.  A range is the       *)
(* number of blocks a reader has still to read of it: which blocks, and    *)
(* the messages between master and readers, are in ReaderRanges, the       *)
(* queues in BlockPipeline.  The head is where findRange found it.  A tick *)
(* of five seconds is one Cycle.                                           *)
(***************************************************************************)
EXTENDS Integers, Sequences, FiniteSets

CONSTANTS
    Settings,     \* the configurations explored
    MaxReaders,   \* the greatest scaling.readers explored
    Batch,        \* scaling.batch_size
    AutoStop,     \* settings.auto_stop, in cycles
    MaxAttempts,  \* attempts of waitUntilReady
    MaxBacklog,   \* bound: blocks in the queues
    MaxFailures   \* bound: crashes of workers

\* scaling.readers, start_on, stop_on, rewrite, abi_scan_mode, auto_mode_switch,
\* live_reader, live_only_mode and preview of the configuration, and what the services
\* answer: the last indexed block and ABI, the first block of the SHIP servers, the head.
Setting ==
    [readers : 1 .. MaxReaders,
     startOn : Nat, stopOn : Nat, rewrite : BOOLEAN, abiScan : BOOLEAN, autoSwitch : BOOLEAN,
     liveReader : BOOLEAN, liveOnly : BOOLEAN, preview : BOOLEAN, autoStop : BOOLEAN,
     lastIndexed : Nat, lastAbi : Nat, shipBegin : Nat, chainHead : Nat]

ASSUME LifeAssumption ==
    /\ Settings \subseteq Setting
    /\ MaxReaders \in Nat \ {0}
    /\ Batch \in Nat \ {0} /\ AutoStop \in Nat \ {0} /\ MaxAttempts \in Nat \ {0}
    /\ MaxBacklog \in Nat /\ MaxFailures \in Nat

VARIABLES
    conf,        \* the configuration, or NoConf before the process starts
    stage,       \* position in Stages; past the last one the indexer runs
    attempt,     \* attempts made by waitUntilReady
    outcome,     \* "running", or why the process ended
    first, head, \* starting_block, head
    \* the workers: state of each one in workerMap and the pending relaunching
    worker,
    leftover,    \* workers that are no longer in the map and still connected
    relaunching,  \* launchWorkers timers that are running
    inRange,     \* blocks left in each back-fill reader's range
    onLater,     \* readers whose range is not the one of their environment
    unassigned,  \* blocks from lastAssignedBlock to the head
    queued,      \* back-fill blocks read, not consumed
    liveQueued,  \* live blocks read, not consumed
    \* the monitor
    consumed,    \* consumedBlocks + liveConsumedBlocks + ... # 0 in this window
    pushed,      \* pushedBlocks # 0 in this window
    total,       \* total_blocks
    rangeCompleted,
    idleCount,   \* idle_count, capped
    timers,      \* cycles left to each shutdown timer that was armed and not cleared
    armed,       \* shutdownTimer
    allowShutdown,
    transition,  \* mode_transition, and the steps of startFullIndexing
    stopAsked,    \* shutdownStarted
    \* history
    idleAge,     \* cycles since the first idle one, capped
    late,        \* a reader was launched after the stop
    abandoned,   \* readers of which a range was left with blocks to read
    failures

startVars == <<conf, stage, attempt, first, head>>
workerVars == <<worker, leftover, relaunching>>
blockVars == <<inRange, onLater, abandoned, unassigned, queued, liveQueued>>
monitorVars == <<consumed, pushed, total, rangeCompleted, idleCount, timers, armed, allowShutdown, idleAge>>
masterLifeVars == <<startVars, outcome, workerVars, blockVars, monitorVars, transition, stopAsked, late, failures>>

Readers == 1 .. MaxReaders
LiveReader == 0
Deserializer == -1
Roles == Readers \cup {LiveReader, Deserializer}
\* Not in the map, without a process, with one, with one that is gone and that no
\* launchWorkers replaces (wref is still set).
WorkerStates == {"absent", "down", "up", "dead"}
NoConf == [readers |-> 1, startOn |-> 0, stopOn |-> 0, rewrite |-> FALSE, abiScan |-> FALSE, autoSwitch |-> FALSE,
           liveReader |-> FALSE, liveOnly |-> FALSE, preview |-> FALSE, autoStop |-> FALSE,
           lastIndexed |-> 0, lastAbi |-> 0, shipBegin |-> 0, chainHead |-> 0]
NoTimer == -1

\* runMaster in order: its own configuration, the services, the index definitions
\* ("range" is findRange), the workers ("workers" is setupWorkers).
Stages ==
    << "config", "controller", "queues", "schedule", "redis",
       "chain", "chain_id", "ship", "elastic", "ingest", "mongo",
       "script", "templates", "range", "workers", "preview", "launch" >>
StageNumber(s) == CHOOSE i \in DOMAIN Stages : Stages[i] = s
\* Services the master waits for; the other checks end the process at once: limits
\* that are not set, queues to purge without a reader, no schedule; another chain,
\* no SHIP server, an ingest node or MongoDB out of reach; a script or a template
\* that Elasticsearch refuses, no answer to findRange.
Retried == {"redis", "chain", "elastic"}
OwnChecks == {"config", "queues", "schedule"}
ServiceChecks == {"chain_id", "ship", "ingest", "mongo"}
IndexChecks == {"script", "templates", "range"}

LifeInit ==
    /\ conf = NoConf /\ stage = 0 /\ attempt = 0 /\ outcome = "running"
    /\ first = 0 /\ head = 0
    /\ worker = [r \in Roles |-> "absent"] /\ leftover = {} /\ relaunching = 0
    /\ inRange = [r \in Readers |-> 0] /\ onLater = {} /\ abandoned = {}
    /\ unassigned = 0 /\ queued = 0 /\ liveQueued = 0
    /\ consumed = FALSE /\ pushed = FALSE /\ total = 0 /\ rangeCompleted = FALSE
    /\ idleCount = 0 /\ timers = {} /\ armed = NoTimer /\ allowShutdown = FALSE
    /\ transition = "none" /\ stopAsked = FALSE /\ idleAge = 0 /\ late = FALSE /\ failures = 0

IsUp == outcome = "running"
Running == IsUp /\ stage > Len(Stages)
Starting(s) == IsUp /\ stage \in DOMAIN Stages /\ Stages[stage] = s

StartMaster ==
    /\ stage = 0
    /\ \E c \in Settings : conf' = c
    /\ stage' = 1
    /\ UNCHANGED <<attempt, first, head, outcome, workerVars, blockVars, monitorVars,
                   transition, stopAsked, late, failures>>

-----------------------------------------------------------------------------
(* start-up *)

LeastOf(a, b) == IF a < b THEN a ELSE b
MostOf(a, b) == IF a > b THEN a ELSE b

\* findRange: the last indexed block, or the first one a SHIP server has.
FoundStart(c) == MostOf(IF c.lastIndexed > 0 THEN c.lastIndexed ELSE 1, c.shipBegin)
FoundHead(c) == IF c.stopOn # 0 THEN c.stopOn ELSE c.chainHead

\* The last block the store holds in [from, to), or 1.
LastInRange(c, from, to) ==
    LET top == LeastOf(c.lastIndexed, to - 1)
    IN  IF top >= from THEN top ELSE 1

\* defineBlockRange, after findRange.
DefinedStart(c, abiScan) ==
    IF c.startOn # 0
    THEN IF c.rewrite THEN c.startOn
         ELSE IF abiScan THEN c.lastAbi
         ELSE MostOf(c.startOn, LastInRange(c, c.startOn, FoundHead(c)))
    ELSE IF abiScan THEN c.lastAbi ELSE FoundStart(c)

\* setupReaders: the blocks from the first one to the head, none in live only mode.
RangeSize(c, abiScan) ==
    LET start == DefinedStart(c, abiScan)
    IN  IF c.liveOnly \/ start >= FoundHead(c) THEN 0 ELSE FoundHead(c) - start

\* The batch that reader r gets of so many blocks.
ReaderShare(c, size, r) ==
    IF r > c.readers \/ (r - 1) * Batch >= size THEN 0 ELSE LeastOf(Batch, size - (r - 1) * Batch)

\* setupWorkers: the workers in the given state, the readers with a range each.
SetupWorkers(c, abiScan, state) ==
    LET size == RangeSize(c, abiScan)
    IN  /\ first' = DefinedStart(c, abiScan) /\ head' = FoundHead(c)
        /\ inRange' = [r \in Readers |-> ReaderShare(c, size, r)]
        /\ onLater' = {} /\ abandoned' = {}
        /\ unassigned' = MostOf(size - c.readers * Batch, 0)
        /\ worker' = [r \in Roles |->
                         IF \/ r \in Readers /\ ReaderShare(c, size, r) = 0
                            \/ r = LiveReader /\ ~c.liveReader
                         THEN "absent" ELSE state]

\* launchWorkers: every entry of workerMap without a process gets one, which has the
\* environment it was defined with: a reader reads its first range.
LaunchWorkers ==
    LET launched == {r \in Roles : worker[r] = "down"}
    IN  /\ worker' = [r \in Roles |-> IF r \in launched THEN "up" ELSE worker[r]]
        /\ inRange' = [r \in Readers |->
                          IF r \in launched
                          THEN ReaderShare(conf, RangeSize(conf, conf.abiScan), r) ELSE inRange[r]]
        /\ onLater' = onLater \ launched
        /\ late' = (late \/ (stopAsked /\ launched \ {Deserializer} # {}))
        /\ UNCHANGED <<abandoned, unassigned, queued, liveQueued>>

NextStage == stage' = stage + 1 /\ attempt' = 0

StagePasses ==
    /\ IsUp /\ stage \in DOMAIN Stages
    /\ Stages[stage] \notin {"range", "workers", "preview", "launch"}
    /\ NextStage
    /\ UNCHANGED <<conf, first, head, outcome, workerVars, blockVars, monitorVars,
                   transition, stopAsked, late, failures>>

FindRange ==
    /\ Starting("range")
    /\ first' = FoundStart(conf) /\ head' = FoundHead(conf)
    /\ NextStage
    /\ UNCHANGED <<conf, outcome, workerVars, blockVars, monitorVars,
                   transition, stopAsked, late, failures>>

Setup ==
    /\ Starting("workers")
    /\ SetupWorkers(conf, conf.abiScan, "down")
    /\ NextStage
    /\ UNCHANGED <<conf, outcome, leftover, relaunching, queued, liveQueued, monitorVars,
                   transition, stopAsked, late, failures>>

\* In preview mode the master waits for the controller's start command.
PassPreview ==
    /\ Starting("preview") /\ ~conf.preview
    /\ NextStage
    /\ UNCHANGED <<conf, first, head, outcome, workerVars, blockVars, monitorVars,
                   transition, stopAsked, late, failures>>

StartCommand ==
    /\ Starting("preview") /\ conf.preview
    /\ NextStage
    /\ UNCHANGED <<conf, first, head, outcome, workerVars, blockVars, monitorVars,
                   transition, stopAsked, late, failures>>

Launch ==
    /\ Starting("launch")
    /\ LaunchWorkers
    /\ NextStage
    /\ UNCHANGED <<conf, first, head, outcome, leftover, relaunching, monitorVars,
                   transition, stopAsked, failures>>

Ends(why) ==
    /\ outcome' = why
    /\ UNCHANGED <<startVars, workerVars, blockVars, monitorVars, transition, stopAsked, late, failures>>

\* A check that fails: tried again five seconds later, or the end.
RetryStage ==
    /\ IsUp /\ stage \in DOMAIN Stages /\ Stages[stage] \in Retried
    /\ attempt < MaxAttempts
    /\ attempt' = attempt + 1
    /\ UNCHANGED <<conf, stage, first, head, outcome, workerVars, blockVars, monitorVars,
                   transition, stopAsked, late, failures>>

StageFails ==
    /\ IsUp /\ stage \in DOMAIN Stages
    /\ \/ Stages[stage] \in OwnChecks \cup ServiceChecks \cup IndexChecks
       \/ Stages[stage] \in Retried /\ attempt = MaxAttempts
    /\ Ends(Stages[stage])

NoStartCommand ==
    /\ Starting("preview") /\ conf.preview
    /\ Ends("preview")

-----------------------------------------------------------------------------
(* the workers *)

Backlog == queued + liveQueued

Unread == {r \in Readers : inRange[r] > 0}

ReadRange ==
    /\ Running /\ Backlog < MaxBacklog
    /\ \E r \in Unread :
        /\ worker[r] = "up"
        /\ inRange' = [inRange EXCEPT ![r] = @ - 1]
    /\ queued' = queued + 1
    /\ pushed' = TRUE
    /\ UNCHANGED <<startVars, outcome, workerVars, onLater, abandoned, unassigned, liveQueued, consumed,
                   total, rangeCompleted, idleCount, timers, armed, allowShutdown, idleAge,
                   transition, stopAsked, late, failures>>

\* completed: the next range, or the end of the back-fill, which kills every reader
\* whether it has read its range or not; nothing while stopAsked.
ReaderCompletes ==
    /\ Running
    /\ \E r \in Readers \ Unread :
        /\ worker[r] = "up"
        /\ \/ /\ unassigned > 0 /\ ~stopAsked
              /\ inRange' = [inRange EXCEPT ![r] = LeastOf(unassigned, Batch)]
              /\ unassigned' = unassigned - LeastOf(unassigned, Batch)
              /\ onLater' = onLater \cup {r}
              /\ UNCHANGED <<worker, leftover, abandoned>>
           \/ /\ unassigned = 0
              /\ worker' = [q \in Roles |-> IF q \in Readers THEN "absent" ELSE worker[q]]
              /\ leftover' = leftover \cup {q \in Readers : worker[q] = "up"}
              /\ abandoned' = abandoned \cup Unread
              /\ UNCHANGED <<inRange, unassigned, onLater>>
    /\ UNCHANGED <<startVars, outcome, relaunching, queued, liveQueued, monitorVars,
                   transition, stopAsked, late, failures>>

ReadLiveBlock ==
    /\ Running /\ worker[LiveReader] = "up" /\ Backlog < MaxBacklog
    /\ liveQueued' = liveQueued + 1
    /\ UNCHANGED <<startVars, outcome, workerVars, inRange, onLater, abandoned, unassigned, queued, monitorVars,
                   transition, stopAsked, late, failures>>

\* consumed_block, and the reports of deserializers and ingestors with it.
Consume ==
    /\ Running /\ worker[Deserializer] = "up"
    /\ \/ /\ queued > 0
          /\ queued' = queued - 1 /\ total' = total + 1
          /\ UNCHANGED liveQueued
       \/ /\ liveQueued > 0
          /\ liveQueued' = liveQueued - 1
          /\ UNCHANGED <<queued, total>>
    /\ consumed' = TRUE
    /\ UNCHANGED <<startVars, outcome, workerVars, inRange, onLater, abandoned, unassigned, pushed,
                   rangeCompleted, idleCount, timers, armed, allowShutdown, idleAge, transition, stopAsked, late, failures>>

\* handleWorkerDisconnect: nothing while the mode switches or after the stop.  What a
\* reader had still to read of a later range is lost with it.
WorkerFails ==
    /\ Running /\ failures < MaxFailures
    /\ LET relaunches == transition = "none" /\ ~stopAsked
       IN  \E r \in Roles :
            /\ worker[r] = "up"
            /\ worker' = [worker EXCEPT ![r] = IF relaunches THEN "down" ELSE "dead"]
            /\ relaunching' = IF relaunches THEN relaunching + 1 ELSE relaunching
            /\ abandoned' = abandoned \cup ({r} \cap onLater \cap Unread)
    /\ failures' = failures + 1
    /\ UNCHANGED <<startVars, outcome, leftover, inRange, onLater, unassigned, queued, liveQueued,
                   monitorVars, transition, stopAsked, late>>

\* Five seconds later.
RelaunchWorker ==
    /\ Running /\ relaunching > 0
    /\ relaunching' = relaunching - 1
    /\ LaunchWorkers
    /\ UNCHANGED <<startVars, outcome, leftover, monitorVars, transition, stopAsked, failures>>

\* A killed worker is gone.
LeftoverEnds ==
    /\ Running /\ leftover # {}
    /\ \E r \in leftover : leftover' = leftover \ {r}
    /\ UNCHANGED <<startVars, outcome, worker, relaunching, blockVars, monitorVars,
                   transition, stopAsked, late, failures>>

-----------------------------------------------------------------------------
(* the monitor *)

ShutdownDelay == 2   \* ten seconds
IdleCap == 3         \* idle_count is only compared with smaller numbers

Connected == {r \in Roles : worker[r] = "up"} \cup leftover
InMap_Connected(r) == worker[r] = "up"
InMap(r) == worker[r] # "absent"
NoReaders == \A r \in Roles \ {Deserializer} : ~InMap(r)

Idle_NotStopping == ~consumed /\ transition = "none" /\ ~stopAsked
Idle == ~consumed /\ transition = "none"

\* The abi scan is complete and switches to full indexing.
Switches == Idle /\ ~rangeCompleted /\ total = head - first /\ conf.abiScan /\ conf.autoSwitch

\* Timers of ten seconds fire just before or just after the second cycle.
Due(early) == timers \ early
Tick_Short(s) == {0 : t \in s}
PassSecond(s) == {t - 1 : t \in s}

\* indexerMonitorCycle.  early are timers that fire just before it.
Cycle ==
    /\ Running /\ 0 \notin timers
    /\ \E early \in SUBSET (timers \cap {1}) :
        LET left == PassSecond(Due(early))
            last == IF armed - 1 \in left THEN armed - 1 ELSE NoTimer
            waits == Idle /\ ~Switches
        IN  /\ allowShutdown' = (allowShutdown \/ early # {})
            /\ \/ /\ waits
                  /\ timers' = left \cup {ShutdownDelay} /\ armed' = ShutdownDelay
               \/ /\ ~waits /\ ~Switches /\ ~Idle
                  /\ timers' = left \ {last} /\ armed' = NoTimer
               \/ /\ Switches
                  /\ timers' = left /\ armed' = last
            /\ LET count == IF ~Idle THEN 0
                            ELSE IF waits /\ ~pushed THEN LeastOf(idleCount + 1, IdleCap) ELSE idleCount
               IN  /\ idleCount' = count
                   /\ outcome' = IF waits /\ ~pushed /\ conf.autoStop /\ count >= AutoStop THEN "auto_stop"
                                 ELSE IF waits /\ ~pushed /\ ~conf.autoStop /\ ~stopAsked /\ NoReaders
                                 THEN "finished"
                                 ELSE IF Connected = {} /\ transition = "none" /\ ~Switches THEN "no_workers"
                                 ELSE "running"
            /\ idleAge' = IF Idle \/ idleAge > 0 THEN LeastOf(idleAge + 1, IdleCap) ELSE 0
    /\ rangeCompleted' = (rangeCompleted \/ (Idle /\ total = head - first))
    /\ transition' = IF Switches THEN "switching" ELSE transition
    /\ consumed' = FALSE /\ pushed' = FALSE
    /\ UNCHANGED <<startVars, workerVars, blockVars, total, stopAsked, late, failures>>

TimerFires ==
    /\ Running /\ 0 \in timers
    /\ timers' = timers \ {0}
    /\ armed' = IF armed = 0 THEN NoTimer ELSE armed
    /\ allowShutdown' = TRUE
    /\ UNCHANGED <<startVars, outcome, workerVars, blockVars, consumed, pushed, total, rangeCompleted,
                   idleCount, idleAge, transition, stopAsked, late, failures>>

-----------------------------------------------------------------------------
(* startFullIndexing *)

\* Kills every worker; their disconnections are awaited, at most ten seconds.
KillWorkers ==
    /\ Running /\ transition = "switching"
    /\ leftover' = leftover \cup {r \in Roles : worker[r] = "up"}
    /\ worker' = [r \in Roles |-> IF worker[r] = "up" THEN "dead" ELSE worker[r]]
    /\ transition' = "killing"
    /\ UNCHANGED <<startVars, outcome, relaunching, blockVars, monitorVars, stopAsked, late, failures>>

\* All gone or ten seconds later: counters are reset, the range is found again,
\* workerMap is replaced, the new workers are launched.  Workers that were relaunched
\* in the meantime are not killed: with the map they are forgotten.
SwitchMode ==
    /\ Running /\ transition = "killing"
    /\ conf' = [conf EXCEPT !.abiScan = FALSE]
    /\ SetupWorkers(conf, FALSE, "up")
    /\ late' = (late \/ (stopAsked /\ (RangeSize(conf, FALSE) > 0 \/ conf.liveReader)))
    /\ total' = 0 /\ rangeCompleted' = FALSE
    /\ transition' = "none"
    /\ leftover' = leftover \cup {r \in Roles : worker[r] = "up"}
    /\ UNCHANGED <<stage, attempt, outcome, relaunching, queued, liveQueued, consumed, pushed,
                   idleCount, timers, armed, allowShutdown, idleAge, stopAsked, failures>>

-----------------------------------------------------------------------------
(* gracefulStop *)

\* The controller's stop command, accepted as soon as its server listens: the
\* live reader closes, the others finish their range.
Stop ==
    /\ IsUp /\ stage > StageNumber("controller") /\ ~stopAsked
    /\ stopAsked' = TRUE
    /\ worker' = IF worker[LiveReader] = "up" THEN [worker EXCEPT ![LiveReader] = "dead"] ELSE worker
    /\ UNCHANGED <<startVars, outcome, leftover, relaunching, blockVars, monitorVars,
                   transition, late, failures>>

\* Every second: the last block is written once shutdown is allowed.
StopCompletes ==
    /\ IsUp /\ stopAsked /\ allowShutdown /\ first # 0
    /\ Ends("stopped")

-----------------------------------------------------------------------------
StartUp == StartMaster \/ StagePasses \/ FindRange \/ Setup \/ PassPreview \/ Launch \/ RetryStage \/ StageFails
Preview == StartCommand \/ NoStartCommand
Back == ReadRange \/ ReaderCompletes
Monitor == Cycle \/ TimerFires

LifeNext ==
    \/ StartUp \/ Preview \/ Back \/ ReadLiveBlock \/ Consume
    \/ WorkerFails \/ RelaunchWorker \/ LeftoverEnds \/ Monitor
    \/ KillWorkers \/ SwitchMode \/ Stop \/ StopCompletes

LifeSpec == LifeInit /\ [][LifeNext]_masterLifeVars

\* Back-fill reads and consumption go on while they can, timers and cycles come,
\* the stop looks every second.
LifeFairSpec ==
    /\ LifeSpec
    /\ WF_masterLifeVars(Back) /\ WF_masterLifeVars(Consume)
    /\ WF_masterLifeVars(Cycle) /\ WF_masterLifeVars(TimerFires)
    /\ WF_masterLifeVars(KillWorkers) /\ WF_masterLifeVars(SwitchMode)
    /\ WF_masterLifeVars(StopCompletes)

-----------------------------------------------------------------------------
\* Types.
LifeTypeOK ==
    /\ stage \in 0 .. (Len(Stages) + 1) /\ attempt \in 0 .. MaxAttempts
    /\ worker \in [Roles -> WorkerStates] /\ leftover \subseteq Roles /\ relaunching \in Nat
    /\ inRange \in [Readers -> Nat] /\ onLater \subseteq Readers /\ abandoned \subseteq Readers
    /\ unassigned \in Nat /\ queued \in Nat /\ liveQueued \in Nat
    /\ timers \subseteq 0 .. ShutdownDelay /\ armed \in timers \cup {NoTimer}

\* "No more active workers" (indexerMonitor.ts:209) ends the process only when every
\* range was handed out and read and no live reader is configured: a reader that is
\* being relaunched, or the switch of modes, does not end it.  Two kinds of readers are
\* excepted, which leave blocks unread behind them: one that crashed on a range after
\* its first (relaunched, it reads the range of its environment again), and one that
\* the last completion of another reader killed in the middle of its range (the run
\* kill of ReaderRanges).
FinishedMeansRead ==
    outcome = "finished" =>
        unassigned = 0 /\ ~conf.liveReader /\ \A r \in Readers \ abandoned : inRange[r] = 0

\* A stop is completed only ten seconds after an idle cycle, whatever timers were
\* armed, cleared or forgotten before (the code keeps one handle of many timers).
StopAfterIdle == outcome = "stopped" => idleAge > ShutdownDelay

\* A stop that comes after the launch ends the process, unless a timer or a mode
\* switch launches readers that were not told to stop, or the range starts at 0.
StopEnds == (stopAsked /\ Running) ~> (outcome # "running" \/ late \/ first = 0)

=============================================================================
