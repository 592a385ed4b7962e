-------------------------- MODULE Operations_proofs --------------------------
(***************************************************************************)
(* The components beside the pipeline: start and stop of the indexer,      *)
(* reloads of a contract's configuration, the cache of ABIs, streams of    *)
(* past data, the routing of contracts and the tables deltas fill; what    *)
(* each promises for every value of its constants.                         *)
(***************************************************************************)
EXTENDS Operations, Documents_proofs

-----------------------------------------------------------------------------
(* Numbers *)

\* Every set of numbers up to n that is not empty has a greatest one.
LEMMA GreatestNumber ==
  ASSUME NEW n \in Nat, NEW T \in SUBSET (0 .. n), T # {}
  PROVE  \E m \in T : \A k \in T : k <= m
  <1> DEFINE U == {n - k : k \in T}
  <1>1. U \in SUBSET Nat /\ U # {}
    <2>1. \A k \in T : n - k \in Nat OBVIOUS
    <2>. QED BY <2>1
  <1>2. PICK u \in U : \A v \in U : u <= v BY <1>1, LeastNumber
  <1>3. PICK m \in T : u = n - m OBVIOUS
  <1>4. ASSUME NEW k \in T PROVE k <= m
    <2>1. u <= n - k BY <1>2
    <2>2. m \in 0 .. n /\ k \in 0 .. n OBVIOUS
    <2>. QED BY <1>3, <2>1, <2>2
  <1>. QED BY <1>4

-----------------------------------------------------------------------------
USE LifeAssumption

(* The stages of runMaster *)

LEMMA StagesAre ==
  /\ Len(Stages) = 17 /\ DOMAIN Stages = 1 .. 17
  /\ \A i \in 1 .. 17 : Stages[i] = "workers" <=> i = 15
  BY DEF Stages

-----------------------------------------------------------------------------
(* A stop waits out its delay *)

\* The cycles since the first idle one cover what a timer that is still running has
\* run already, and the whole delay once a timer has fired.
CountsDown ==
    /\ timers \subseteq 0 .. ShutdownDelay /\ idleAge \in 0 .. IdleCap
    /\ \A t \in timers : idleAge >= IdleCap - t
    /\ allowShutdown => idleAge = IdleCap
    /\ outcome = "stopped" => idleAge = IdleCap

LEMMA CountsDownInit == LifeInit => CountsDown
  BY DEF LifeInit, CountsDown, IdleCap, ShutdownDelay

\* A cycle takes one tick off every timer and counts itself.
LEMMA CycleCountsDown == CountsDown /\ Cycle => CountsDown'
  <1> SUFFICES ASSUME CountsDown, Cycle PROVE CountsDown' OBVIOUS
  <1> USE DEF CountsDown, IdleCap, ShutdownDelay
  <1>1. PICK early \in SUBSET (timers \cap {1}) :
           /\ allowShutdown' = (allowShutdown \/ early # {})
           /\ timers' \subseteq PassSecond(timers \ early) \cup {2}
           /\ 2 \in timers' => 2 \in PassSecond(timers \ early) \/ Idle
           /\ outcome' \in {"auto_stop", "finished", "no_workers", "running"}
           /\ idleAge' = IF Idle \/ idleAge > 0 THEN LeastOf(idleAge + 1, 3) ELSE 0
    BY DEF Cycle, Due
  <1>2. 0 \notin timers BY DEF Cycle
  <1>3. idleAge' \in 0 .. 3 /\ idleAge' >= idleAge
        /\ (idleAge > 0 /\ idleAge < 3 => idleAge' = idleAge + 1)
        /\ (Idle => idleAge' >= 1)
    BY <1>1 DEF LeastOf
  <1>4. ASSUME NEW t \in PassSecond(timers \ early)
        PROVE  t \in 0 .. 1 /\ idleAge' >= 3 - t
    <2>1. PICK u \in timers : t = u - 1 BY DEF PassSecond
    <2>2. u \in 1 .. 2 /\ idleAge >= 3 - u BY <1>2, <2>1
    <2>. QED BY <1>3, <2>1, <2>2
  <1>5. ASSUME NEW t \in timers' PROVE t \in 0 .. 2 /\ idleAge' >= 3 - t
    <2>1. CASE t \in PassSecond(timers \ early) BY <1>4, <2>1
    <2>2. CASE t = 2 /\ t \notin PassSecond(timers \ early)
      <3>1. Idle BY <1>1, <2>2
      <3>. QED BY <1>3, <2>2, <3>1
    <2>. QED BY <1>1, <2>1, <2>2
  <1>6. allowShutdown' => idleAge' = 3
    <2>1. CASE allowShutdown BY <1>3, <2>1
    <2>2. CASE early # {}
      <3>1. 1 \in timers BY <2>2
      <3>. QED BY <1>3, <3>1
    <2>. QED BY <1>1, <2>1, <2>2
  <1>. QED BY <1>1, <1>3, <1>5, <1>6

LEMMA CountsDownNext == CountsDown /\ [LifeNext]_masterLifeVars => CountsDown'
  <1> SUFFICES ASSUME CountsDown, [LifeNext]_masterLifeVars PROVE CountsDown' OBVIOUS
  <1> USE DEF CountsDown, IdleCap, ShutdownDelay, monitorVars
  <1>1. CASE StartUp
    <2>1. UNCHANGED <<timers, allowShutdown, idleAge>>
      BY <1>1 DEF StartUp, StartMaster, StagePasses, FindRange, Setup, PassPreview, Launch,
                  RetryStage, StageFails, Ends
    <2>2. outcome' = outcome \/ outcome' # "stopped"
      BY <1>1 DEF StartUp, StartMaster, StagePasses, FindRange, Setup, PassPreview, Launch,
                  RetryStage, StageFails, Ends, OwnChecks, ServiceChecks, IndexChecks, Retried
    <2>. QED BY <2>1, <2>2
  <1>2. CASE Preview
    <2>1. UNCHANGED <<timers, allowShutdown, idleAge>>
      BY <1>2 DEF Preview, StartCommand, NoStartCommand, Ends
    <2>2. outcome' = outcome \/ outcome' # "stopped"
      BY <1>2 DEF Preview, StartCommand, NoStartCommand, Ends
    <2>. QED BY <2>1, <2>2
  <1>3. CASE Back \/ ReadLiveBlock \/ Consume
    <2>1. UNCHANGED <<timers, allowShutdown, idleAge, outcome>>
      BY <1>3 DEF Back, ReadRange, ReaderCompletes, ReadLiveBlock, Consume
    <2>. QED BY <2>1
  <1>4. CASE WorkerFails \/ RelaunchWorker \/ LeftoverEnds
    <2>1. UNCHANGED <<timers, allowShutdown, idleAge, outcome>>
      BY <1>4 DEF WorkerFails, RelaunchWorker, LeftoverEnds
    <2>. QED BY <2>1
  <1>5. CASE Cycle BY <1>5, CycleCountsDown
  <1>6. CASE TimerFires
    <2>1. idleAge = 3 /\ idleAge' = idleAge /\ timers' \subseteq timers /\ outcome' = outcome
      BY <1>6 DEF TimerFires
    <2>. QED BY <2>1
  <1>7. CASE KillWorkers \/ SwitchMode
    <2>1. ASSUME KillWorkers PROVE UNCHANGED <<timers, allowShutdown, idleAge, outcome>>
      BY <2>1 DEF KillWorkers
    <2>2. ASSUME SwitchMode PROVE UNCHANGED <<timers, allowShutdown, idleAge, outcome>>
      BY <2>2, Zenon DEF SwitchMode
    <2>3. UNCHANGED <<timers, allowShutdown, idleAge, outcome>> BY <1>7, <2>1, <2>2, Zenon
    <2>. QED BY <2>3
  <1>8. CASE Stop BY <1>8 DEF Stop
  <1>9. CASE StopCompletes
    BY <1>9 DEF StopCompletes, Ends
  <1>10. CASE UNCHANGED masterLifeVars BY <1>10 DEF masterLifeVars
  <1>. QED
    BY <1>1, <1>2, <1>3, <1>4, <1>5, <1>6, <1>7, <1>8, <1>9, <1>10 DEF LifeNext, Monitor

\* The indexer is stopped only when ten seconds have passed since an idle cycle, whatever
\* timers were armed, cleared or forgotten in the meantime.
THEOREM StopWaits == LifeSpec => []StopAfterIdle
  <1>1. CountsDown => StopAfterIdle BY DEF CountsDown, StopAfterIdle, IdleCap, ShutdownDelay
  <1>. QED BY <1>1, CountsDownInit, CountsDownNext, PTL DEF LifeSpec

-----------------------------------------------------------------------------
(* Finished means read *)

\* The position of setupWorkers in Stages.
SetUp == stage > 15

\* From setupWorkers on, blocks that are not handed out, unread ranges and the live reader
\* have a worker in the map, but for the ranges that were left; and the indexer is finished
\* only with no reader in the map.
MapCoversWork ==
    /\ conf \in Setting /\ stage \in Nat
    /\ worker \in [Roles -> WorkerStates]
    /\ inRange \in [Readers -> Nat] /\ unassigned \in Nat
    /\ SetUp => \A r \in Readers : InMap(r) \/ inRange[r] = 0 \/ r \in abandoned
    /\ SetUp => unassigned = 0 \/ \E r \in Readers : InMap(r)
    /\ SetUp => InMap(LiveReader) \/ ~conf.liveReader
    /\ outcome = "finished" => SetUp /\ NoReaders

LEMMA MapCoversWorkInit == LifeInit => MapCoversWork
  <1> SUFFICES ASSUME LifeInit PROVE MapCoversWork OBVIOUS
  <1>1. conf \in Setting BY LifeAssumption DEF LifeInit, NoConf, Setting
  <1>2. worker \in [Roles -> WorkerStates] /\ inRange \in [Readers -> Nat] /\ unassigned \in Nat
    BY DEF LifeInit, WorkerStates
  <1>3. stage = 0 /\ outcome = "running" BY DEF LifeInit
  <1>. QED BY <1>1, <1>2, <1>3 DEF MapCoversWork, SetUp

\* A configuration's range is a number of blocks, and so is every reader's share of it;
\* without a share for the first reader there is nothing to hand out.
LEMMA SharesAre ==
  ASSUME NEW c \in Setting, NEW abiScan \in BOOLEAN, NEW size, size = RangeSize(c, abiScan)
  PROVE  /\ size \in Nat
         /\ \A r \in Readers : ReaderShare(c, size, r) \in Nat
         /\ MostOf(size - c.readers * Batch, 0) \in Nat
         /\ ReaderShare(c, size, 1) = 0 => MostOf(size - c.readers * Batch, 0) = 0
  <1>1. FoundHead(c) \in Nat BY DEF FoundHead, Setting
  <1>2. FoundStart(c) \in Nat BY DEF FoundStart, MostOf, Setting
  <1>3. LastInRange(c, c.startOn, FoundHead(c)) \in Int
    BY <1>1 DEF LastInRange, LeastOf, Setting
  <1>4. DefinedStart(c, abiScan) \in Int
    <2>1. c.startOn \in Nat /\ c.lastAbi \in Nat BY DEF Setting
    <2>. QED BY <1>2, <1>3, <2>1 DEF DefinedStart, MostOf
  <1>5. size \in Nat BY <1>1, <1>4 DEF RangeSize
  <1>6. c.readers \in Nat /\ c.readers >= 1 /\ Batch \in Nat /\ Batch > 0
    BY LifeAssumption DEF Setting
  <1>7. ASSUME NEW r \in Readers PROVE ReaderShare(c, size, r) \in Nat
    <2>1. r \in Int /\ (r - 1) * Batch \in Int BY <1>6, LifeAssumption DEF Readers
    <2> DEFINE from == (r - 1) * Batch
    <2>2. from \in Int /\ ReaderShare(c, size, r) =
             IF r > c.readers \/ from >= size THEN 0 ELSE LeastOf(Batch, size - from)
      BY <2>1 DEF ReaderShare
    <2> HIDE DEF from
    <2>3. from < size => LeastOf(Batch, size - from) \in Nat BY <1>5, <1>6, <2>2 DEF LeastOf
    <2>. QED BY <1>5, <2>2, <2>3
  <1>8. ASSUME ReaderShare(c, size, 1) = 0 PROVE MostOf(size - c.readers * Batch, 0) = 0
    <2>1. (1 - 1) * Batch = 0 BY <1>6
    <2>2. size = 0
      <3>1. SUFFICES ASSUME size > 0 PROVE FALSE BY <1>5
      <3>2. ReaderShare(c, size, 1) = LeastOf(Batch, size - 0)
        BY <1>5, <1>6, <2>1, <3>1 DEF ReaderShare
      <3>. QED BY <1>5, <1>6, <1>8, <3>1, <3>2 DEF LeastOf
    <2>3. c.readers * Batch \in Nat BY <1>6
    <2> DEFINE all == c.readers * Batch
    <2>4. all \in Nat BY <2>3
    <2> HIDE DEF all
    <2>5. MostOf(0 - all, 0) = 0 BY <2>4 DEF MostOf
    <2>. QED BY <2>2, <2>5 DEF all
  <1>9. MostOf(size - c.readers * Batch, 0) \in Nat
    <2> DEFINE all == c.readers * Batch
    <2>1. all \in Nat BY <1>6
    <2> HIDE DEF all
    <2>2. MostOf(size - all, 0) \in Nat BY <1>5, <2>1 DEF MostOf
    <2>. QED BY <2>2 DEF all
  <1>. QED BY <1>5, <1>7, <1>8, <1>9

\* setupWorkers and startFullIndexing leave no range without a reader.
LEMMA RangeHasReader ==
  ASSUME NEW c \in Setting, NEW abiScan \in BOOLEAN, NEW state \in {"up", "down"},
         SetupWorkers(c, abiScan, state)
  PROVE  /\ worker' \in [Roles -> WorkerStates] /\ inRange' \in [Readers -> Nat] /\ unassigned' \in Nat
         /\ \A r \in Readers : worker'[r] # "absent" \/ inRange'[r] = 0
         /\ unassigned' = 0 \/ \E r \in Readers : worker'[r] # "absent"
         /\ worker'[LiveReader] # "absent" \/ ~c.liveReader
  <1>1. PICK size : size = RangeSize(c, abiScan) OBVIOUS
  <1>2. /\ inRange' = [r \in Readers |-> ReaderShare(c, size, r)]
        /\ unassigned' = MostOf(size - c.readers * Batch, 0)
        /\ worker' = [r \in Roles |->
                         IF \/ r \in Readers /\ ReaderShare(c, size, r) = 0
                            \/ r = LiveReader /\ ~c.liveReader
                         THEN "absent" ELSE state]
    BY <1>1, Zenon DEF SetupWorkers
  <1>3. /\ \A r \in Readers : ReaderShare(c, size, r) \in Nat
        /\ unassigned' \in Nat /\ (ReaderShare(c, size, 1) = 0 => unassigned' = 0)
    BY <1>1, <1>2, SharesAre
  <1>4. worker' \in [Roles -> WorkerStates] /\ inRange' \in [Readers -> Nat]
    BY <1>2, <1>3 DEF WorkerStates
  <1>5. ASSUME NEW r \in Readers
        PROVE  r \in Roles /\ r # LiveReader /\ (worker'[r] = "absent" <=> ReaderShare(c, size, r) = 0)
    <2>1. r \in Roles /\ r # LiveReader BY DEF Roles, Readers, LiveReader
    <2>2. worker'[r] = IF ReaderShare(c, size, r) = 0 THEN "absent" ELSE state BY <1>2, <2>1, Zenon
    <2>. QED BY <2>1, <2>2
  <1>6. \A r \in Readers : worker'[r] # "absent" \/ inRange'[r] = 0 BY <1>2, <1>5
  <1>7. unassigned' = 0 \/ worker'[1] # "absent"
    <2>1. 1 \in Readers BY LifeAssumption DEF Readers
    <2>. QED BY <1>3, <1>5, <2>1
  <1>8. worker'[LiveReader] # "absent" \/ ~c.liveReader
    <2>1. LiveReader \in Roles /\ LiveReader \notin Readers BY DEF Roles, LiveReader, Readers
    <2>2. worker'[LiveReader] = IF ~c.liveReader THEN "absent" ELSE state BY <1>2, <2>1, Zenon
    <2>. QED BY <2>2
  <1>9. 1 \in Readers BY LifeAssumption DEF Readers
  <1>. QED BY <1>3, <1>4, <1>6, <1>7, <1>8, <1>9

\* A step that keeps the stage and the configuration, and no role's place in the map but
\* perhaps of readers whose ranges are left, and hands out or reads nothing of a reader
\* that is not there.
LEMMA LaunchKeepsMap ==
  ASSUME MapCoversWork, LaunchWorkers, UNCHANGED <<conf, outcome>>, stage' \in Nat,
         outcome # "finished", SetUp' => SetUp
  PROVE  MapCoversWork'
  <1> DEFINE launched == {r \in Roles : worker[r] = "down"}
             size == RangeSize(conf, conf.abiScan)
  <1>1. /\ worker' = [r \in Roles |-> IF r \in launched THEN "up" ELSE worker[r]]
        /\ inRange' = [r \in Readers |->
                         IF r \in launched THEN ReaderShare(conf, size, r) ELSE inRange[r]]
        /\ UNCHANGED <<abandoned, unassigned>>
    BY Zenon DEF LaunchWorkers
  <1>2. \A r \in Readers : ReaderShare(conf, size, r) \in Nat
    <2>1. conf \in Setting /\ conf.abiScan \in BOOLEAN BY DEF MapCoversWork, Setting
    <2>. QED BY <2>1, SharesAre
  <1>3. worker' \in [Roles -> WorkerStates] /\ \A r \in Roles : worker'[r] = "absent" <=> worker[r] = "absent"
    BY <1>1 DEF MapCoversWork, WorkerStates
  <1>4. inRange' \in [Readers -> Nat] /\ unassigned' \in Nat BY <1>1, <1>2 DEF MapCoversWork
  <1>5. \A r \in Readers : worker[r] = "absent" => inRange'[r] = inRange[r] BY <1>1
  <1>6. \A r \in Readers : r \in Roles BY DEF Roles
  <1>7. LiveReader \in Roles BY DEF Roles
  <1>. HIDE DEF launched, size
  <1>8. SetUp' => \A r \in Readers : InMap(r)' \/ inRange'[r] = 0 \/ r \in abandoned'
    BY <1>1, <1>3, <1>5, <1>6 DEF MapCoversWork, InMap
  <1>9. SetUp' => unassigned' = 0 \/ \E r \in Readers : InMap(r)'
    BY <1>1, <1>3, <1>6 DEF MapCoversWork, InMap
  <1>10. SetUp' => InMap(LiveReader)' \/ ~conf'.liveReader
    BY <1>3, <1>7 DEF MapCoversWork, InMap
  <1>11. conf' \in Setting /\ outcome' # "finished" BY DEF MapCoversWork
  <1>. QED BY <1>3, <1>4, <1>8, <1>9, <1>10, <1>11 DEF MapCoversWork

\* Setting up the workers establishes the invariant.
LEMMA SetupCoversWork ==
  ASSUME NEW abiScan \in BOOLEAN, NEW state \in {"up", "down"}, MapCoversWork,
         SetupWorkers(conf, abiScan, state), conf' \in Setting, conf'.liveReader = conf.liveReader,
         stage' \in Nat, outcome' # "finished"
  PROVE  MapCoversWork'
  <1>1. conf \in Setting BY DEF MapCoversWork
  <1>2. /\ worker' \in [Roles -> WorkerStates] /\ inRange' \in [Readers -> Nat] /\ unassigned' \in Nat
        /\ \A r \in Readers : worker'[r] # "absent" \/ inRange'[r] = 0
        /\ unassigned' = 0 \/ \E r \in Readers : worker'[r] # "absent"
        /\ worker'[LiveReader] # "absent" \/ ~conf.liveReader
    BY <1>1, RangeHasReader
  <1>. QED BY <1>2, Zenon DEF MapCoversWork, InMap

LEMMA ReadersKeepMap == MapCoversWork /\ (ReadRange \/ ReaderCompletes) => MapCoversWork'
  <1> SUFFICES ASSUME MapCoversWork, ReadRange \/ ReaderCompletes PROVE MapCoversWork' OBVIOUS
  <1>1. UNCHANGED <<conf, stage, outcome>> /\ outcome = "running" /\ SetUp
    <2>1. stage > 17 BY StagesAre DEF ReadRange, ReaderCompletes, Running, MapCoversWork
    <2>2. stage > 15 BY <2>1 DEF MapCoversWork
    <2>. QED BY <2>2 DEF SetUp, ReadRange, ReaderCompletes, Running, IsUp, startVars
  <1>2. /\ conf' \in Setting /\ stage' \in Nat /\ outcome' # "finished"
        /\ \A r \in Readers : InMap(r) \/ inRange[r] = 0 \/ r \in abandoned
        /\ unassigned = 0 \/ \E r \in Readers : InMap(r)
        /\ InMap(LiveReader) \/ ~conf.liveReader
        /\ inRange \in [Readers -> Nat] /\ unassigned \in Nat /\ worker \in [Roles -> WorkerStates]
    BY <1>1 DEF MapCoversWork
  <1>3. CASE ReadRange
    <2>1. PICK r \in Unread : worker[r] = "up" /\ inRange' = [inRange EXCEPT ![r] = @ - 1]
      BY <1>3 DEF ReadRange
    <2>2. UNCHANGED <<worker, abandoned, unassigned>> BY <1>3 DEF ReadRange, workerVars
    <2>3. r \in Readers /\ inRange[r] \in Nat /\ inRange[r] > 0 BY <1>2, <2>1 DEF Unread
    <2>4. inRange' \in [Readers -> Nat] /\ \A q \in Readers : q # r => inRange'[q] = inRange[q]
      BY <1>2, <2>1, <2>3
    <2>5. \A q \in Readers : InMap(q)' \/ inRange'[q] = 0 \/ q \in abandoned'
      BY <1>2, <2>1, <2>2, <2>4 DEF InMap
    <2>. QED BY <1>1, <1>2, <2>2, <2>4, <2>5 DEF MapCoversWork, InMap
  <1>4. CASE ReaderCompletes
    <2>1. PICK r \in Readers \ Unread :
        /\ worker[r] = "up"
        /\ \/ /\ unassigned > 0 /\ ~stopAsked
              /\ inRange' = [inRange EXCEPT ![r] = LeastOf(unassigned, Batch)]
              /\ unassigned' = unassigned - LeastOf(unassigned, Batch)
              /\ UNCHANGED <<worker, abandoned>>
           \/ /\ unassigned = 0
              /\ worker' = [q \in Roles |-> IF q \in Readers THEN "absent" ELSE worker[q]]
              /\ abandoned' = abandoned \cup Unread
              /\ UNCHANGED <<inRange, unassigned>>
      BY <1>4 DEF ReaderCompletes
    <2>2. CASE worker' = worker /\ abandoned' = abandoned /\ unassigned > 0
               /\ inRange' = [inRange EXCEPT ![r] = LeastOf(unassigned, Batch)]
      <3>1. \A q \in Readers : q # r => inRange'[q] = inRange[q] BY <1>2, <2>2
      <3>2. InMap(r)' BY <2>1, <2>2 DEF InMap
      <3>3. \A q \in Readers : InMap(q)' \/ inRange'[q] = 0 \/ q \in abandoned'
        BY <1>2, <2>2, <3>1, <3>2 DEF InMap
      <3>4. LeastOf(unassigned, Batch) \in Nat
        BY <1>2, LifeAssumption DEF LeastOf
      <3>5. inRange' \in [Readers -> Nat] BY <1>2, <2>2, <3>4
      <3>6. unassigned' \in Nat
        <4>1. unassigned' = unassigned - LeastOf(unassigned, Batch) \/ unassigned' = unassigned BY <2>1
        <4>2. LeastOf(unassigned, Batch) <= unassigned
          BY <1>2, LifeAssumption DEF LeastOf
        <4>. QED BY <1>2, <3>4, <4>1, <4>2
      <3>. QED BY <1>1, <1>2, <2>1, <2>2, <3>2, <3>3, <3>5, <3>6 DEF MapCoversWork, InMap
    <2>3. CASE /\ unassigned = 0
               /\ worker' = [q \in Roles |-> IF q \in Readers THEN "absent" ELSE worker[q]]
               /\ abandoned' = abandoned \cup Unread
               /\ UNCHANGED <<inRange, unassigned>>
      <3>1. worker' \in [Roles -> WorkerStates] BY <1>2, <2>3 DEF WorkerStates
      <3>2. worker'[LiveReader] = worker[LiveReader]
        BY <2>3 DEF Roles, Readers, LiveReader
      <3>3. \A q \in Readers : inRange'[q] = 0 \/ q \in abandoned'
        BY <1>2, <2>3 DEF Unread
      <3>. QED BY <1>1, <1>2, <2>3, <3>1, <3>2, <3>3 DEF MapCoversWork, InMap
    <2>. QED BY <2>1, <2>2, <2>3
  <1>. QED BY <1>3, <1>4

\* A step that moves no range and takes nobody out of the map.
LEMMA SameMapKeeps ==
  ASSUME MapCoversWork, UNCHANGED <<conf, inRange, unassigned>>, abandoned \subseteq abandoned',
         worker' \in [Roles -> WorkerStates],
         \A r \in Roles : worker'[r] = "absent" <=> worker[r] = "absent",
         stage' \in Nat, SetUp' <=> SetUp, outcome' = "finished" => SetUp /\ NoReaders
  PROVE  MapCoversWork'
  <1>1. \A r \in Roles : InMap(r)' <=> InMap(r) BY DEF InMap
  <1>2. Readers \subseteq Roles /\ LiveReader \in Roles BY DEF Roles
  <1>3. NoReaders' <=> NoReaders BY <1>1, <1>2 DEF NoReaders
  <1>4. /\ conf' \in Setting /\ inRange' \in [Readers -> Nat]
        /\ SetUp' => \A r \in Readers : InMap(r)' \/ inRange'[r] = 0 \/ r \in abandoned'
    BY <1>1, <1>2 DEF MapCoversWork
  <1>5. SetUp' => unassigned' = 0 \/ \E r \in Readers : InMap(r)'
    BY <1>1, <1>2 DEF MapCoversWork
  <1>6. SetUp' => InMap(LiveReader)' \/ ~conf'.liveReader
    BY <1>1, <1>2 DEF MapCoversWork
  <1>. QED BY <1>3, <1>4, <1>5, <1>6 DEF MapCoversWork

LEMMA MapCoversWorkNext == MapCoversWork /\ [LifeNext]_masterLifeVars => MapCoversWork'
  <1> SUFFICES ASSUME MapCoversWork, [LifeNext]_masterLifeVars PROVE MapCoversWork' OBVIOUS
  <1>0. /\ conf \in Setting /\ conf.abiScan \in BOOLEAN /\ stage \in Nat
        /\ worker \in [Roles -> WorkerStates]
        /\ outcome = "finished" => SetUp /\ NoReaders
    BY DEF MapCoversWork, Setting
  <1>1. CASE StartMaster
    <2>1. conf' \in Setting BY <1>1, LifeAssumption DEF StartMaster
    <2>2. stage' = 1 /\ UNCHANGED <<outcome, worker, inRange, unassigned>> /\ stage = 0
      BY <1>1 DEF StartMaster, workerVars, blockVars
    <2>3. ~SetUp /\ ~SetUp' BY <2>2 DEF SetUp
    <2>. QED BY <1>0, <2>1, <2>2, <2>3 DEF MapCoversWork
  <1>2. CASE StagePasses \/ FindRange \/ PassPreview \/ StartCommand
    <2>1. stage' = stage + 1 /\ stage # 15 /\ outcome = "running"
      BY <1>2, StagesAre DEF StagePasses, FindRange, PassPreview, StartCommand, Starting, IsUp,
                             NextStage
    <2>2. UNCHANGED <<conf, outcome, worker, inRange, abandoned, unassigned>>
      BY <1>2 DEF StagePasses, FindRange, PassPreview, StartCommand, workerVars, blockVars
    <2>3. SetUp' <=> SetUp BY <1>0, <2>1 DEF SetUp
    <2>. QED BY <1>0, <2>1, <2>2, <2>3, SameMapKeeps
  <1>3. CASE Setup
    <2>1. SetupWorkers(conf, conf.abiScan, "down") BY <1>3 DEF Setup
    <2>2. UNCHANGED <<conf, outcome>> /\ outcome = "running" /\ stage' \in Nat
      BY <1>0, <1>3 DEF Setup, Starting, IsUp, NextStage
    <2>. QED BY <1>0, <2>1, <2>2, SetupCoversWork
  <1>4. CASE Launch \/ RelaunchWorker
    <2>1. UNCHANGED <<conf, outcome>> /\ outcome = "running" /\ LaunchWorkers
      BY <1>4 DEF Launch, RelaunchWorker, Starting, Running, IsUp, startVars
    <2>2. stage' \in Nat /\ (SetUp' <=> SetUp)
      <3>1. ASSUME Launch PROVE stage' = stage + 1 /\ stage # 15
        BY <3>1, StagesAre DEF Launch, NextStage, Starting
      <3>2. ASSUME RelaunchWorker PROVE stage' = stage
        BY <3>2 DEF RelaunchWorker, startVars
      <3>. QED BY <1>0, <1>4, <3>1, <3>2 DEF SetUp
    <2>. QED BY <2>1, <2>2, LaunchKeepsMap
  <1>5. CASE RetryStage \/ StageFails \/ NoStartCommand \/ StopCompletes
    <2>1. UNCHANGED <<conf, stage, worker, inRange, abandoned, unassigned>>
      BY <1>5 DEF RetryStage, StageFails, NoStartCommand, StopCompletes, Ends, startVars, workerVars,
                  blockVars
    <2>2. outcome' # "finished"
      BY <1>5 DEF RetryStage, StageFails, NoStartCommand, StopCompletes, Ends, IsUp, OwnChecks,
                  ServiceChecks, IndexChecks, Retried
    <2>3. SetUp' <=> SetUp BY <2>1 DEF SetUp
    <2>. QED BY <1>0, <2>1, <2>2, <2>3, SameMapKeeps
  <1>6. CASE Back BY <1>6, ReadersKeepMap DEF Back
  <1>7. CASE ReadLiveBlock \/ Consume \/ LeftoverEnds \/ TimerFires
    <2>1. UNCHANGED <<conf, stage, outcome, worker, inRange, abandoned, unassigned>>
      BY <1>7 DEF ReadLiveBlock, Consume, LeftoverEnds, TimerFires, startVars, workerVars, blockVars
    <2>2. SetUp' <=> SetUp BY <2>1 DEF SetUp
    <2>. QED BY <1>0, <2>1, <2>2, SameMapKeeps
  <1>8. CASE WorkerFails \/ KillWorkers \/ Stop
    <2>1. UNCHANGED <<conf, stage, outcome, inRange, unassigned>> /\ outcome = "running"
          /\ abandoned \subseteq abandoned'
      BY <1>8 DEF WorkerFails, KillWorkers, Stop, Running, IsUp, startVars, blockVars
    <2>2. /\ worker' \in [Roles -> WorkerStates]
          /\ \A r \in Roles : worker'[r] = "absent" <=> worker[r] = "absent"
      <3>1. ASSUME WorkerFails
            PROVE  \E r \in Roles, s \in {"down", "dead"} :
                      worker[r] = "up" /\ worker' = [worker EXCEPT ![r] = s]
        BY <3>1 DEF WorkerFails
      <3>2. ASSUME Stop
            PROVE  worker' = worker
                   \/ (worker[LiveReader] = "up" /\ worker' = [worker EXCEPT ![LiveReader] = "dead"])
        BY <3>2 DEF Stop
      <3>3. ASSUME KillWorkers
            PROVE  worker' = [r \in Roles |-> IF worker[r] = "up" THEN "dead" ELSE worker[r]]
        BY <3>3 DEF KillWorkers
      <3>4. CASE WorkerFails BY <1>0, <3>1, <3>4 DEF WorkerStates
      <3>5. CASE Stop BY <1>0, <3>2, <3>5 DEF WorkerStates
      <3>6. CASE KillWorkers BY <1>0, <3>3, <3>6 DEF WorkerStates
      <3>. QED BY <1>8, <3>4, <3>5, <3>6
    <2>3. SetUp' <=> SetUp BY <2>1 DEF SetUp
    <2>. QED BY <1>0, <2>1, <2>2, <2>3, SameMapKeeps
  <1>9. CASE Cycle
    <2>1. UNCHANGED <<conf, stage, worker, inRange, abandoned, unassigned>> /\ stage > 15
      BY <1>0, <1>9, StagesAre DEF Cycle, Running, startVars, workerVars, blockVars
    <2>2. outcome' = "finished" => NoReaders BY <1>9 DEF Cycle
    <2>3. SetUp /\ SetUp' BY <2>1 DEF SetUp
    <2>. QED BY <1>0, <2>1, <2>2, <2>3, SameMapKeeps
  <1>10. CASE SwitchMode
    <2>1. SetupWorkers(conf, FALSE, "up") BY <1>10, Zenon DEF SwitchMode
    <2>2. conf' = [conf EXCEPT !.abiScan = FALSE] BY <1>10, Zenon DEF SwitchMode
    <2>3. conf' \in Setting /\ conf'.liveReader = conf.liveReader
      BY <1>0, <2>2, Zenon DEF Setting
    <2>4. UNCHANGED <<stage, outcome>> /\ outcome = "running"
      BY <1>10, Zenon DEF SwitchMode, Running, IsUp
    <2>. QED BY <1>0, <2>1, <2>3, <2>4, SetupCoversWork
  <1>11. CASE UNCHANGED masterLifeVars
    <2>1. UNCHANGED <<conf, stage, outcome, worker, inRange, abandoned, unassigned>>
      BY <1>11 DEF masterLifeVars, startVars, workerVars, blockVars
    <2>2. SetUp' <=> SetUp BY <2>1 DEF SetUp
    <2>. QED BY <1>0, <2>1, <2>2, SameMapKeeps
  <1>. QED
    BY <1>1, <1>2, <1>3, <1>4, <1>5, <1>6, <1>7, <1>8, <1>9, <1>10, <1>11
    DEF LifeNext, StartUp, Preview, Back, Monitor

\* "No more active workers" ends the indexer only when every block was handed out and no
\* live reader is configured, and the ranges are read but for those of readers that crashed
\* on a later range or were killed in the middle of theirs by the last completion.
THEOREM FinishedIsRead == LifeSpec => []FinishedMeansRead
  <1>1. MapCoversWork => FinishedMeansRead
    <2> SUFFICES ASSUME MapCoversWork, outcome = "finished" PROVE FinishedMeansRead
      BY DEF FinishedMeansRead
    <2>1. SetUp /\ NoReaders BY DEF MapCoversWork
    <2>2. \A r \in Readers \cup {LiveReader} : ~InMap(r)
      BY <2>1 DEF NoReaders, Roles, LiveReader, Deserializer, Readers
    <2>. QED BY <2>1, <2>2 DEF MapCoversWork, FinishedMeansRead
  <1>. QED BY <1>1, MapCoversWorkInit, MapCoversWorkNext, PTL DEF LifeSpec

HIDE LifeAssumption
USE ReloadAssumption

-----------------------------------------------------------------------------
(* Reload of a contract's configuration *)

CommandKind == {"reload", "report"}
ToolStages == {"idle", "read", "writing", "written", "indexing", "failed", "sent", "succeeded",
           "refused", "ended"}
ToolState == [stage : ToolStages, kind : CommandKind, seen : SUBSET Tools, since : Nat]

ReloadTyped ==
    /\ configFile \in [version : Nat, torn : BOOLEAN, contracts : SUBSET Tools]
    /\ loadedVersion \in [Decoders -> Nat]
    /\ orders \in [Decoders -> Seq(CommandKind)] /\ replies \in [Decoders -> Seq(CommandKind)]
    /\ tool \in [Tools -> ToolState]
    /\ waits \in [Tools -> SUBSET Decoders]
    /\ DOMAIN pendingReloadPromises = Decoders
    /\ crossed \in BOOLEAN

\* The tool's reload was sent to the workers; nothing takes it back.
Reloading(c) == tool[c].kind = "reload" /\ tool[c].stage \in {"sent", "succeeded"}

UpToDate(w, c) == w \in running => loadedVersion[w] >= tool[c].since

SaysReloaded(w) == \E i \in DOMAIN replies[w] : replies[w][i] = "reload"

SinceIsPast == \A c \in Tools : tool[c].since <= configFile.version

\* The next config_reloaded of a worker that is on its way tells of a version that is new
\* enough for the tool that awaits it: no reply to an older order is ahead of it.
RepliesAreNew ==
    \A w \in Decoders, c \in Tools :
        Reloading(c) /\ pendingReloadPromises[w] = c /\ SaysReloaded(w) => UpToDate(w, c)

\* A worker that a tool no longer waits for is up to date, or gone; one that comes back
\* reads the file anew.
HeardIsNew == \A c \in Tools : Reloading(c) => \A w \in Decoders \ waits[c] : UpToDate(w, c)

SucceededIsHeard ==
    \A c \in Tools : Reloading(c) /\ tool[c].stage = "succeeded" => waits[c] = {}

ReloadInv ==
    /\ ReloadTyped /\ running \subseteq Decoders
    /\ SinceIsPast /\ SucceededIsHeard
    /\ ~crossed => RepliesAreNew /\ HeardIsNew

\* Only one tool moves: to a stage, with a version.
OrdersAfter(g, f, c, s, n) ==
    /\ g \in [Tools -> ToolState]
    /\ g[c].stage = s /\ g[c].kind = f[c].kind /\ g[c].since = n
    /\ \A d \in Tools : d # c => g[d] = f[d]

LEMMA StageSet ==
    ASSUME NEW f \in [Tools -> ToolState], NEW c \in Tools, NEW s \in ToolStages,
           NEW g, g = [f EXCEPT ![c].stage = s]
    PROVE  OrdersAfter(g, f, c, s, f[c].since)
<1> DEFINE r == [f[c] EXCEPT !.stage = s]
<1>1. r \in ToolState /\ r.stage = s /\ r.kind = f[c].kind /\ r.since = f[c].since
  <2>1. f[c] \in ToolState
    OBVIOUS
  <2> QED
    BY <2>1, ZenonT(30) DEF ToolState
<1>2. g = [f EXCEPT ![c] = r]
  OBVIOUS
<1> HIDE DEF r
<1>3. g \in [Tools -> ToolState] /\ g[c] = r /\ \A d \in Tools : d # c => g[d] = f[d]
  <2>1. r \in ToolState
    BY <1>1
  <2> QED
    BY <1>2, <2>1, Zenon
<1> QED
  BY <1>1, <1>3, Zenon DEF OrdersAfter

LEMMA StageAndSeenSet ==
    ASSUME NEW f \in [Tools -> ToolState], NEW c \in Tools, NEW s \in ToolStages, NEW seen \in SUBSET Tools,
           NEW g, g = [f EXCEPT ![c].stage = s, ![c].seen = seen]
    PROVE  OrdersAfter(g, f, c, s, f[c].since)
<1> DEFINE r == [f[c] EXCEPT !.stage = s, !.seen = seen]
<1>1. r \in ToolState /\ r.stage = s /\ r.kind = f[c].kind /\ r.since = f[c].since
  <2>1. f[c] \in ToolState
    OBVIOUS
  <2> QED
    BY <2>1, ZenonT(30) DEF ToolState
<1>2. g = [f EXCEPT ![c] = r]
  OBVIOUS
<1> HIDE DEF r
<1>3. g \in [Tools -> ToolState] /\ g[c] = r /\ \A d \in Tools : d # c => g[d] = f[d]
  <2>1. r \in ToolState
    BY <1>1
  <2> QED
    BY <1>2, <2>1, Zenon
<1> QED
  BY <1>1, <1>3, Zenon DEF OrdersAfter

LEMMA StageAndSinceSet ==
    ASSUME NEW f \in [Tools -> ToolState], NEW c \in Tools, NEW s \in ToolStages, NEW n \in Nat,
           NEW g, g = [f EXCEPT ![c].stage = s, ![c].since = n]
    PROVE  OrdersAfter(g, f, c, s, n)
<1> DEFINE r == [f[c] EXCEPT !.stage = s, !.since = n]
<1>1. r \in ToolState /\ r.stage = s /\ r.kind = f[c].kind /\ r.since = n
  <2>1. f[c] \in ToolState
    OBVIOUS
  <2> QED
    BY <2>1, ZenonT(30) DEF ToolState
<1>2. g = [f EXCEPT ![c] = r]
  OBVIOUS
<1> HIDE DEF r
<1>3. g \in [Tools -> ToolState] /\ g[c] = r /\ \A d \in Tools : d # c => g[d] = f[d]
  <2>1. r \in ToolState
    BY <1>1
  <2> QED
    BY <1>2, <2>1, Zenon
<1> QED
  BY <1>1, <1>3, Zenon DEF OrdersAfter

LEMMA OneMore ==
    ASSUME NEW S, NEW s \in Seq(S), NEW x \in S
    PROVE  /\ s \o <<x>> \in Seq(S)
           /\ \A i \in DOMAIN (s \o <<x>>) :
                 (s \o <<x>>)[i] = x \/ (i \in DOMAIN s /\ (s \o <<x>>)[i] = s[i])
<1>1. s \o <<x>> \in Seq(S) /\ DOMAIN s = 1 .. Len(s) /\ DOMAIN (s \o <<x>>) = 1 .. Len(s) + 1
  OBVIOUS
<1>2. (\A i \in 1 .. Len(s) : (s \o <<x>>)[i] = s[i]) /\ (s \o <<x>>)[Len(s) + 1] = x
  OBVIOUS
<1>3. Len(s) \in Nat
  OBVIOUS
<1> QED
  BY <1>1, <1>2, <1>3

LEMMA ReloadInvInit == ConfigReloadInit => ReloadInv
<1> SUFFICES ASSUME ConfigReloadInit PROVE ReloadInv
  OBVIOUS
<1>1. PICK k \in CommandKinds :
        tool = [c \in Tools |-> [stage |-> "idle", kind |-> k[c], seen |-> {}, since |-> 0]]
  BY DEF ConfigReloadInit
<1>2. tool \in [Tools -> ToolState] /\ \A c \in Tools : tool[c].stage = "idle" /\ tool[c].since = 0
  <2>1. ASSUME NEW c \in Tools
        PROVE  /\ [stage |-> "idle", kind |-> k[c], seen |-> {}, since |-> 0] \in ToolState
    BY DEF ToolState, ToolStages, CommandKind
  <2>2. ASSUME NEW c \in Tools PROVE tool[c].stage = "idle" /\ tool[c].since = 0
    BY <1>1
  <2>3. tool \in [Tools -> ToolState]
    BY <1>1, <2>1
  <2> QED
    BY <2>2, <2>3
<1>3. /\ configFile = [version |-> 0, torn |-> FALSE, contracts |-> {}]
      /\ loadedVersion = [w \in Decoders |-> 0] /\ running = Decoders
      /\ orders = [w \in Decoders |-> <<>>] /\ replies = [w \in Decoders |-> <<>>]
      /\ waits = [c \in Tools |-> {}] /\ pendingReloadPromises = [w \in Decoders |-> Nobody]
      /\ crossed = FALSE
  BY DEF ConfigReloadInit
<1>4. ReloadTyped
  <2>1. configFile \in [version : Nat, torn : BOOLEAN, contracts : SUBSET Tools]
    BY <1>3
  <2>2. orders \in [Decoders -> Seq(CommandKind)] /\ replies \in [Decoders -> Seq(CommandKind)]
    BY <1>3
  <2>3. /\ loadedVersion \in [Decoders -> Nat] /\ waits \in [Tools -> SUBSET Decoders]
        /\ DOMAIN pendingReloadPromises = Decoders /\ crossed \in BOOLEAN
    BY <1>3
  <2> QED
    BY <1>2, <2>1, <2>2, <2>3 DEF ReloadTyped
<1>5. configFile.version = 0
  BY <1>3
<1>6. \A c \in Tools : ~Reloading(c)
  BY <1>2 DEF Reloading
<1> QED
  BY <1>2, <1>3, <1>4, <1>5, <1>6
  DEF ReloadInv, SinceIsPast, SucceededIsHeard, RepliesAreNew, HeardIsNew

\* Steps of the tools and the master that touch no worker: a tool that is reloading stays
\* as it was, or is told so.
LEMMA WorkersAlone ==
    ASSUME ReloadInv, ReloadTyped',
           UNCHANGED <<loadedVersion, running, replies, pendingReloadPromises, crossed>>,
           configFile'.version >= configFile.version,
           \A c \in Tools : \/ tool'[c].since = tool[c].since
                            \/ tool'[c].since = configFile.version,
           \A c \in Tools : Reloading(c)' =>
                Reloading(c) /\ tool'[c].since = tool[c].since /\ waits'[c] = waits[c],
           \A c \in Tools : tool'[c].stage = "succeeded" =>
                tool[c].stage = "succeeded" \/ waits[c] = {}
    PROVE  ReloadInv'
<1>1. SinceIsPast'
  <2> SUFFICES ASSUME NEW c \in Tools PROVE tool'[c].since <= configFile'.version
    BY DEF SinceIsPast
  <2>1. /\ configFile.version \in Nat /\ configFile'.version \in Nat
        /\ tool[c].since \in Nat /\ tool[c].since <= configFile.version
    BY DEF ReloadInv, ReloadTyped, SinceIsPast, ToolState
  <2>2. tool'[c].since \in Nat
    BY DEF ReloadTyped, ToolState
  <2> QED
    BY <2>1, <2>2
<1>2. SucceededIsHeard'
  BY DEF ReloadInv, SucceededIsHeard
<1>3. ASSUME ~crossed PROVE RepliesAreNew' /\ HeardIsNew'
  BY <1>3 DEF ReloadInv, RepliesAreNew, HeardIsNew, UpToDate, SaysReloaded
<1> QED
  BY <1>1, <1>2, <1>3 DEF ReloadInv

\* One tool moves from a stage to one that is not waiting for its workers, or is answered.
LEMMA ToolMoves ==
    ASSUME ReloadInv, NEW c \in Tools, ReloadTyped',
           UNCHANGED <<loadedVersion, running, replies, pendingReloadPromises, crossed>>,
           configFile'.version >= configFile.version,
           \A d \in Tools : d # c => tool'[d] = tool[d] /\ waits'[d] = waits[d],
           tool'[c].since \in {tool[c].since, configFile.version},
           \/ ~Reloading(c)'
           \/ /\ Reloading(c) /\ tool'[c].since = tool[c].since /\ waits'[c] = waits[c],
           tool'[c].stage = "succeeded" => waits[c] = {}
    PROVE  ReloadInv'
<1>1. \A d \in Tools : tool'[d].since = tool[d].since \/ tool'[d].since = configFile.version
  OBVIOUS
<1>2. \A d \in Tools : Reloading(d)' =>
          Reloading(d) /\ tool'[d].since = tool[d].since /\ waits'[d] = waits[d]
  BY DEF Reloading
<1>3. \A d \in Tools : tool'[d].stage = "succeeded" => tool[d].stage = "succeeded" \/ waits[d] = {}
  OBVIOUS
<1> QED
  BY <1>1, <1>2, <1>3, WorkersAlone

LEMMA ReadConfigKeeps == ReloadInv /\ (\E c \in Tools : ReadConfig(c)) => ReloadInv'
<1> SUFFICES ASSUME ReloadInv, NEW c \in Tools, ReadConfig(c) PROVE ReloadInv'
  OBVIOUS
<1> DEFINE s == IF configFile.torn THEN "ended" ELSE "read"
<1>1. /\ tool' = [tool EXCEPT ![c].stage = s, ![c].seen = configFile.contracts]
      /\ UNCHANGED <<configFile, loadedVersion, running, orders, replies, waits,
                     pendingReloadPromises, crossed>>
  BY DEF ReadConfig
<1>2. s \in ToolStages /\ s # "sent" /\ s # "succeeded"
  BY DEF ToolStages
<1>3. tool \in [Tools -> ToolState] /\ configFile.contracts \in SUBSET Tools
      /\ configFile.version \in Nat
  BY DEF ReloadInv, ReloadTyped
<1> HIDE DEF s
<1>4. OrdersAfter(tool', tool, c, s, tool[c].since)
  BY <1>1, <1>2, <1>3, StageAndSeenSet, Zenon
<1>5. ReloadTyped'
  BY <1>1, <1>4 DEF ReloadInv, ReloadTyped, OrdersAfter
<1> QED
  BY <1>1, <1>2, <1>3, <1>4, <1>5, ToolMoves DEF Reloading, OrdersAfter

LEMMA BeginWriteKeeps == ReloadInv /\ (\E c \in Tools : BeginWrite(c)) => ReloadInv'
<1> SUFFICES ASSUME ReloadInv, NEW c \in Tools, BeginWrite(c) PROVE ReloadInv'
  OBVIOUS
<1>1. /\ tool' = [tool EXCEPT ![c].stage = "writing"]
      /\ UNCHANGED <<loadedVersion, running, orders, replies, waits,
                     pendingReloadPromises, crossed>>
  BY DEF BeginWrite
<1>2. tool \in [Tools -> ToolState] /\ "writing" \in ToolStages
  BY DEF ReloadInv, ReloadTyped, ToolStages
<1>3. /\ configFile' \in [version : Nat, torn : BOOLEAN, contracts : SUBSET Tools]
      /\ configFile'.version = configFile.version /\ configFile.version \in Nat
  <2>1. configFile \in [version : Nat, torn : BOOLEAN, contracts : SUBSET Tools]
    BY DEF ReloadInv, ReloadTyped
  <2>2. configFile' = [configFile EXCEPT !.torn = TRUE]
    BY DEF BeginWrite
  <2> QED
    BY <2>1, <2>2, Zenon
<1>4. OrdersAfter(tool', tool, c, "writing", tool[c].since)
  BY <1>1, <1>2, StageSet, Zenon
<1>5. ReloadTyped'
  BY <1>1, <1>3, <1>4 DEF ReloadInv, ReloadTyped, OrdersAfter
<1> QED
  BY <1>1, <1>3, <1>4, <1>5, ToolMoves DEF Reloading, OrdersAfter

LEMMA EndWriteKeeps == ReloadInv /\ (\E c \in Tools : EndWrite(c)) => ReloadInv'
<1> SUFFICES ASSUME ReloadInv, NEW c \in Tools, EndWrite(c) PROVE ReloadInv'
  OBVIOUS
<1> DEFINE torn == \E d \in Tools \ {c} : tool[d].stage = "writing"
<1>1. /\ tool' = [tool EXCEPT ![c].stage = "written"]
      /\ configFile' = [version |-> configFile.version + 1, contracts |-> tool[c].seen \cup {c},
                        torn |-> torn]
      /\ UNCHANGED <<loadedVersion, running, orders, replies, waits,
                     pendingReloadPromises, crossed>>
  BY DEF EndWrite
<1>2. tool \in [Tools -> ToolState] /\ "written" \in ToolStages /\ configFile.version \in Nat
  BY DEF ReloadInv, ReloadTyped, ToolStages
<1>3. tool[c].seen \cup {c} \in SUBSET Tools
  <2>1. tool[c] \in ToolState
    BY <1>2
  <2> QED
    BY <2>1 DEF ToolState
<1>4. torn \in BOOLEAN
  OBVIOUS
<1> HIDE DEF torn
<1>5. /\ configFile' \in [version : Nat, torn : BOOLEAN, contracts : SUBSET Tools]
      /\ configFile'.version = configFile.version + 1
  BY <1>1, <1>2, <1>3, <1>4
<1>6. OrdersAfter(tool', tool, c, "written", tool[c].since)
  BY <1>1, <1>2, StageSet, Zenon
<1>7. ReloadTyped'
  BY <1>1, <1>5, <1>6 DEF ReloadInv, ReloadTyped, OrdersAfter
<1>8. configFile'.version >= configFile.version
  BY <1>2, <1>5
<1> QED
  BY <1>1, <1>6, <1>7, <1>8, ToolMoves DEF Reloading, OrdersAfter

LEMMA RequestReloadKeeps == ReloadInv /\ (\E c \in Tools : RequestReload(c)) => ReloadInv'
<1> SUFFICES ASSUME ReloadInv, NEW c \in Tools, RequestReload(c) PROVE ReloadInv'
  OBVIOUS
<1> DEFINE s == IF c \in configFile.contracts THEN "indexing" ELSE "failed"
<1>1. /\ tool' = [tool EXCEPT ![c].stage = s, ![c].since = configFile.version]
      /\ UNCHANGED <<configFile, loadedVersion, running, orders, replies, waits,
                     pendingReloadPromises, crossed>>
  BY DEF RequestReload
<1>2. s \in ToolStages /\ s # "sent" /\ s # "succeeded"
  BY DEF ToolStages
<1>3. tool \in [Tools -> ToolState] /\ configFile.version \in Nat
  BY DEF ReloadInv, ReloadTyped
<1> HIDE DEF s
<1>4. OrdersAfter(tool', tool, c, s, configFile.version)
  BY <1>1, <1>2, <1>3, StageAndSinceSet, Zenon
<1>5. ReloadTyped'
  BY <1>1, <1>4 DEF ReloadInv, ReloadTyped, OrdersAfter
<1> QED
  BY <1>1, <1>2, <1>3, <1>4, <1>5, ToolMoves DEF Reloading, OrdersAfter

LEMMA IndexesFailKeeps == ReloadInv /\ (\E c \in Tools : IndexesFail(c)) => ReloadInv'
<1> SUFFICES ASSUME ReloadInv, NEW c \in Tools, IndexesFail(c) PROVE ReloadInv'
  OBVIOUS
<1>1. /\ tool' = [tool EXCEPT ![c].stage = "failed"]
      /\ UNCHANGED <<configFile, loadedVersion, running, orders, replies, waits,
                     pendingReloadPromises, crossed>>
  BY DEF IndexesFail
<1>2. tool \in [Tools -> ToolState] /\ "failed" \in ToolStages /\ configFile.version \in Nat
  BY DEF ReloadInv, ReloadTyped, ToolStages
<1>3. OrdersAfter(tool', tool, c, "failed", tool[c].since)
  BY <1>1, <1>2, StageSet, Zenon
<1>4. ReloadTyped'
  BY <1>1, <1>3 DEF ReloadInv, ReloadTyped, OrdersAfter
<1> QED
  BY <1>1, <1>2, <1>3, <1>4, ToolMoves DEF Reloading, OrdersAfter

LEMMA RequestReportKeeps == ReloadInv /\ (\E c \in Tools : RequestReport(c)) => ReloadInv'
<1> SUFFICES ASSUME ReloadInv, NEW c \in Tools, RequestReport(c) PROVE ReloadInv'
  OBVIOUS
<1>1. /\ tool[c].kind = "report"
      /\ tool' = [tool EXCEPT ![c].stage = "sent"]
      /\ waits' = [waits EXCEPT ![c] = running]
      /\ orders' = [w \in Decoders |-> IF w \in running THEN Append(orders[w], "report") ELSE orders[w]]
      /\ UNCHANGED <<configFile, loadedVersion, running, replies, pendingReloadPromises, crossed>>
  BY DEF RequestReport
<1>2. /\ tool \in [Tools -> ToolState] /\ "sent" \in ToolStages /\ configFile.version \in Nat
      /\ waits \in [Tools -> SUBSET Decoders] /\ orders \in [Decoders -> Seq(CommandKind)]
      /\ running \subseteq Decoders
  BY DEF ReloadInv, ReloadTyped, ToolStages
<1>3. OrdersAfter(tool', tool, c, "sent", tool[c].since)
  BY <1>1, <1>2, StageSet, Zenon
<1>4. orders' \in [Decoders -> Seq(CommandKind)]
  <2>1. ASSUME NEW w \in Decoders
        PROVE  (IF w \in running THEN Append(orders[w], "report") ELSE orders[w]) \in Seq(CommandKind)
    BY <1>2 DEF CommandKind
  <2> QED
    BY <1>1, <2>1
<1>5. waits' \in [Tools -> SUBSET Decoders] /\ \A d \in Tools : d # c => waits'[d] = waits[d]
  BY <1>1, <1>2
<1>6. ReloadTyped'
  BY <1>1, <1>3, <1>4, <1>5 DEF ReloadInv, ReloadTyped, OrdersAfter
<1> QED
  BY <1>1, <1>2, <1>3, <1>5, <1>6, ToolMoves DEF Reloading, OrdersAfter

LEMMA AnswerToolKeeps == ReloadInv /\ (\E c \in Tools : AnswerTool(c)) => ReloadInv'
<1> SUFFICES ASSUME ReloadInv, NEW c \in Tools, AnswerTool(c) PROVE ReloadInv'
  OBVIOUS
<1>1. UNCHANGED <<configFile, loadedVersion, running, orders, replies, waits,
                  pendingReloadPromises, crossed>>
  BY DEF AnswerTool
<1>2. tool \in [Tools -> ToolState] /\ "succeeded" \in ToolStages /\ "refused" \in ToolStages
      /\ configFile.version \in Nat
  BY DEF ReloadInv, ReloadTyped, ToolStages
<1>3. CASE /\ tool[c].stage = "sent" /\ waits[c] = {}
           /\ tool' = [tool EXCEPT ![c].stage = "succeeded"]
  <2>1. OrdersAfter(tool', tool, c, "succeeded", tool[c].since)
    BY <1>2, <1>3, StageSet, Zenon
  <2>2. ReloadTyped'
    BY <1>1, <2>1 DEF ReloadInv, ReloadTyped, OrdersAfter
  <2>3. Reloading(c)' => Reloading(c)
    BY <1>3, <2>1 DEF Reloading, OrdersAfter
  <2> QED
    BY <1>1, <1>2, <1>3, <2>1, <2>2, <2>3, ToolMoves DEF OrdersAfter
<1>4. CASE tool' = [tool EXCEPT ![c].stage = "refused"]
  <2>1. OrdersAfter(tool', tool, c, "refused", tool[c].since)
    BY <1>2, <1>4, StageSet, Zenon
  <2>2. ReloadTyped'
    BY <1>1, <2>1 DEF ReloadInv, ReloadTyped, OrdersAfter
  <2> QED
    BY <1>1, <1>2, <2>1, <2>2, ToolMoves DEF Reloading, OrdersAfter
<1> QED
  BY <1>3, <1>4 DEF AnswerTool, Answerable

LEMMA ReportTimeoutKeeps ==
    ReloadInv /\ (\E c \in Tools, w \in Decoders : ReportTimeout(c, w)) => ReloadInv'
<1> SUFFICES ASSUME ReloadInv, NEW c \in Tools, NEW w \in Decoders, ReportTimeout(c, w)
             PROVE  ReloadInv'
  OBVIOUS
<1>1. /\ tool[c].stage = "sent" /\ tool[c].kind = "report"
      /\ waits' = [waits EXCEPT ![c] = waits[c] \ {w}]
      /\ UNCHANGED <<configFile, loadedVersion, running, orders, replies, tool,
                     pendingReloadPromises, crossed>>
  BY DEF ReportTimeout, Awaiting
<1>2. waits \in [Tools -> SUBSET Decoders] /\ configFile.version \in Nat
  BY DEF ReloadInv, ReloadTyped
<1>3. waits' \in [Tools -> SUBSET Decoders] /\ \A d \in Tools : d # c => waits'[d] = waits[d]
  BY <1>1, <1>2
<1>4. ReloadTyped'
  BY <1>1, <1>3 DEF ReloadInv, ReloadTyped
<1> QED
  BY <1>1, <1>2, <1>3, <1>4, ToolMoves DEF Reloading

LEMMA IndexesMadeKeeps == ReloadInv /\ (\E c \in Tools : IndexesMade(c)) => ReloadInv'
<1> SUFFICES ASSUME ReloadInv, NEW c \in Tools, IndexesMade(c) PROVE ReloadInv'
  OBVIOUS
<1>1. /\ tool' = [tool EXCEPT ![c].stage = "sent"]
      /\ waits' = [waits EXCEPT ![c] = Decoders]
      /\ crossed' = (crossed \/ \E w \in Decoders : pendingReloadPromises[w] # Nobody \/ replies[w] # <<>>)
      /\ pendingReloadPromises' = [w \in Decoders |-> c]
      /\ orders' = [w \in Decoders |-> IF w \in running THEN Append(orders[w], "reload") ELSE orders[w]]
      /\ UNCHANGED <<configFile, loadedVersion, running, replies>>
  BY DEF IndexesMade
<1>2. /\ tool \in [Tools -> ToolState] /\ "sent" \in ToolStages
      /\ waits \in [Tools -> SUBSET Decoders] /\ orders \in [Decoders -> Seq(CommandKind)]
      /\ crossed \in BOOLEAN
  BY DEF ReloadInv, ReloadTyped, ToolStages
<1>3. OrdersAfter(tool', tool, c, "sent", tool[c].since)
  BY <1>1, <1>2, StageSet, Zenon
<1>4. orders' \in [Decoders -> Seq(CommandKind)]
  <2>1. ASSUME NEW w \in Decoders
        PROVE  (IF w \in running THEN Append(orders[w], "reload") ELSE orders[w]) \in Seq(CommandKind)
    BY <1>2 DEF CommandKind
  <2> QED
    BY <1>1, <2>1
<1>5. /\ waits' \in [Tools -> SUBSET Decoders] /\ waits'[c] = Decoders
      /\ \A d \in Tools : d # c => waits'[d] = waits[d]
  BY <1>1, <1>2
<1>6. crossed' \in BOOLEAN /\ DOMAIN pendingReloadPromises' = Decoders
  BY <1>1, <1>2
<1>7. ReloadTyped'
  BY <1>1, <1>3, <1>4, <1>5, <1>6 DEF ReloadInv, ReloadTyped, OrdersAfter
<1>8. \A d \in Tools : tool'[d].since = tool[d].since
  BY <1>3 DEF OrdersAfter
<1>9. SinceIsPast'
  BY <1>1, <1>8 DEF ReloadInv, SinceIsPast
<1>10. SucceededIsHeard'
  <2> SUFFICES ASSUME NEW d \in Tools, Reloading(d)', tool'[d].stage = "succeeded"
               PROVE  waits'[d] = {}
    BY DEF SucceededIsHeard
  <2>1. d # c
    BY <1>3 DEF OrdersAfter
  <2> QED
    BY <1>3, <1>5, <2>1 DEF ReloadInv, SucceededIsHeard, Reloading, OrdersAfter
<1>11. ASSUME ~crossed' PROVE RepliesAreNew'
  <2>1. \A w \in Decoders : replies[w] = <<>>
    BY <1>1, <1>11
  <2>2. \A w \in Decoders : ~SaysReloaded(w)'
    BY <1>1, <2>1 DEF SaysReloaded
  <2> QED
    BY <2>2 DEF RepliesAreNew
<1>12. ASSUME ~crossed' PROVE HeardIsNew'
  <2> SUFFICES ASSUME NEW d \in Tools, Reloading(d)', NEW w \in Decoders \ waits'[d]
               PROVE  UpToDate(w, d)'
    BY DEF HeardIsNew
  <2>1. d # c
    BY <1>5
  <2>2. Reloading(d) /\ waits'[d] = waits[d]
    BY <1>3, <1>5, <2>1 DEF Reloading, OrdersAfter
  <2>3. UpToDate(w, d)
    BY <1>1, <1>12, <2>2 DEF ReloadInv, HeardIsNew
  <2> QED
    BY <1>1, <1>8, <2>3 DEF UpToDate
<1> QED
  BY <1>1, <1>7, <1>9, <1>10, <1>11, <1>12 DEF ReloadInv

-----------------------------------------------------------------------------
(* Steps of the workers *)

\* A worker that loads gets the version of the file, and one that ends needs none.
LEMMA LoadsKeep ==
    ASSUME ReloadInv, ReloadTyped', running' \subseteq Decoders,
           UNCHANGED <<configFile, tool, waits, pendingReloadPromises, crossed>>,
           \A w \in running' : \/ loadedVersion'[w] = configFile.version
                               \/ w \in running /\ loadedVersion'[w] = loadedVersion[w],
           \A w \in running' : SaysReloaded(w)' =>
                SaysReloaded(w) \/ loadedVersion'[w] = configFile.version
    PROVE  ReloadInv'
<1>1. SinceIsPast' /\ SucceededIsHeard'
  BY DEF ReloadInv, SinceIsPast, SucceededIsHeard, Reloading
<1>2. ASSUME NEW w \in running', NEW c \in Tools, loadedVersion'[w] = configFile.version
      PROVE  loadedVersion'[w] >= tool[c].since
  <2>1. tool[c].since <= configFile.version /\ tool[c].since \in Nat /\ configFile.version \in Nat
    BY DEF ReloadInv, ReloadTyped, SinceIsPast, ToolState
  <2> QED
    BY <1>2, <2>1
<1>3. ASSUME NEW w \in Decoders, NEW c \in Tools, UpToDate(w, c) PROVE UpToDate(w, c)'
  BY <1>2, <1>3 DEF UpToDate
<1>4. ASSUME ~crossed PROVE RepliesAreNew'
  <2> SUFFICES ASSUME NEW w \in Decoders, NEW c \in Tools, Reloading(c)', w \in running',
                      pendingReloadPromises'[w] = c, SaysReloaded(w)'
               PROVE  UpToDate(w, c)'
    BY DEF RepliesAreNew, UpToDate
  <2>1. CASE SaysReloaded(w)
    BY <1>3, <1>4, <2>1 DEF ReloadInv, RepliesAreNew, Reloading
  <2>2. CASE loadedVersion'[w] = configFile.version
    BY <1>2, <2>2 DEF UpToDate
  <2> QED
    BY <2>1, <2>2
<1>5. ASSUME ~crossed PROVE HeardIsNew'
  BY <1>3, <1>5 DEF ReloadInv, HeardIsNew, Reloading
<1> QED
  BY <1>1, <1>4, <1>5 DEF ReloadInv

LEMMA HandleOrderKeeps == ReloadInv /\ (\E w \in Decoders : HandleOrder(w)) => ReloadInv'
<1> SUFFICES ASSUME ReloadInv, NEW w \in Decoders, HandleOrder(w) PROVE ReloadInv'
  OBVIOUS
<1>1. /\ w \in running /\ orders[w] # <<>>
      /\ UNCHANGED <<configFile, tool, waits, pendingReloadPromises, crossed>>
  BY DEF HandleOrder
<1>2. /\ orders \in [Decoders -> Seq(CommandKind)] /\ replies \in [Decoders -> Seq(CommandKind)]
      /\ loadedVersion \in [Decoders -> Nat] /\ configFile.version \in Nat
      /\ running \subseteq Decoders
  BY DEF ReloadInv, ReloadTyped
<1> DEFINE o == Head(orders[w])
<1>3. /\ o \in CommandKind /\ Tail(orders[w]) \in Seq(CommandKind)
      /\ replies[w] \o <<o>> \in Seq(CommandKind)
      /\ \A i \in DOMAIN (replies[w] \o <<o>>) :
            \/ (replies[w] \o <<o>>)[i] = o
            \/ i \in DOMAIN replies[w] /\ (replies[w] \o <<o>>)[i] = replies[w][i]
  <2>1. orders[w] \in Seq(CommandKind) /\ replies[w] \in Seq(CommandKind)
    BY <1>2
  <2>2. o \in CommandKind /\ Tail(orders[w]) \in Seq(CommandKind)
    BY <1>1, <2>1
  <2> HIDE DEF o
  <2> QED
    BY <2>1, <2>2, OneMore
<1>4. CASE o = "reload" /\ configFile.torn
  <2>1. /\ running' = running \ {w} /\ orders' = [orders EXCEPT ![w] = <<>>]
        /\ UNCHANGED <<loadedVersion, replies>>
    BY <1>4 DEF HandleOrder
  <2>2. orders' \in [Decoders -> Seq(CommandKind)]
    BY <1>2, <2>1
  <2>3. ReloadTyped'
    BY <1>1, <2>1, <2>2 DEF ReloadInv, ReloadTyped
  <2> QED
    BY <1>1, <1>2, <2>1, <2>3, LoadsKeep DEF SaysReloaded
<1>5. CASE ~(o = "reload" /\ configFile.torn)
  <2>1. /\ replies' = [replies EXCEPT ![w] = replies[w] \o <<o>>]
        /\ orders' = [orders EXCEPT ![w] = Tail(orders[w])]
        /\ loadedVersion' = [loadedVersion EXCEPT ![w] =
                                IF o = "reload" THEN configFile.version ELSE loadedVersion[w]]
        /\ running' = running
    BY <1>5 DEF HandleOrder, Reply
  <2> HIDE DEF o
  <2>2. /\ orders' \in [Decoders -> Seq(CommandKind)] /\ replies' \in [Decoders -> Seq(CommandKind)]
        /\ loadedVersion' \in [Decoders -> Nat]
        /\ replies'[w] = replies[w] \o <<o>>
        /\ \A v \in Decoders : v # w => replies'[v] = replies[v] /\ loadedVersion'[v] = loadedVersion[v]
        /\ loadedVersion'[w] = IF o = "reload" THEN configFile.version ELSE loadedVersion[w]
    BY <1>2, <1>3, <2>1
  <2>3. ReloadTyped'
    BY <1>1, <2>2 DEF ReloadInv, ReloadTyped
  <2>4. \A v \in running' : \/ loadedVersion'[v] = configFile.version
                            \/ v \in running /\ loadedVersion'[v] = loadedVersion[v]
    BY <1>2, <2>1, <2>2
  <2>5. ASSUME NEW v \in running', SaysReloaded(v)', loadedVersion'[v] # configFile.version
        PROVE  SaysReloaded(v)
    <3>1. CASE v # w
      BY <1>2, <2>1, <2>2, <2>5, <3>1 DEF SaysReloaded
    <3>2. CASE v = w
      <4>1. PICK i \in DOMAIN (replies[w] \o <<o>>) : (replies[w] \o <<o>>)[i] = "reload"
        BY <2>2, <2>5, <3>2 DEF SaysReloaded
      <4>2. o # "reload"
        BY <2>2, <2>5, <3>2
      <4> QED
        BY <1>3, <3>2, <4>1, <4>2 DEF SaysReloaded
    <3> QED
      BY <3>1, <3>2
  <2> QED
    BY <1>1, <1>2, <2>1, <2>3, <2>4, <2>5, LoadsKeep
<1> QED
  BY <1>4, <1>5

LEMMA WorkerExitsKeeps == ReloadInv /\ (\E w \in Decoders : WorkerExits(w)) => ReloadInv'
<1> SUFFICES ASSUME ReloadInv, NEW w \in Decoders, WorkerExits(w) PROVE ReloadInv'
  OBVIOUS
<1>1. /\ running' = running \ {w} /\ orders' = [orders EXCEPT ![w] = <<>>]
      /\ UNCHANGED <<configFile, loadedVersion, replies, tool, waits, pendingReloadPromises, crossed>>
  BY DEF WorkerExits
<1>2. orders' \in [Decoders -> Seq(CommandKind)] /\ running' \subseteq Decoders
  BY <1>1 DEF ReloadInv, ReloadTyped
<1>3. ReloadTyped'
  BY <1>1, <1>2 DEF ReloadInv, ReloadTyped
<1> QED
  BY <1>1, <1>2, <1>3, LoadsKeep DEF SaysReloaded

LEMMA RelaunchDecoderKeeps == ReloadInv /\ (\E w \in Decoders : RelaunchDecoder(w)) => ReloadInv'
<1> SUFFICES ASSUME ReloadInv, NEW w \in Decoders, RelaunchDecoder(w) PROVE ReloadInv'
  OBVIOUS
<1>1. /\ running' = running \cup {w}
      /\ loadedVersion' = [loadedVersion EXCEPT ![w] = configFile.version]
      /\ UNCHANGED <<configFile, orders, replies, tool, waits, pendingReloadPromises, crossed>>
  BY DEF RelaunchDecoder
<1>2. /\ loadedVersion \in [Decoders -> Nat] /\ configFile.version \in Nat
      /\ running \subseteq Decoders
  BY DEF ReloadInv, ReloadTyped
<1>3. /\ loadedVersion' \in [Decoders -> Nat] /\ running' \subseteq Decoders
      /\ loadedVersion'[w] = configFile.version
      /\ \A v \in Decoders : v # w => loadedVersion'[v] = loadedVersion[v]
  BY <1>1, <1>2
<1>4. ReloadTyped'
  BY <1>1, <1>3 DEF ReloadInv, ReloadTyped
<1>5. \A v \in running' : \/ loadedVersion'[v] = configFile.version
                          \/ v \in running /\ loadedVersion'[v] = loadedVersion[v]
  BY <1>1, <1>2, <1>3
<1> QED
  BY <1>1, <1>3, <1>4, <1>5, LoadsKeep DEF SaysReloaded

-----------------------------------------------------------------------------
(* The master hears a worker *)

LEMMA MasterHearsKeeps == ReloadInv /\ (\E w \in Decoders : MasterHears(w)) => ReloadInv'
<1> SUFFICES ASSUME ReloadInv, NEW w \in Decoders, MasterHears(w) PROVE ReloadInv'
  OBVIOUS
<1>1. /\ replies[w] # <<>> /\ replies' = [replies EXCEPT ![w] = Tail(replies[w])]
      /\ UNCHANGED <<configFile, loadedVersion, running, orders, tool, crossed>>
  BY DEF MasterHears
<1>2. /\ replies \in [Decoders -> Seq(CommandKind)] /\ waits \in [Tools -> SUBSET Decoders]
      /\ DOMAIN pendingReloadPromises = Decoders
  BY DEF ReloadInv, ReloadTyped
<1>3. /\ 1 \in DOMAIN replies[w] /\ Head(replies[w]) = replies[w][1]
      /\ Tail(replies[w]) \in Seq(CommandKind)
      /\ \A i \in DOMAIN Tail(replies[w]) :
            i + 1 \in DOMAIN replies[w] /\ Tail(replies[w])[i] = replies[w][i + 1]
  BY <1>1, <1>2
<1>4. /\ replies' \in [Decoders -> Seq(CommandKind)] /\ replies'[w] = Tail(replies[w])
      /\ \A v \in Decoders : v # w => replies'[v] = replies[v]
  BY <1>1, <1>2, <1>3
<1>5. ASSUME NEW v \in Decoders, SaysReloaded(v)' PROVE SaysReloaded(v)
  <2>1. CASE v = w
    <3>1. PICK i \in DOMAIN replies'[w] : replies'[w][i] = "reload"
      BY <1>5, <2>1 DEF SaysReloaded
    <3>2. i + 1 \in DOMAIN replies[w] /\ replies[w][i + 1] = "reload"
      BY <1>3, <1>4, <3>1
    <3> QED
      BY <2>1, <3>2 DEF SaysReloaded
  <2>2. CASE v # w
    BY <1>4, <1>5, <2>2 DEF SaysReloaded
  <2> QED
    BY <2>1, <2>2
<1>6. Head(replies[w]) = "reload" => SaysReloaded(w)
  BY <1>3 DEF SaysReloaded
<1>7. /\ waits' \in [Tools -> SUBSET Decoders]
      /\ \A c \in Tools : waits'[c] \subseteq waits[c]
      /\ \A c \in Tools : waits'[c] = waits[c] \/ waits'[c] = waits[c] \ {w}
      /\ \A c \in Tools : Reloading(c) /\ waits'[c] # waits[c] =>
            pendingReloadPromises[w] = c /\ SaysReloaded(w)
      /\ DOMAIN pendingReloadPromises' = Decoders
      /\ \A v \in Decoders : pendingReloadPromises'[v] \in {pendingReloadPromises[v], Nobody}
  <2>1. CASE Head(replies[w]) = "reload"
    <3>1. /\ waits' = [c \in Tools |-> IF c = pendingReloadPromises[w] THEN waits[c] \ {w} ELSE waits[c]]
          /\ pendingReloadPromises' = [pendingReloadPromises EXCEPT ![w] = Nobody]
      BY <2>1 DEF MasterHears
    <3> QED
      BY <1>2, <1>6, <2>1, <3>1
  <2>2. CASE Head(replies[w]) # "reload"
    <3>1. /\ waits' = [c \in Tools |-> IF c \in Awaiting("report") THEN waits[c] \ {w} ELSE waits[c]]
          /\ pendingReloadPromises' = pendingReloadPromises
      BY <2>2 DEF MasterHears
    <3> QED
      BY <1>2, <3>1 DEF Awaiting, Reloading
  <2> QED
    BY <2>1, <2>2
<1>8. ReloadTyped'
  BY <1>1, <1>4, <1>7 DEF ReloadInv, ReloadTyped
<1>9. SinceIsPast' /\ SucceededIsHeard'
  BY <1>1, <1>7 DEF ReloadInv, SinceIsPast, SucceededIsHeard, Reloading
<1>10. ASSUME ~crossed PROVE RepliesAreNew'
  <2> SUFFICES ASSUME NEW v \in Decoders, NEW c \in Tools, Reloading(c)',
                      pendingReloadPromises'[v] = c, SaysReloaded(v)'
               PROVE  UpToDate(v, c)'
    BY DEF RepliesAreNew
  <2>1. pendingReloadPromises[v] = c /\ SaysReloaded(v) /\ Reloading(c)
    BY <1>1, <1>5, <1>7 DEF Reloading
  <2>2. UpToDate(v, c)
    BY <1>10, <2>1 DEF ReloadInv, RepliesAreNew
  <2> QED
    BY <1>1, <2>2 DEF UpToDate
<1>11. ASSUME ~crossed PROVE HeardIsNew'
  <2> SUFFICES ASSUME NEW c \in Tools, Reloading(c)', NEW v \in Decoders \ waits'[c]
               PROVE  UpToDate(v, c)'
    BY DEF HeardIsNew
  <2>1. Reloading(c)
    BY <1>1 DEF Reloading
  <2>2. UpToDate(v, c)
    <3>1. CASE v \notin waits[c]
      BY <1>11, <2>1, <3>1 DEF ReloadInv, HeardIsNew
    <3>2. CASE v \in waits[c]
      <4>1. v = w /\ pendingReloadPromises[w] = c /\ SaysReloaded(w)
        BY <1>7, <2>1, <3>2
      <4> QED
        BY <1>11, <2>1, <4>1 DEF ReloadInv, RepliesAreNew
    <3> QED
      BY <3>1, <3>2
  <2> QED
    BY <1>1, <2>2 DEF UpToDate
<1> QED
  BY <1>1, <1>8, <1>9, <1>10, <1>11 DEF ReloadInv

LEMMA ReloadInvKept == ReloadInv /\ [ConfigReloadNext]_reloadVars => ReloadInv'
<1> SUFFICES ASSUME ReloadInv, [ConfigReloadNext]_reloadVars PROVE ReloadInv'
  OBVIOUS
<1>1. ASSUME UNCHANGED <<configFile, loadedVersion, running, orders, replies, tool, waits,
                         pendingReloadPromises, crossed>>
      PROVE  ReloadInv'
  BY <1>1 DEF ReloadInv, ReloadTyped, SinceIsPast, SucceededIsHeard, RepliesAreNew, HeardIsNew,
              Reloading, UpToDate, SaysReloaded
<1>2. CASE UNCHANGED reloadVars
  BY <1>1, <1>2 DEF reloadVars
<1>3. CASE \E c \in Tools :
              \/ ReadConfig(c) \/ BeginWrite(c) \/ EndWrite(c) \/ RequestReload(c)
              \/ IndexesMade(c) \/ IndexesFail(c) \/ RequestReport(c) \/ AnswerTool(c)
  BY <1>3, ReadConfigKeeps, BeginWriteKeeps, EndWriteKeeps, RequestReloadKeeps, IndexesMadeKeeps,
     IndexesFailKeeps, RequestReportKeeps, AnswerToolKeeps
<1>4. CASE \E c \in Tools : ClientLeaves(c)
  BY <1>1, <1>4 DEF ClientLeaves
<1>5. CASE \E c \in Tools, w \in Decoders : ReportTimeout(c, w)
  BY <1>5, ReportTimeoutKeeps
<1>6. CASE \E w \in Decoders : HandleOrder(w) \/ WorkerExits(w) \/ RelaunchDecoder(w) \/ MasterHears(w)
  BY <1>6, HandleOrderKeeps, WorkerExitsKeeps, RelaunchDecoderKeeps, MasterHearsKeeps
<1> QED
  BY <1>2, <1>3, <1>4, <1>5, <1>6 DEF ConfigReloadNext

LEMMA ReloadInvMeans == ReloadInv => ReloadMeansApplied
<1> SUFFICES ASSUME ReloadInv, NEW c \in Tools, tool[c].stage = "succeeded",
                    tool[c].kind = "reload", ~crossed, NEW w \in running
             PROVE  loadedVersion[w] >= tool[c].since
  BY DEF ReloadMeansApplied
<1>1. Reloading(c)
  BY DEF Reloading
<1>2. waits[c] = {} /\ w \in Decoders
  BY <1>1 DEF ReloadInv, SucceededIsHeard
<1> QED
  BY <1>1, <1>2 DEF ReloadInv, HeardIsNew, UpToDate

\* A tool told that its reload succeeded can rely on it (reloadContractConfig of master.ts,
\* reload_config of deserializer.ts): for any number of workers, tools, exits and restarts, if
\* no other reload crossed it.
THEOREM ReloadIsApplied == ConfigReloadSpec => []ReloadMeansApplied
  BY ReloadInvInit, ReloadInvKept, ReloadInvMeans, PTL DEF ConfigReloadSpec

HIDE ReloadAssumption
USE AbiAssumption

-----------------------------------------------------------------------------
(* ABIs *)

\* The history is a sequence of ABIs in order of their blocks; what the index has was
\* accepted by the JSON parser; nothing was handled before the contract had an ABI.
AbiShapes ==
    /\ abis \in Seq(AbiRecord) /\ height \in Nat
    /\ \A i, j \in DOMAIN abis : i < j => abis[i].block < abis[j].block
    /\ savedAbis \subseteq DOMAIN abis /\ \A v \in savedAbis : abis[v].json
    /\ contracts \in {0} \cup DOMAIN abis
    /\ abis = <<>> => height = 0 /\ contracts = 0 /\ ~item.stored

AbiInv == AbiShapes /\ StoredAbiDecodes

LEMMA AbiInvInit == AbiInit => AbiInv
<1> SUFFICES ASSUME AbiInit PROVE AbiInv
  OBVIOUS
<1>1. ~item.stored
  BY DEF AbiInit, NoItem
<1>2. DOMAIN abis = {}
  BY DEF AbiInit
<1> QED
  BY <1>1, <1>2 DEF AbiInit, AbiInv, AbiShapes, StoredAbiDecodes

\* The last ABI up to a block, among some: it is one of them.
LEMMA LatestIsLast ==
    ASSUME abis \in Seq(AbiRecord), NEW S \in SUBSET DOMAIN abis, NEW n,
           NEW u \in S, abis[u].block <= n
    PROVE  /\ Latest(S, n) \in S /\ abis[Latest(S, n)].block <= n
           /\ \A v \in S : abis[v].block <= n => v <= Latest(S, n)
<1> DEFINE before == {v \in S : abis[v].block <= n}
<1>1. before # {} /\ before \in SUBSET (0 .. Len(abis)) /\ Len(abis) \in Nat
  <2>1. 1 .. Len(abis) \subseteq 0 .. Len(abis)
    OBVIOUS
  <2> QED
    BY <2>1
<1>2. PICK m \in before : \A v \in before : v <= m
  BY <1>1, GreatestNumber
<1>3. Latest(S, n) = CHOOSE v \in before : \A w \in before : w <= v
  BY <1>1 DEF Latest
<1>4. Latest(S, n) \in before /\ \A v \in before : v <= Latest(S, n)
  BY <1>2, <1>3
<1> QED
  BY <1>4

LEMMA LatestIsOne ==
    ASSUME abis \in Seq(AbiRecord), NEW S \in SUBSET DOMAIN abis, NEW n
    PROVE  Latest(S, n) \in {0} \cup S
<1>1. CASE \E u \in S : abis[u].block <= n
  BY <1>1, LatestIsLast
<1>2. CASE ~\E u \in S : abis[u].block <= n
  <2>1. {v \in S : abis[v].block <= n} = {}
    BY <1>2
  <2> QED
    BY <2>1 DEF Latest
<1> QED
  BY <1>1, <1>2

\* The ABI in force is found in the index if the index has it.
LEMMA SavedIsInForce ==
    ASSUME AbiShapes, NEW n, InForce(n) \in savedAbis
    PROVE  SavedAt(n) = InForce(n) /\ InForce(n) # 0 /\ abis[InForce(n)].json
<1>1. abis \in Seq(AbiRecord) /\ savedAbis \in SUBSET DOMAIN abis /\ 0 \notin DOMAIN abis
  BY DEF AbiShapes
<1>2. InForce(n) \in DOMAIN abis /\ InForce(n) # 0
  BY <1>1
<1>3. PICK u \in DOMAIN abis : abis[u].block <= n
  BY <1>2 DEF InForce, Latest
<1>4. /\ abis[InForce(n)].block <= n
      /\ \A v \in DOMAIN abis : abis[v].block <= n => v <= InForce(n)
  BY <1>1, <1>3, LatestIsLast DEF InForce
<1>5. /\ SavedAt(n) \in savedAbis /\ abis[SavedAt(n)].block <= n /\ InForce(n) <= SavedAt(n)
  BY <1>1, <1>4, LatestIsLast DEF SavedAt
<1>6. SavedAt(n) <= InForce(n) /\ SavedAt(n) \in Nat /\ InForce(n) \in Nat
  BY <1>1, <1>2, <1>4, <1>5
<1> QED
  BY <1>2, <1>5, <1>6 DEF AbiShapes

-----------------------------------------------------------------------------
(* Rows and actions *)

\* The first attempt at a row whose ABI is in the index does not end raw: the JSON of
\* the ABI in force is the last resort.
LEMMA RowIsDecoded ==
    ASSUME AbiShapes, NEW t, NEW n, NEW s, Has(InForce(n), t), InForce(n) \in savedAbis
    PROVE  Row(s, t, n, n).how # "raw"
<1>1. SavedAt(n) = InForce(n) /\ InForce(n) # 0 /\ abis[InForce(n)].json
  BY SavedIsInForce
<1>2. JsonAbi(n) = InForce(n)
  BY <1>1 DEF JsonAbi
<1>3. Decodes(JsonAbi(n), t, n)
  BY <1>2 DEF Decodes
<1> QED
  BY <1>1, <1>2, <1>3 DEF Row

LEMMA ProcessRowKeeps ==
    ASSUME AbiInv, NEW t \in Types, NEW n \in 1 .. height, Has(InForce(n), t), ProcessRow(t, n)
    PROVE  AbiInv'
<1>1. UNCHANGED <<abis, height, savedAbis, contracts>> /\ abis # <<>>
  BY DEF ProcessRow, AbiInv, AbiShapes
<1>2. AbiShapes'
  BY <1>1 DEF AbiInv, AbiShapes
<1>3. item'.stored => item'.how # "raw"
  <2> SUFFICES ASSUME item'.stored PROVE item'.how # "raw"
    OBVIOUS
  <2>1. PICK one : one = Row([cache |-> Cache("rows"), listed |-> {}, how |-> "none"], t, n, n)
    OBVIOUS
  <2>2. PICK two : two = Row([one EXCEPT !.how = "none"], t, n, n - 1)
    OBVIOUS
  <2>3. /\ item'.how = (IF one.how = "raw" THEN [two EXCEPT !.listed = @ \cup one.listed] ELSE one).how
        /\ item'.stored = (InForce(n) \in savedAbis)
    BY <2>1, <2>2 DEF ProcessRow
  <2>4. one.how # "raw"
    BY <2>1, <2>3, RowIsDecoded DEF AbiInv
  <2> QED
    BY <2>3, <2>4
<1> QED
  BY <1>2, <1>3 DEF AbiInv, StoredAbiDecodes

LEMMA ProcessActionKeeps ==
    ASSUME AbiInv, NEW t \in Types, NEW n \in 1 .. height, Has(InForce(n), t), ProcessAction(t, n)
    PROVE  AbiInv'
<1>1. PICK v : v = ContractAt(t, n)
  OBVIOUS
<1>2. UNCHANGED <<abis, height, savedAbis>> /\ abis # <<>>
  BY DEF ProcessAction, AbiInv, AbiShapes
<1>3. PICK native, parsed, keeps :
         /\ parsed = (v # 0 /\ (v = CachedContract(t) \/ abis[v].json))
         /\ keeps => Has(v, t)
         /\ contracts' = IF keeps THEN v ELSE contracts
         /\ item' = [type |-> t,
                     how |-> IF native THEN "native"
                             ELSE IF parsed /\ Decodes(v, t, n) THEN "antelope" ELSE "raw",
                     stored |-> InForce(n) \in savedAbis]
  BY <1>1 DEF ProcessAction
<1>4. v \in {0} \cup DOMAIN abis
  <2>1. SavedAt(n) \in {0} \cup DOMAIN abis /\ Current \in {0} \cup DOMAIN abis
    <3>1. abis \in Seq(AbiRecord) /\ savedAbis \in SUBSET DOMAIN abis
      BY DEF AbiInv, AbiShapes
    <3> QED
      BY <3>1, LatestIsOne DEF SavedAt, Current, InForce
  <2>2. contracts \in {0} \cup DOMAIN abis
    BY DEF AbiInv, AbiShapes
  <2> QED
    BY <1>1, <2>1, <2>2 DEF ContractAt, CachedContract
<1>5. AbiShapes'
  BY <1>2, <1>3, <1>4 DEF AbiInv, AbiShapes
<1>6. ASSUME InForce(n) \in savedAbis, Stable(t) PROVE parsed /\ Decodes(v, t, n)
  <2>1. SavedAt(n) = InForce(n) /\ InForce(n) # 0 /\ abis[InForce(n)].json /\ InForce(n) \in DOMAIN abis
    BY <1>6, SavedIsInForce DEF AbiInv, AbiShapes
  <2>2. CASE CachedContract(t) # 0
    <3>1. v = CachedContract(t) /\ Has(v, t) /\ v # 0
      BY <1>1, <2>2 DEF ContractAt, CachedContract
    <3>2. abis[v].layout[t] = abis[InForce(n)].layout[t]
      BY <1>4, <1>6, <2>1, <3>1 DEF Stable
    <3> QED
      BY <1>3, <3>1, <3>2 DEF Decodes
  <2>3. CASE CachedContract(t) = 0
    <3>1. v = InForce(n)
      BY <1>1, <2>1, <2>3 DEF ContractAt
    <3> QED
      BY <1>3, <2>1, <3>1 DEF Decodes
  <2> QED
    BY <2>2, <2>3
<1>7. item'.type = t /\ (Stable(t)' <=> Stable(t))
  BY <1>2, <1>3 DEF Stable, Has
<1>8. InForce(n) \in savedAbis /\ Stable(t) => item'.how # "raw"
  BY <1>3, <1>6
<1>9. item'.stored = (InForce(n) \in savedAbis)
  BY <1>3
<1>10. StoredAbiDecodes'
  BY <1>7, <1>8, <1>9 DEF StoredAbiDecodes
<1> QED
  BY <1>5, <1>10 DEF AbiInv

LEMMA AbiInvKept == AbiInv /\ [AbiNext]_abiVars => AbiInv'
<1> SUFFICES ASSUME AbiInv, [AbiNext]_abiVars PROVE AbiInv'
  OBVIOUS
<1>1. CASE Deploy
  <2>1. PICK h \in Histories : abis = <<>> /\ abis' = h
    BY <1>1 DEF Deploy
  <2>2. UNCHANGED <<height, savedAbis, contracts, item>>
    BY <1>1 DEF Deploy
  <2>3. h \in Seq(AbiRecord) /\ \A i, j \in DOMAIN h : i < j => h[i].block < h[j].block
    OBVIOUS
  <2>4. savedAbis = {} /\ height = 0 /\ contracts = 0 /\ ~item.stored
    BY <2>1 DEF AbiInv, AbiShapes
  <2> QED
    BY <2>1, <2>2, <2>3, <2>4 DEF AbiInv, AbiShapes, StoredAbiDecodes
<1>2. CASE NewBlock \/ RemoveContract \/ UNCHANGED abiVars
  <2>1. /\ UNCHANGED <<abis, savedAbis, contracts, item>>
        /\ height' = height \/ (abis # <<>> /\ height' = height + 1)
    BY <1>2 DEF NewBlock, RemoveContract, abiVars
  <2>2. \A t : Stable(t)' <=> Stable(t)
    BY <2>1 DEF Stable, Has
  <2> QED
    BY <2>1, <2>2 DEF AbiInv, AbiShapes, StoredAbiDecodes
<1>3. CASE AbiDelta
  <2>1. PICK v \in DOMAIN abis : abis[v].json /\ savedAbis' = savedAbis \cup {v}
    BY <1>3 DEF AbiDelta
  <2>2. UNCHANGED <<abis, height, contracts, item>>
    BY <1>3 DEF AbiDelta
  <2>3. \A t : Stable(t)' <=> Stable(t)
    BY <2>2 DEF Stable, Has
  <2> QED
    BY <2>1, <2>2, <2>3 DEF AbiInv, AbiShapes, StoredAbiDecodes
<1>4. CASE RowArrives
  BY <1>4, ProcessRowKeeps DEF RowArrives
<1>5. CASE ActionArrives
  BY <1>5, ProcessActionKeeps DEF ActionArrives
<1> QED
  BY <1>1, <1>2, <1>3, <1>4, <1>5 DEF AbiNext

\* Data whose ABI is in the index is decoded, whatever order contracts, blocks and ABIs
\* come in and whatever the native library and the caches hold, for every history of ABIs:
\* the ABI in force is found as the last saved one, and its JSON is the last resort.
THEOREM StoredIsDecoded == AbiSpec => []StoredAbiDecodes
<1>1. AbiInv => StoredAbiDecodes
  BY DEF AbiInv
<1> QED
  BY <1>1, AbiInvInit, AbiInvKept, PTL DEF AbiSpec

HIDE AbiAssumption
USE PastAssumption

-----------------------------------------------------------------------------
(* Past data of a stream request *)

PastPhases == {"new", "refused", "attached", "live", "search", "page", "scrolled", "ended", "failed"}
Scroll == [left : SUBSET DOMAIN Docs, total : Nat, counter : Nat]

\* Only the range of the request changes.
Same(r, q) == r.live = q.live /\ r.op = q.op /\ r.filters = q.filters

RequestShapes ==
    /\ wish \in StreamRequests /\ Same(ask, wish)
    /\ ask \in [start : Int, until : Int, live : BOOLEAN, op : {"and", "or"},
                filters : {ask.filters}, known : BOOLEAN]
    /\ pastPhase \in {"new", "refused", "attached"} => ask = wish

PastShapes ==
    /\ pastPhase \in PastPhases
    /\ attached \in BOOLEAN /\ clientUp \in BOOLEAN
    /\ currentBlock \in Nat \ {0} /\ traced \in Nat /\ traced <= currentBlock /\ historyBlock \in Nat
    /\ indexWindow \in Nat /\ tries \in Nat
    /\ indexed \subseteq DOMAIN Docs /\ opening \subseteq DOMAIN Docs
    /\ past \in [1 .. MaxHead -> Nat]
    /\ scroll \in Scroll /\ reached \in [now : Int, first : Int]

\* What the filters let through, those of the query and those on demand.
Wanted(b) == /\ b \in DOMAIN Docs
             /\ Satisfies(QueryFilters, Docs[b]) /\ Satisfies(OnDemand, Docs[b])

SentIsWanted ==
    /\ \A b \in DOMAIN Docs : past[b] > 0 => Wanted(b)
    /\ \A b \in scroll.left : Satisfies(QueryFilters, Docs[b])

\* What the first search found was sent or waits in its scroll.
OpeningIsSent ==
    clientUp /\ pastPhase # "failed" => \A b \in opening :
        Wanted(b) => past[b] > 0 \/ (pastPhase = "page" /\ tries = 1 /\ b \in scroll.left)

\* A scroll is over when it has counted what it found.
PagesCount ==
    /\ pastPhase = "page" => /\ scroll.counter + Cardinality(scroll.left) = scroll.total
                             /\ reached.now \in Nat
    /\ pastPhase = "scrolled" /\ clientUp => scroll.left = {}

\* What came after the block noted on joining went to the client live.
LiveFollows ==
    /\ pastPhase \notin {"new", "refused"} => attached = ask.live
    /\ pastPhase \notin {"new", "refused", "attached"} /\ clientUp /\ wish.live =>
          \A b \in DOMAIN Docs : historyBlock < b /\ b <= traced => b \in seenLive

IndexedInOrder ==
    indexWindow = 1 => \A b \in indexed, c \in DOMAIN Docs : c < b => c \in indexed

\* What precedes the range of the search that runs was sent; of the range, what precedes
\* the block the scroll has reached was sent or is left in the scroll.
FromStart == indexWindow = 1 /\ wish.live /\ wish.until = 0 /\ wish.start > 0
Sent(from, to) == \A b \in DOMAIN Docs : Wanted(b) /\ from <= b /\ b <= to => past[b] > 0
HistorySent ==
    FromStart /\ clientUp =>
        /\ pastPhase \in {"search", "page", "scrolled"} =>
              /\ ask.until = historyBlock /\ historyBlock > 0 /\ ask.start > 0
              /\ tries # 1 => reached.first = ask.start - 1
              /\ Sent(wish.start, ask.start - 1)
        /\ pastPhase = "page" => \A b \in DOMAIN Docs :
              /\ Wanted(b) /\ ask.start <= b
              /\ b <= reached.now \/ \E m \in scroll.left : b <= m
              => b \in scroll.left \/ past[b] > 0
        /\ pastPhase = "scrolled" => Sent(ask.start, reached.now)
        /\ pastPhase = "ended" => Sent(wish.start, reached.now)

PastInv == /\ RequestShapes /\ PastShapes /\ SentIsWanted /\ OpeningIsSent /\ PagesCount
           /\ LiveFollows /\ IndexedInOrder /\ HistorySent

LEMMA PastInvInit == PastInit => PastInv
<1> SUFFICES ASSUME PastInit PROVE PastInv
  OBVIOUS
<1>1. /\ wish \in StreamRequests /\ ask = wish /\ pastPhase = "new" /\ clientUp = TRUE
      /\ attached = FALSE /\ currentBlock = StartHead /\ traced = StartHead
      /\ indexWindow \in IndexWindows /\ indexed = {b \in DOMAIN Docs : b < currentBlock}
      /\ historyBlock = 0 /\ scroll = [left |-> {}, total |-> 0, counter |-> 0] /\ tries = 0
      /\ reached = [now |-> 0, first |-> 0] /\ opening = {}
      /\ past = [b \in 1 .. MaxHead |-> 0]
  BY DEF PastInit
<1>2. RequestShapes
  BY <1>1, RequestAssumption DEF RequestShapes, Same
<1>5. PastShapes
  <2>1. scroll \in Scroll /\ reached \in [now : Int, first : Int]
    BY <1>1 DEF Scroll
  <2>2. past \in [1 .. MaxHead -> Nat] /\ indexed \subseteq DOMAIN Docs
    BY <1>1
  <2>3. indexWindow \in Nat /\ currentBlock \in Nat \ {0} /\ traced \in Nat /\ traced <= currentBlock
    BY <1>1
  <2>4. attached \in BOOLEAN /\ clientUp \in BOOLEAN
    BY <1>1
  <2>5. historyBlock \in Nat /\ tries \in Nat /\ opening \subseteq DOMAIN Docs /\ pastPhase \in PastPhases
    BY <1>1 DEF PastPhases
  <2> QED
    BY <2>1, <2>2, <2>3, <2>4, <2>5 DEF PastShapes
<1>3. SentIsWanted /\ OpeningIsSent /\ PagesCount /\ LiveFollows /\ HistorySent
  BY <1>1 DEF SentIsWanted, OpeningIsSent, PagesCount, LiveFollows, HistorySent
<1>4. IndexedInOrder
  BY <1>1 DEF IndexedInOrder
<1> QED
  BY <1>2, <1>3, <1>4, <1>5 DEF PastInv

LEMMA RequestChanges ==
    ASSUME NEW fs, NEW x \in Int, NEW y \in Int,
           NEW r \in [start : Int, until : Int, live : BOOLEAN, op : {"and", "or"},
                      filters : {fs}, known : BOOLEAN]
    PROVE  LET q == [r EXCEPT !.start = x, !.until = y]
           IN  /\ q \in [start : Int, until : Int, live : BOOLEAN, op : {"and", "or"},
                         filters : {fs}, known : BOOLEAN]
               /\ Same(q, r) /\ q.start = x /\ q.until = y /\ q.filters = fs
  BY DEF Same

LEMMA UntilChanges ==
    ASSUME NEW fs, NEW y \in Int,
           NEW r \in [start : Int, until : Int, live : BOOLEAN, op : {"and", "or"},
                      filters : {fs}, known : BOOLEAN]
    PROVE  LET q == [r EXCEPT !.until = y]
           IN  /\ q \in [start : Int, until : Int, live : BOOLEAN, op : {"and", "or"},
                         filters : {fs}, known : BOOLEAN]
               /\ Same(q, r) /\ q.start = r.start /\ q.until = y /\ q.filters = fs
  BY DEF Same

\* The filters stay what they are.
LEMMA FiltersStay ==
    ASSUME Same(ask', ask)
    PROVE  /\ \A b : Wanted(b)' <=> Wanted(b)
           /\ QueryFilters' = QueryFilters /\ OnDemand' = OnDemand
           /\ \A fs, d : Satisfies(fs, d)' <=> Satisfies(fs, d)
<1>1. QueryFilters' = QueryFilters /\ OnDemand' = OnDemand
  BY DEF Same, QueryFilters, OnDemand
<1>2. \A fs, d : Satisfies(fs, d)' <=> Satisfies(fs, d)
  BY DEF Same, Satisfies
<1> QED
  BY <1>1, <1>2 DEF Wanted

-----------------------------------------------------------------------------
(* The relay, the indexers and the client *)

requestVars == <<ask, wish, pastPhase, attached, historyBlock, scroll, tries, reached, opening, past,
                 indexWindow>>

LEMMA EnvironmentKeeps ==
    ASSUME PastInv, UNCHANGED requestVars, clientUp' \in BOOLEAN, clientUp' => clientUp,
           currentBlock' \in Nat \ {0}, traced' \in Nat, traced' <= currentBlock',
           indexed' \subseteq DOMAIN Docs, IndexedInOrder', LiveFollows'
    PROVE  PastInv'
<1> USE DEF requestVars
<1>1. /\ \A b : Wanted(b)' <=> Wanted(b)
      /\ \A d : Satisfies(QueryFilters, d)' <=> Satisfies(QueryFilters, d)
  <2>1. Same(ask', ask)
    BY DEF Same
  <2> QED
    BY <2>1, FiltersStay
<1>2. RequestShapes' /\ PastShapes'
  BY DEF PastInv, RequestShapes, PastShapes
<1>3. SentIsWanted'
  BY <1>1 DEF PastInv, SentIsWanted
<1>4. OpeningIsSent'
  BY <1>1 DEF PastInv, OpeningIsSent
<1>5. PagesCount'
  BY DEF PastInv, PagesCount
<1>6. HistorySent'
  <2>1. \A from, to : Sent(from, to)' <=> Sent(from, to)
    BY <1>1 DEF Sent
  <2> QED
    BY <1>1, <2>1 DEF PastInv, HistorySent, FromStart
<1> QED
  BY <1>2, <1>3, <1>4, <1>5, <1>6 DEF PastInv

LEMMA AnnounceBlockKeeps == PastInv /\ AnnounceBlock => PastInv'
<1> SUFFICES ASSUME PastInv, AnnounceBlock PROVE PastInv'
  OBVIOUS
<1> USE DEF AnnounceBlock
<1>1. currentBlock' \in Nat \ {0} /\ traced' \in Nat /\ traced' <= currentBlock'
  BY DEF PastInv, PastShapes
<1>2. IndexedInOrder' /\ LiveFollows'
  BY DEF PastInv, IndexedInOrder, LiveFollows
<1>3. indexed' \subseteq DOMAIN Docs /\ clientUp' \in BOOLEAN
  BY DEF PastInv, PastShapes
<1> QED
  BY <1>1, <1>2, <1>3, EnvironmentKeeps DEF requestVars

LEMMA SendTracesKeeps == PastInv /\ SendTraces => PastInv'
<1> SUFFICES ASSUME PastInv, SendTraces PROVE PastInv'
  OBVIOUS
<1> USE DEF SendTraces
<1>1. currentBlock' \in Nat \ {0} /\ traced' \in Nat /\ traced' <= currentBlock'
  BY DEF PastInv, PastShapes
<1>2. IndexedInOrder'
  BY DEF PastInv, IndexedInOrder
<1>3. LiveFollows'
  <2>1. pastPhase' = pastPhase /\ attached' = attached /\ ask' = ask /\ wish' = wish
        /\ clientUp' = clientUp /\ historyBlock' = historyBlock /\ traced' = traced + 1
    OBVIOUS
  <2>2. pastPhase \notin {"new", "refused"} => attached = ask.live
    BY DEF PastInv, LiveFollows
  <2>3. ASSUME pastPhase \notin {"new", "refused", "attached"}, clientUp, wish.live,
               NEW b \in DOMAIN Docs, historyBlock < b, b <= traced + 1
        PROVE  b \in seenLive'
    <3>1. attached
      BY <2>2, <2>3 DEF PastInv, RequestShapes, Same
    <3>2. b \in Nat /\ traced \in Nat
      BY DEF PastInv, PastShapes
    <3>3. CASE b <= traced
      BY <2>3, <3>3 DEF PastInv, LiveFollows
    <3>4. CASE b = traced + 1
      BY <2>3, <3>1, <3>4
    <3> QED
      BY <2>3, <3>2, <3>3, <3>4
  <2> QED
    BY <2>1, <2>2, <2>3 DEF LiveFollows
<1>4. indexed' \subseteq DOMAIN Docs /\ clientUp' \in BOOLEAN
  BY DEF PastInv, PastShapes
<1> QED
  BY <1>1, <1>2, <1>3, <1>4, EnvironmentKeeps DEF requestVars

\* Blocks indexed in order: what is indexed has nothing before it that is not.
LEMMA IndexBlockKeeps == PastInv /\ IndexBlock => PastInv'
<1> SUFFICES ASSUME PastInv, IndexBlock PROVE PastInv'
  OBVIOUS
<1>1. PICK b \in Missing :
        /\ Cardinality({c \in Missing : c < b}) < indexWindow
        /\ indexed' = indexed \cup {b}
        /\ UNCHANGED <<ask, wish, pastPhase, attached, clientUp, currentBlock, traced, indexWindow,
                       historyBlock, scroll, tries, reached, opening, past, seenLive>>
  BY DEF IndexBlock
<1>2. b \in DOMAIN Docs /\ b <= currentBlock
  BY DEF Missing
<1>3. IndexedInOrder'
  <2> SUFFICES ASSUME indexWindow = 1, NEW d \in indexed \cup {b}, NEW c \in DOMAIN Docs, c < d
               PROVE  c \in indexed \cup {b}
    BY <1>1 DEF IndexedInOrder
  <2>1. CASE d \in indexed
    BY <2>1 DEF PastInv, IndexedInOrder
  <2>2. CASE d = b
    <3> DEFINE before == {e \in Missing : e < b}
    <3>1. before \in SUBSET (1 .. MaxHead) /\ IsFiniteSet(1 .. MaxHead)
      <4>1. before \in SUBSET (1 .. MaxHead)
        BY DEF Missing
      <4>2. 1 \in Int /\ MaxHead \in Int
        OBVIOUS
      <4> QED
        BY <4>1, <4>2, FS_Interval
    <3>2. IsFiniteSet(before)
      BY <3>1, FS_Subset, Zenon
    <3>3. Cardinality(before) \in Nat /\ Cardinality(before) < 1
      BY <1>1, <3>2, FS_CardinalityType
    <3>4. before = {}
      <4> HIDE DEF before
      <4> QED
        BY <3>2, <3>3, FS_EmptySet
    <3>5. c <= currentBlock
      <4>1. c \in Nat /\ b \in Nat /\ currentBlock \in Nat
        BY <1>2 DEF PastInv, PastShapes
      <4> QED
        BY <4>1, <1>2, <2>2
    <3> QED
      BY <3>4, <3>5, <2>2 DEF Missing
  <2> QED
    BY <2>1, <2>2
<1>4. LiveFollows'
  BY <1>1 DEF PastInv, LiveFollows
<1>5. /\ currentBlock' \in Nat \ {0} /\ traced' \in Nat /\ traced' <= currentBlock'
      /\ indexed' \subseteq DOMAIN Docs /\ clientUp' \in BOOLEAN
  BY <1>1, <1>2 DEF PastInv, PastShapes
<1> QED
  BY <1>1, <1>3, <1>4, <1>5, EnvironmentKeeps DEF requestVars

LEMMA ClientLostKeeps == PastInv /\ ClientLost => PastInv'
<1> SUFFICES ASSUME PastInv, ClientLost PROVE PastInv'
  OBVIOUS
<1> USE DEF ClientLost
<1>1. /\ currentBlock' \in Nat \ {0} /\ traced' \in Nat /\ traced' <= currentBlock'
      /\ indexed' \subseteq DOMAIN Docs
  BY DEF PastInv, PastShapes
<1>2. IndexedInOrder' /\ LiveFollows'
  BY DEF PastInv, IndexedInOrder, LiveFollows
<1> QED
  BY <1>1, <1>2, EnvironmentKeeps DEF requestVars

-----------------------------------------------------------------------------
(* The request joins *)

\* Before the first search no history is sent.
LEMMA RefuseKeeps == PastInv /\ Refuse => PastInv'
<1> SUFFICES ASSUME PastInv, Refuse PROVE PastInv'
  OBVIOUS
<1> USE DEF Refuse
<1>1. /\ \A b : Wanted(b)' <=> Wanted(b)
      /\ \A d : Satisfies(QueryFilters, d)' <=> Satisfies(QueryFilters, d)
  <2>1. Same(ask', ask)
    BY DEF Same
  <2> QED
    BY <2>1, FiltersStay
<1>2. RequestShapes' /\ PastShapes'
  BY DEF PastInv, RequestShapes, PastShapes, PastPhases
<1>3. SentIsWanted'
  BY <1>1 DEF PastInv, SentIsWanted
<1>4. OpeningIsSent'
  BY <1>1 DEF PastInv, OpeningIsSent
<1>5. PagesCount' /\ LiveFollows' /\ IndexedInOrder' /\ HistorySent'
  BY DEF PastInv, PagesCount, LiveFollows, IndexedInOrder, HistorySent
<1> QED
  BY <1>2, <1>3, <1>4, <1>5 DEF PastInv

LEMMA AttachKeeps == PastInv /\ Attach => PastInv'
<1> SUFFICES ASSUME PastInv, Attach PROVE PastInv'
  OBVIOUS
<1> USE DEF Attach
<1>1. /\ \A b : Wanted(b)' <=> Wanted(b)
      /\ \A d : Satisfies(QueryFilters, d)' <=> Satisfies(QueryFilters, d)
  <2>1. Same(ask', ask)
    BY DEF Same
  <2> QED
    BY <2>1, FiltersStay
<1>2. RequestShapes' /\ PastShapes'
  BY DEF PastInv, RequestShapes, PastShapes, PastPhases
<1>3. SentIsWanted'
  BY <1>1 DEF PastInv, SentIsWanted
<1>4. OpeningIsSent'
  BY <1>1 DEF PastInv, OpeningIsSent
<1>5. PagesCount' /\ LiveFollows' /\ IndexedInOrder' /\ HistorySent'
  BY DEF PastInv, PagesCount, LiveFollows, IndexedInOrder, HistorySent
<1> QED
  BY <1>2, <1>3, <1>4, <1>5 DEF PastInv

\* A request with live data and no last block stops at the current block.
LEMMA AnswerKeeps == PastInv /\ Answer => PastInv'
<1> SUFFICES ASSUME PastInv, Answer PROVE PastInv'
  OBVIOUS
<1> USE DEF Answer, Joined
<1>0. PICK fs : fs = ask.filters
  OBVIOUS
<1>1. /\ ask' \in [start : Int, until : Int, live : BOOLEAN, op : {"and", "or"},
                  filters : {fs}, known : BOOLEAN]
      /\ Same(ask', ask) /\ ask'.start = ask.start /\ ask'.filters = fs
      /\ ask.until = 0 /\ ask.live => ask'.until = currentBlock
  <2>1. ask \in [start : Int, until : Int, live : BOOLEAN, op : {"and", "or"},
                filters : {fs}, known : BOOLEAN] /\ currentBlock \in Int
    BY <1>0 DEF PastInv, RequestShapes, PastShapes
  <2>2. CASE ask.until = 0 /\ ask.live
    BY <2>1, <2>2, UntilChanges, Zenon
  <2>3. CASE ~(ask.until = 0 /\ ask.live)
    BY <2>1, <2>3 DEF Same
  <2> QED
    BY <2>2, <2>3
<1>2. /\ \A b : Wanted(b)' <=> Wanted(b)
      /\ \A d : Satisfies(QueryFilters, d)' <=> Satisfies(QueryFilters, d)
  BY <1>1, FiltersStay
<1>3. /\ ask = wish /\ currentBlock \in Nat \ {0} /\ traced \in Nat /\ traced <= currentBlock
      /\ wish \in StreamRequests
  BY DEF PastInv, RequestShapes, PastShapes
<1>4. pastPhase' \in {"live", "search"}
  OBVIOUS
<1>5. RequestShapes' /\ PastShapes'
  <2>1. wish' \in StreamRequests /\ Same(ask', wish')
    BY <1>1, <1>3
  <2>2. historyBlock' \in Nat /\ tries' \in Nat
    BY <1>3
  <2>3. ask' \in [start : Int, until : Int, live : BOOLEAN, op : {"and", "or"},
                 filters : {ask'.filters}, known : BOOLEAN]
    BY <1>1
  <2>4. RequestShapes'
    BY <1>4, <2>1, <2>3 DEF RequestShapes
  <2>5. PastShapes'
    BY <1>4, <2>2 DEF PastInv, PastShapes, PastPhases
  <2> QED
    BY <2>4, <2>5
<1>6. SentIsWanted'
  BY <1>2 DEF PastInv, SentIsWanted
<1>7. OpeningIsSent'
  BY <1>2, <1>4 DEF PastInv, OpeningIsSent
<1>8. PagesCount' /\ IndexedInOrder'
  BY <1>4 DEF PastInv, PagesCount, IndexedInOrder
<1>9. LiveFollows'
  <2>1. attached = ask.live /\ ask'.live = ask.live
    BY <1>1 DEF PastInv, LiveFollows, Same
  <2>2. ASSUME wish.live, NEW b \in DOMAIN Docs, historyBlock' < b, b <= traced PROVE FALSE
    <3>1. historyBlock' = currentBlock /\ b \in Nat
      BY <1>3, <2>2
    <3> QED
      BY <1>3, <2>2, <3>1
  <2> QED
    BY <1>4, <2>1, <2>2 DEF LiveFollows
<1>10. HistorySent'
  <2> SUFFICES ASSUME FromStart', pastPhase' = "search"
               PROVE  /\ ask'.until = historyBlock' /\ historyBlock' > 0 /\ ask'.start > 0
                      /\ tries' # 1 => reached'.first = ask'.start - 1
                      /\ Sent(wish.start, ask.start - 1)'
    BY <1>1, <1>4 DEF HistorySent
  <2>1. wish.live /\ wish.until = 0 /\ wish.start > 0
    BY DEF FromStart
  <2>2. ask'.until = historyBlock' /\ historyBlock' > 0 /\ ask'.start > 0 /\ tries' = 1
    BY <1>1, <1>3, <2>1
  <2>3. Sent(wish.start, ask.start - 1)'
    <3>1. ask'.start = wish'.start /\ ask'.start \in Int
      BY <1>1, <1>3
    <3> QED
      BY <3>1 DEF Sent
  <2> QED
    BY <2>2, <2>3
<1> QED
  BY <1>5, <1>6, <1>7, <1>8, <1>9, <1>10 DEF PastInv

-----------------------------------------------------------------------------
(* Pages of a search *)

LEMMA ReachedChanges ==
    ASSUME NEW r \in [now : Int, first : Int], NEW x \in Int
    PROVE  LET s == [r EXCEPT !.now = x]
           IN  s \in [now : Int, first : Int] /\ s.now = x /\ s.first = r.first
  OBVIOUS

\* A set of blocks is finite.
LEMMA BlocksFinite ==
    ASSUME NEW S \in SUBSET DOMAIN Docs
    PROVE  IsFiniteSet(S) /\ Cardinality(S) \in Nat
<1>1. S \in SUBSET (1 .. MaxHead)
  OBVIOUS
<1>2. 1 \in Int /\ MaxHead \in Int
  OBVIOUS
<1>3. IsFiniteSet(1 .. MaxHead)
  BY <1>2, FS_Interval
<1>4. IsFiniteSet(S)
  BY <1>1, <1>3, FS_Subset, Zenon
<1> QED
  BY <1>4, FS_CardinalityType

\* The documents that a search finds, and what holds whatever it leaves for later.
LEMMA SearchKeeps == PastInv /\ Search => PastInv'
<1> SUFFICES ASSUME PastInv, Search PROVE PastInv'
  OBVIOUS
<1>1. PICK found : found = {b \in indexed : InRange(b) /\ Satisfies(QueryFilters, Docs[b])}
  OBVIOUS
<1>2. /\ pastPhase = "search"
      /\ scroll' = [left |-> found, total |-> Cardinality(found), counter |-> 0]
      /\ reached' = [reached EXCEPT !.now = 0]
      /\ opening' = IF tries = 1 THEN found ELSE opening
      /\ pastPhase' \in {"page", "failed"}
      /\ UNCHANGED <<ask, wish, attached, clientUp, currentBlock, traced, indexWindow, indexed,
                     historyBlock, tries, past, seenLive>>
  BY <1>1 DEF Search
<1>3. found \subseteq DOMAIN Docs /\ found \subseteq indexed /\ Cardinality(found) \in Nat
  <2>1. found \in SUBSET DOMAIN Docs /\ found \subseteq indexed
    BY <1>1 DEF PastInv, PastShapes
  <2> QED
    BY <2>1, BlocksFinite
<1>4. scroll' \in Scroll /\ scroll'.left = found
      /\ scroll'.counter + Cardinality(scroll'.left) = scroll'.total
  BY <1>2, <1>3 DEF Scroll
<1>5. reached' \in [now : Int, first : Int] /\ reached'.now = 0 /\ reached'.first = reached.first
  <2>1. reached \in [now : Int, first : Int] /\ 0 \in Int
    BY DEF PastInv, PastShapes
  <2> QED
    BY <1>2, <2>1, ReachedChanges, Zenon
<1>6. /\ \A b : Wanted(b)' <=> Wanted(b)
      /\ \A d : Satisfies(QueryFilters, d)' <=> Satisfies(QueryFilters, d)
  <2>1. Same(ask', ask)
    BY <1>2 DEF Same
  <2> QED
    BY <2>1, FiltersStay
<1>7. RequestShapes'
  BY <1>2 DEF PastInv, RequestShapes
<1>8. PastShapes'
  BY <1>2, <1>3, <1>4, <1>5 DEF PastInv, PastShapes, PastPhases
<1>9. SentIsWanted'
  <2>1. \A b \in found : Satisfies(QueryFilters, Docs[b])
    BY <1>1
  <2> QED
    BY <1>2, <1>4, <1>6, <2>1 DEF PastInv, SentIsWanted
<1>10. OpeningIsSent'
  <2> SUFFICES ASSUME clientUp, pastPhase' = "page", NEW b \in opening', Wanted(b)
               PROVE  past[b] > 0 \/ (tries = 1 /\ b \in found)
    BY <1>2, <1>4, <1>6 DEF OpeningIsSent
  <2>1. CASE tries = 1
    BY <1>2, <2>1
  <2>2. CASE tries # 1
    BY <1>2, <2>2 DEF PastInv, OpeningIsSent
  <2> QED
    BY <2>1, <2>2
<1>11. PagesCount' /\ LiveFollows' /\ IndexedInOrder'
  BY <1>2, <1>4, <1>5 DEF PastInv, PagesCount, LiveFollows, IndexedInOrder
<1>12. HistorySent'
  <2>1. \A from, to : Sent(from, to)' <=> Sent(from, to)
    BY <1>2, <1>6 DEF Sent
  <2> SUFFICES ASSUME FromStart', clientUp', pastPhase' = "page"
               PROVE  /\ ask.until = historyBlock /\ historyBlock > 0 /\ ask.start > 0
                      /\ tries # 1 => reached.first = ask.start - 1
                      /\ Sent(wish.start, ask.start - 1)
                      /\ \A b \in DOMAIN Docs :
                            /\ Wanted(b) /\ ask.start <= b
                            /\ b <= 0 \/ \E m \in found : b <= m
                            => b \in found \/ past[b] > 0
    BY <1>2, <1>4, <1>5, <1>6, <2>1 DEF HistorySent
  <2>2. FromStart /\ clientUp
    BY <1>2 DEF FromStart
  <2>3. /\ ask.until = historyBlock /\ historyBlock > 0 /\ ask.start > 0
        /\ tries # 1 => reached.first = ask.start - 1
        /\ Sent(wish.start, ask.start - 1)
    BY <1>2, <2>2 DEF PastInv, HistorySent
  <2>4. ASSUME NEW b \in DOMAIN Docs, Wanted(b), ask.start <= b, NEW m \in found, b <= m
        PROVE  b \in found
    <3>1. m \in indexed /\ InRange(m) /\ m \in DOMAIN Docs
      BY <1>1, <1>3
    <3>2. b \in indexed
      <4>1. b \in Nat /\ m \in Nat
        BY <3>1
      <4>2. b = m \/ b < m
        BY <4>1, <2>4
      <4> QED
        BY <3>1, <4>2, <2>2 DEF PastInv, IndexedInOrder, FromStart
    <3>3. ask.start \in Int /\ ask.until \in Int
      BY DEF PastInv, RequestShapes
    <3>4. Bound(ask.start) = ask.start /\ Bound(ask.until) = ask.until
      BY <2>3, <3>3 DEF Bound
    <3>5. m <= ask.until
      BY <2>3, <3>1, <3>3, <3>4 DEF InRange
    <3>6. InRange(b)
      <4>1. b \in Nat /\ m \in Nat
        BY <3>1
      <4> QED
        BY <2>4, <3>3, <3>4, <3>5, <4>1 DEF InRange
    <3> QED
      BY <1>1, <2>4, <3>2, <3>6 DEF Wanted
  <2>5. \A b \in DOMAIN Docs : ~(b <= 0)
    OBVIOUS
  <2> QED
    BY <2>3, <2>4, <2>5
<1> QED
  BY <1>7, <1>8, <1>9, <1>10, <1>11, <1>12 DEF PastInv

\* What a page takes from the scroll, and what it leaves.
LEMMA PageTakes ==
    ASSUME NEW left \in SUBSET DOMAIN Docs, NEW page \in SUBSET left
    PROVE  /\ Cardinality(page) \in Nat /\ Cardinality(left) \in Nat /\ Cardinality(left \ page) \in Nat
           /\ Cardinality(left \ page) = Cardinality(left) - Cardinality(page)
           /\ Cardinality(left \ page) = 0 => left \ page = {}
<1>1. IsFiniteSet(left) /\ Cardinality(left) \in Nat
  BY BlocksFinite
<1>2. page \in SUBSET DOMAIN Docs /\ left \ page \in SUBSET DOMAIN Docs
  OBVIOUS
<1>3. /\ IsFiniteSet(page) /\ Cardinality(page) \in Nat
      /\ IsFiniteSet(left \ page) /\ Cardinality(left \ page) \in Nat
  BY <1>2, BlocksFinite
<1>4. left \cap page = page
  OBVIOUS
<1>5. Cardinality(left \ page) = Cardinality(left) - Cardinality(left \cap page)
  BY <1>1, FS_Difference
<1>6. Cardinality(left \ page) = 0 => left \ page = {}
  BY <1>3, FS_EmptySet
<1> QED
  BY <1>1, <1>3, <1>4, <1>5, <1>6

\* The block reached is the highest of the page and of those before it.
LEMMA HighestIs ==
    ASSUME NEW page \in SUBSET DOMAIN Docs, reached.now \in Nat
    PROVE  /\ Highest(page) \in Nat
           /\ Highest(page) \in page \cup {reached.now}
           /\ \A b \in page \cup {reached.now} : b <= Highest(page)
<1>1. PICK S : S = page \cup {reached.now}
  OBVIOUS
<1>2. PICK n \in Nat : n = IF reached.now <= MaxHead THEN MaxHead ELSE reached.now
  OBVIOUS
<1>3. S \in SUBSET (0 .. n) /\ S # {}
  BY <1>1, <1>2
<1>4. PICK m \in S : \A k \in S : k <= m
  BY <1>2, <1>3, GreatestNumber
<1>5. \A k \in S : m >= k
  <2> TAKE k \in S
  <2>1. k \in Int /\ m \in Int /\ k <= m
    BY <1>3, <1>4
  <2> QED
    BY <2>1
<1>6. Max(S) \in S /\ \A k \in S : Max(S) >= k
  BY <1>5 DEF Max
<1>7. Highest(page) = Max(S)
  BY <1>1 DEF Highest
<1>8. Highest(page) \in S /\ \A k \in S : Highest(page) >= k
  BY <1>6, <1>7
<1>9. Highest(page) \in Nat
  <2>1. S \subseteq Nat
    BY <1>2, <1>3
  <2> QED
    BY <1>8, <2>1
<1>10. \A k \in S : k <= Highest(page)
  <2> TAKE k \in S
  <2>1. k \in Nat /\ Highest(page) >= k
    BY <1>3, <1>8
  <2> QED
    BY <1>9, <2>1
<1> QED
  BY <1>1, <1>8, <1>9, <1>10

\* Of a page the client receives what the filters on demand let through.
LEMMA PageKeeps == PastInv /\ Page => PastInv'
<1> SUFFICES ASSUME PastInv, Page PROVE PastInv'
  OBVIOUS
<1>1. PICK page : page = FirstBlocks(scroll.left)
  OBVIOUS
<1>2. PICK counter : counter = scroll.counter + Cardinality(page)
  OBVIOUS
<1>3. /\ pastPhase = "page"
      /\ scroll' = [scroll EXCEPT !.left = @ \ page, !.counter = counter]
      /\ reached' = [reached EXCEPT !.now = Highest(page)]
      /\ clientUp =>
            /\ past' = [b \in 1 .. MaxHead |-> past[b] + IF b \in Messages(page) THEN 1 ELSE 0]
            /\ \/ pastPhase' = IF counter = scroll.total THEN "scrolled" ELSE "page"
               \/ pastPhase' = "failed"
      /\ ~clientUp => pastPhase' = "scrolled" /\ UNCHANGED past
      /\ UNCHANGED <<ask, wish, attached, clientUp, currentBlock, traced, indexWindow, indexed,
                     historyBlock, tries, opening, seenLive>>
  BY <1>1, <1>2 DEF Page
<1>4. scroll.left \in SUBSET DOMAIN Docs /\ scroll.total \in Nat /\ scroll.counter \in Nat
      /\ scroll \in Scroll
  BY DEF PastInv, PastShapes, Scroll
<1>5. page \in SUBSET scroll.left /\ page \in SUBSET DOMAIN Docs
  BY <1>1, <1>4 DEF FirstBlocks
<1>6. /\ Cardinality(page) \in Nat /\ Cardinality(scroll.left) \in Nat
      /\ Cardinality(scroll.left \ page) \in Nat
      /\ Cardinality(scroll.left \ page) = Cardinality(scroll.left) - Cardinality(page)
      /\ Cardinality(scroll.left \ page) = 0 => scroll.left \ page = {}
  <2>1. PICK left \in SUBSET DOMAIN Docs : left = scroll.left
    BY <1>4
  <2>2. page \in SUBSET left
    BY <1>5, <2>1
  <2>3. /\ Cardinality(page) \in Nat /\ Cardinality(left) \in Nat /\ Cardinality(left \ page) \in Nat
        /\ Cardinality(left \ page) = Cardinality(left) - Cardinality(page)
        /\ Cardinality(left \ page) = 0 => left \ page = {}
    BY <2>2, PageTakes
  <2> QED
    BY <2>1, <2>3
<1>7. /\ scroll' \in Scroll /\ scroll'.left = scroll.left \ page
      /\ scroll'.counter = counter /\ scroll'.total = scroll.total
  <2>1. counter \in Nat /\ scroll.left \ page \in SUBSET DOMAIN Docs
    BY <1>2, <1>4, <1>6
  <2>2. scroll \in [left : SUBSET DOMAIN Docs, total : Nat, counter : Nat]
    BY <1>4 DEF Scroll
  <2> QED
    BY <1>3, <2>1, <2>2, Zenon DEF Scroll
<1>8. counter + Cardinality(scroll.left \ page) = scroll.total
  <2>1. scroll.counter + Cardinality(scroll.left) = scroll.total
    BY <1>3 DEF PastInv, PagesCount
  <2> QED
    BY <1>2, <1>4, <1>6, <2>1
<1>9. reached.now \in Nat
  BY <1>3 DEF PastInv, PagesCount
<1>10. /\ Highest(page) \in Nat /\ Highest(page) \in page \cup {reached.now}
       /\ \A b \in page \cup {reached.now} : b <= Highest(page)
  BY <1>5, <1>9, HighestIs
<1>11. reached' \in [now : Int, first : Int] /\ reached'.now = Highest(page)
  <2>1. reached \in [now : Int, first : Int] /\ Highest(page) \in Int
    BY <1>10 DEF PastInv, PastShapes
  <2> QED
    BY <1>3, <2>1, ReachedChanges, Zenon
<1>12. past' \in [1 .. MaxHead -> Nat] /\ \A b \in DOMAIN Docs : past[b] > 0 => past'[b] > 0
  <2>1. past \in [1 .. MaxHead -> Nat]
    BY DEF PastInv, PastShapes
  <2>2. CASE clientUp
    <3>1. past' = [b \in 1 .. MaxHead |-> past[b] + IF b \in Messages(page) THEN 1 ELSE 0]
      BY <1>3, <2>2
    <3>2. \A b \in 1 .. MaxHead : (IF b \in Messages(page) THEN 1 ELSE 0) \in Nat
      OBVIOUS
    <3>3. \A b \in 1 .. MaxHead : past[b] \in Nat /\ past'[b] \in Nat /\ (past[b] > 0 => past'[b] > 0)
      BY <2>1, <3>1, <3>2
    <3>4. past' \in [1 .. MaxHead -> Nat]
      BY <3>1, <3>3
    <3> QED
      BY <3>3, <3>4
  <2>3. CASE ~clientUp
    BY <1>3, <2>1, <2>3
  <2> QED
    BY <2>2, <2>3
<1>13. /\ \A b : Wanted(b)' <=> Wanted(b)
       /\ \A d : Satisfies(QueryFilters, d)' <=> Satisfies(QueryFilters, d)
  <2>1. Same(ask', ask)
    BY <1>3 DEF Same
  <2> QED
    BY <2>1, FiltersStay
<1>14. \A b \in DOMAIN Docs : past'[b] > 0 /\ ~(past[b] > 0) => b \in page /\ Wanted(b)
  <2> SUFFICES ASSUME NEW b \in DOMAIN Docs, past'[b] > 0, ~(past[b] > 0) PROVE b \in page /\ Wanted(b)
    OBVIOUS
  <2>1. clientUp /\ b \in 1 .. MaxHead
    BY <1>3
  <2>2. past'[b] = past[b] + IF b \in Messages(page) THEN 1 ELSE 0
    BY <1>3, <2>1
  <2>3. past[b] \in Nat
    BY <2>1 DEF PastInv, PastShapes
  <2>4. b \in Messages(page)
    BY <2>2, <2>3
  <2> QED
    BY <1>5, <2>4 DEF Messages, Wanted, PastInv, SentIsWanted
<1>15. ASSUME clientUp, NEW b \in page, Wanted(b) PROVE past'[b] > 0
  <2>1. b \in Messages(page) /\ b \in 1 .. MaxHead
    BY <1>5, <1>15 DEF Messages, Wanted
  <2>2. past'[b] = past[b] + 1 /\ past[b] \in Nat
    BY <1>3, <1>15, <2>1 DEF PastInv, PastShapes
  <2> QED
    BY <2>2
<1>16. clientUp /\ pastPhase' = "scrolled" => scroll'.left = {}
  <2> SUFFICES ASSUME clientUp, pastPhase' = "scrolled" PROVE scroll.left \ page = {}
    BY <1>7
  <2>1. counter = scroll.total
    BY <1>3
  <2> QED
    BY <1>2, <1>4, <1>6, <1>8, <2>1
<1>17. RequestShapes'
  BY <1>3 DEF PastInv, RequestShapes
<1>18. PastShapes'
  <2>1. pastPhase' \in PastPhases
    BY <1>3 DEF PastPhases
  <2> QED
    BY <1>3, <1>7, <1>11, <1>12, <2>1 DEF PastInv, PastShapes
<1>19. SentIsWanted'
  BY <1>7, <1>13, <1>14 DEF PastInv, SentIsWanted
<1>20. OpeningIsSent'
  <2> SUFFICES ASSUME clientUp, pastPhase' # "failed", NEW b \in opening, Wanted(b)
               PROVE  past'[b] > 0 \/ (pastPhase' = "page" /\ tries = 1 /\ b \in scroll.left \ page)
    BY <1>3, <1>7, <1>13 DEF OpeningIsSent
  <2>1. b \in DOMAIN Docs
    BY DEF Wanted
  <2>2. past[b] > 0 \/ (tries = 1 /\ b \in scroll.left)
    BY <1>3 DEF PastInv, OpeningIsSent
  <2>3. CASE past[b] > 0
    BY <1>12, <2>1, <2>3
  <2>4. CASE tries = 1 /\ b \in scroll.left /\ b \in page
    BY <1>15, <2>4
  <2>5. CASE tries = 1 /\ b \in scroll.left /\ b \notin page
    <3>1. scroll'.left # {}
      BY <1>7, <2>5
    <3>2. pastPhase' = "page"
      BY <1>3, <1>16, <3>1
    <3> QED
      BY <2>5, <3>2
  <2> QED
    BY <2>2, <2>3, <2>4, <2>5
<1>21. PagesCount'
  BY <1>3, <1>7, <1>8, <1>10, <1>11, <1>16 DEF PagesCount
<1>22. LiveFollows' /\ IndexedInOrder'
  BY <1>3 DEF PastInv, LiveFollows, IndexedInOrder
<1>23. HistorySent'
  <2> SUFFICES ASSUME FromStart', clientUp PROVE HistorySent'
    BY <1>3 DEF HistorySent
  <2>1. FromStart
    BY <1>3 DEF FromStart
  <2>2. pastPhase' # "ended"
    BY <1>3
  <2>3. /\ ask.until = historyBlock /\ historyBlock > 0 /\ ask.start > 0
        /\ tries # 1 => reached.first = ask.start - 1
        /\ Sent(wish.start, ask.start - 1)
    BY <1>3, <2>1 DEF PastInv, HistorySent
  <2>4. Sent(wish.start, ask.start - 1)'
    BY <1>3, <1>12, <1>13, <2>3 DEF Sent
  <2>5. reached'.first = reached.first
    <3>1. reached \in [now : Int, first : Int] /\ Highest(page) \in Int
      BY <1>10 DEF PastInv, PastShapes
    <3> QED
      BY <1>3, <3>1, ReachedChanges, Zenon
  <2>6. ASSUME NEW b \in DOMAIN Docs, Wanted(b), ask.start <= b,
               b <= reached'.now \/ \E m \in scroll'.left : b <= m
        PROVE  b \in scroll'.left \/ past'[b] > 0
    <3>1. b <= reached.now \/ \E m \in scroll.left : b <= m
      <4>1. CASE b <= reached'.now
        <5>1. Highest(page) \in page \/ Highest(page) = reached.now
          BY <1>10
        <5> QED
          BY <1>5, <1>11, <4>1, <5>1
      <4>2. CASE \E m \in scroll'.left : b <= m
        BY <1>7, <4>2
      <4> QED
        BY <2>6, <4>1, <4>2
    <3>2. b \in scroll.left \/ past[b] > 0
      BY <1>3, <2>1, <2>6, <3>1 DEF PastInv, HistorySent
    <3>3. CASE past[b] > 0
      BY <1>12, <3>3
    <3>4. CASE b \in scroll.left
      BY <1>7, <1>15, <2>6, <3>4
    <3> QED
      BY <3>2, <3>3, <3>4
  <2>7. pastPhase' = "scrolled" => Sent(ask.start, reached.now)'
    <3> SUFFICES ASSUME pastPhase' = "scrolled", NEW b \in DOMAIN Docs, Wanted(b),
                        ask.start <= b, b <= reached'.now
                 PROVE  past'[b] > 0
      BY <1>3, <1>13 DEF Sent
    <3>1. scroll'.left = {}
      BY <1>16
    <3> QED
      BY <2>6, <3>1
  <2>8. pastPhase' = "page" => \A b \in DOMAIN Docs :
              /\ Wanted(b)' /\ ask'.start <= b
              /\ b <= reached'.now \/ \E m \in scroll'.left : b <= m
              => b \in scroll'.left \/ past'[b] > 0
    BY <1>3, <1>13, <2>6
  <2>9. /\ ask'.until = historyBlock' /\ historyBlock' > 0 /\ ask'.start > 0
        /\ tries' # 1 => reached'.first = ask'.start - 1
    BY <1>3, <2>3, <2>5
  <2> QED
    BY <2>2, <2>4, <2>7, <2>8, <2>9 DEF HistorySent
<1> QED
  BY <1>17, <1>18, <1>19, <1>20, <1>21, <1>22, <1>23 DEF PastInv

-----------------------------------------------------------------------------
(* The end of a scroll *)

\* A fill request starts after the block that the first scroll reached.
LEMMA DecideKeeps == PastInv /\ Decide => PastInv'
<1> SUFFICES ASSUME PastInv, Decide PROVE PastInv'
  OBVIOUS
<1>1. PICK ltb : ltb = Reached
  OBVIOUS
<1>2. PICK firstEnd : firstEnd = IF tries = 1 THEN ltb ELSE reached.first
  OBVIOUS
<1>3. PICK again \in BOOLEAN : again = (ltb > 0 /\ historyBlock > ltb /\ tries <= 3)
  OBVIOUS
<1>4. PICK fs : fs = ask.filters
  OBVIOUS
<1>5. /\ pastPhase = "scrolled"
      /\ reached' = [now |-> ltb, first |-> firstEnd]
      /\ tries' = IF again THEN tries + 1 ELSE tries
      /\ ask' = IF again THEN [ask EXCEPT !.start = firstEnd + 1, !.until = historyBlock] ELSE ask
      /\ pastPhase' = IF again THEN "search" ELSE "ended"
      /\ UNCHANGED <<wish, attached, clientUp, currentBlock, traced, indexWindow, indexed, historyBlock,
                     scroll, opening, past, seenLive>>
  BY <1>1, <1>2, <1>3 DEF Decide
<1>6. /\ ask \in [start : Int, until : Int, live : BOOLEAN, op : {"and", "or"},
                 filters : {fs}, known : BOOLEAN]
      /\ ask.start \in Int
  BY <1>4 DEF PastInv, RequestShapes
<1>7. /\ currentBlock \in Int /\ historyBlock \in Nat /\ tries \in Nat
      /\ reached.now \in Int /\ reached.first \in Int
  BY DEF PastInv, PastShapes
<1>8. ltb \in Int /\ firstEnd \in Int
  BY <1>1, <1>2, <1>6, <1>7 DEF Reached
<1>9. reached' \in [now : Int, first : Int] /\ reached'.now = ltb /\ reached'.first = firstEnd
  BY <1>5, <1>8
<1>10. /\ ask' \in [start : Int, until : Int, live : BOOLEAN, op : {"and", "or"},
                   filters : {fs}, known : BOOLEAN]
       /\ Same(ask', ask) /\ ask'.filters = fs
       /\ again => ask'.start = firstEnd + 1 /\ ask'.until = historyBlock
       /\ ~again => ask' = ask
  <2>1. CASE again
    <3>1. firstEnd + 1 \in Int /\ historyBlock \in Int
      BY <1>7, <1>8
    <3>2. ask' = [ask EXCEPT !.start = firstEnd + 1, !.until = historyBlock]
      BY <1>5, <2>1
    <3> QED
      BY <1>6, <2>1, <3>1, <3>2, RequestChanges, Zenon
  <2>2. CASE ~again
    BY <1>4, <1>5, <1>6, <2>2 DEF Same
  <2> QED
    BY <2>1, <2>2
<1>11. /\ \A b : Wanted(b)' <=> Wanted(b)
       /\ \A d : Satisfies(QueryFilters, d)' <=> Satisfies(QueryFilters, d)
  BY <1>10, FiltersStay
<1>12. RequestShapes'
  <2>1. Same(ask', wish') /\ wish' \in StreamRequests
    BY <1>5, <1>10 DEF PastInv, RequestShapes, Same
  <2>2. pastPhase' \notin {"new", "refused", "attached"}
    BY <1>5
  <2>3. ask' \in [start : Int, until : Int, live : BOOLEAN, op : {"and", "or"},
                 filters : {ask'.filters}, known : BOOLEAN]
    BY <1>10
  <2> QED
    BY <2>1, <2>2, <2>3 DEF RequestShapes
<1>13. PastShapes'
  <2>1. tries' \in Nat
    BY <1>5, <1>7
  <2>2. pastPhase' \in PastPhases
    BY <1>5 DEF PastPhases
  <2> QED
    BY <1>5, <1>9, <2>1, <2>2 DEF PastInv, PastShapes
<1>14. SentIsWanted'
  BY <1>5, <1>11 DEF PastInv, SentIsWanted
<1>15. OpeningIsSent'
  BY <1>5, <1>11 DEF PastInv, OpeningIsSent
<1>16. PagesCount' /\ IndexedInOrder'
  BY <1>5 DEF PastInv, PagesCount, IndexedInOrder
<1>17. LiveFollows'
  <2>1. ask'.live = ask.live
    BY <1>10 DEF Same
  <2> QED
    BY <1>5, <2>1 DEF PastInv, LiveFollows
<1>18. HistorySent'
  <2> SUFFICES ASSUME FromStart', clientUp PROVE HistorySent'
    BY <1>5 DEF HistorySent
  <2>1. FromStart
    BY <1>5 DEF FromStart
  <2>2. /\ historyBlock > 0 /\ ask.start > 0
        /\ tries # 1 => reached.first = ask.start - 1
        /\ Sent(wish.start, ask.start - 1)
        /\ Sent(ask.start, reached.now)
    BY <1>5, <2>1 DEF PastInv, HistorySent
  <2>3. ltb = reached.now \/ ltb = ask.start - 1
    BY <1>1, <1>6, <2>2 DEF Reached
  <2>4. Sent(wish.start, ltb)
    <3> SUFFICES ASSUME NEW b \in DOMAIN Docs, Wanted(b), wish.start <= b, b <= ltb
                 PROVE  past[b] > 0
      BY DEF Sent
    <3>1. CASE ask.start <= b /\ ltb = reached.now
      BY <2>2, <3>1 DEF Sent
    <3>2. CASE b <= ask.start - 1
      BY <2>2, <3>2 DEF Sent
    <3>3. b \in Nat
      OBVIOUS
    <3> QED
      BY <1>6, <2>3, <3>1, <3>2, <3>3
  <2>5. Sent(wish.start, firstEnd)
    <3>1. tries # 1 => firstEnd = ask.start - 1
      BY <1>2, <2>2
    <3> QED
      BY <1>2, <2>2, <2>4, <3>1
  <2>6. \A from, to : Sent(from, to) => Sent(from, to)'
    BY <1>5, <1>11 DEF Sent
  <2>7. CASE again
    <3>1. pastPhase' = "search" /\ ask'.start = firstEnd + 1 /\ ask'.until = historyBlock
      BY <1>5, <1>10, <2>7
    <3>2. ltb > 0 /\ tries' = tries + 1
      BY <1>3, <1>5, <2>7
    <3>3. firstEnd + 1 > 0
      <4>1. tries # 1 => firstEnd = ask.start - 1
        BY <1>2, <2>2
      <4> QED
        BY <1>2, <1>6, <1>8, <2>2, <3>2, <4>1
    <3>4. reached'.first = ask'.start - 1
      BY <1>8, <1>9, <3>1
    <3>5. Sent(wish.start, ask.start - 1)'
      <4>1. wish'.start = wish.start /\ ask'.start - 1 = firstEnd
        BY <1>5, <1>8, <3>1
      <4> QED
        BY <2>5, <2>6, <4>1
    <3> QED
      BY <1>5, <2>2, <3>1, <3>3, <3>4, <3>5 DEF HistorySent
  <2>8. CASE ~again
    <3>1. pastPhase' = "ended"
      BY <1>5, <2>8
    <3>2. Sent(wish.start, reached.now)'
      BY <1>5, <1>9, <2>4, <2>6
    <3> QED
      BY <3>1, <3>2 DEF HistorySent
  <2> QED
    BY <2>7, <2>8
<1> QED
  BY <1>12, <1>13, <1>14, <1>15, <1>16, <1>17, <1>18 DEF PastInv

LEMMA PastInvKept == PastInv /\ [PastNext]_pastVars => PastInv'
<1> SUFFICES ASSUME PastInv, [PastNext]_pastVars PROVE PastInv'
  OBVIOUS
<1>1. CASE UNCHANGED pastVars
  <2>1. \A b : Wanted(b)' <=> Wanted(b)
    BY <1>1 DEF pastVars, Wanted, QueryFilters, OnDemand, Satisfies
  <2>2. clientUp' \in BOOLEAN /\ UNCHANGED requestVars /\ (clientUp' => clientUp)
    BY <1>1 DEF pastVars, requestVars, PastInv, PastShapes
  <2>3. /\ currentBlock' \in Nat \ {0} /\ traced' \in Nat /\ traced' <= currentBlock'
        /\ indexed' \subseteq DOMAIN Docs
    BY <1>1 DEF pastVars, PastInv, PastShapes
  <2>4. IndexedInOrder' /\ LiveFollows'
    BY <1>1 DEF pastVars, PastInv, IndexedInOrder, LiveFollows
  <2> QED
    BY <2>2, <2>3, <2>4, EnvironmentKeeps
<1>2. CASE Refuse \/ Attach \/ Answer \/ Search \/ Page \/ Decide
  BY <1>2, RefuseKeeps, AttachKeeps, AnswerKeeps, SearchKeeps, PageKeeps, DecideKeeps
<1>3. CASE AnnounceBlock \/ SendTraces \/ IndexBlock \/ ClientLost
  BY <1>3, AnnounceBlockKeeps, SendTracesKeeps, IndexBlockKeeps, ClientLostKeeps
<1> QED
  BY <1>1, <1>2, <1>3 DEF PastNext

\* What the filters let through is what the client asked for, where they are of one kind.
LEMMA WantedIs ==
    ASSUME PastInv, OneKind, NEW b \in DOMAIN Docs
    PROVE  WishedFor(b) <=> Wanted(b)
<1> DEFINE d == Docs[b]
<1>1. wish.filters = ask.filters /\ wish.op = ask.op /\ ask.op \in {"and", "or"}
  BY DEF PastInv, RequestShapes, Same
<1>2. QueryFilters \cup OnDemand = ask.filters
  BY DEF QueryFilters, OnDemand
<1>3. CASE ask.op = "and"
  <2>1. \A fs : Satisfies(fs, d) <=> \A f \in fs : Holds(f, d)
    BY <1>3 DEF Satisfies
  <2>2. WishedFor(b) <=> \A f \in ask.filters : Holds(f, d)
    BY <1>1, <1>3 DEF WishedFor
  <2> QED
    BY <1>2, <2>1, <2>2 DEF Wanted
<1>4. CASE ask.op = "or"
  <2>1. QueryFilters = {} \/ OnDemand = {}
    BY <1>1, <1>4 DEF OneKind
  <2>2. \A fs : Satisfies(fs, d) <=> fs = {} \/ \E f \in fs : Holds(f, d)
    BY <1>4 DEF Satisfies
  <2>3. WishedFor(b) <=> ask.filters = {} \/ \E f \in ask.filters : Holds(f, d)
    BY <1>1, <1>4 DEF WishedFor
  <2>4. CASE QueryFilters = {}
    <3>1. OnDemand = ask.filters
      BY <1>2, <2>4
    <3> QED
      BY <2>2, <2>3, <2>4, <3>1 DEF Wanted
  <2>5. CASE OnDemand = {}
    <3>1. QueryFilters = ask.filters
      BY <1>2, <2>5
    <3> QED
      BY <2>2, <2>3, <2>5, <3>1 DEF Wanted
  <2> QED
    BY <2>1, <2>4, <2>5
<1> QED
  BY <1>1, <1>3, <1>4

LEMMA PastInvDelivers == PastInv => EndMeansDelivered
<1> SUFFICES ASSUME PastInv, pastPhase = "ended", clientUp
             PROVE  /\ \A b \in opening : Expected(b) => past[b] > 0
                    /\ FromStart /\ reached.now >= historyBlock =>
                          \A b \in wish.start .. traced : Expected(b) => Delivered(b)
                    /\ \A b \in DOMAIN Docs : past[b] > 0 /\ OneKind => WishedFor(b)
  BY DEF EndMeansDelivered, FromStart
<1>1. \A b : Expected(b) => b \in DOMAIN Docs /\ Wanted(b)
  BY WantedIs DEF Expected
<1>2. ASSUME NEW b \in opening, Expected(b) PROVE past[b] > 0
  BY <1>1, <1>2 DEF PastInv, OpeningIsSent
<1>3. ASSUME FromStart, reached.now >= historyBlock, NEW b \in wish.start .. traced, Expected(b)
      PROVE  Delivered(b)
  <2>1. b \in DOMAIN Docs /\ Wanted(b)
    BY <1>1, <1>3
  <2>2. b \in Int /\ historyBlock \in Nat /\ reached.now \in Int /\ traced \in Nat
    BY <2>1 DEF PastInv, PastShapes
  <2>3. wish.start \in Int
    BY RequestAssumption DEF PastInv, RequestShapes
  <2>4. wish.start <= b /\ b <= traced
    BY <1>3, <2>2, <2>3
  <2>5. CASE b <= historyBlock
    <3>1. Sent(wish.start, reached.now)
      BY <1>3 DEF PastInv, HistorySent
    <3>2. b <= reached.now
      BY <1>3, <2>2, <2>5
    <3> QED
      BY <2>1, <2>4, <3>1, <3>2 DEF Sent, Delivered
  <2>6. CASE historyBlock < b
    <3>1. wish.live
      BY <1>3 DEF FromStart
    <3> QED
      BY <2>1, <2>4, <2>6, <3>1 DEF PastInv, LiveFollows, Delivered
  <2> QED
    BY <2>2, <2>5, <2>6
<1>4. ASSUME NEW b \in DOMAIN Docs, past[b] > 0, OneKind PROVE WishedFor(b)
  <2>1. Wanted(b)
    BY <1>4 DEF PastInv, SentIsWanted
  <2> QED
    BY <1>4, <2>1, WantedIs
<1> QED
  BY <1>2, <1>3, <1>4

\* A client that sees the end of its history has received, of what it asked for, all
\* that the index held, and with blocks indexed in order everything from its first
\* block to the live stream; and nothing else.
THEOREM HistoryIsDelivered == PastSpec => []EndMeansDelivered
<1>1. PastInit => PastInv
  BY PastInvInit
<1>2. PastInv /\ [PastNext]_pastVars => PastInv'
  BY PastInvKept
<1>3. PastInv => EndMeansDelivered
  BY PastInvDelivers
<1> QED
  BY <1>1, <1>2, <1>3, PTL DEF PastSpec

HIDE PastAssumption

-----------------------------------------------------------------------------
(* Routing *)

LEMMA PoolIs == PoolSize \in Nat \ {0}
BY RoutingAssumption

USE PoolIs

-----------------------------------------------------------------------------
(* Routing: the hits of all contracts *)

CountStep(sum, c) == sum + usage[c]

CountStates(r, n) ==
    /\ r[0] = 0
    /\ \A k \in 1 .. n : r[k] = r[k - 1] + usage[order[k]]
    /\ \A k \in 0 .. n : r[k] \in Nat
    /\ TotalHits = r[n]

LEMMA CountSteps ==
  ASSUME order \in Seq(Codes), usage \in [Codes -> Nat]
  PROVE  \E r : CountStates(r, Len(order))
  <1> DEFINE n == Len(order)
             iter == CHOOSE h : h = [t \in SUBSET DOMAIN order |->
                        IF t = {} THEN 0 ELSE CountStep(h[t \ {Max(t)}], order[Max(t)])]
             op == [p \in Nat \X (1 .. n) |-> CountStep(p[1], order[p[2]])]
  <1>1. TotalHits = iter[DOMAIN order] BY Zenon DEF TotalHits, CountStep, FoldLeft, MapThenFoldSet
  <1>2. n \in Nat /\ DOMAIN order = 1 .. n /\ \A k \in 1 .. n : order[k] \in Codes OBVIOUS
  <1>3. 0 \in Nat OBVIOUS
  <1>4. \A v \in Nat, k \in 1 .. n :
           CountStep(v, order[k]) \in Nat /\ op[<<v, k>>] = CountStep(v, order[k])
    BY <1>2 DEF CountStep
  <1>. HIDE DEF n
  <1>5. op \in [Nat \X (1 .. n) -> Nat] BY <1>4
  <1>. HIDE DEF op
  <1>6. PICK g \in [SUBSET (1 .. n) -> Nat] : Tabulates(g, n, 0, op)
    BY <1>2, <1>3, <1>5, FoldRecursion
  <1>7. ASSUME NEW h, NEW t \in SUBSET (1 .. n), t # {}, h[t \ {Max(t)}] \in Nat
        PROVE  op[<<h[t \ {Max(t)}], Max(t)>>] = CountStep(h[t \ {Max(t)}], order[Max(t)])
    <2>1. Max(t) \in 1 .. n BY <1>2, <1>7, MaxOfPositions
    <2>. QED BY <1>4, <1>7, <2>1
  <1>8. \E h : h = [t \in SUBSET DOMAIN order |->
                      IF t = {} THEN 0 ELSE CountStep(h[t \ {Max(t)}], order[Max(t)])]
    <2>1. \A t \in SUBSET (1 .. n) : t # {} => g[t \ {Max(t)}] \in Nat OBVIOUS
    <2>2. g = [t \in SUBSET DOMAIN order |->
                 IF t = {} THEN 0 ELSE CountStep(g[t \ {Max(t)}], order[Max(t)])]
      BY <1>2, <1>6, <1>7, <2>1 DEF Tabulates
    <2>. QED BY <2>2, Zenon
  <1>9. iter = [t \in SUBSET DOMAIN order |->
                  IF t = {} THEN 0 ELSE CountStep(iter[t \ {Max(t)}], order[Max(t)])]
    BY <1>8, Zenon
  <1>. HIDE DEF iter
  <1>10. Iterates(iter, n, Nat, 0, op) BY <1>2, <1>7, <1>9 DEF Iterates
  <1>11. PICK r : States(r, n, Nat, 0, op) /\ r[n] = iter[1 .. n]
    <2>1. Reaches(iter, n, Nat, 0, op) BY <1>2, <1>3, <1>5, <1>10, FoldStates
    <2>. QED BY <2>1 DEF Reaches
  <1>12. \A k \in 1 .. n : k - 1 \in 0 .. n BY <1>2
  <1>13. \A k \in 1 .. n : r[k] = r[k - 1] + usage[order[k]]
    BY <1>4, <1>11, <1>12 DEF States, CountStep
  <1>. QED BY <1>1, <1>2, <1>11, <1>13 DEF States, CountStates, n

-----------------------------------------------------------------------------
(* Routing: the workers of a contract *)

ShareType == [shares : [Slots -> Nat], used : Nat, workers : Seq(Slots)]

\* What a worker takes of a contract.
TakenBy(s, c, load, i) == Fewer(usage[c] * PoolSize - s.used, load - s.shares[i])

Shared(n, s, take, i) ==
    /\ n \in ShareType /\ take \in Int
    /\ take <= 0 => n = s
    /\ take > 0 => /\ n.shares = [s.shares EXCEPT ![i] = @ + take]
                   /\ n.used = s.used + take /\ n.workers # <<>>

LEMMA NeedIsCount ==
  ASSUME usage \in [Codes -> Nat], NEW c \in Codes
  PROVE  usage[c] * PoolSize \in Nat
  <1>1. PICK u \in Nat : u = usage[c] OBVIOUS
  <1>2. u * PoolSize \in Nat OBVIOUS
  <1>. QED BY <1>1, <1>2

LEMMA ShareKeepsType ==
  ASSUME usage \in [Codes -> Nat], NEW c \in Codes, NEW load \in Nat,
         NEW s \in ShareType, NEW i \in Slots
  PROVE  Shared(Share(s, c, load, i), s, TakenBy(s, c, load, i), i)
  <1>1. PICK need \in Nat : need = usage[c] * PoolSize BY NeedIsCount
  <1>2. s.shares[i] \in Nat /\ s.used \in Nat /\ s.workers \in Seq(Slots) /\ s.shares \in [Slots -> Nat]
    BY DEF ShareType
  <1>3. PICK take \in Int : take = TakenBy(s, c, load, i)
    <2>1. need - s.used \in Int /\ load - s.shares[i] \in Int BY <1>2
    <2>. QED BY <1>1, <2>1 DEF TakenBy, Fewer
  <1>4. Share(s, c, load, i) = IF take > 0
                                THEN [shares |-> [s.shares EXCEPT ![i] = @ + take], used |-> s.used + take,
                                      workers |-> Append(s.workers, i)]
                                ELSE s
    BY <1>3 DEF Share, TakenBy
  <1>5. CASE take > 0
    <2>1. [s.shares EXCEPT ![i] = @ + take] \in [Slots -> Nat] BY <1>2, <1>5
    <2>2. s.used + take \in Nat BY <1>2, <1>5
    <2>3. Append(s.workers, i) \in Seq(Slots) /\ Append(s.workers, i) # <<>>
      <3>1. PICK w \in Seq(Slots) : w = s.workers BY <1>2
      <3>. QED BY <3>1, AppendProperties
    <2>4. PICK f \in [Slots -> Nat], u \in Nat, w \in Seq(Slots) :
             /\ f = [s.shares EXCEPT ![i] = @ + take] /\ u = s.used + take
             /\ w = Append(s.workers, i) /\ w # <<>>
      BY <2>1, <2>2, <2>3
    <2>5. Share(s, c, load, i) = [shares |-> f, used |-> u, workers |-> w] BY <1>4, <1>5, <2>4
    <2>6. [shares |-> f, used |-> u, workers |-> w] \in ShareType BY DEF ShareType
    <2>7. PICK n \in ShareType : n = [shares |-> f, used |-> u, workers |-> w] BY <2>6
    <2>8. n.shares = f /\ n.used = u /\ n.workers = w BY <2>7
    <2>9. Shared(n, s, take, i) BY <1>5, <2>4, <2>8 DEF Shared
    <2>. QED BY <1>3, <2>5, <2>7, <2>9
  <1>6. CASE ~ (take > 0)
    <2>1. Share(s, c, load, i) = s BY <1>4, <1>6
    <2>2. Shared(s, s, take, i) BY <1>6 DEF Shared
    <2>. QED BY <1>3, <2>1, <2>2
  <1>. QED BY <1>5, <1>6

ShareStates(r, shares, c, load) ==
    /\ r[0] = [shares |-> shares, used |-> 0, workers |-> <<>>]
    /\ \A k \in 1 .. PoolSize : r[k] = Share(r[k - 1], c, load, k - 1)
    /\ \A k \in 0 .. PoolSize : r[k] \in ShareType
    /\ Filled(shares, c, load) = r[PoolSize]

LEMMA ShareSteps ==
  ASSUME usage \in [Codes -> Nat], NEW c \in Codes, NEW load \in Nat, NEW shares \in [Slots -> Nat]
  PROVE  \E r : ShareStates(r, shares, c, load)
  <1> DEFINE n == PoolSize
             V == ShareType
             s == [k \in 1 .. PoolSize |-> k - 1]
             base == [shares |-> shares, used |-> 0, workers |-> <<>>]
             iter == CHOOSE h : h = [t \in SUBSET DOMAIN s |->
                        IF t = {} THEN base ELSE Share(h[t \ {Max(t)}], c, load, s[Max(t)])]
             op == [p \in V \X (1 .. n) |-> Share(p[1], c, load, s[p[2]])]
  <1>1. Filled(shares, c, load) = iter[DOMAIN s] BY Zenon DEF Filled, FoldLeft, MapThenFoldSet
  <1>2. n \in Nat /\ DOMAIN s = 1 .. n /\ \A k \in 1 .. n : s[k] \in Slots /\ s[k] = k - 1 BY DEF Slots
  <1>3. base \in V BY DEF ShareType
  <1>. HIDE DEF n, s, base, V
  <1>4. \A v \in V, k \in 1 .. n :
           Share(v, c, load, s[k]) \in V /\ op[<<v, k>>] = Share(v, c, load, s[k])
    BY <1>2, ShareKeepsType DEF V, Shared
  <1>5. op \in [V \X (1 .. n) -> V] BY <1>4
  <1>. HIDE DEF op
  <1>6. PICK g \in [SUBSET (1 .. n) -> V] : Tabulates(g, n, base, op)
    BY <1>2, <1>3, <1>5, FoldRecursion
  <1>7. ASSUME NEW h, NEW t \in SUBSET (1 .. n), t # {}, h[t \ {Max(t)}] \in V
        PROVE  op[<<h[t \ {Max(t)}], Max(t)>>] = Share(h[t \ {Max(t)}], c, load, s[Max(t)])
    <2>1. Max(t) \in 1 .. n BY <1>2, <1>7, MaxOfPositions
    <2>. QED BY <1>4, <1>7, <2>1
  <1>8. \E h : h = [t \in SUBSET DOMAIN s |->
                      IF t = {} THEN base ELSE Share(h[t \ {Max(t)}], c, load, s[Max(t)])]
    <2>1. \A t \in SUBSET (1 .. n) : t # {} => g[t \ {Max(t)}] \in V OBVIOUS
    <2>2. g = [t \in SUBSET DOMAIN s |->
                 IF t = {} THEN base ELSE Share(g[t \ {Max(t)}], c, load, s[Max(t)])]
      BY <1>2, <1>6, <1>7, <2>1 DEF Tabulates
    <2>. QED BY <2>2, Zenon
  <1>9. iter = [t \in SUBSET DOMAIN s |->
                  IF t = {} THEN base ELSE Share(iter[t \ {Max(t)}], c, load, s[Max(t)])]
    BY <1>8, Zenon
  <1>. HIDE DEF iter
  <1>10. Iterates(iter, n, V, base, op) BY <1>2, <1>7, <1>9 DEF Iterates
  <1>11. PICK r : States(r, n, V, base, op) /\ r[n] = iter[1 .. n]
    <2>1. Reaches(iter, n, V, base, op) BY <1>2, <1>3, <1>5, <1>10, FoldStates
    <2>. QED BY <2>1 DEF Reaches
  <1>12. \A k \in 1 .. n : k - 1 \in 0 .. n BY <1>2
  <1>13. \A k \in 1 .. n : r[k] = Share(r[k - 1], c, load, k - 1)
    <2>. SUFFICES ASSUME NEW k \in 1 .. n PROVE r[k] = Share(r[k - 1], c, load, k - 1) OBVIOUS
    <2>1. PICK v \in V : v = r[k - 1] BY <1>11, <1>12 DEF States
    <2>2. r[k] = op[<<v, k>>] BY <1>11, <2>1 DEF States
    <2>3. r[k] = Share(v, c, load, s[k]) BY <1>4, <2>2
    <2>4. s[k] = k - 1 BY <1>2
    <2>. QED BY <2>1, <2>3, <2>4
  <1>. QED BY <1>1, <1>2, <1>11, <1>13 DEF States, ShareStates, n, V, base

\* The shares when the workers are filled from the first on with a, up to top each.
Clamp(x, top) == IF x < 0 THEN 0 ELSE IF x > top THEN top ELSE x
Stairs(a, top) == [i \in Slots |-> Clamp(a - i * top, top)]

LEMMA StairAt ==
  ASSUME NEW b, NEW top, NEW i \in Slots
  PROVE  Stairs(b, top)[i] = Clamp(b - i * top, top)
  <1>. QED BY Zenon DEF Stairs

\* After its step k a contract of size d has filled the first k workers.
StairsUpTo(s, k, a, d, top) ==
    /\ \A i \in Slots : s.shares[i] = IF i < k THEN Clamp(a + d - i * top, top) ELSE Clamp(a - i * top, top)
    /\ s.used = Clamp(k * top - a, d)
    /\ s.workers = <<>> => s.used = 0

LEMMA OneStair ==
  ASSUME usage \in [Codes -> Nat], NEW c \in Codes, NEW load \in Nat \ {0}, NEW a \in Nat,
         NEW d \in Nat, d = usage[c] * PoolSize,
         NEW s \in ShareType, NEW k \in 1 .. PoolSize, StairsUpTo(s, k - 1, a, d, load)
  PROVE  StairsUpTo(Share(s, c, load, k - 1), k, a, d, load)
  <1>1. PICK i \in Slots : i = k - 1 BY DEF Slots
  <1>2. i \in Int /\ k \in Int BY <1>1 DEF Slots
  <1>3. PICK x \in Int : x = i * load /\ k * load = x + load
    <2>1. i * load \in Int /\ (i + 1) * load = i * load + load BY <1>2, ProductOrder
    <2>. QED BY <1>1, <1>2, <2>1
  <1>4. PICK u \in Int, w \in Int : u = s.used /\ w = s.shares[i] BY DEF ShareType
  <1>5. u = Clamp(x - a, d) /\ w = Clamp(a - x, load) BY <1>1, <1>2, <1>3, <1>4 DEF StairsUpTo
  <1>6. PICK take, n : Shared(n, s, take, i) /\ take = TakenBy(s, c, load, i) /\ n = Share(s, c, load, i)
    <2>1. load \in Nat OBVIOUS
    <2>2. Shared(Share(s, c, load, i), s, TakenBy(s, c, load, i), i) BY <2>1, ShareKeepsType
    <2>. QED BY <2>2
  <1>7. take = Fewer(d - u, load - w) BY <1>4, <1>6 DEF TakenBy
  <1>8. take \in Int BY <1>6 DEF Shared
  <1>9. /\ n \in ShareType
        /\ take <= 0 => n = s
        /\ take > 0 => /\ n.shares = [s.shares EXCEPT ![i] = @ + take]
                       /\ n.used = u + take /\ n.workers # <<>>
    BY <1>4, <1>6 DEF Shared
  <1>10. /\ take <= 0 => u = Clamp(x + load - a, d) /\ w = Clamp(a + d - x, load)
         /\ take > 0 => u + take = Clamp(x + load - a, d) /\ w + take = Clamp(a + d - x, load)
    <2>1. load > 0 /\ a >= 0 /\ d >= 0 /\ load \in Int /\ a \in Int /\ d \in Int OBVIOUS
    <2>2. CASE a >= x + load
      <3>1. u = 0 /\ w = load BY <1>5, <2>1, <2>2 DEF Clamp
      <3>2. take <= 0 BY <1>7, <2>1, <3>1 DEF Fewer
      <3>3. Clamp(x + load - a, d) = 0 /\ Clamp(a + d - x, load) = load BY <2>1, <2>2 DEF Clamp
      <3>. QED BY <1>8, <3>1, <3>2, <3>3
    <2>3. CASE x <= a /\ a < x + load
      <3>1. u = 0 /\ w = a - x BY <1>5, <2>1, <2>3 DEF Clamp
      <3>2. take = Fewer(d, x + load - a) BY <1>7, <2>1, <3>1
      <3>. QED BY <2>1, <2>3, <3>1, <3>2 DEF Clamp, Fewer
    <2>4. CASE a < x
      <3>1. w = 0 BY <1>5, <2>1, <2>4 DEF Clamp
      <3>2. CASE x - a >= d
        <4>1. u = d BY <1>5, <2>1, <2>4, <3>2 DEF Clamp
        <4>2. take = 0 BY <1>7, <2>1, <3>1, <4>1 DEF Fewer
        <4>3. Clamp(x + load - a, d) = d /\ Clamp(a + d - x, load) = 0
          BY <2>1, <2>4, <3>2 DEF Clamp
        <4>. QED BY <3>1, <4>1, <4>2, <4>3
      <3>3. CASE x - a < d
        <4>1. u = x - a BY <1>5, <2>1, <2>4, <3>3 DEF Clamp
        <4>2. take = Fewer(d - (x - a), load) BY <1>7, <2>1, <3>1, <4>1
        <4>. QED BY <2>1, <2>4, <3>1, <3>3, <4>1, <4>2 DEF Clamp, Fewer
      <3>. QED BY <2>1, <3>2, <3>3
    <2>. QED BY <2>1, <2>2, <2>3, <2>4
  <1>12. n.shares[i] = Clamp(a + d - x, load) /\ n.used = Clamp(x + load - a, d)
    <2>1. s.shares \in [Slots -> Nat] BY DEF ShareType
    <2>2. CASE take <= 0 BY <1>4, <1>9, <1>10, <2>2
    <2>3. CASE take > 0
      <3>1. n.shares[i] = w + take BY <1>4, <1>9, <2>1, <2>3
      <3>. QED BY <1>9, <1>10, <2>3, <3>1
    <2>. QED BY <1>8, <2>2, <2>3
  <1>13. \A j \in Slots : j # i => n.shares[j] = s.shares[j]
    <2>1. s.shares \in [Slots -> Nat] BY DEF ShareType
    <2>2. take <= 0 \/ take > 0 BY <1>8
    <2>. QED BY <1>9, <2>1, <2>2
  <1>14. \A j \in Slots : n.shares[j] = IF j < k THEN Clamp(a + d - j * load, load) ELSE Clamp(a - j * load, load)
    <2>. SUFFICES ASSUME NEW j \in Slots
                  PROVE  n.shares[j] = IF j < k THEN Clamp(a + d - j * load, load) ELSE Clamp(a - j * load, load)
      OBVIOUS
    <2>1. j \in Int BY DEF Slots
    <2>2. CASE j = i
      <3>1. j < k /\ j * load = x BY <1>1, <1>2, <1>3, <2>2
      <3>. QED BY <1>12, <2>2, <3>1
    <2>3. CASE j # i
      <3>1. j < k <=> j < k - 1 BY <1>1, <1>2, <2>1, <2>3
      <3>2. s.shares[j] = IF j < k - 1 THEN Clamp(a + d - j * load, load) ELSE Clamp(a - j * load, load)
        BY DEF StairsUpTo
      <3>. QED BY <1>13, <2>3, <3>1, <3>2
    <2>. QED BY <2>2, <2>3
  <1>15. n.workers = <<>> => n.used = 0
    BY <1>2, <1>8, <1>4, <1>9 DEF StairsUpTo
  <1>. QED BY <1>1, <1>3, <1>6, <1>12, <1>14, <1>15 DEF StairsUpTo

FillsOnTop(f, a, d, load) ==
    /\ f \in ShareType /\ f.shares = Stairs(a + d, load)
    /\ a < PoolSize * load => f.workers # <<>>

\* A contract that comes while there is room gets a worker, and the workers stay filled
\* from the first on.
LEMMA FilledOnTop ==
  ASSUME usage \in [Codes -> Nat], NEW c \in Codes, NEW load \in Nat \ {0}, NEW a \in Nat,
         NEW d \in Nat \ {0}, d = usage[c] * PoolSize
  PROVE  FillsOnTop(Filled(Stairs(a, load), c, load), a, d, load)
  <1>1. \A i \in Slots, b \in Nat : Clamp(b - i * load, load) \in Nat
    <2>. SUFFICES ASSUME NEW i \in Slots, NEW b \in Nat PROVE Clamp(b - i * load, load) \in Nat OBVIOUS
    <2>1. PICK x \in Int : x = i * load BY DEF Slots
    <2>. QED BY <2>1 DEF Clamp
  <1>2. \A b \in Nat : Stairs(b, load) \in [Slots -> Nat] BY <1>1 DEF Stairs
  <1>3. PICK r : ShareStates(r, Stairs(a, load), c, load) BY <1>2, ShareSteps
  <1> DEFINE P == {k \in 0 .. PoolSize : StairsUpTo(r[k], k, a, d, load)}
  <1>4. 0 \in P
    <2>1. \A i \in Slots : ~ (i < 0) BY DEF Slots
    <2>2. 0 * load - a <= 0 OBVIOUS
    <2>3. Clamp(0 * load - a, d) = 0 BY <2>2 DEF Clamp
    <2>. QED BY <1>3, <2>1, <2>3 DEF ShareStates, StairsUpTo, Stairs
  <1>5. ASSUME NEW k \in 1 .. PoolSize, k - 1 \in P PROVE k \in P
    <2>1. r[k] = Share(r[k - 1], c, load, k - 1) /\ r[k - 1] \in ShareType BY <1>3 DEF ShareStates
    <2>2. PICK s \in ShareType : s = r[k - 1] BY <2>1
    <2>3. StairsUpTo(Share(s, c, load, k - 1), k, a, d, load) BY <1>5, <2>2, OneStair
    <2>. QED BY <2>1, <2>2, <2>3
  <1>6. \A k \in 0 .. PoolSize : k \in P
    <2>. HIDE DEF P
    <2>. QED BY <1>4, <1>5, Ascend
  <1>7. PICK f \in ShareType : f = Filled(Stairs(a, load), c, load) /\ StairsUpTo(f, PoolSize, a, d, load)
    <2>1. PoolSize \in 0 .. PoolSize OBVIOUS
    <2>. QED BY <1>3, <1>6, <2>1 DEF ShareStates
  <1>8. \A i \in Slots : i < PoolSize BY DEF Slots
  <1>9. f.shares \in [Slots -> Nat] BY DEF ShareType
  <1>10. \A i \in Slots : f.shares[i] = Stairs(a + d, load)[i] 
    <2>. SUFFICES ASSUME NEW i \in Slots PROVE f.shares[i] = Stairs(a + d, load)[i] OBVIOUS
    <2>1. f.shares[i] = Clamp(a + d - i * load, load) BY <1>7, <1>8 DEF StairsUpTo
    <2>2. PICK b \in Int, x \in Int : b = a + d /\ x = i * load BY DEF Slots
    <2>3. PICK g : g = Stairs(b, load)[i] /\ g = Clamp(b - i * load, load) BY StairAt
    <2>4. g = Clamp(b - x, load) BY <2>2, <2>3
    <2>5. f.shares[i] = Clamp(b - x, load) BY <2>1, <2>2
    <2>. QED BY <2>2, <2>3, <2>4, <2>5
  <1>11. f.shares = Stairs(a + d, load) BY <1>9, <1>10 DEF Stairs
  <1>12. ASSUME a < PoolSize * load PROVE f.workers # <<>>
    <2>1. PICK x \in Int : x = PoolSize * load OBVIOUS
    <2>2. Clamp(x - a, d) > 0 BY <1>12, <2>1 DEF Clamp
    <2>3. f.used > 0 BY <1>7, <2>1, <2>2 DEF StairsUpTo
    <2>. QED BY <1>7, <2>3 DEF StairsUpTo
  <1>. QED BY <1>7, <1>11, <1>12 DEF FillsOnTop


-----------------------------------------------------------------------------
(* Routing: the workers of all contracts *)

MapType == [Codes -> Seq(Slots)]
ProposalType == [shares : [Slots -> Nat], map : MapType]
EmptyProposal == [shares |-> [i \in Slots |-> 0], map |-> [c \in Codes |-> <<>>]]

LEMMA FilledType ==
  ASSUME usage \in [Codes -> Nat], NEW c \in Codes, NEW load \in Nat, NEW shares \in [Slots -> Nat]
  PROVE  Filled(shares, c, load) \in ShareType
  <1>1. PICK r : ShareStates(r, shares, c, load) BY ShareSteps
  <1>2. PoolSize \in 0 .. PoolSize OBVIOUS
  <1>. QED BY <1>1, <1>2 DEF ShareStates

LEMMA ProposeType ==
  ASSUME usage \in [Codes -> Nat], NEW c \in Codes, NEW load \in Nat, NEW p \in ProposalType
  PROVE  Propose(p, c, load) \in ProposalType
  <1>1. PICK f \in ShareType : f = Filled(p.shares, c, load) BY FilledType DEF ProposalType
  <1>2. Propose(p, c, load) = [shares |-> f.shares, map |-> [p.map EXCEPT ![c] = f.workers]]
    BY <1>1 DEF Propose
  <1>3. f.shares \in [Slots -> Nat] /\ f.workers \in Seq(Slots) BY DEF ShareType
  <1>4. p.map \in MapType BY DEF ProposalType
  <1>5. [p.map EXCEPT ![c] = f.workers] \in MapType BY <1>3, <1>4 DEF MapType
  <1>. QED BY <1>2, <1>3, <1>5 DEF ProposalType

ProposeStates(r, n) ==
    /\ r[0] = EmptyProposal
    /\ \A k \in 1 .. n : r[k] = Propose(r[k - 1], order[k], TotalHits)
    /\ \A k \in 0 .. n : r[k] \in ProposalType
    /\ Proposed = r[n].map

LEMMA ProposeSteps ==
  ASSUME usage \in [Codes -> Nat], order \in Seq(Codes), TotalHits \in Nat
  PROVE  \E r : ProposeStates(r, Len(order))
  <1> DEFINE n == Len(order)
             V == ProposalType
             load == TotalHits
             base == EmptyProposal
             iter == CHOOSE h : h = [t \in SUBSET DOMAIN order |->
                        IF t = {} THEN base ELSE Propose(h[t \ {Max(t)}], order[Max(t)], load)]
             op == [p \in V \X (1 .. n) |-> Propose(p[1], order[p[2]], load)]
  <1>1. Proposed = iter[DOMAIN order].map BY Zenon DEF Proposed, EmptyProposal, FoldLeft, MapThenFoldSet
  <1>2. n \in Nat /\ DOMAIN order = 1 .. n /\ \A k \in 1 .. n : order[k] \in Codes OBVIOUS
  <1>3. base \in V BY DEF EmptyProposal, ProposalType, MapType
  <1>. HIDE DEF n, base, V
  <1>4. \A v \in V, k \in 1 .. n :
           Propose(v, order[k], load) \in V /\ op[<<v, k>>] = Propose(v, order[k], load)
    BY <1>2, ProposeType DEF V
  <1>5. op \in [V \X (1 .. n) -> V] BY <1>4
  <1>. HIDE DEF op
  <1>6. PICK g \in [SUBSET (1 .. n) -> V] : Tabulates(g, n, base, op)
    BY <1>2, <1>3, <1>5, FoldRecursion
  <1>7. ASSUME NEW h, NEW t \in SUBSET (1 .. n), t # {}, h[t \ {Max(t)}] \in V
        PROVE  op[<<h[t \ {Max(t)}], Max(t)>>] = Propose(h[t \ {Max(t)}], order[Max(t)], load)
    <2>1. Max(t) \in 1 .. n BY <1>2, <1>7, MaxOfPositions
    <2>. QED BY <1>4, <1>7, <2>1
  <1>8. \E h : h = [t \in SUBSET DOMAIN order |->
                      IF t = {} THEN base ELSE Propose(h[t \ {Max(t)}], order[Max(t)], load)]
    <2>1. \A t \in SUBSET (1 .. n) : t # {} => g[t \ {Max(t)}] \in V OBVIOUS
    <2>2. g = [t \in SUBSET DOMAIN order |->
                 IF t = {} THEN base ELSE Propose(g[t \ {Max(t)}], order[Max(t)], load)]
      BY <1>2, <1>6, <1>7, <2>1 DEF Tabulates
    <2>. QED BY <2>2, Zenon
  <1>9. iter = [t \in SUBSET DOMAIN order |->
                  IF t = {} THEN base ELSE Propose(iter[t \ {Max(t)}], order[Max(t)], load)]
    BY <1>8, Zenon
  <1>. HIDE DEF iter
  <1>10. Iterates(iter, n, V, base, op) BY <1>2, <1>7, <1>9 DEF Iterates
  <1>11. PICK r : States(r, n, V, base, op) /\ r[n] = iter[1 .. n]
    <2>1. Reaches(iter, n, V, base, op) BY <1>2, <1>3, <1>5, <1>10, FoldStates
    <2>. QED BY <2>1 DEF Reaches
  <1>12. \A k \in 1 .. n : k - 1 \in 0 .. n BY <1>2
  <1>13. \A k \in 1 .. n : r[k] = Propose(r[k - 1], order[k], load)
    <2>. SUFFICES ASSUME NEW k \in 1 .. n PROVE r[k] = Propose(r[k - 1], order[k], load) OBVIOUS
    <2>1. PICK v \in V : v = r[k - 1] BY <1>11, <1>12 DEF States
    <2>2. r[k] = op[<<v, k>>] BY <1>11, <2>1 DEF States
    <2>. QED BY <1>4, <2>1, <2>2
  <1>. QED BY <1>1, <1>2, <1>11, <1>13 DEF States, ProposeStates, n, V, base

\* The hits counted so far are fewer than all as long as a contract is left.
LEMMA CountsGrow ==
  ASSUME NEW n \in Nat, NEW r, CountStates(r, n), \A k \in 1 .. n : order[k] \in Codes,
         usage \in [Codes -> Nat], \A k \in 1 .. n : usage[order[k]] > 0
  PROVE  \A k \in 1 .. n : r[k - 1] < TotalHits
  <1>1. \A k \in 0 .. n : r[k] \in Nat BY DEF CountStates
  <1>2. ASSUME NEW k \in 1 .. n PROVE r[k - 1] < r[k]
    <2>1. k - 1 \in 0 .. n OBVIOUS
    <2>2. PICK u \in Nat, v \in Nat : u = r[k - 1] /\ v = usage[order[k]] BY <1>1, <2>1
    <2>3. v > 0 /\ r[k] = u + v BY <2>2 DEF CountStates
    <2>. QED BY <2>2, <2>3
  <1> DEFINE P == {k \in 0 .. n : \A j \in 0 .. k : r[j] <= r[k]}
  <1>3. 0 \in P
    <2>1. \A j \in 0 .. 0 : j = 0 OBVIOUS
    <2>2. r[0] \in Nat BY <1>1
    <2>. QED BY <2>1, <2>2
  <1>4. ASSUME NEW k \in 1 .. n, k - 1 \in P PROVE k \in P
    <2>. SUFFICES ASSUME NEW j \in 0 .. k PROVE r[j] <= r[k] OBVIOUS
    <2>1. k - 1 \in 0 .. n /\ k \in 0 .. n /\ j \in 0 .. n OBVIOUS
    <2>2. PICK u \in Nat, v \in Nat, w \in Nat : u = r[k - 1] /\ v = r[k] /\ w = r[j] BY <1>1, <2>1
    <2>3. u < v BY <1>2, <2>2
    <2>4. CASE j = k BY <2>2, <2>4
    <2>5. CASE j # k
      <3>1. j \in 0 .. (k - 1) BY <2>5
      <3>2. w <= u BY <1>4, <2>2, <3>1
      <3>. QED BY <2>2, <2>3, <3>2
    <2>. QED BY <2>4, <2>5
  <1>5. \A k \in 0 .. n : k \in P
    <2>. HIDE DEF P
    <2>. QED BY <1>3, <1>4, Ascend
  <1>6. ASSUME NEW k \in 1 .. n PROVE r[k - 1] < TotalHits
    <2>1. n \in P /\ k \in 0 .. n /\ k - 1 \in 0 .. n BY <1>5
    <2>2. PICK u \in Nat, v \in Nat, w \in Nat : u = r[k - 1] /\ v = r[k] /\ w = r[n] BY <1>1, <2>1
    <2>3. u < v /\ v <= w BY <1>2, <2>1, <2>2
    <2>. QED BY <2>2, <2>3 DEF CountStates
  <1>. QED BY <1>6

Placed(q, p, c, t, load) ==
    /\ q.shares = Stairs((t + usage[c]) * PoolSize, load)
    /\ q.map[c] # <<>>
    /\ \A b \in Codes : p.map[b] # <<>> => q.map[b] # <<>>

LEMMA OneProposal ==
  ASSUME usage \in [Codes -> Nat], NEW c \in Codes, usage[c] > 0, NEW load \in Nat \ {0},
         NEW t \in Nat, t < load,
         NEW p \in ProposalType, p.shares = Stairs(t * PoolSize, load)
  PROVE  Placed(Propose(p, c, load), p, c, t, load)
  <1>1. PICK u \in Nat \ {0} : u = usage[c] OBVIOUS
  <1>2. PICK a \in Nat : a = t * PoolSize OBVIOUS
  <1>3. PICK d \in Nat \ {0} : d = u * PoolSize
    <2>1. u * PoolSize \in Nat OBVIOUS
    <2>2. 0 * PoolSize = 0 OBVIOUS
    <2>3. u * PoolSize # 0
      <3>1. 1 * PoolSize <= u * PoolSize BY ProductOrder
      <3>2. 1 * PoolSize = PoolSize OBVIOUS
      <3>. QED BY <2>1, <3>1, <3>2
    <2>. QED BY <2>1, <2>3
  <1>4. (t + u) * PoolSize = a + d BY <1>2, <1>3
  <1>5. a < PoolSize * load
    <2>1. t \in Int /\ load \in Int /\ t <= load - 1 OBVIOUS
    <2>2. t * PoolSize <= (load - 1) * PoolSize BY <2>1, ProductOrder
    <2>3. (load - 1) * PoolSize = load * PoolSize - PoolSize BY <2>1, ProductOrder
    <2>4. PICK x \in Int : x = load * PoolSize OBVIOUS
    <2>5. PoolSize * load = x BY <2>4
    <2>. QED BY <1>2, <2>2, <2>3, <2>4, <2>5
  <1>6. PICK f : f = Filled(Stairs(a, load), c, load) OBVIOUS
  <1>7. f \in ShareType /\ f.shares = Stairs(a + d, load) /\ f.workers # <<>>
    <2>1. d = usage[c] * PoolSize BY <1>1, <1>3
    <2>2. FillsOnTop(Filled(Stairs(a, load), c, load), a, d, load) BY <2>1, FilledOnTop
    <2>. QED BY <1>5, <1>6, <2>2 DEF FillsOnTop
  <1>8. PICK q : q = Propose(p, c, load) OBVIOUS
  <1>9. q = [shares |-> f.shares, map |-> [p.map EXCEPT ![c] = f.workers]]
    BY <1>2, <1>6, <1>8 DEF Propose
  <1>10. p.map \in MapType BY DEF ProposalType
  <1>11. q.map[c] # <<>> /\ \A b \in Codes : p.map[b] # <<>> => q.map[b] # <<>>
    BY <1>7, <1>9, <1>10 DEF MapType
  <1>12. q.shares = Stairs((t + usage[c]) * PoolSize, load) BY <1>1, <1>4, <1>7, <1>9
  <1>. QED BY <1>8, <1>11, <1>12 DEF Placed

\* The first phase gives every contract a worker.
LEMMA ProposedGives ==
  ASSUME usage \in [Codes -> Nat], order \in Seq(Codes),
         \A k \in DOMAIN order : usage[order[k]] > 0
  PROVE  Proposed \in MapType /\ \A k \in DOMAIN order : Proposed[order[k]] # <<>>
  <1>1. PICK n \in Nat : n = Len(order) /\ DOMAIN order = 1 .. n /\ \A k \in 1 .. n : order[k] \in Codes
    OBVIOUS
  <1>2. PICK sums : CountStates(sums, n) BY <1>1, CountSteps
  <1>3. \A k \in 0 .. n : sums[k] \in Nat BY <1>2 DEF CountStates
  <1>4. \A k \in 1 .. n : usage[order[k]] > 0 BY <1>1
  <1>5. PICK load \in Nat : load = TotalHits BY <1>2, <1>3 DEF CountStates
  <1>6. \A k \in 1 .. n : sums[k - 1] < load BY <1>1, <1>2, <1>4, <1>5, CountsGrow
  <1>7. PICK r : ProposeStates(r, n) BY <1>1, <1>5, ProposeSteps
  <1> DEFINE P == {k \in 0 .. n : /\ r[k].shares = Stairs(sums[k] * PoolSize, load)
                                  /\ \A j \in 1 .. k : r[k].map[order[j]] # <<>>}
  <1>8. 0 \in P
    <2>1. Stairs(0, load) = [i \in Slots |-> 0]
      <3>1. ASSUME NEW i \in Slots PROVE Clamp(0 - i * load, load) = 0
        <4>1. PICK x \in Int : x = i * load /\ x >= 0 BY DEF Slots
        <4>2. Clamp(0 - x, load) = 0 BY <4>1 DEF Clamp
        <4>. QED BY <4>1, <4>2
      <3>. QED BY <3>1 DEF Stairs
    <2>2. sums[0] * PoolSize = 0 BY <1>2 DEF CountStates
    <2>3. r[0].shares = [i \in Slots |-> 0] BY <1>7 DEF ProposeStates, EmptyProposal
    <2>4. r[0].shares = Stairs(sums[0] * PoolSize, load) BY <2>1, <2>2, <2>3
    <2>. QED BY <2>4
  <1>9. ASSUME NEW k \in 1 .. n, k - 1 \in P PROVE k \in P
    <2>1. k \in 0 .. n /\ k - 1 \in 0 .. n BY <1>1
    <2>2. PICK p \in ProposalType, q \in ProposalType : p = r[k - 1] /\ q = r[k]
      BY <1>7, <2>1 DEF ProposeStates
    <2>3. PICK c \in Codes : c = order[k] /\ usage[c] > 0 BY <1>1, <1>4
    <2>4. PICK t \in Nat : t = sums[k - 1] /\ t < load BY <1>3, <1>6, <2>1
    <2>5. q = Propose(p, c, load) BY <1>5, <1>7, <2>2, <2>3 DEF ProposeStates
    <2>6. p.shares = Stairs(t * PoolSize, load) /\ \A j \in 1 .. (k - 1) : p.map[order[j]] # <<>>
      BY <1>9, <2>2, <2>4
    <2>7. load \in Nat \ {0} BY <2>4
    <2>8. /\ q.shares = Stairs((t + usage[c]) * PoolSize, load)
          /\ q.map[c] # <<>>
          /\ \A b \in Codes : p.map[b] # <<>> => q.map[b] # <<>>
      <3>1. Placed(q, p, c, t, load) BY <2>3, <2>4, <2>5, <2>6, <2>7, OneProposal
      <3>. QED BY <3>1 DEF Placed
    <2>9. sums[k] = t + usage[c] BY <1>2, <2>3, <2>4 DEF CountStates
    <2>10. \A j \in 1 .. k : q.map[order[j]] # <<>>
      <3>. SUFFICES ASSUME NEW j \in 1 .. k PROVE q.map[order[j]] # <<>> OBVIOUS
      <3>1. CASE j = k BY <2>3, <2>8, <3>1
      <3>2. CASE j # k
        <4>1. j \in 1 .. (k - 1) /\ j \in 1 .. n BY <1>1, <3>2
        <4>. QED BY <1>1, <2>6, <2>8, <4>1
      <3>. QED BY <3>1, <3>2
    <2>. QED BY <2>1, <2>2, <2>8, <2>9, <2>10
  <1>10. \A k \in 0 .. n : k \in P
    <2>. HIDE DEF P
    <2>. QED BY <1>1, <1>8, <1>9, Ascend
  <1>11. n \in 0 .. n BY <1>1
  <1>12. \A j \in 1 .. n : r[n].map[order[j]] # <<>> BY <1>10, <1>11
  <1>13. r[n].map \in MapType BY <1>7, <1>11 DEF ProposeStates, ProposalType
  <1>. QED BY <1>1, <1>7, <1>12, <1>13 DEF ProposeStates

-----------------------------------------------------------------------------
(* Routing: spreading the contracts *)

LEMMA RebalanceKeeps ==
  ASSUME NEW map \in MapType, NEW crowded, NEW c \in Codes
  PROVE  /\ Rebalance(map, crowded, c) \in MapType
         /\ \A b \in Codes : map[b] # <<>> => Rebalance(map, crowded, c)[b] # <<>>
  <1> DEFINE free == {i \in Slots : CountOf(map, i) * PoolSize < Len(order)}
             least == CHOOSE i \in free : \A j \in free : i <= j
  <1>1. Rebalance(map, crowded, c) = IF Len(map[c]) = 1 /\ map[c][1] \in crowded /\ free # {}
                                     THEN [map EXCEPT ![c] = <<least>>] ELSE map
    BY Zenon DEF Rebalance
  <1>2. CASE Rebalance(map, crowded, c) = map BY <1>2
  <1>3. CASE Rebalance(map, crowded, c) # map
    <2>1. free # {} /\ Rebalance(map, crowded, c) = [map EXCEPT ![c] = <<least>>] BY <1>1, <1>3
    <2>2. free \in SUBSET Nat /\ free \in SUBSET Slots BY DEF Slots
    <2>. HIDE DEF free
    <2>3. \E m \in free : \A j \in free : m <= j BY <2>1, <2>2, LeastNumber
    <2>4. least \in free BY <2>3
    <2>. HIDE DEF least
    <2>5. PICK m \in Slots : m = least BY <2>2, <2>4
    <2>6. <<m>> \in Seq(Slots) /\ <<m>> # <<>> OBVIOUS
    <2>7. PICK w \in Seq(Slots) : w = <<least>> /\ w # <<>> BY <2>5, <2>6
    <2>8. Rebalance(map, crowded, c) = [map EXCEPT ![c] = w] BY <2>1, <2>7
    <2>. QED BY <2>7, <2>8 DEF MapType
  <1>. QED BY <1>2, <1>3

SpreadStates(r, n, base, crowded) ==
    /\ r[0] = base
    /\ \A k \in 1 .. n : r[k] = Rebalance(r[k - 1], crowded, order[k])
    /\ \A k \in 0 .. n : r[k] \in MapType

LEMMA SpreadSteps ==
  ASSUME order \in Seq(Codes), Proposed \in MapType
  PROVE  \E r, crowded : SpreadStates(r, Len(order), Proposed, crowded) /\ Balanced = r[Len(order)]
  <1> DEFINE n == Len(order)
             V == MapType
             crowded == Crowded(Proposed)
             base == Proposed
             iter == CHOOSE h : h = [t \in SUBSET DOMAIN order |->
                        IF t = {} THEN base ELSE Rebalance(h[t \ {Max(t)}], crowded, order[Max(t)])]
             op == [p \in V \X (1 .. n) |-> Rebalance(p[1], crowded, order[p[2]])]
  <1>1. Balanced = iter[DOMAIN order] BY Zenon DEF Balanced, FoldLeft, MapThenFoldSet
  <1>2. n \in Nat /\ DOMAIN order = 1 .. n /\ \A k \in 1 .. n : order[k] \in Codes OBVIOUS
  <1>3. base \in V OBVIOUS
  <1>. HIDE DEF n, base, V, crowded
  <1>4. \A v \in V, k \in 1 .. n :
           Rebalance(v, crowded, order[k]) \in V /\ op[<<v, k>>] = Rebalance(v, crowded, order[k])
    BY <1>2, RebalanceKeeps DEF V
  <1>5. op \in [V \X (1 .. n) -> V] BY <1>4
  <1>. HIDE DEF op
  <1>6. PICK g \in [SUBSET (1 .. n) -> V] : Tabulates(g, n, base, op)
    BY <1>2, <1>3, <1>5, FoldRecursion
  <1>7. ASSUME NEW h, NEW t \in SUBSET (1 .. n), t # {}, h[t \ {Max(t)}] \in V
        PROVE  op[<<h[t \ {Max(t)}], Max(t)>>] = Rebalance(h[t \ {Max(t)}], crowded, order[Max(t)])
    <2>1. Max(t) \in 1 .. n BY <1>2, <1>7, MaxOfPositions
    <2>. QED BY <1>4, <1>7, <2>1
  <1>8. \E h : h = [t \in SUBSET DOMAIN order |->
                      IF t = {} THEN base ELSE Rebalance(h[t \ {Max(t)}], crowded, order[Max(t)])]
    <2>1. \A t \in SUBSET (1 .. n) : t # {} => g[t \ {Max(t)}] \in V OBVIOUS
    <2>2. g = [t \in SUBSET DOMAIN order |->
                 IF t = {} THEN base ELSE Rebalance(g[t \ {Max(t)}], crowded, order[Max(t)])]
      BY <1>2, <1>6, <1>7, <2>1 DEF Tabulates
    <2>. QED BY <2>2, Zenon
  <1>9. iter = [t \in SUBSET DOMAIN order |->
                  IF t = {} THEN base ELSE Rebalance(iter[t \ {Max(t)}], crowded, order[Max(t)])]
    BY <1>8, Zenon
  <1>. HIDE DEF iter
  <1>10. Iterates(iter, n, V, base, op) BY <1>2, <1>7, <1>9 DEF Iterates
  <1>11. PICK r : States(r, n, V, base, op) /\ r[n] = iter[1 .. n]
    <2>1. Reaches(iter, n, V, base, op) BY <1>2, <1>3, <1>5, <1>10, FoldStates
    <2>. QED BY <2>1 DEF Reaches
  <1>12. \A k \in 1 .. n : k - 1 \in 0 .. n BY <1>2
  <1>13. \A k \in 1 .. n : r[k] = Rebalance(r[k - 1], crowded, order[k])
    <2>. SUFFICES ASSUME NEW k \in 1 .. n PROVE r[k] = Rebalance(r[k - 1], crowded, order[k]) OBVIOUS
    <2>1. PICK v \in V : v = r[k - 1] BY <1>11, <1>12 DEF States
    <2>2. r[k] = op[<<v, k>>] BY <1>11, <2>1 DEF States
    <2>. QED BY <1>4, <2>1, <2>2
  <1>14. SpreadStates(r, n, base, crowded) BY <1>11, <1>13 DEF States, SpreadStates, V
  <1>15. Balanced = r[n] BY <1>1, <1>2, <1>11
  <1>. QED BY <1>14, <1>15 DEF n, base

LEMMA BalancedGives ==
  ASSUME usage \in [Codes -> Nat], order \in Seq(Codes),
         \A k \in DOMAIN order : usage[order[k]] > 0
  PROVE  Balanced \in MapType /\ \A k \in DOMAIN order : Balanced[order[k]] # <<>>
  <1>1. Proposed \in MapType /\ \A k \in DOMAIN order : Proposed[order[k]] # <<>> BY ProposedGives
  <1>2. PICK n \in Nat : n = Len(order) /\ DOMAIN order = 1 .. n /\ \A k \in 1 .. n : order[k] \in Codes
    OBVIOUS
  <1>3. PICK r, crowded : SpreadStates(r, n, Proposed, crowded) /\ Balanced = r[n]
    BY <1>1, <1>2, SpreadSteps
  <1> DEFINE P == {k \in 0 .. n : \A j \in 1 .. n : r[k][order[j]] # <<>>}
  <1>4. 0 \in P BY <1>1, <1>2, <1>3 DEF SpreadStates
  <1>5. ASSUME NEW k \in 1 .. n, k - 1 \in P PROVE k \in P
    <2>1. k \in 0 .. n /\ k - 1 \in 0 .. n BY <1>2
    <2>2. PICK m \in MapType : m = r[k - 1] /\ r[k] = Rebalance(m, crowded, order[k])
      BY <1>3, <2>1 DEF SpreadStates
    <2>3. \A b \in Codes : m[b] # <<>> => r[k][b] # <<>> BY <1>2, <2>2, RebalanceKeeps
    <2>. QED BY <1>2, <1>5, <2>1, <2>2, <2>3
  <1>6. \A k \in 0 .. n : k \in P
    <2>. HIDE DEF P
    <2>. QED BY <1>2, <1>4, <1>5, Ascend
  <1>7. n \in 0 .. n BY <1>2
  <1>8. Balanced \in MapType BY <1>3, <1>7 DEF SpreadStates
  <1>. QED BY <1>2, <1>3, <1>6, <1>7, <1>8

-----------------------------------------------------------------------------
(* Routing: the theorem *)

\* What is kept beside the map: contracts are listed when they have hits, and hits are
\* never taken away.
RoutingInv ==
    /\ order \in Seq(Codes) /\ usage \in [Codes -> Nat]
    /\ hits \in [1 .. PoolSize -> [Codes -> Nat]]
    /\ \A k \in DOMAIN order : usage[order[k]] > 0
    /\ EveryContractHasWorker

LEMMA RoutingInvInit == RoutingInit => RoutingInv
  <1>. SUFFICES ASSUME RoutingInit PROVE RoutingInv OBVIOUS
  <1>1. order \in Seq(Codes) /\ DOMAIN order = {} BY DEF RoutingInit
  <1>2. usage \in [Codes -> Nat] /\ hits \in [1 .. PoolSize -> [Codes -> Nat]] BY DEF RoutingInit
  <1>3. EveryContractHasWorker BY DEF RoutingInit, EveryContractHasWorker
  <1>. QED BY <1>1, <1>2, <1>3 DEF RoutingInv

LEMMA RouteKeeps == RoutingInv /\ RouteToPool => RoutingInv'
  <1>. SUFFICES ASSUME RoutingInv, NEW trace \in Traces, NEW q, Deliver(trace, q),
                       UNCHANGED <<filter, usage, order, assigned, poolMap>>
                PROVE  RoutingInv'
    BY DEF RouteToPool
  <1>1. IsFiniteSet(DOMAIN trace) BY RoutingAssumption
  <1>2. \A c \in Codes : Cardinality({i \in DOMAIN trace : trace[i].code = c}) \in Nat
    <2>. SUFFICES ASSUME NEW c \in Codes PROVE Cardinality({i \in DOMAIN trace : trace[i].code = c}) \in Nat
      OBVIOUS
    <2>1. {i \in DOMAIN trace : trace[i].code = c} \in SUBSET DOMAIN trace OBVIOUS
    <2>2. IsFiniteSet({i \in DOMAIN trace : trace[i].code = c}) BY <1>1, <2>1, FS_Subset
    <2>. QED BY <2>2, FS_CardinalityType
  <1>3. hits' \in [1 .. PoolSize -> [Codes -> Nat]]
    <2>1. CASE q \in 1 .. PoolSize
      <3>1. PICK more \in [Codes -> Nat] :
               more = [c \in Codes |-> Cardinality({i \in DOMAIN trace : trace[i].code = c})]
        BY <1>2
      <3>2. PICK h \in [Codes -> Nat] : h = hits[q] BY <2>1 DEF RoutingInv
      <3>3. hits' = [hits EXCEPT ![q] = [c \in Codes |->
                       h[c] + Cardinality({i \in DOMAIN trace : trace[i].code = c})]]
        BY <2>1, <3>2 DEF Deliver
      <3>4. PICK g : g = [c \in Codes |-> h[c] + Cardinality({i \in DOMAIN trace : trace[i].code = c})]
        OBVIOUS
      <3>5. g = [c \in Codes |-> h[c] + more[c]] BY <3>1, <3>4
      <3>6. g \in [Codes -> Nat] BY <3>5
      <3>7. hits' = [hits EXCEPT ![q] = g] BY <3>3, <3>4
      <3>. QED BY <2>1, <3>6, <3>7 DEF RoutingInv
    <2>2. CASE q \notin 1 .. PoolSize BY <2>2 DEF Deliver, RoutingInv
    <2>. QED BY <2>1, <2>2
  <1>. QED BY <1>3 DEF RoutingInv, EveryContractHasWorker

LEMMA ReportKeeps == RoutingInv /\ (\E q \in 1 .. PoolSize : Report(q)) => RoutingInv'
  <1>. SUFFICES ASSUME RoutingInv, NEW q \in 1 .. PoolSize, Report(q) PROVE RoutingInv'
    OBVIOUS
  <1>1. PICK h \in [Codes -> Nat] : h = hits[q] BY DEF RoutingInv
  <1> DEFINE met == {c \in Codes : hits[q][c] > 0}
             new == {c \in met : usage[c] = 0}
  <1>2. PICK s \in SetToSeqs(new) : order' = order \o s BY DEF Report
  <1>3. new \in SUBSET Codes /\ \A c \in new : h[c] > 0 BY <1>1
  <1>. HIDE DEF new
  <1>4. PICK m \in Nat : m = Cardinality(new)
    <2>1. IsFiniteSet(new) BY <1>3, RoutingAssumption, FS_Subset
    <2>. QED BY <2>1, FS_CardinalityType
  <1>5. s \in [1 .. m -> new] BY <1>2, <1>4 DEF SetToSeqs
  <1>6. PICK n \in Nat : n = Len(order) /\ DOMAIN order = 1 .. n /\ \A k \in 1 .. n : order[k] \in Codes
    BY DEF RoutingInv
  <1>7. s \in Seq(Codes) /\ Len(s) = m /\ \A k \in 1 .. m : s[k] \in new
    <2>1. s \in [1 .. m -> Codes] BY <1>3, <1>5
    <2>. QED BY <1>5, <2>1
  <1>8. usage' = [c \in Codes |-> usage[c] + h[c]] BY <1>1 DEF Report
  <1>9. usage' \in [Codes -> Nat] /\ \A c \in Codes : usage[c] > 0 \/ h[c] > 0 => usage'[c] > 0
    <2>. SUFFICES ASSUME NEW c \in Codes PROVE usage'[c] \in Nat /\ (usage[c] > 0 \/ h[c] > 0 => usage'[c] > 0)
      BY <1>8
    <2>1. PICK u \in Nat, v \in Nat : u = usage[c] /\ v = h[c] BY DEF RoutingInv
    <2>2. usage'[c] = u + v BY <1>8, <2>1
    <2>. QED BY <2>1, <2>2
  <1>10. order' \in Seq(Codes) /\ Len(order') = n + m
         /\ \A k \in 1 .. (n + m) : order'[k] = IF k <= n THEN order[k] ELSE s[k - n]
    <2>1. PICK o \in Seq(Codes), w \in Seq(Codes) : o = order /\ w = s BY <1>7 DEF RoutingInv
    <2>2. /\ o \o w \in Seq(Codes) /\ Len(o \o w) = Len(o) + Len(w)
          /\ \A i \in 1 .. Len(o) + Len(w) : (o \o w)[i] = IF i <= Len(o) THEN o[i] ELSE w[i - Len(o)]
      BY ConcatProperties
    <2>3. order' = o \o w /\ Len(o) = n /\ Len(w) = m BY <1>2, <1>6, <1>7, <2>1
    <2>. QED BY <2>1, <2>2, <2>3
  <1>11. DOMAIN order' = 1 .. (n + m) BY <1>10
  <1>12. ASSUME NEW k \in 1 .. (n + m) PROVE usage'[order'[k]] > 0
    <2>1. CASE k <= n
      <3>1. k \in 1 .. n BY <2>1
      <3>2. order'[k] = order[k] /\ usage[order[k]] > 0 BY <1>6, <1>10, <2>1, <3>1 DEF RoutingInv
      <3>. QED BY <1>6, <1>9, <3>1, <3>2
    <2>2. CASE k > n
      <3>1. k - n \in 1 .. m BY <2>2
      <3>2. PICK c \in new : order'[k] = c BY <1>7, <1>10, <2>2, <3>1
      <3>. QED BY <1>3, <1>9, <3>2
    <2>. QED BY <2>1, <2>2
  <1>13. hits' \in [1 .. PoolSize -> [Codes -> Nat]]
    <2>1. PICK z \in [Codes -> Nat] : z = [c \in Codes |-> 0] OBVIOUS
    <2>2. hits' = [hits EXCEPT ![q] = z] BY <2>1 DEF Report
    <2>. QED BY <2>2 DEF RoutingInv
  <1>14. UNCHANGED poolMap BY DEF Report
  <1>. QED BY <1>9, <1>10, <1>11, <1>12, <1>13, <1>14 DEF RoutingInv, EveryContractHasWorker

LEMMA AssignKeeps == RoutingInv /\ UpdateWorkerAssignments => RoutingInv'
  <1>. SUFFICES ASSUME RoutingInv, UpdateWorkerAssignments PROVE RoutingInv' OBVIOUS
  <1>1. PICK map \in MapType : map = Balanced /\ \A k \in DOMAIN order : map[order[k]] # <<>>
    BY BalancedGives DEF RoutingInv
  <1>2. UNCHANGED <<hits, usage, order>> BY DEF UpdateWorkerAssignments
  <1>3. poolMap' = [c \in ToSet(order) |-> map[c]] BY <1>1 DEF UpdateWorkerAssignments
  <1>4. ASSUME NEW c \in DOMAIN poolMap' PROVE poolMap'[c] # <<>> /\ ToSet(poolMap'[c]) \subseteq Slots
    <2>1. c \in ToSet(order) /\ poolMap'[c] = map[c] BY <1>3, <1>4
    <2>2. PICK k \in DOMAIN order : order[k] = c BY <2>1 DEF ToSet
    <2>3. c \in Codes BY <2>2 DEF RoutingInv
    <2>4. PICK w \in Seq(Slots) : w = map[c] /\ w # <<>> BY <1>1, <2>2, <2>3 DEF MapType
    <2>5. ToSet(w) \subseteq Slots BY DEF ToSet
    <2>. QED BY <2>1, <2>4, <2>5
  <1>. QED BY <1>2, <1>4 DEF RoutingInv, EveryContractHasWorker

\* updateWorkerAssignments gives every contract with hits at least one worker of the
\* pool: together the contracts need no more room than the workers have, so the one whose
\* turn it is always finds some, and spreading the contracts afterwards moves them only.
THEOREM ContractsHaveWorkers == RoutingSpec => []EveryContractHasWorker
<1>1. RoutingInv /\ [RoutingNext]_routingVars => RoutingInv'
  <2>. SUFFICES ASSUME RoutingInv, [RoutingNext]_routingVars PROVE RoutingInv' OBVIOUS
  <2>1. CASE RouteToPool BY <2>1, RouteKeeps
  <2>2. CASE \E q \in 1 .. PoolSize : Report(q) BY <2>2, ReportKeeps
  <2>3. CASE UpdateWorkerAssignments BY <2>3, AssignKeeps
  <2>4. CASE UNCHANGED routingVars BY <2>4 DEF RoutingInv, EveryContractHasWorker, routingVars
  <2>. QED BY <2>1, <2>2, <2>3, <2>4 DEF RoutingNext
<1>2. RoutingInv => EveryContractHasWorker BY DEF RoutingInv
<1> QED
  BY <1>1, <1>2, RoutingInvInit, PTL DEF RoutingSpec

HIDE PoolIs

-----------------------------------------------------------------------------
(* Deltas: messages and queues *)

DeltaMessages == [delta : AllDeltas, block : Nat]
QueueNames == Routes \X (1 .. setup.queues)
QueueType == [QueueNames -> Seq(DeltaMessages)]
CounterType == [Counters -> 1 .. setup.queues]
EmissionType == [idx : CounterType, queue : QueueType]
ResourceNames == ResourceStructs \X KeysOf(ResourceStructs)
GenericQueue(i) == <<"generic", i>>
StateQueue(i) == <<"state", i>>

LEMMA SetupIs ==
  ASSUME setup \in DeltaSetups
  PROVE  setup.queues \in Nat \ {0} /\ setup.workers \in Nat \ {0} /\ setup.batch \in Nat \ {0}
         /\ setup.tables \subseteq {"proposals", "voters", "accounts"}
  BY DeltaAssumption

LEMMA ScriptIs ==
  ASSUME script \in DeltaScripts
  PROVE  /\ \A b \in DOMAIN script : script[b] \in Seq(AllDeltas)
         /\ Len(script) \in Nat /\ DOMAIN script = 1 .. Len(script)
         /\ \A d \in AllDeltas : d.struct \in DeltaStructs
  <1>1. script \in Seq(Seq(DeltasOf)) BY DeltaAssumption
  <1>2. ASSUME NEW b \in DOMAIN script PROVE script[b] \in Seq(AllDeltas)
    <2>1. PICK s \in Seq(DeltasOf) : s = script[b] BY <1>1
    <2>2. ToSet(s) \subseteq AllDeltas BY <1>2, <2>1 DEF AllDeltas, DeltasIn
    <2>3. s \in Seq(ToSet(s))
      <3>1. \A i \in 1 .. Len(s) : s[i] \in ToSet(s) BY DEF ToSet
      <3>. QED BY <3>1
    <2>. QED BY <2>1, <2>2, <2>3
  <1>3. AllDeltas \subseteq DeltasOf BY DEF AllDeltas, DeltasIn, DeltasOf
  <1>. QED BY <1>1, <1>2, <1>3, DeltaAssumption

LEMMA DeltasAre ==
  ASSUME script \in DeltaScripts, NEW b \in DOMAIN script
  PROVE  /\ Len(script[b]) \in Nat /\ DOMAIN script[b] = 1 .. Len(script[b])
         /\ \A k \in 1 .. Len(script[b]) : script[b][k] \in AllDeltas /\ script[b][k] \in DeltasIn(b)
         /\ \A d \in DeltasIn(b) : d \in AllDeltas /\ \E k \in 1 .. Len(script[b]) : script[b][k] = d
         /\ b \in Nat
  <1>1. PICK s \in Seq(AllDeltas) : s = script[b] BY ScriptIs
  <1>2. Len(s) \in Nat /\ DOMAIN s = 1 .. Len(s) /\ \A k \in 1 .. Len(s) : s[k] \in AllDeltas OBVIOUS
  <1>3. DeltasIn(b) = {s[k] : k \in 1 .. Len(s)} BY <1>1, <1>2 DEF DeltasIn, ToSet
  <1>. QED BY <1>1, <1>2, <1>3, ScriptIs

-----------------------------------------------------------------------------
(* Deltas: what a handler emits *)

\* A message at the end of one queue.
Emitted(f, e, q, d, b) ==
    /\ f \in EmissionType /\ q \in QueueNames
    /\ f.queue = [e.queue EXCEPT ![q] = Append(@, [delta |-> d, block |-> b])]

LEMMA EmitToDoes ==
  ASSUME setup \in DeltaSetups, NEW e \in EmissionType, NEW route \in Routes, NEW counter \in Counters,
         NEW d \in AllDeltas, NEW b \in Nat
  PROVE  Emitted(EmitTo(e, route, counter, d, b), e, <<route, e.idx[counter]>>, d, b)
  <1>1. PICK idx \in CounterType, queue \in QueueType : e.idx = idx /\ e.queue = queue
    BY DEF EmissionType
  <1>2. PICK n \in Nat \ {0} : n = setup.queues BY SetupIs
  <1>3. idx[counter] \in 1 .. n BY <1>2 DEF CounterType
  <1>4. NextQueue(idx[counter]) \in 1 .. n BY <1>2, <1>3 DEF NextQueue
  <1>5. PICK next1 \in CounterType : next1 = [idx EXCEPT ![counter] = NextQueue(@)]
    BY <1>2, <1>4 DEF CounterType
  <1>6. PICK q \in QueueNames : q = <<route, idx[counter]>> BY <1>2, <1>3 DEF QueueNames
  <1>7. PICK m \in DeltaMessages : m = [delta |-> d, block |-> b] BY DEF DeltaMessages
  <1>8. PICK after \in QueueType : after = [queue EXCEPT ![q] = Append(@, m)]
    <2>1. PICK s \in Seq(DeltaMessages) : s = queue[q] BY DEF QueueType
    <2>2. Append(s, m) \in Seq(DeltaMessages) OBVIOUS
    <2>. QED BY <2>1, <2>2 DEF QueueType
  <1>9. EmitTo(e, route, counter, d, b) = [idx |-> next1, queue |-> after]
    BY <1>1, <1>5, <1>6, <1>7, <1>8 DEF EmitTo
  <1>10. PICK f : f = [idx |-> next1, queue |-> after] OBVIOUS
  <1>11. f \in EmissionType /\ f.queue = after BY <1>10 DEF EmissionType
  <1>. QED BY <1>1, <1>6, <1>7, <1>8, <1>9, <1>10, <1>11 DEF Emitted

\* The messages of generic queues.
Queued(queue, m) == \E i \in 1 .. setup.queues : m \in ToSet(queue[GenericQueue(i)])
InGeneric(e, m) == Queued(e.queue, m)

\* What a delta adds to the queues of resources and of permissions.
Adds(f, e, d, b) ==
    /\ f \in EmissionType
    /\ \A m : InGeneric(e, m) => InGeneric(f, m)
    /\ \A m : InGeneric(f, m) =>
          InGeneric(e, m) \/ (m = [delta |-> d, block |-> b] /\ (d.struct \in ResourceStructs => ResourceWanted(d)))
    /\ ResourceWanted(d) => InGeneric(f, [delta |-> d, block |-> b])
    /\ d.struct \notin {"permission", "permission_link"} =>
          \A i \in 1 .. setup.queues : f.queue[StateQueue(i)] = e.queue[StateQueue(i)]
    /\ d.struct \in {"permission", "permission_link"} /\ setup.deltas /\ setup.queues = 1 =>
          f.queue[StateQueue(1)] = Append(e.queue[StateQueue(1)], [delta |-> d, block |-> b])

LEMMA AddsNothing ==
  ASSUME NEW e \in EmissionType, NEW d, NEW b, ~ResourceWanted(d),
         d.struct \notin {"permission", "permission_link"} \/ ~setup.deltas
  PROVE  Adds(e, e, d, b)
  <1>1. d.struct \in {"permission", "permission_link"} /\ setup.deltas /\ setup.queues = 1 => FALSE OBVIOUS
  <1>. QED BY <1>1, Zenon DEF Adds

LEMMA EmittedElsewhere ==
  ASSUME setup \in DeltaSetups, NEW e \in EmissionType, NEW f, NEW q, NEW d \in AllDeltas, NEW b \in Nat,
         Emitted(f, e, q, d, b), q[1] \notin {"generic", "state"}
  PROVE  \A i \in 1 .. setup.queues : /\ f.queue[GenericQueue(i)] = e.queue[GenericQueue(i)]
                                     /\ f.queue[StateQueue(i)] = e.queue[StateQueue(i)]
  <1>. SUFFICES ASSUME NEW i \in 1 .. setup.queues
                PROVE  /\ f.queue[GenericQueue(i)] = e.queue[GenericQueue(i)]
                       /\ f.queue[StateQueue(i)] = e.queue[StateQueue(i)]
    OBVIOUS
  <1>1. GenericQueue(i) \in QueueNames /\ StateQueue(i) \in QueueNames
    BY DEF QueueNames, Routes, GenericQueue, StateQueue
  <1>2. GenericQueue(i) # q /\ StateQueue(i) # q BY DEF GenericQueue, StateQueue
  <1>3. PICK queue \in QueueType : queue = e.queue BY DEF EmissionType
  <1>. QED BY <1>1, <1>2, <1>3 DEF Emitted, QueueType

\* Rows of contracts go to queues of their own.
Aside(f, e) ==
    /\ f \in EmissionType
    /\ \A i \in 1 .. setup.queues : /\ f.queue[GenericQueue(i)] = e.queue[GenericQueue(i)]
                                   /\ f.queue[StateQueue(i)] = e.queue[StateQueue(i)]

LEMMA AsideTwice ==
  ASSUME NEW e, NEW f, NEW g, Aside(f, e), Aside(g, f) PROVE Aside(g, e)
  BY DEF Aside

LEMMA EmitAside ==
  ASSUME setup \in DeltaSetups, NEW e \in EmissionType, NEW route \in Routes, NEW counter \in Counters,
         route \notin {"generic", "state"}, NEW d \in AllDeltas, NEW b \in Nat
  PROVE  Aside(EmitTo(e, route, counter, d, b), e)
  <1>1. PICK f, q : f = EmitTo(e, route, counter, d, b) /\ q = <<route, e.idx[counter]>> /\ Emitted(f, e, q, d, b)
    BY EmitToDoes
  <1>2. q[1] \notin {"generic", "state"} BY <1>1
  <1>3. f \in EmissionType BY <1>1 DEF Emitted
  <1>. QED BY <1>1, <1>2, <1>3, EmittedElsewhere DEF Aside

LEMMA ContractRowAside ==
  ASSUME setup \in DeltaSetups, NEW e \in EmissionType, NEW d \in AllDeltas, NEW b \in Nat
  PROVE  Aside(ContractRow(e, d, b), e)
  <1>0. \A g \in EmissionType : Aside(g, g) BY DEF Aside
  <1>1. PICK e1 : e1 = PushToDynamic(e, d, b) OBVIOUS
  <1>2. Aside(e1, e) /\ e1 \in EmissionType
    <2>1. "dynamic" \in Routes /\ "dynamic" \in Counters /\ "dynamic" \notin {"generic", "state"}
      BY DEF Routes, Counters
    <2>2. Aside(EmitTo(e, "dynamic", "dynamic", d, b), e) BY <2>1, EmitAside
    <2>3. e1 = e \/ e1 = EmitTo(e, "dynamic", "dynamic", d, b) BY <1>1 DEF PushToDynamic
    <2>4. Aside(e1, e) BY <1>0, <2>2, <2>3
    <2>. QED BY <2>4 DEF Aside
  <1>3. PICK e2 : e2 = Store(e1, d, b) OBVIOUS
  <1>4. Aside(e2, e1) /\ e2 \in EmissionType
    <2>1. CASE TableOf(d) \in setup.tables
      <3>1. PICK t : t = TableOf(d) /\ t \in {"proposals", "voters", "accounts"} BY <2>1, SetupIs
      <3>2. t \in Routes /\ t \in Counters /\ t \notin {"generic", "state"} BY <3>1 DEF Routes, Counters
      <3>3. Aside(EmitTo(e1, t, t, d, b), e1) BY <1>2, <3>2, EmitAside
      <3>4. e2 = e1 \/ e2 = EmitTo(e1, t, t, d, b) BY <1>3, <3>1 DEF Store
      <3>5. Aside(e2, e1) BY <1>0, <1>2, <3>3, <3>4
      <3>. QED BY <3>5 DEF Aside
    <2>2. CASE TableOf(d) \notin setup.tables
      <3>1. e2 = e1 BY <1>3, <2>2 DEF Store
      <3>. QED BY <1>0, <1>2, <3>1
    <2>. QED BY <2>1, <2>2
  <1>5. PICK e3 : e3 = ProcessTableDelta(e, d, b) OBVIOUS
  <1>6. Aside(e3, e2)
    <2>1. "deltas" \in Routes /\ "deltas" \in Counters /\ "deltas" \notin {"generic", "state"}
      BY DEF Routes, Counters
    <2>2. Aside(EmitTo(e2, "deltas", "deltas", d, b), e2) BY <1>4, <2>1, EmitAside
    <2>3. e3 = e2 \/ e3 = EmitTo(e2, "deltas", "deltas", d, b)
      BY <1>1, <1>3, <1>5 DEF ProcessTableDelta
    <2>. QED BY <1>0, <1>4, <2>2, <2>3
  <1>7. Aside(e3, e) BY <1>2, <1>4, <1>6, AsideTwice
  <1>8. ContractRow(e, d, b) = e \/ ContractRow(e, d, b) = e3 BY <1>5 DEF ContractRow
  <1>. QED BY <1>0, <1>7, <1>8

\* index_generic.
LEMMA PushedToIndex ==
  ASSUME setup \in DeltaSetups, NEW e \in EmissionType, NEW d \in AllDeltas, NEW b \in Nat,
         d.struct \notin {"permission", "permission_link"}, d.struct \in ResourceStructs => ResourceWanted(d)
  PROVE  Adds(PushToIndex(e, d, b), e, d, b)
  <1>1. "generic" \in Routes /\ "emit" \in Counters BY DEF Routes, Counters
  <1>2. PICK f, q, i : /\ f = PushToIndex(e, d, b) /\ q = <<"generic", i>> /\ Emitted(f, e, q, d, b)
    BY <1>1, EmitToDoes DEF PushToIndex
  <1>3. i \in 1 .. setup.queues /\ q = GenericQueue(i) BY <1>2 DEF Emitted, QueueNames, GenericQueue
  <1>4. PICK queue \in QueueType, after \in QueueType : queue = e.queue /\ after = f.queue
    BY <1>2 DEF Emitted, EmissionType
  <1>5. PICK m \in DeltaMessages : m = [delta |-> d, block |-> b] BY DEF DeltaMessages
  <1>6. after = [queue EXCEPT ![q] = Append(@, m)] /\ q \in QueueNames BY <1>2, <1>4, <1>5 DEF Emitted
  <1>7. PICK s \in Seq(DeltaMessages) : s = queue[q] BY <1>6 DEF QueueType
  <1>8. after[q] = Append(s, m) BY <1>6, <1>7 DEF QueueType
  <1>9. ToSet(after[q]) = ToSet(s) \cup {m}
    <2>1. ToSet(Append(s, m)) = ToSet(s) \cup {m}
      <3>1. /\ Len(Append(s, m)) = Len(s) + 1 /\ \A j \in 1 .. Len(s) : Append(s, m)[j] = s[j]
            /\ Append(s, m)[Len(s) + 1] = m /\ Len(s) \in Nat
        BY AppendProperties
      <3>2. DOMAIN Append(s, m) = 1 .. (Len(s) + 1) /\ DOMAIN s = 1 .. Len(s) BY <3>1
      <3>. QED BY <3>1, <3>2 DEF ToSet
    <2>. QED BY <1>8, <2>1
  <1>10. \A j \in 1 .. setup.queues : /\ GenericQueue(j) \in QueueNames /\ StateQueue(j) \in QueueNames
                                      /\ StateQueue(j) # q /\ (j # i => GenericQueue(j) # q)
    BY <1>3 DEF QueueNames, Routes, GenericQueue, StateQueue
  <1>11. \A j \in 1 .. setup.queues : /\ after[StateQueue(j)] = queue[StateQueue(j)]
                                      /\ j # i => after[GenericQueue(j)] = queue[GenericQueue(j)]
    BY <1>6, <1>10 DEF QueueType
  <1>12. \A n : InGeneric(f, n) <=> InGeneric(e, n) \/ n = m
    <2>. SUFFICES ASSUME NEW n PROVE InGeneric(f, n) <=> InGeneric(e, n) \/ n = m OBVIOUS
    <2>1. \A j \in 1 .. setup.queues :
             n \in ToSet(after[GenericQueue(j)]) <=> n \in ToSet(queue[GenericQueue(j)]) \/ (j = i /\ n = m)
      <3>. SUFFICES ASSUME NEW j \in 1 .. setup.queues
                    PROVE n \in ToSet(after[GenericQueue(j)]) <=>
                              n \in ToSet(queue[GenericQueue(j)]) \/ (j = i /\ n = m)
        OBVIOUS
      <3>1. CASE j = i BY <1>3, <1>7, <1>9, <3>1, Zenon
      <3>2. CASE j # i
        <4>1. after[GenericQueue(j)] = queue[GenericQueue(j)] BY <1>11, <3>2, Zenon
        <4>. QED BY <3>2, <4>1, Zenon
      <3>. QED BY <3>1, <3>2, Zenon
    <2>2. InGeneric(f, n) <=> \E j \in 1 .. setup.queues : n \in ToSet(after[GenericQueue(j)])
      BY <1>4, Zenon DEF InGeneric, Queued
    <2>3. InGeneric(e, n) <=> \E j \in 1 .. setup.queues : n \in ToSet(queue[GenericQueue(j)])
      BY <1>4, Zenon DEF InGeneric, Queued
    <2>. QED BY <1>3, <2>1, <2>2, <2>3, Zenon
  <1>13. InGeneric(f, m) BY <1>12
  <1>14. f \in EmissionType BY <1>2 DEF Emitted
  <1>15. \A j \in 1 .. setup.queues : f.queue[StateQueue(j)] = e.queue[StateQueue(j)] BY <1>4, <1>11
  <1>16. Adds(f, e, d, b) BY <1>5, <1>12, <1>13, <1>14, <1>15, Zenon DEF Adds
  <1>. QED BY <1>2, <1>16

\* index_state.
LEMMA PushedToState ==
  ASSUME setup \in DeltaSetups, NEW e \in EmissionType, NEW d \in AllDeltas, NEW b \in Nat,
         d.struct \in {"permission", "permission_link"}
  PROVE  Adds(PushToState(e, d, b), e, d, b)
  <1>1. "state" \in Routes /\ "emit" \in Counters BY DEF Routes, Counters
  <1>2. PICK f, q, i : /\ f = PushToState(e, d, b) /\ q = <<"state", i>> /\ Emitted(f, e, q, d, b)
    BY <1>1, EmitToDoes DEF PushToState
  <1>3. i \in 1 .. setup.queues /\ q = StateQueue(i) BY <1>2 DEF Emitted, QueueNames, StateQueue
  <1>4. PICK queue \in QueueType, after \in QueueType : queue = e.queue /\ after = f.queue
    BY <1>2 DEF Emitted, EmissionType
  <1>5. PICK m \in DeltaMessages : m = [delta |-> d, block |-> b] BY DEF DeltaMessages
  <1>6. after = [queue EXCEPT ![q] = Append(@, m)] /\ q \in QueueNames BY <1>2, <1>4, <1>5 DEF Emitted
  <1>7. \A j \in 1 .. setup.queues : GenericQueue(j) \in QueueNames /\ GenericQueue(j) # q
    BY <1>3 DEF QueueNames, Routes, GenericQueue, StateQueue
  <1>8. \A j \in 1 .. setup.queues : after[GenericQueue(j)] = queue[GenericQueue(j)]
    BY <1>6, <1>7 DEF QueueType
  <1>9. \A n : InGeneric(f, n) <=> InGeneric(e, n) BY <1>4, <1>8 DEF InGeneric, Queued
  <1>10. after[q] = Append(queue[q], m) BY <1>6 DEF QueueType
  <1>11. setup.queues = 1 => i = 1 BY <1>3
  <1>12. ~ResourceWanted(d) BY DEF ResourceWanted
  <1>13. f \in EmissionType BY <1>2 DEF Emitted
  <1>14. setup.queues = 1 => f.queue[StateQueue(1)] = Append(e.queue[StateQueue(1)], m)
    <2>. SUFFICES ASSUME setup.queues = 1 PROVE after[StateQueue(1)] = Append(queue[StateQueue(1)], m)
      BY <1>4, Zenon
    <2>. QED BY <1>3, <1>10, <1>11, Zenon
  <1>15. Adds(f, e, d, b) BY <1>5, <1>9, <1>12, <1>13, <1>14, Zenon DEF Adds
  <1>. QED BY <1>2, <1>15

LEMMA HandleDeltaAdds ==
  ASSUME setup \in DeltaSetups, script \in DeltaScripts, NEW e \in EmissionType, NEW d \in AllDeltas,
         NEW b \in Nat
  PROVE  Adds(HandleDelta(e, d, b), e, d, b)
  <1>1. d.struct \in DeltaStructs BY ScriptIs
  <1>2. CASE d.struct = "contract_row"
    <2>1. HandleDelta(e, d, b) = ContractRow(e, d, b) BY <1>2 DEF HandleDelta, ResourceStructs
    <2>2. PICK f : f = ContractRow(e, d, b) /\ Aside(f, e) BY ContractRowAside
    <2>3. ~ResourceWanted(d) /\ d.struct \notin {"permission", "permission_link"} BY <1>2 DEF ResourceWanted
    <2>4. \A n : InGeneric(f, n) <=> InGeneric(e, n) BY <2>2 DEF Aside, InGeneric, Queued
    <2>. QED BY <2>1, <2>2, <2>3, <2>4 DEF Adds, Aside
  <1>3. CASE d.struct \in {"permission", "permission_link"}
    <2>1. HandleDelta(e, d, b) = IF setup.deltas THEN PushToState(e, d, b) ELSE e
      BY <1>3 DEF HandleDelta, ResourceStructs
    <2>2. ~ResourceWanted(d) BY <1>3 DEF ResourceWanted
    <2>3. CASE setup.deltas BY <1>3, <2>1, <2>3, PushedToState, Zenon
    <2>4. CASE ~setup.deltas BY <1>3, <2>1, <2>2, <2>4, AddsNothing, Zenon
    <2>. QED BY <2>3, <2>4
  <1>4. CASE d.struct = "generated_transaction"
    <2>1. HandleDelta(e, d, b) = e \/ HandleDelta(e, d, b) = PushToIndex(e, d, b)
      BY <1>4 DEF HandleDelta, GeneratedTransaction, ResourceStructs
    <2>2. ~ResourceWanted(d) /\ d.struct \notin {"permission", "permission_link"}
          /\ d.struct \notin ResourceStructs
      BY <1>4 DEF ResourceWanted, ResourceStructs
    <2>. QED BY <2>1, <2>2, PushedToIndex, AddsNothing, Zenon
  <1>5. CASE d.struct \in ResourceStructs
    <2>1. HandleDelta(e, d, b) = IF ResourceWanted(d) THEN PushToIndex(e, d, b) ELSE e
      BY <1>5 DEF HandleDelta, ResourceStructs
    <2>2. d.struct \notin {"permission", "permission_link"} BY <1>5 DEF ResourceStructs
    <2>3. CASE ResourceWanted(d) BY <2>1, <2>2, <2>3, PushedToIndex, Zenon
    <2>4. CASE ~ResourceWanted(d) BY <2>1, <2>2, <2>4, AddsNothing, Zenon
    <2>. QED BY <2>3, <2>4
  <1>. QED BY <1>1, <1>2, <1>3, <1>4, <1>5 DEF DeltaStructs, ResourceStructs

-----------------------------------------------------------------------------
(* Deltas: what a block emits *)

EmissionStates(r, b, tally) ==
    /\ r[0] = [idx |-> tally, queue |-> indexQueue]
    /\ \A k \in 1 .. Len(script[b]) : r[k] = HandleDelta(r[k - 1], script[b][k], b)
    /\ \A k \in 0 .. Len(script[b]) : r[k] \in EmissionType
    /\ Emission(b, tally) = r[Len(script[b])]

LEMMA EmissionSteps ==
  ASSUME setup \in DeltaSetups, script \in DeltaScripts, indexQueue \in QueueType,
         NEW b \in DOMAIN script, NEW tally \in CounterType
  PROVE  \E r : EmissionStates(r, b, tally)
  <1>0. PICK s : s = script[b] OBVIOUS
  <1> DEFINE n == Len(s)
             V == EmissionType
             base == [idx |-> tally, queue |-> indexQueue]
             iter == CHOOSE h : h = [t \in SUBSET DOMAIN s |->
                        IF t = {} THEN base ELSE HandleDelta(h[t \ {Max(t)}], s[Max(t)], b)]
             op == [p \in V \X (1 .. n) |-> HandleDelta(p[1], s[p[2]], b)]
  <1>1. Emission(b, tally) = iter[DOMAIN s] BY <1>0, Zenon DEF Emission, FoldLeft, MapThenFoldSet
  <1>2. n \in Nat /\ DOMAIN s = 1 .. n /\ \A k \in 1 .. n : s[k] \in AllDeltas BY <1>0, DeltasAre
  <1>3. base \in V BY DEF EmissionType
  <1>. HIDE DEF n, base, V
  <1>4. \A v \in V, k \in 1 .. n : HandleDelta(v, s[k], b) \in V /\ op[<<v, k>>] = HandleDelta(v, s[k], b)
    <2>. SUFFICES ASSUME NEW v \in V, NEW k \in 1 .. n
                  PROVE HandleDelta(v, s[k], b) \in V /\ op[<<v, k>>] = HandleDelta(v, s[k], b)
      OBVIOUS
    <2>1. PICK d \in AllDeltas : d = s[k] BY <1>2
    <2>2. v \in EmissionType /\ b \in Nat BY DeltasAre DEF V
    <2>3. Adds(HandleDelta(v, d, b), v, d, b) BY <2>2, HandleDeltaAdds
    <2>4. HandleDelta(v, d, b) \in V BY <2>3, Zenon DEF Adds, V
    <2>. QED BY <2>1, <2>4
  <1>5. op \in [V \X (1 .. n) -> V] BY <1>4
  <1>. HIDE DEF op
  <1>6. PICK g \in [SUBSET (1 .. n) -> V] : Tabulates(g, n, base, op)
    BY <1>2, <1>3, <1>5, FoldRecursion
  <1>7. ASSUME NEW h, NEW t \in SUBSET (1 .. n), t # {}, h[t \ {Max(t)}] \in V
        PROVE  op[<<h[t \ {Max(t)}], Max(t)>>] = HandleDelta(h[t \ {Max(t)}], s[Max(t)], b)
    <2>1. Max(t) \in 1 .. n BY <1>2, <1>7, MaxOfPositions
    <2>. QED BY <1>4, <1>7, <2>1
  <1>8. \E h : h = [t \in SUBSET DOMAIN s |->
                      IF t = {} THEN base ELSE HandleDelta(h[t \ {Max(t)}], s[Max(t)], b)]
    <2>1. \A t \in SUBSET (1 .. n) : t # {} => g[t \ {Max(t)}] \in V OBVIOUS
    <2>2. g = [t \in SUBSET DOMAIN s |->
                 IF t = {} THEN base ELSE HandleDelta(g[t \ {Max(t)}], s[Max(t)], b)]
      BY <1>2, <1>6, <1>7, <2>1 DEF Tabulates
    <2>. QED BY <2>2, Zenon
  <1>9. iter = [t \in SUBSET DOMAIN s |->
                  IF t = {} THEN base ELSE HandleDelta(iter[t \ {Max(t)}], s[Max(t)], b)]
    BY <1>8, Zenon
  <1>. HIDE DEF iter
  <1>10. Iterates(iter, n, V, base, op) BY <1>2, <1>7, <1>9 DEF Iterates
  <1>11. PICK r : States(r, n, V, base, op) /\ r[n] = iter[1 .. n]
    <2>1. Reaches(iter, n, V, base, op) BY <1>2, <1>3, <1>5, <1>10, FoldStates
    <2>. QED BY <2>1 DEF Reaches
  <1>12. \A k \in 1 .. n : k - 1 \in 0 .. n BY <1>2
  <1>13. \A k \in 1 .. n : r[k] = HandleDelta(r[k - 1], s[k], b)
    <2>. SUFFICES ASSUME NEW k \in 1 .. n PROVE r[k] = HandleDelta(r[k - 1], s[k], b) OBVIOUS
    <2>1. PICK v \in V : v = r[k - 1] BY <1>11, <1>12 DEF States
    <2>2. r[k] = op[<<v, k>>] BY <1>11, <2>1 DEF States
    <2>. QED BY <1>4, <2>1, <2>2
  <1>. QED BY <1>0, <1>1, <1>2, <1>11, <1>13 DEF States, EmissionStates, n, V, base

\* A message of block b that the deserializer wanted.
Fresh(m, b) ==
    /\ m \in DeltaMessages /\ m.block = b /\ m.delta \in DeltasIn(b)
    /\ m.delta.struct \in ResourceStructs => ResourceWanted(m.delta)

\* After k deltas of block b, from e on.
EmitsUpTo(f, e, b, k) ==
    /\ \A m : InGeneric(e, m) => InGeneric(f, m)
    /\ \A m : InGeneric(f, m) => InGeneric(e, m) \/ Fresh(m, b)
    /\ \A j \in 1 .. k : ResourceWanted(script[b][j]) => InGeneric(f, [delta |-> script[b][j], block |-> b])

LEMMA EmissionEmits ==
  ASSUME setup \in DeltaSetups, script \in DeltaScripts, NEW b \in DOMAIN script, NEW tally,
         NEW r, EmissionStates(r, b, tally)
  PROVE  \A k \in 0 .. Len(script[b]) : EmitsUpTo(r[k], r[0], b, k)
  <1>. DEFINE P == {k \in 0 .. Len(script[b]) : EmitsUpTo(r[k], r[0], b, k)}
  <1>0. PICK n \in Nat : n = Len(script[b]) BY DeltasAre
  <1>1. 0 \in P
    <2>1. EmitsUpTo(r[0], r[0], b, 0)
      <3>1. \A j \in 1 .. 0 : FALSE OBVIOUS
      <3>. QED BY <3>1, Zenon DEF EmitsUpTo
    <2>. QED BY <1>0, <2>1
  <1>2. \A k \in 1 .. n : k - 1 \in P => k \in P
    <2>. SUFFICES ASSUME NEW k \in 1 .. n, EmitsUpTo(r[k - 1], r[0], b, k - 1)
                  PROVE  EmitsUpTo(r[k], r[0], b, k) /\ k \in 0 .. n
      BY <1>0
    <2>1. PICK d \in AllDeltas : d = script[b][k] /\ d \in DeltasIn(b) BY <1>0, DeltasAre
    <2>2. PICK e, f, z : e = r[k - 1] /\ f = r[k] /\ z = r[0] OBVIOUS
    <2>3. k - 1 \in 0 .. n /\ k \in 0 .. n OBVIOUS
    <2>4. e \in EmissionType /\ f = HandleDelta(e, d, b)
      BY <1>0, <2>1, <2>2, <2>3 DEF EmissionStates
    <2>5. Adds(f, e, d, b) /\ b \in Nat BY <2>1, <2>4, HandleDeltaAdds, DeltasAre
    <2>6. PICK m \in DeltaMessages : m = [delta |-> d, block |-> b] BY <2>5 DEF DeltaMessages
    <2>7. (d.struct \in ResourceStructs => ResourceWanted(d)) => Fresh(m, b)
      <3>1. m.block = b /\ m.delta = d BY <2>6
      <3>. QED BY <2>1, <2>6, <3>1, Zenon DEF Fresh
    <2>8. \A x : InGeneric(z, x) => InGeneric(f, x)
      BY <2>2, <2>5, Zenon DEF EmitsUpTo, Adds
    <2>9. \A x : InGeneric(f, x) => InGeneric(z, x) \/ Fresh(x, b)
      <3>. SUFFICES ASSUME NEW x, InGeneric(f, x) PROVE InGeneric(z, x) \/ Fresh(x, b) OBVIOUS
      <3>1. InGeneric(e, x) \/ (x = m /\ (d.struct \in ResourceStructs => ResourceWanted(d)))
        BY <2>5, <2>6, Zenon DEF Adds
      <3>. QED BY <2>2, <2>7, <3>1, Zenon DEF EmitsUpTo
    <2>10. \A j \in 1 .. k : ResourceWanted(script[b][j]) => InGeneric(f, [delta |-> script[b][j], block |-> b])
      <3>. SUFFICES ASSUME NEW j \in 1 .. k, ResourceWanted(script[b][j])
                    PROVE  InGeneric(f, [delta |-> script[b][j], block |-> b])
        OBVIOUS
      <3>1. CASE j = k BY <2>1, <2>5, <3>1, Zenon DEF Adds
      <3>2. CASE j # k
        <4>1. j \in 1 .. (k - 1) BY <3>2
        <4>2. InGeneric(e, [delta |-> script[b][j], block |-> b]) BY <2>2, <4>1, Zenon DEF EmitsUpTo
        <4>. QED BY <2>5, <4>2, Zenon DEF Adds
      <3>. QED BY <3>1, <3>2
    <2>. QED BY <2>2, <2>3, <2>8, <2>9, <2>10, Zenon DEF EmitsUpTo
  <1>3. \A k \in 0 .. n : k \in P
    <2>. HIDE DEF P
    <2>. QED BY <1>1, <1>2, Ascend
  <1>. QED BY <1>0, <1>3

\* A block leaves its wanted deltas in the generic queues, and nothing else.
BlockEmits(queue, b) ==
    /\ queue \in QueueType
    /\ \A m : Queued(indexQueue, m) => Queued(queue, m)
    /\ \A m : Queued(queue, m) => Queued(indexQueue, m) \/ Fresh(m, b)
    /\ \A d \in DeltasIn(b) : ResourceWanted(d) => Queued(queue, [delta |-> d, block |-> b])

LEMMA EmissionDoes ==
  ASSUME setup \in DeltaSetups, script \in DeltaScripts, indexQueue \in QueueType,
         NEW b \in DOMAIN script, NEW tally \in CounterType
  PROVE  /\ Emission(b, tally) \in EmissionType
         /\ BlockEmits(Emission(b, tally).queue, b)
  <1>1. PICK r : EmissionStates(r, b, tally) BY EmissionSteps
  <1>2. PICK n \in Nat : n = Len(script[b]) BY DeltasAre
  <1>3. PICK f \in EmissionType : f = r[n] /\ f = Emission(b, tally)
    <2>1. n \in 0 .. n OBVIOUS
    <2>. QED BY <1>1, <1>2, <2>1 DEF EmissionStates
  <1>4. EmitsUpTo(f, r[0], b, n)
    <2>1. n \in 0 .. n OBVIOUS
    <2>. QED BY <1>1, <1>2, <1>3, <2>1, EmissionEmits
  <1>5. PICK queue \in QueueType : queue = f.queue BY DEF EmissionType
  <1>6. \A m : Queued(queue, m) <=> InGeneric(f, m) BY <1>5 DEF InGeneric
  <1>7. \A m : Queued(indexQueue, m) <=> InGeneric(r[0], m)
    <2>1. r[0].queue = indexQueue BY <1>1 DEF EmissionStates
    <2>. QED BY <2>1, Zenon DEF InGeneric
  <1>8. \A d \in DeltasIn(b) : ResourceWanted(d) => InGeneric(f, [delta |-> d, block |-> b])
    <2>. SUFFICES ASSUME NEW d \in DeltasIn(b), ResourceWanted(d) PROVE InGeneric(f, [delta |-> d, block |-> b])
      OBVIOUS
    <2>1. PICK k \in 1 .. n : script[b][k] = d BY <1>2, DeltasAre
    <2>. QED BY <1>4, <2>1, Zenon DEF EmitsUpTo
  <1>9. BlockEmits(queue, b) BY <1>4, <1>6, <1>7, <1>8, Zenon DEF BlockEmits, EmitsUpTo
  <1>. QED BY <1>3, <1>5, <1>9

-----------------------------------------------------------------------------
(* Deltas: what an ingestor takes *)

LEMMA PayloadSplits ==
  ASSUME NEW S, NEW s \in Seq(S), NEW n \in 0 .. Len(s)
  PROVE  /\ SubSeq(s, 1, n) \in Seq(S) /\ SubSeq(s, n + 1, Len(s)) \in Seq(S)
         /\ Len(SubSeq(s, 1, n)) = n
         /\ ToSet(s) = ToSet(SubSeq(s, 1, n)) \cup ToSet(SubSeq(s, n + 1, Len(s)))
  <1> DEFINE p == SubSeq(s, 1, n)
             r == SubSeq(s, n + 1, Len(s))
  <1>1. Len(s) \in Nat /\ DOMAIN s = 1 .. Len(s) /\ \A i \in 1 .. Len(s) : s[i] \in S OBVIOUS
  <1>2. \A i \in 1 .. n : s[i] \in S BY <1>1
  <1>3. p \in Seq(S) /\ Len(p) = n /\ \A i \in 1 .. n : p[i] = s[i]
    BY <1>1, <1>2
  <1>4. r \in Seq(S) /\ Len(r) = Len(s) - n /\ \A i \in 1 .. (Len(s) - n) : r[i] = s[n + i]
    <2>0. Len(s) \in Nat /\ n <= Len(s) BY <1>1
    <2>1. PICK l \in Nat : l = Len(s) /\ n <= l BY <2>0, Zenon
    <2>2. n + 1 \in Int /\ l \in Int /\ \A i \in (n + 1) .. l : s[i] \in S BY <1>1, <2>1
    <2>3. /\ r \in Seq(S) /\ Len(r) = IF n + 1 <= l THEN l - (n + 1) + 1 ELSE 0
          /\ \A i \in 1 .. (l - (n + 1) + 1) : r[i] = s[(n + 1) + i - 1]
      BY <2>1, <2>2, SubSeqProperties
    <2>. HIDE DEF r
    <2>4. Len(r) = l - n BY <2>1, <2>3
    <2>5. ASSUME NEW i \in 1 .. (l - n) PROVE r[i] = s[n + i]
      <3>1. i \in 1 .. (l - (n + 1) + 1) /\ (n + 1) + i - 1 = n + i BY <2>1
      <3>. QED BY <2>3, <3>1
    <2>. QED BY <2>1, <2>3, <2>4, <2>5
  <1>. HIDE DEF p, r
  <1>5. ToSet(p) = {p[i] : i \in 1 .. n} /\ ToSet(r) = {r[i] : i \in 1 .. (Len(s) - n)}
        /\ ToSet(s) = {s[i] : i \in 1 .. Len(s)}
    <2>1. DOMAIN p = 1 .. n BY <1>3
    <2>2. DOMAIN r = 1 .. (Len(s) - n)
      <3>1. PICK k : k = Len(s) - n OBVIOUS
      <3>2. DOMAIN r = 1 .. k BY <1>4, <3>1
      <3>. QED BY <3>1, <3>2
    <2>. QED BY <1>1, <2>1, <2>2, Zenon DEF ToSet
  <1>6. ASSUME NEW x \in ToSet(s) PROVE x \in ToSet(p) \cup ToSet(r)
    <2>1. PICK i \in 1 .. Len(s) : s[i] = x BY <1>5
    <2>2. CASE i <= n
      <3>1. i \in 1 .. n BY <2>2
      <3>. QED BY <1>3, <1>5, <2>1, <3>1
    <2>3. CASE i > n
      <3>1. i - n \in 1 .. (Len(s) - n) /\ n + (i - n) = i BY <1>1, <2>3
      <3>2. r[i - n] = x BY <1>4, <2>1, <3>1
      <3>. QED BY <1>5, <3>1, <3>2
    <2>. QED BY <1>1, <2>2, <2>3
  <1>7. ToSet(p) \subseteq ToSet(s)
    <2>1. \A i \in 1 .. n : i \in 1 .. Len(s) BY <1>1
    <2>. QED BY <1>3, <1>5, <2>1
  <1>8. ToSet(r) \subseteq ToSet(s)
    <2>1. \A i \in 1 .. (Len(s) - n) : n + i \in 1 .. Len(s) BY <1>1
    <2>. QED BY <1>4, <1>5, <2>1
  <1>. QED BY <1>3, <1>4, <1>6, <1>7, <1>8 DEF p, r

\* Without the payload of q.
TakenFrom(queue, q) ==
    /\ queue \in QueueType /\ Payload(q) \in Seq(DeltaMessages)
    /\ \A p \in QueueNames : p # q => queue[p] = indexQueue[p]
    /\ ToSet(indexQueue[q]) = ToSet(Payload(q)) \cup ToSet(queue[q])

LEMMA DropDoes ==
  ASSUME setup \in DeltaSetups, indexQueue \in QueueType, NEW q \in QueueNames
  PROVE  TakenFrom(Drop(q, Cargo(q)), q)
  <1>1. PICK s \in Seq(DeltaMessages) : s = indexQueue[q] BY DEF QueueType
  <1>2. PICK n \in 0 .. Len(s) : n = Cargo(q) BY <1>1, SetupIs DEF Cargo
  <1>3. PICK p \in Seq(DeltaMessages) : p = SubSeq(s, 1, n) BY PayloadSplits
  <1>4. PICK r \in Seq(DeltaMessages) : r = SubSeq(s, n + 1, Len(s)) BY PayloadSplits
  <1>5. ToSet(s) = ToSet(p) \cup ToSet(r) BY <1>3, <1>4, PayloadSplits
  <1>6. Payload(q) = p BY <1>1, <1>2, <1>3 DEF Payload
  <1>7. PICK queue : queue = Drop(q, Cargo(q)) OBVIOUS
  <1>8. queue = [indexQueue EXCEPT ![q] = r] BY <1>1, <1>2, <1>4, <1>7 DEF Drop
  <1>9. queue \in QueueType /\ queue[q] = r /\ \A x \in QueueNames : x # q => queue[x] = indexQueue[x]
    BY <1>8 DEF QueueType
  <1>. QED BY <1>1, <1>5, <1>6, <1>7, <1>9 DEF TakenFrom

LEMMA DropKeepsQueued ==
  ASSUME setup \in DeltaSetups, NEW q \in QueueNames, NEW queue, TakenFrom(queue, q), NEW m
  PROVE  /\ Queued(queue, m) => Queued(indexQueue, m)
         /\ Queued(indexQueue, m) /\ (q[1] = "generic" => m \notin ToSet(Payload(q))) => Queued(queue, m)
         /\ q[1] = "generic" /\ m \in ToSet(Payload(q)) => Queued(indexQueue, m)
  <1>1. \A i \in 1 .. setup.queues : GenericQueue(i) \in QueueNames /\ GenericQueue(i)[1] = "generic"
    BY DEF QueueNames, Routes, GenericQueue
  <1>2. Queued(queue, m) => Queued(indexQueue, m)
    <2>. SUFFICES ASSUME NEW i \in 1 .. setup.queues, m \in ToSet(queue[GenericQueue(i)])
                  PROVE  m \in ToSet(indexQueue[GenericQueue(i)])
      BY DEF Queued
    <2>1. CASE GenericQueue(i) = q BY <2>1 DEF TakenFrom
    <2>2. CASE GenericQueue(i) # q BY <1>1, <2>2 DEF TakenFrom
    <2>. QED BY <2>1, <2>2
  <1>3. Queued(indexQueue, m) /\ (q[1] = "generic" => m \notin ToSet(Payload(q))) => Queued(queue, m)
    <2>. SUFFICES ASSUME q[1] = "generic" => m \notin ToSet(Payload(q)),
                         NEW i \in 1 .. setup.queues, m \in ToSet(indexQueue[GenericQueue(i)])
                  PROVE  m \in ToSet(queue[GenericQueue(i)])
      BY DEF Queued
    <2>1. CASE GenericQueue(i) = q BY <1>1, <2>1 DEF TakenFrom
    <2>2. CASE GenericQueue(i) # q BY <1>1, <2>2 DEF TakenFrom
    <2>. QED BY <2>1, <2>2
  <1>4. q[1] = "generic" /\ m \in ToSet(Payload(q)) => Queued(indexQueue, m)
    <2>. SUFFICES ASSUME q[1] = "generic", m \in ToSet(Payload(q)) PROVE Queued(indexQueue, m) OBVIOUS
    <2>1. PICK i \in 1 .. setup.queues : q = GenericQueue(i) BY DEF QueueNames, GenericQueue
    <2>2. m \in ToSet(indexQueue[q]) BY DEF TakenFrom
    <2>. QED BY <2>1, <2>2 DEF Queued
  <1>. QED BY <1>2, <1>3, <1>4

-----------------------------------------------------------------------------
(* Deltas: what a bulk request writes *)

ResourceType == [ResourceNames -> Nat]
RowOf(d) == <<d.struct, d.key>>
WriteStep(r, m, types) ==
    IF m.delta.struct \in types \cap ResourceStructs THEN [r EXCEPT ![RowOf(m.delta)] = Update(@, m.block)] ELSE r

\* g is f after some messages.
Later(g, f, msgs, types) ==
    /\ g \in ResourceType /\ f \in ResourceType
    /\ \A x \in ResourceNames : f[x] <= g[x]
    /\ \A x \in ResourceNames : g[x] # f[x] =>
          \E m \in msgs : m.delta.struct \in ResourceStructs /\ RowOf(m.delta) = x /\ g[x] = m.block
    /\ \A m \in msgs : m.delta.struct \in types \cap ResourceStructs => g[RowOf(m.delta)] >= m.block

LEMMA RowIsName ==
  ASSUME NEW m \in DeltaMessages, m.delta.struct \in ResourceStructs
  PROVE  RowOf(m.delta) \in ResourceNames /\ m.block \in Nat
  BY DEF DeltaMessages, RowOf, ResourceNames, KeysOf

LEMMA OneWrite ==
  ASSUME NEW f \in ResourceType, NEW m \in DeltaMessages, NEW types
  PROVE  Later(WriteStep(f, m, types), f, {m}, types)
  <1>1. CASE m.delta.struct \in types \cap ResourceStructs
    <2>1. PICK x \in ResourceNames : x = RowOf(m.delta) BY <1>1, RowIsName
    <2>2. PICK b \in Nat : b = m.block BY <1>1, RowIsName
    <2>3. PICK a \in Nat : a = f[x] BY DEF ResourceType
    <2>4. PICK c \in Nat : c = Update(a, b) BY DEF Update
    <2>5. c >= b /\ c >= a /\ (c # a => c = b) BY <2>4 DEF Update
    <2>6. PICK g : g = WriteStep(f, m, types) OBVIOUS
    <2>7. g = [f EXCEPT ![x] = c] BY <1>1, <2>1, <2>2, <2>3, <2>4, <2>6 DEF WriteStep
    <2>8. g \in ResourceType /\ g[x] = c /\ \A y \in ResourceNames : y # x => g[y] = f[y]
      BY <2>7 DEF ResourceType
    <2>9. \A y \in ResourceNames : f[y] \in Nat BY DEF ResourceType
    <2>10. \A y \in ResourceNames : f[y] <= g[y] BY <2>3, <2>5, <2>8, <2>9
    <2>11. \A y \in ResourceNames : g[y] # f[y] => y = x /\ g[y] = b BY <2>3, <2>5, <2>8
    <2>12. g[RowOf(m.delta)] >= m.block BY <2>1, <2>2, <2>5, <2>8
    <2>. QED BY <1>1, <2>1, <2>2, <2>6, <2>8, <2>10, <2>11, <2>12 DEF Later
  <1>2. CASE m.delta.struct \notin types \cap ResourceStructs
    <2>1. WriteStep(f, m, types) = f BY <1>2 DEF WriteStep
    <2>2. \A x \in ResourceNames : f[x] \in Nat BY DEF ResourceType
    <2>3. \A x \in ResourceNames : f[x] <= f[x] BY <2>2
    <2>. QED BY <1>2, <2>1, <2>3 DEF Later
  <1>. QED BY <1>1, <1>2

LEMMA WritesAdd ==
  ASSUME NEW f, NEW g, NEW h, NEW A \in SUBSET DeltaMessages, NEW B \in SUBSET DeltaMessages, NEW types,
         Later(g, f, A, types), Later(h, g, B, types)
  PROVE  Later(h, f, A \cup B, types)
  <1>1. /\ f \in ResourceType /\ g \in ResourceType /\ h \in ResourceType
        /\ \A x \in ResourceNames : f[x] <= g[x] /\ g[x] <= h[x]
    BY DEF Later
  <1>2. \A x \in ResourceNames : f[x] \in Nat /\ g[x] \in Nat /\ h[x] \in Nat BY <1>1 DEF ResourceType
  <1>3. \A x \in ResourceNames : f[x] <= h[x] BY <1>1, <1>2
  <1>4. ASSUME NEW x \in ResourceNames, h[x] # f[x]
        PROVE  \E m \in A \cup B : m.delta.struct \in ResourceStructs /\ RowOf(m.delta) = x /\ h[x] = m.block
    <2>1. CASE h[x] # g[x] BY <2>1, Zenon DEF Later
    <2>2. CASE h[x] = g[x]
      <3>1. g[x] # f[x] BY <1>4, <2>2
      <3>2. PICK m \in A : m.delta.struct \in ResourceStructs /\ RowOf(m.delta) = x /\ g[x] = m.block
        BY <3>1, Zenon DEF Later
      <3>. QED BY <2>2, <3>2
    <2>. QED BY <2>1, <2>2
  <1>5. ASSUME NEW m \in A \cup B, m.delta.struct \in types \cap ResourceStructs
        PROVE  h[RowOf(m.delta)] >= m.block
    <2>1. RowOf(m.delta) \in ResourceNames /\ m.block \in Nat BY <1>5, RowIsName
    <2>2. CASE m \in B BY <1>5, <2>2, Zenon DEF Later
    <2>3. CASE m \in A
      <3>1. g[RowOf(m.delta)] >= m.block BY <1>5, <2>3, Zenon DEF Later
      <3>. QED BY <1>1, <1>2, <2>1, <3>1
    <2>. QED BY <2>2, <2>3
  <1>. QED BY <1>1, <1>3, <1>4, <1>5, Zenon DEF Later

WriteStates(r, s, types) ==
    /\ r[0] = resources
    /\ \A k \in 1 .. Len(s) : r[k] = WriteStep(r[k - 1], s[k], types)
    /\ \A k \in 0 .. Len(s) : r[k] \in ResourceType
    /\ WrittenBy(s, types) = r[Len(s)]

LEMMA WriteSteps ==
  ASSUME resources \in ResourceType, NEW s \in Seq(DeltaMessages), NEW types
  PROVE  \E r : WriteStates(r, s, types)
  <1> DEFINE n == Len(s)
             V == ResourceType
             base == resources
             iter == CHOOSE h : h = [t \in SUBSET DOMAIN s |->
                        IF t = {} THEN base ELSE WriteStep(h[t \ {Max(t)}], s[Max(t)], types)]
             op == [p \in V \X (1 .. n) |-> WriteStep(p[1], s[p[2]], types)]
  <1>1. WrittenBy(s, types) = iter[DOMAIN s]
    BY Zenon DEF WrittenBy, WriteStep, RowOf, FoldLeft, MapThenFoldSet
  <1>2. n \in Nat /\ DOMAIN s = 1 .. n /\ \A k \in 1 .. n : s[k] \in DeltaMessages OBVIOUS
  <1>3. base \in V OBVIOUS
  <1>. HIDE DEF n, base, V
  <1>4. \A v \in V, k \in 1 .. n : WriteStep(v, s[k], types) \in V /\ op[<<v, k>>] = WriteStep(v, s[k], types)
    <2>. SUFFICES ASSUME NEW v \in V, NEW k \in 1 .. n
                  PROVE WriteStep(v, s[k], types) \in V /\ op[<<v, k>>] = WriteStep(v, s[k], types)
      OBVIOUS
    <2>1. Later(WriteStep(v, s[k], types), v, {s[k]}, types)
      <3>1. v \in ResourceType /\ s[k] \in DeltaMessages BY <1>2 DEF V
      <3>. QED BY <3>1, OneWrite
    <2>2. WriteStep(v, s[k], types) \in V BY <2>1, Zenon DEF Later, V
    <2>. QED BY <2>2
  <1>5. op \in [V \X (1 .. n) -> V] BY <1>4
  <1>. HIDE DEF op
  <1>6. PICK g \in [SUBSET (1 .. n) -> V] : Tabulates(g, n, base, op)
    BY <1>2, <1>3, <1>5, FoldRecursion
  <1>7. ASSUME NEW h, NEW t \in SUBSET (1 .. n), t # {}, h[t \ {Max(t)}] \in V
        PROVE  op[<<h[t \ {Max(t)}], Max(t)>>] = WriteStep(h[t \ {Max(t)}], s[Max(t)], types)
    <2>1. Max(t) \in 1 .. n BY <1>2, <1>7, MaxOfPositions
    <2>. QED BY <1>4, <1>7, <2>1
  <1>8. \E h : h = [t \in SUBSET DOMAIN s |->
                      IF t = {} THEN base ELSE WriteStep(h[t \ {Max(t)}], s[Max(t)], types)]
    <2>1. \A t \in SUBSET (1 .. n) : t # {} => g[t \ {Max(t)}] \in V OBVIOUS
    <2>2. g = [t \in SUBSET DOMAIN s |->
                 IF t = {} THEN base ELSE WriteStep(g[t \ {Max(t)}], s[Max(t)], types)]
      BY <1>2, <1>6, <1>7, <2>1 DEF Tabulates
    <2>. QED BY <2>2, Zenon
  <1>9. iter = [t \in SUBSET DOMAIN s |->
                  IF t = {} THEN base ELSE WriteStep(iter[t \ {Max(t)}], s[Max(t)], types)]
    BY <1>8, Zenon
  <1>. HIDE DEF iter
  <1>10. Iterates(iter, n, V, base, op) BY <1>2, <1>7, <1>9 DEF Iterates
  <1>11. PICK r : States(r, n, V, base, op) /\ r[n] = iter[1 .. n]
    <2>1. Reaches(iter, n, V, base, op) BY <1>2, <1>3, <1>5, <1>10, FoldStates
    <2>. QED BY <2>1 DEF Reaches
  <1>12. \A k \in 1 .. n : k - 1 \in 0 .. n BY <1>2
  <1>13. \A k \in 1 .. n : r[k] = WriteStep(r[k - 1], s[k], types)
    <2>. SUFFICES ASSUME NEW k \in 1 .. n PROVE r[k] = WriteStep(r[k - 1], s[k], types) OBVIOUS
    <2>1. PICK v \in V : v = r[k - 1] BY <1>11, <1>12 DEF States
    <2>2. r[k] = op[<<v, k>>] BY <1>11, <2>1 DEF States
    <2>. QED BY <1>4, <2>1, <2>2
  <1>. QED BY <1>1, <1>2, <1>11, <1>13 DEF States, WriteStates, n, V, base

LEMMA WrittenDoes ==
  ASSUME resources \in ResourceType, NEW s \in Seq(DeltaMessages), NEW types
  PROVE  Later(WrittenBy(s, types), resources, ToSet(s), types)
  <1>1. PICK r : WriteStates(r, s, types) BY WriteSteps
  <1>2. PICK n \in Nat : n = Len(s) /\ DOMAIN s = 1 .. n OBVIOUS
  <1> DEFINE firsts(k) == {s[j] : j \in 1 .. k}
             P == {k \in 0 .. n : Later(r[k], r[0], firsts(k), types)}
  <1>3. 0 \in P
    <2>1. r[0] \in ResourceType /\ 0 \in 0 .. n BY <1>1 DEF WriteStates
    <2>2. \A x \in ResourceNames : r[0][x] \in Nat BY <2>1 DEF ResourceType
    <2>3. \A x \in ResourceNames : r[0][x] <= r[0][x] BY <2>2
    <2>4. firsts(0) = {} OBVIOUS
    <2>5. Later(r[0], r[0], {}, types) BY <2>1, <2>3 DEF Later
    <2>. QED BY <2>1, <2>4, <2>5
  <1>4. \A k \in 1 .. n : k - 1 \in P => k \in P
    <2>. SUFFICES ASSUME NEW k \in 1 .. n, Later(r[k - 1], r[0], firsts(k - 1), types)
                  PROVE  Later(r[k], r[0], firsts(k), types) /\ k \in 0 .. n
      OBVIOUS
    <2>1. k - 1 \in 0 .. n /\ k \in 0 .. n OBVIOUS
    <2>2. PICK f \in ResourceType, m \in DeltaMessages : f = r[k - 1] /\ m = s[k]
      BY <1>1, <1>2, <2>1 DEF WriteStates
    <2>3. r[k] = WriteStep(f, m, types) BY <1>1, <1>2, <2>2 DEF WriteStates
    <2>4. Later(r[k], f, {m}, types) BY <2>3, OneWrite
    <2>5. firsts(k) = firsts(k - 1) \cup {m}
      <3>1. 1 .. k = (1 .. (k - 1)) \cup {k} OBVIOUS
      <3>. QED BY <2>2, <3>1
    <2>6. firsts(k - 1) \in SUBSET DeltaMessages /\ {m} \in SUBSET DeltaMessages
      <3>1. \A j \in 1 .. (k - 1) : j \in 1 .. n OBVIOUS
      <3>. QED BY <1>2, <3>1
    <2>. HIDE DEF firsts
    <2>7. Later(r[k], r[0], firsts(k - 1) \cup {m}, types)
      <3>1. PICK A \in SUBSET DeltaMessages : A = firsts(k - 1) BY <2>6
      <3>2. Later(f, r[0], A, types) BY <2>2, <3>1
      <3>. QED BY <2>4, <2>6, <3>1, <3>2, WritesAdd
    <2>. QED BY <2>1, <2>5, <2>7
  <1>5. \A k \in 0 .. n : k \in P
    <2>. HIDE DEF P
    <2>. QED BY <1>3, <1>4, Ascend
  <1>6. n \in 0 .. n OBVIOUS
  <1>7. Later(r[n], r[0], firsts(n), types) BY <1>5, <1>6
  <1>8. firsts(n) = ToSet(s) BY <1>2 DEF ToSet
  <1>9. r[0] = resources /\ r[n] = WrittenBy(s, types) BY <1>1, <1>2 DEF WriteStates
  <1>. QED BY <1>7, <1>8, <1>9

-----------------------------------------------------------------------------
(* The documents of the generic indices follow the chain *)

\* What was handled of a row is written, waits in a queue, or was lost with a request.
Accounted(d, b) ==
    \/ RowOf(d) \in nacked
    \/ resources[RowOf(d)] >= b
    \/ Queued(indexQueue, [delta |-> d, block |-> b])

\* Each delta handled is accounted for, and a document has the values of a block that
\* changed its row.
ResourceInv ==
    /\ setup \in DeltaSetups /\ script \in DeltaScripts
    /\ indexQueue \in QueueType /\ resources \in ResourceType
    /\ emitIdx \in [Deserializers -> CounterType]
    /\ handled \in [Deserializers -> SUBSET DOMAIN script]
    /\ \A m : Queued(indexQueue, m) => m.block \in DOMAIN script /\ Fresh(m, m.block)
    /\ \A x \in ResourceNames : resources[x] = 0 \/ resources[x] \in Indexed(x)
    /\ \A w \in Deserializers : \A b \in handled[w] : \A d \in DeltasIn(b) : ResourceWanted(d) => Accounted(d, b)

LEMMA ResourceInvInit == DeltaInit => ResourceInv
  <1>. SUFFICES ASSUME DeltaInit PROVE ResourceInv OBVIOUS
  <1>1. setup \in DeltaSetups /\ script \in DeltaScripts BY DEF DeltaInit
  <1>2. indexQueue \in QueueType /\ \A q \in QueueNames : indexQueue[q] = <<>>
    BY DEF DeltaInit, QueueType, QueueNames
  <1>3. resources \in ResourceType /\ \A x \in ResourceNames : resources[x] = 0
    BY DEF DeltaInit, ResourceType, ResourceNames
  <1>4. emitIdx \in [Deserializers -> CounterType] BY <1>1, SetupIs DEF DeltaInit, CounterType
  <1>5. handled \in [Deserializers -> SUBSET DOMAIN script] /\ \A w \in Deserializers : handled[w] = {}
    BY DEF DeltaInit
  <1>6. \A m : ~Queued(indexQueue, m)
    <2>1. \A i \in 1 .. setup.queues : GenericQueue(i) \in QueueNames
      BY DEF QueueNames, Routes, GenericQueue
    <2>2. ToSet(<<>>) = {} BY DEF ToSet
    <2>. QED BY <1>2, <2>1, <2>2 DEF Queued
  <1>. QED BY <1>1, <1>2, <1>3, <1>4, <1>5, <1>6 DEF ResourceInv

LEMMA IndexedIs ==
  ASSUME NEW x
  PROVE  Indexed(x) = {b \in DOMAIN script : \E d \in DeltasIn(b) : d.struct = x[1] /\ d.key = x[2] /\ ResourceWanted(d)}
  BY Zenon DEF Indexed, Touching

LEMMA WantedIsResource ==
  ASSUME NEW d, ResourceWanted(d) PROVE d.struct \in ResourceStructs
  BY DEF ResourceWanted, ResourceStructs

\* The chain and the configuration stay.
LEMMA StaticStays ==
  ASSUME setup' = setup, script' = script
  PROVE  /\ QueueType' = QueueType /\ ResourceType' = ResourceType /\ CounterType' = CounterType
         /\ Deserializers' = Deserializers /\ ResourceNames' = ResourceNames
         /\ \A m, b : Fresh(m, b)' <=> Fresh(m, b)
         /\ \A x : Indexed(x)' = Indexed(x)
         /\ \A d : ResourceWanted(d)' <=> ResourceWanted(d)
         /\ \A b : DeltasIn(b)' = DeltasIn(b)
         /\ \A queue, m : Queued(queue, m)' <=> Queued(queue, m)
  <1>1. \A b : DeltasIn(b)' = DeltasIn(b) BY DEF DeltasIn
  <1>2. AllDeltas' = AllDeltas BY DEF AllDeltas, DeltasIn
  <1>3. ResourceNames' = ResourceNames BY <1>2 DEF ResourceNames, KeysOf
  <1>4. DeltaMessages' = DeltaMessages BY <1>2 DEF DeltaMessages
  <1>5. \A d : ResourceWanted(d)' <=> ResourceWanted(d) BY DEF ResourceWanted
  <1>6. \A m, b : Fresh(m, b)' <=> Fresh(m, b) BY <1>1, <1>4, <1>5 DEF Fresh
  <1>7. \A x : Indexed(x)' = Indexed(x)
    BY Zenon DEF Indexed, Touching, DeltasIn, ResourceWanted
  <1>8. QueueType' = QueueType /\ ResourceType' = ResourceType /\ CounterType' = CounterType
    BY <1>3, <1>4 DEF QueueType, QueueNames, ResourceType, CounterType
  <1>9. Deserializers' = Deserializers BY DEF Deserializers
  <1>10. \A queue, m : Queued(queue, m)' <=> Queued(queue, m) BY DEF Queued, GenericQueue
  <1>. QED BY <1>1, <1>3, <1>5, <1>6, <1>7, <1>8, <1>9, <1>10

LEMMA ResourceStep ==
  ASSUME ResourceInv, setup' = setup, script' = script,
         NEW queue \in QueueType, queue = indexQueue', NEW res \in ResourceType, res = resources',
         emitIdx' \in [Deserializers -> CounterType],
         NEW done \in [Deserializers -> SUBSET DOMAIN script], done = handled',
         \A m : Queued(queue, m) => m.block \in DOMAIN script /\ Fresh(m, m.block),
         \A x \in ResourceNames : res[x] = 0 \/ res[x] \in Indexed(x),
         \A w \in Deserializers : \A b \in done[w] : \A d \in DeltasIn(b) :
            ResourceWanted(d) => \/ RowOf(d) \in nacked'
                                 \/ res[RowOf(d)] >= b
                                 \/ Queued(queue, [delta |-> d, block |-> b])
  PROVE  ResourceInv'
  <1>1. setup \in DeltaSetups /\ script \in DeltaScripts BY DEF ResourceInv
  <1>2. (setup \in DeltaSetups /\ script \in DeltaScripts)' BY <1>1
  <1>3. (indexQueue \in QueueType /\ resources \in ResourceType)' BY StaticStays
  <1>4. (emitIdx \in [Deserializers -> CounterType])' /\ (handled \in [Deserializers -> SUBSET DOMAIN script])'
    BY StaticStays
  <1>5. (\A m : Queued(indexQueue, m) => m.block \in DOMAIN script /\ Fresh(m, m.block))'
    <2>. SUFFICES ASSUME NEW m, Queued(indexQueue, m)'
                  PROVE  m.block \in DOMAIN script' /\ Fresh(m, m.block)'
      OBVIOUS
    <2>1. Queued(queue, m) BY DEF Queued, GenericQueue
    <2>. QED BY <2>1, StaticStays
  <1>6. (\A x \in ResourceNames : resources[x] = 0 \/ resources[x] \in Indexed(x))'
    <2>. SUFFICES ASSUME NEW x \in ResourceNames' PROVE resources'[x] = 0 \/ resources'[x] \in Indexed(x)'
      OBVIOUS
    <2>. QED BY StaticStays
  <1>7. (\A w \in Deserializers : \A b \in handled[w] : \A d \in DeltasIn(b) : ResourceWanted(d) => Accounted(d, b))'
    <2>. SUFFICES ASSUME NEW w \in Deserializers', NEW b \in handled'[w], NEW d \in DeltasIn(b)',
                         ResourceWanted(d)'
                  PROVE  Accounted(d, b)'
      OBVIOUS
    <2>1. w \in Deserializers /\ b \in done[w] /\ d \in DeltasIn(b) /\ ResourceWanted(d) BY StaticStays
    <2>2. RowOf(d) \in nacked' \/ res[RowOf(d)] >= b \/ Queued(queue, [delta |-> d, block |-> b])
      BY <2>1
    <2>3. PICK m : m = [delta |-> d, block |-> b] OBVIOUS
    <2>4. Queued(queue, m) <=> Queued(indexQueue, m)' BY StaticStays DEF Queued
    <2>5. PICK x : x = RowOf(d) OBVIOUS
    <2>6. x \in nacked' \/ resources'[x] >= b \/ Queued(indexQueue, m)' BY <2>2, <2>3, <2>4, <2>5
    <2>. QED BY <2>3, <2>5, <2>6 DEF Accounted, RowOf
  <1>. QED BY <1>2, <1>3, <1>4, <1>5, <1>6, <1>7 DEF ResourceInv

LEMMA ProcessKeepsResources ==
  ASSUME ResourceInv, NEW w \in Deserializers, NEW b \in DOMAIN script, NEW tally \in CounterType,
         ProcessDeltas(w, b, tally)
  PROVE  ResourceInv'
  <1>1. /\ setup \in DeltaSetups /\ script \in DeltaScripts /\ indexQueue \in QueueType
        /\ resources \in ResourceType /\ emitIdx \in [Deserializers -> CounterType]
        /\ handled \in [Deserializers -> SUBSET DOMAIN script]
    BY DEF ResourceInv
  <1>3. PICK f \in EmissionType : f = Emission(b, tally) /\ BlockEmits(f.queue, b)
    BY <1>1, EmissionDoes
  <1>4. PICK queue \in QueueType, idx \in CounterType : queue = f.queue /\ idx = f.idx BY DEF EmissionType
  <1>5. /\ indexQueue' = queue /\ emitIdx' = [emitIdx EXCEPT ![w] = idx]
        /\ handled' = [handled EXCEPT ![w] = @ \cup {b}]
        /\ setup' = setup /\ script' = script /\ resources' = resources /\ nacked' = nacked
    BY <1>3, <1>4 DEF ProcessDeltas
  <1>6. emitIdx' \in [Deserializers -> CounterType] BY <1>1, <1>5
  <1>7. PICK done \in [Deserializers -> SUBSET DOMAIN script] :
           done = handled' /\ \A v \in Deserializers : done[v] \subseteq handled[v] \cup {b}
    BY <1>1, <1>5
  <1>8. BlockEmits(queue, b) BY <1>3, <1>4
  <1>9. \A m : Queued(queue, m) => m.block \in DOMAIN script /\ Fresh(m, m.block)
    <2>. SUFFICES ASSUME NEW m, Queued(queue, m) PROVE m.block \in DOMAIN script /\ Fresh(m, m.block) OBVIOUS
    <2>1. CASE Queued(indexQueue, m) BY <2>1, Zenon DEF ResourceInv
    <2>2. CASE Fresh(m, b)
      <3>1. m.block = b BY <2>2, Zenon DEF Fresh
      <3>. QED BY <2>2, <3>1, Zenon
    <2>. QED BY <1>8, <2>1, <2>2, Zenon DEF BlockEmits
  <1>10. \A x \in ResourceNames : resources[x] = 0 \/ resources[x] \in Indexed(x) BY Zenon DEF ResourceInv
  <1>11. \A v \in Deserializers : \A c \in done[v] : \A d \in DeltasIn(c) :
            ResourceWanted(d) => \/ RowOf(d) \in nacked'
                                 \/ resources[RowOf(d)] >= c
                                 \/ Queued(queue, [delta |-> d, block |-> c])
    <2>. SUFFICES ASSUME NEW v \in Deserializers, NEW c \in done[v], NEW d \in DeltasIn(c), ResourceWanted(d)
                  PROVE  \/ RowOf(d) \in nacked
                         \/ resources[RowOf(d)] >= c
                         \/ Queued(queue, [delta |-> d, block |-> c])
      BY <1>5, Zenon
    <2>1. CASE c \in handled[v]
      <3>1. Accounted(d, c) BY <2>1, Zenon DEF ResourceInv
      <3>. QED BY <1>8, <3>1, Zenon DEF Accounted, BlockEmits
    <2>2. CASE c = b BY <1>8, <2>2, Zenon DEF BlockEmits
    <2>. QED BY <1>7, <2>1, <2>2
  <1>. QED BY <1>1, <1>5, <1>6, <1>7, <1>9, <1>10, <1>11, ResourceStep

LEMMA HandleBlockKeepsResources == ResourceInv /\ HandleBlock => ResourceInv'
  <1>. SUFFICES ASSUME ResourceInv, HandleBlock PROVE ResourceInv' OBVIOUS
  <1>1. PICK w \in Deserializers : \E b \in Waiting(w) : ProcessDeltas(w, b, emitIdx[w]) BY DEF HandleBlock
  <1>2. PICK b \in Waiting(w) : ProcessDeltas(w, b, emitIdx[w]) BY <1>1
  <1>3. b \in DOMAIN script BY DEF Waiting, BlocksOf
  <1>4. emitIdx[w] \in CounterType BY DEF ResourceInv
  <1>. QED BY <1>2, <1>3, <1>4, ProcessKeepsResources

\* The last of some blocks.
LEMMA LastIs ==
  ASSUME script \in DeltaScripts, NEW T \in SUBSET DOMAIN script, T # {}
  PROVE  LastOf(T) \in T /\ \A b \in T : b <= LastOf(T)
  <1>1. Len(script) \in Nat /\ DOMAIN script = 1 .. Len(script) BY ScriptIs
  <1>2. T \in SUBSET (0 .. Len(script)) BY <1>1
  <1>3. \E m \in T : \A k \in T : k <= m BY <1>1, <1>2, GreatestNumber
  <1>. QED BY <1>3 DEF LastOf

LEMMA HandleAgainKeepsResources == ResourceInv /\ HandleAgain => ResourceInv'
  <1>. SUFFICES ASSUME ResourceInv, HandleAgain PROVE ResourceInv' OBVIOUS
  <1>1. PICK w \in Deserializers :
           /\ handled[w] # {}
           /\ LET b == CHOOSE c \in handled[w] : \A a \in handled[w] : a <= c
              IN  \E tally \in {emitIdx[w], [c \in Counters |-> 1]} : ProcessDeltas(w, b, tally)
    BY Zenon DEF HandleAgain
  <1>2. PICK b : b = CHOOSE c \in handled[w] : \A a \in handled[w] : a <= c OBVIOUS
  <1>3. script \in DeltaScripts /\ handled[w] \in SUBSET DOMAIN script /\ setup \in DeltaSetups
        /\ emitIdx[w] \in CounterType
    BY DEF ResourceInv
  <1>4. b \in DOMAIN script
    <2>1. LastOf(handled[w]) = b BY <1>1, <1>2 DEF LastOf
    <2>2. LastOf(handled[w]) \in handled[w] BY <1>1, <1>3, LastIs
    <2>. QED BY <1>3, <2>1, <2>2
  <1>5. PICK tally \in {emitIdx[w], [c \in Counters |-> 1]} : ProcessDeltas(w, b, tally)
    BY <1>1, <1>2, Zenon
  <1>6. [c \in Counters |-> 1] \in CounterType BY <1>3, SetupIs DEF CounterType
  <1>7. tally \in CounterType BY <1>3, <1>6
  <1>. QED BY <1>4, <1>5, <1>7, ProcessKeepsResources

\* The queues of the other routes.
LEMMA OtherRoutesKeepResources ==
  ASSUME ResourceInv, NEW q \in QueueNames, q[1] # "generic", indexQueue' = Drop(q, Cargo(q)),
         setup' = setup, script' = script, handled' = handled, emitIdx' = emitIdx, resources' = resources,
         nacked' = nacked
  PROVE  ResourceInv'
  <1>1. /\ setup \in DeltaSetups /\ script \in DeltaScripts /\ indexQueue \in QueueType
        /\ resources \in ResourceType /\ emitIdx \in [Deserializers -> CounterType]
        /\ handled \in [Deserializers -> SUBSET DOMAIN script]
    BY DEF ResourceInv
  <1>2. PICK queue : queue = indexQueue' /\ TakenFrom(queue, q) BY <1>1, DropDoes
  <1>3. queue \in QueueType BY <1>2 DEF TakenFrom
  <1>4. \A m : Queued(queue, m) <=> Queued(indexQueue, m) BY <1>1, <1>2, DropKeepsQueued
  <1>5. \A m : Queued(queue, m) => m.block \in DOMAIN script /\ Fresh(m, m.block)
    BY <1>4, Zenon DEF ResourceInv
  <1>6. \A x \in ResourceNames : resources[x] = 0 \/ resources[x] \in Indexed(x) BY Zenon DEF ResourceInv
  <1>7. \A v \in Deserializers : \A c \in handled[v] : \A d \in DeltasIn(c) :
            ResourceWanted(d) => \/ RowOf(d) \in nacked'
                                 \/ resources[RowOf(d)] >= c
                                 \/ Queued(queue, [delta |-> d, block |-> c])
    <2>. SUFFICES ASSUME NEW v \in Deserializers, NEW c \in handled[v], NEW d \in DeltasIn(c), ResourceWanted(d)
                  PROVE  \/ RowOf(d) \in nacked
                         \/ resources[RowOf(d)] >= c
                         \/ Queued(queue, [delta |-> d, block |-> c])
      BY Zenon
    <2>1. Accounted(d, c) BY Zenon DEF ResourceInv
    <2>. QED BY <1>4, <2>1, Zenon DEF Accounted
  <1>. QED BY <1>1, <1>2, <1>3, <1>5, <1>6, <1>7, ResourceStep

BulkRequest(q, p, types, failed, tardy) ==
    /\ p = Payload(q) /\ types = {msg.delta.struct : msg \in ToSet(p)}
    /\ failed \in SUBSET types
    /\ tardy => failed # {} /\ failed # types
    /\ resources' = WrittenBy(p, types \ failed)
    /\ indexQueue' = IF failed = {} \/ tardy THEN Drop(q, Cargo(q)) ELSE indexQueue
    /\ nacked' = IF ~tardy THEN nacked
                 ELSE nacked \cup {<<msg.delta.struct, msg.delta.key>> :
                          msg \in {x \in ToSet(p) : x.delta.struct \in failed}}

LEMMA GenericKeepsResources == ResourceInv /\ GenericRoute => ResourceInv'
  <1>. SUFFICES ASSUME ResourceInv, GenericRoute PROVE ResourceInv' OBVIOUS
  <1>1. /\ setup \in DeltaSetups /\ script \in DeltaScripts /\ indexQueue \in QueueType
        /\ resources \in ResourceType /\ emitIdx \in [Deserializers -> CounterType]
        /\ handled \in [Deserializers -> SUBSET DOMAIN script]
    BY DEF ResourceInv
  <1>0. PICK i \in 1 .. setup.queues : \E p, types, failed, tardy : BulkRequest(GenericQueue(i), p, types, failed, tardy)
    <2>1. PICK i \in 1 .. setup.queues :
             LET q == <<"generic", i>>
                 types == {msg.delta.struct : msg \in ToSet(Payload(q))}
             IN  \E failed \in SUBSET types, tardy \in BOOLEAN :
                    /\ tardy => failed # {} /\ failed # types
                    /\ resources' = WrittenBy(Payload(q), types \ failed)
                    /\ indexQueue' = IF failed = {} \/ tardy THEN Drop(q, Cargo(q)) ELSE indexQueue
                    /\ nacked' = IF ~tardy THEN nacked
                                 ELSE nacked \cup {<<msg.delta.struct, msg.delta.key>> :
                                          msg \in {x \in ToSet(Payload(q)) : x.delta.struct \in failed}}
      BY DEF GenericRoute
    <2>2. PICK q, types : q = GenericQueue(i) /\ types = {msg.delta.struct : msg \in ToSet(Payload(q))} OBVIOUS
    <2>3. \E failed \in SUBSET types, tardy \in BOOLEAN : BulkRequest(q, Payload(q), types, failed, tardy)
      BY <2>1, <2>2, Zenon DEF BulkRequest, GenericQueue
    <2>. QED BY <2>2, <2>3, Zenon
  <1>2. PICK p, types, failed, tardy : BulkRequest(GenericQueue(i), p, types, failed, tardy) BY <1>0, Zenon
  <1>3. setup' = setup /\ script' = script /\ handled' = handled /\ emitIdx' = emitIdx BY DEF GenericRoute
  <1>4. PICK q : q = GenericQueue(i) OBVIOUS
  <1>15. q \in QueueNames /\ q[1] = "generic" BY <1>4 DEF QueueNames, Routes, GenericQueue
  <1>16. BulkRequest(q, p, types, failed, tardy) BY <1>2, <1>4
  <1>5. PICK short : short = Drop(q, Cargo(q)) /\ TakenFrom(short, q) BY <1>1, <1>15, DropDoes
  <1>6. p = Payload(q) /\ p \in Seq(DeltaMessages) /\ short \in QueueType BY <1>5, <1>16 DEF TakenFrom, BulkRequest
  <1>7. PICK res \in ResourceType : res = resources' /\ Later(res, resources, ToSet(p), types \ failed)
    BY <1>1, <1>6, <1>16, WrittenDoes DEF Later, BulkRequest
  <1>8. PICK queue \in QueueType : queue = indexQueue' /\ (queue = short \/ (queue = indexQueue /\ ~tardy /\ failed # {}))
    BY <1>1, <1>5, <1>6, <1>16 DEF BulkRequest
  <1>9. \A m : Queued(short, m) => Queued(indexQueue, m) BY <1>1, <1>5, <1>15, DropKeepsQueued
  <1>10. \A m \in ToSet(p) : Queued(indexQueue, m) BY <1>1, <1>5, <1>6, <1>15, DropKeepsQueued
  <1>11. \A m : Queued(indexQueue, m) => m \in ToSet(p) \/ Queued(short, m)
    BY <1>1, <1>5, <1>6, <1>15, DropKeepsQueued
  <1>12. \A m : Queued(queue, m) => m.block \in DOMAIN script /\ Fresh(m, m.block)
    BY <1>8, <1>9, Zenon DEF ResourceInv
  <1>13. \A x \in ResourceNames : res[x] = 0 \/ res[x] \in Indexed(x)
    <2>. SUFFICES ASSUME NEW x \in ResourceNames PROVE res[x] = 0 \/ res[x] \in Indexed(x) OBVIOUS
    <2>1. CASE res[x] = resources[x] BY <2>1, Zenon DEF ResourceInv
    <2>2. CASE res[x] # resources[x]
      <3>1. PICK m \in ToSet(p) : m.delta.struct \in ResourceStructs /\ RowOf(m.delta) = x /\ res[x] = m.block
        BY <1>7, <2>2, Zenon DEF Later
      <3>2. m.block \in DOMAIN script /\ Fresh(m, m.block) BY <1>10, Zenon DEF ResourceInv
      <3>3. m.delta \in DeltasIn(m.block) /\ ResourceWanted(m.delta) BY <3>1, <3>2, Zenon DEF Fresh
      <3>4. m.delta.struct = x[1] /\ m.delta.key = x[2] BY <3>1 DEF RowOf
      <3>. QED BY <3>1, <3>2, <3>3, <3>4, IndexedIs
    <2>. QED BY <2>1, <2>2
  <1>14. \A v \in Deserializers : \A c \in handled[v] : \A d \in DeltasIn(c) :
            ResourceWanted(d) => \/ RowOf(d) \in nacked'
                                 \/ res[RowOf(d)] >= c
                                 \/ Queued(queue, [delta |-> d, block |-> c])
    <2>. SUFFICES ASSUME NEW v \in Deserializers, NEW c \in handled[v], NEW d \in DeltasIn(c), ResourceWanted(d)
                  PROVE  \/ RowOf(d) \in nacked'
                         \/ res[RowOf(d)] >= c
                         \/ Queued(queue, [delta |-> d, block |-> c])
      BY Zenon
    <2>9. PICK m : m = [delta |-> d, block |-> c] OBVIOUS
    <2>0. m = [delta |-> d, block |-> c] /\ m.delta = d /\ m.block = c BY <2>9
    <2>1. c \in DOMAIN script BY <1>1
    <2>2. d \in AllDeltas /\ c \in Nat BY <1>1, <2>1, DeltasAre
    <2>3. m \in DeltaMessages /\ d.struct \in ResourceStructs BY <2>0, <2>2, WantedIsResource DEF DeltaMessages
    <2>4. RowOf(d) \in ResourceNames BY <2>0, <2>3, RowIsName
    <2>5. Accounted(d, c) BY Zenon DEF ResourceInv
    <2>6. CASE RowOf(d) \in nacked
      <3>1. RowOf(d) \in nacked' BY <1>16, <2>6 DEF BulkRequest
      <3>. QED BY <3>1
    <2>7. CASE resources[RowOf(d)] >= c
      <3>1. resources[RowOf(d)] <= res[RowOf(d)] BY <1>7, <2>4, Zenon DEF Later
      <3>2. resources[RowOf(d)] \in Nat /\ res[RowOf(d)] \in Nat BY <1>1, <1>7, <2>4 DEF ResourceType
      <3>3. res[RowOf(d)] >= c BY <2>2, <2>7, <3>1, <3>2
      <3>. QED BY <3>3
    <2>8. CASE Queued(indexQueue, m)
      <3>1. CASE m \notin ToSet(p) \/ queue = indexQueue
        <4>1. Queued(queue, m) BY <1>8, <1>11, <2>8, <3>1, Zenon
        <4>. QED BY <2>0, <4>1, Zenon
      <3>2. CASE m \in ToSet(p) /\ queue # indexQueue
        <4>1. d.struct \in types BY <1>16, <2>0, <3>2 DEF BulkRequest
        <4>2. CASE d.struct \notin failed
          <5>1. m.delta.struct \in (types \ failed) \cap ResourceStructs BY <2>0, <2>3, <4>1, <4>2
          <5>2. res[RowOf(m.delta)] >= m.block BY <1>7, <3>2, <5>1, Zenon DEF Later
          <5>. QED BY <2>0, <5>2, Zenon
        <4>3. CASE d.struct \in failed
          <5>1. tardy
            <6>1. failed # {} BY <4>3
            <6>. QED BY <1>8, <1>16, <3>2, <6>1 DEF BulkRequest
          <5>2. m \in {x \in ToSet(p) : x.delta.struct \in failed} BY <2>0, <3>2, <4>3
          <5>3. <<m.delta.struct, m.delta.key>> \in nacked' BY <1>16, <5>1, <5>2 DEF BulkRequest
          <5>4. RowOf(d) \in nacked' BY <2>0, <5>3 DEF RowOf
          <5>. QED BY <5>4
        <4>. QED BY <4>2, <4>3
      <3>. QED BY <3>1, <3>2
    <2>. QED BY <2>0, <2>5, <2>6, <2>7, <2>8, Zenon DEF Accounted
  <1>. QED BY <1>1, <1>3, <1>7, <1>8, <1>12, <1>13, <1>14, ResourceStep

\* The other routes take from queues of their own.
LEMMA RoutesKeepResources == ResourceInv /\ (DeltaRoute \/ StateRoute \/ TableRoute) => ResourceInv'
  <1>. SUFFICES ASSUME ResourceInv, DeltaRoute \/ StateRoute \/ TableRoute PROVE ResourceInv' OBVIOUS
  <1>1. /\ setup' = setup /\ script' = script /\ handled' = handled /\ emitIdx' = emitIdx
        /\ resources' = resources /\ nacked' = nacked
    BY DEF DeltaRoute, StateRoute, TableRoute
  <1>2. PICK route \in Routes \ {"generic"}, i \in 1 .. setup.queues :
           indexQueue' = Drop(<<route, i>>, Cargo(<<route, i>>))
    <2>1. CASE DeltaRoute
      <3>1. "deltas" \in Routes \ {"generic"} BY DEF Routes
      <3>. QED BY <2>1, <3>1, Zenon DEF DeltaRoute
    <2>2. CASE StateRoute
      <3>1. "state" \in Routes \ {"generic"} BY DEF Routes
      <3>. QED BY <2>2, <3>1, Zenon DEF StateRoute
    <2>3. CASE TableRoute
      <3>1. \A x \in {"proposals", "voters", "accounts", "dynamic"} : x \in Routes \ {"generic"} BY DEF Routes
      <3>. QED BY <2>3, <3>1, Zenon DEF TableRoute
    <2>. QED BY <2>1, <2>2, <2>3
  <1>3. PICK q : q = <<route, i>> OBVIOUS
  <1>4. q \in QueueNames /\ q[1] # "generic" BY <1>3 DEF QueueNames
  <1>. QED BY <1>1, <1>2, <1>3, <1>4, OtherRoutesKeepResources

LEMMA ResourceInvKept == ResourceInv /\ [DeltaNext]_deltaVars => ResourceInv'
  <1>. SUFFICES ASSUME ResourceInv, [DeltaNext]_deltaVars PROVE ResourceInv' OBVIOUS
  <1>1. CASE HandleBlock BY <1>1, HandleBlockKeepsResources
  <1>2. CASE HandleAgain BY <1>2, HandleAgainKeepsResources
  <1>3. CASE GenericRoute BY <1>3, GenericKeepsResources
  <1>4. CASE DeltaRoute \/ StateRoute \/ TableRoute BY <1>4, RoutesKeepResources
  <1>5. CASE UNCHANGED deltaVars
    <2>. USE <1>5 DEF deltaVars
    <2>1. /\ indexQueue \in QueueType /\ resources \in ResourceType /\ emitIdx \in [Deserializers -> CounterType]
          /\ handled \in [Deserializers -> SUBSET DOMAIN script]
      BY DEF ResourceInv
    <2>2. \A m : Queued(indexQueue, m) => m.block \in DOMAIN script /\ Fresh(m, m.block) BY Zenon DEF ResourceInv
    <2>3. \A x \in ResourceNames : resources[x] = 0 \/ resources[x] \in Indexed(x) BY Zenon DEF ResourceInv
    <2>4. \A v \in Deserializers : \A c \in handled[v] : \A d \in DeltasIn(c) :
            ResourceWanted(d) => \/ RowOf(d) \in nacked'
                                 \/ resources[RowOf(d)] >= c
                                 \/ Queued(indexQueue, [delta |-> d, block |-> c])
      <3>1. nacked' = nacked OBVIOUS
      <3>. QED BY <3>1, Zenon DEF ResourceInv, Accounted
    <2>5. setup' = setup /\ script' = script /\ indexQueue' = indexQueue /\ resources' = resources
          /\ emitIdx' = emitIdx /\ handled' = handled
      OBVIOUS
    <2>. QED BY <2>1, <2>2, <2>3, <2>4, <2>5, ResourceStep
  <1>. QED BY <1>1, <1>2, <1>3, <1>4, <1>5 DEF DeltaNext

\* Every block has its deserializer.
LEMMA BlockHasDeserializer ==
  ASSUME setup \in DeltaSetups, script \in DeltaScripts, NEW b \in DOMAIN script
  PROVE  \E w \in Deserializers : b \in BlocksOf(w)
  <1>1. PICK n \in Nat \ {0} : n = setup.workers BY SetupIs
  <1>2. b \in Nat /\ b - 1 \in Nat
    <2>1. b \in 1 .. Len(script) /\ Len(script) \in Nat BY ScriptIs
    <2>. QED BY <2>1
  <1>3. PICK x \in 0 .. (n - 1) : x = (b - 1) % n BY <1>2
  <1>4. x + 1 \in 1 .. n /\ (x + 1) - 1 = x BY <1>3
  <1>. QED BY <1>1, <1>3, <1>4 DEF Deserializers, BlocksOf

LEMMA ResourceInvFollows == ResourceInv => ResourcesFollowChain
  <1>. SUFFICES ASSUME ResourceInv, Drained, NEW x \in ResourceNames, x \notin nacked
                PROVE  resources[x] = LastOf(Indexed(x))
    BY Zenon DEF ResourcesFollowChain, ResourceInv, ResourceType
  <1>1. setup \in DeltaSetups /\ script \in DeltaScripts /\ indexQueue \in QueueType /\ resources \in ResourceType
    BY DEF ResourceInv
  <1>2. \A m : ~Queued(indexQueue, m)
    <2>1. \A i \in 1 .. setup.queues : GenericQueue(i) \in QueueNames
      BY DEF QueueNames, Routes, GenericQueue
    <2>2. ToSet(<<>>) = {} BY DEF ToSet
    <2>3. DOMAIN indexQueue = QueueNames BY <1>1 DEF QueueType
    <2>4. \A i \in 1 .. setup.queues : indexQueue[GenericQueue(i)] = <<>> BY <2>1, <2>3 DEF Drained
    <2>. QED BY <2>2, <2>4 DEF Queued
  <1>3. Indexed(x) \in SUBSET DOMAIN script BY IndexedIs
  <1>4. \A b \in DOMAIN script : b \in Nat BY DeltasAre, <1>1
  <1>5. resources[x] = 0 \/ resources[x] \in Indexed(x) BY Zenon DEF ResourceInv
  <1>6. resources[x] \in Nat BY <1>1 DEF ResourceType
  <1>7. ASSUME NEW b \in Indexed(x) PROVE resources[x] >= b /\ b >= 1
    <2>1. b \in DOMAIN script BY <1>3
    <2>2. PICK d \in DeltasIn(b) : d.struct = x[1] /\ d.key = x[2] /\ ResourceWanted(d) BY IndexedIs
    <2>3. PICK w \in Deserializers : b \in BlocksOf(w) BY <1>1, <2>1, BlockHasDeserializer
    <2>4. b \in handled[w] BY <2>3 DEF Drained
    <2>5. Accounted(d, b) BY <2>2, <2>4, Zenon DEF ResourceInv
    <2>6. RowOf(d) = x BY <2>2 DEF RowOf, ResourceNames
    <2>7. resources[x] >= b BY <1>2, <2>5, <2>6, Zenon DEF Accounted
    <2>8. b \in 1 .. Len(script) BY <1>1, <2>1, ScriptIs
    <2>. QED BY <2>7, <2>8
  <1>8. CASE Indexed(x) = {} BY <1>5, <1>8 DEF LastOf
  <1>9. CASE Indexed(x) # {}
    <2>1. PICK T, z : T = Indexed(x) /\ z = LastOf(T) OBVIOUS
    <2>2. z \in T /\ \A b \in T : b <= z BY <1>1, <1>3, <1>9, <2>1, LastIs
    <2>3. resources[x] >= z /\ z >= 1 /\ z \in Nat BY <1>3, <1>4, <1>7, <2>1, <2>2
    <2>4. resources[x] <= z BY <1>5, <1>6, <2>1, <2>2, <2>3
    <2>5. resources[x] = z BY <1>6, <2>3, <2>4
    <2>. QED BY <2>1, <2>5
  <1>. QED BY <1>8, <1>9

\* When every queue is empty, a document of the resource indices has the values of the
\* last block that changed its row, however many workers, queues and redeliveries there
\* were, unless a bulk request that failed lost it.
THEOREM ResourcesAreTheChains == DeltaSpec => []ResourcesFollowChain
<1>1. DeltaInit => ResourceInv BY ResourceInvInit
<1>2. ResourceInv /\ [DeltaNext]_deltaVars => ResourceInv' BY ResourceInvKept
<1>3. ResourceInv => ResourcesFollowChain BY ResourceInvFollows
<1> QED BY <1>1, <1>2, <1>3, PTL DEF DeltaSpec

-----------------------------------------------------------------------------
(* The permissions of MongoDB follow the chain *)

PermissionStructs == {"permission", "permission_link"}
StateMessages == indexQueue[StateQueue(1)]

\* The queue s is t and then what block b has of permissions and links.
StateGrows(s, t, b) ==
    /\ s \in Seq(DeltaMessages) /\ t \in Seq(DeltaMessages) /\ Len(t) <= Len(s)
    /\ \A i \in 1 .. Len(t) : s[i] = t[i]
    /\ \A i \in 1 .. Len(s) : i > Len(t) =>
          s[i].block = b /\ s[i].delta \in DeltasIn(b) /\ s[i].delta.struct \in PermissionStructs

LEMMA GrowsByOne ==
  ASSUME NEW t, NEW s, NEW b, StateGrows(s, t, b), NEW m \in DeltaMessages,
         m.block = b, m.delta \in DeltasIn(b), m.delta.struct \in PermissionStructs
  PROVE  /\ StateGrows(Append(s, m), t, b)
         /\ \A x \in ToSet(s) : x \in ToSet(Append(s, m))
         /\ m \in ToSet(Append(s, m))
  <1>1. s \in Seq(DeltaMessages) /\ t \in Seq(DeltaMessages) BY DEF StateGrows
  <1>2. PICK r : r = Append(s, m) OBVIOUS
  <1>3. PICK n \in Nat, k \in Nat : n = Len(s) /\ k = Len(t) /\ k <= n BY <1>1 DEF StateGrows
  <1>4. /\ r \in Seq(DeltaMessages) /\ Len(r) = n + 1 /\ \A i \in 1 .. n : r[i] = s[i]
        /\ r[n + 1] = m
    BY <1>1, <1>2, <1>3
  <1>5. \A i \in 1 .. k : r[i] = t[i]
    <2>. SUFFICES ASSUME NEW i \in 1 .. k PROVE r[i] = t[i] OBVIOUS
    <2>1. i \in 1 .. n BY <1>3
    <2>2. s[i] = t[i] BY <1>3 DEF StateGrows
    <2>. QED BY <1>4, <2>1, <2>2
  <1>6. ASSUME NEW i \in 1 .. n + 1, i > k
        PROVE  r[i].block = b /\ r[i].delta \in DeltasIn(b) /\ r[i].delta.struct \in PermissionStructs
    <2>1. CASE i \in 1 .. n
      <3>1. s[i].block = b /\ s[i].delta \in DeltasIn(b) /\ s[i].delta.struct \in PermissionStructs
        BY <1>3, <1>6, <2>1 DEF StateGrows
      <3>. QED BY <1>4, <2>1, <3>1
    <2>2. CASE i = n + 1 BY <1>4, <2>2
    <2>. QED BY <1>3, <2>1, <2>2
  <1>7. StateGrows(r, t, b)
    <2>1. k <= n + 1 BY <1>3
    <2>. QED BY <1>1, <1>3, <1>4, <1>5, <1>6, <2>1 DEF StateGrows
  <1>8. DOMAIN s = 1 .. n /\ DOMAIN r = 1 .. n + 1 BY <1>1, <1>3, <1>4
  <1>9. \A x \in ToSet(s) : x \in ToSet(r)
    <2>1. \A i \in 1 .. n : i \in 1 .. n + 1 OBVIOUS
    <2>. QED BY <1>4, <1>8, <2>1 DEF ToSet
  <1>10. m \in ToSet(r)
    <2>1. n + 1 \in 1 .. n + 1 BY <1>3
    <2>. QED BY <1>4, <1>8, <2>1 DEF ToSet
  <1>. QED BY <1>2, <1>7, <1>9, <1>10

\* After k deltas of block b.
StateUpTo(f, e, b, k) ==
    /\ StateGrows(f.queue[StateQueue(1)], e.queue[StateQueue(1)], b)
    /\ \A j \in 1 .. k : script[b][j].struct \in PermissionStructs =>
          [delta |-> script[b][j], block |-> b] \in ToSet(f.queue[StateQueue(1)])

LEMMA EmissionGrowsState ==
  ASSUME setup \in DeltaSetups, script \in DeltaScripts, NEW b \in DOMAIN script, NEW tally,
         NEW r, EmissionStates(r, b, tally), setup.deltas, setup.queues = 1
  PROVE  \A k \in 0 .. Len(script[b]) : StateUpTo(r[k], r[0], b, k)
  <1>. DEFINE P == {k \in 0 .. Len(script[b]) : StateUpTo(r[k], r[0], b, k)}
  <1>0. PICK n \in Nat : n = Len(script[b]) BY DeltasAre
  <1>9. StateQueue(1) \in QueueNames BY DEF QueueNames, Routes, StateQueue
  <1>8. \A e \in EmissionType : e.queue[StateQueue(1)] \in Seq(DeltaMessages)
    <2>. SUFFICES ASSUME NEW e \in EmissionType PROVE e.queue[StateQueue(1)] \in Seq(DeltaMessages) OBVIOUS
    <2>1. PICK queue \in QueueType : queue = e.queue BY DEF EmissionType
    <2>. QED BY <1>9, <2>1 DEF QueueType
  <1>1. 0 \in P
    <2>1. 0 \in 0 .. n /\ \A j \in 1 .. 0 : FALSE OBVIOUS
    <2>2. PICK s \in Seq(DeltaMessages) : s = r[0].queue[StateQueue(1)]
      BY <1>0, <1>8, <2>1 DEF EmissionStates
    <2>3. StateGrows(s, s, b)
      <3>1. Len(s) \in Nat /\ \A i \in 1 .. Len(s) : ~(i > Len(s)) OBVIOUS
      <3>. QED BY <3>1 DEF StateGrows
    <2>4. StateUpTo(r[0], r[0], b, 0) BY <2>1, <2>2, <2>3, Zenon DEF StateUpTo
    <2>. QED BY <1>0, <2>1, <2>4
  <1>2. \A k \in 1 .. n : k - 1 \in P => k \in P
    <2>. SUFFICES ASSUME NEW k \in 1 .. n, StateUpTo(r[k - 1], r[0], b, k - 1)
                  PROVE  StateUpTo(r[k], r[0], b, k) /\ k \in 0 .. n
      BY <1>0
    <2>1. PICK d \in AllDeltas : d = script[b][k] /\ d \in DeltasIn(b) BY <1>0, DeltasAre
    <2>2. PICK e, f, z : e = r[k - 1] /\ f = r[k] /\ z = r[0] OBVIOUS
    <2>3. k - 1 \in 0 .. n /\ k \in 0 .. n OBVIOUS
    <2>4. e \in EmissionType /\ f = HandleDelta(e, d, b)
      BY <1>0, <2>1, <2>2, <2>3 DEF EmissionStates
    <2>5. Adds(f, e, d, b) /\ b \in Nat BY <2>1, <2>4, HandleDeltaAdds, DeltasAre
    <2>6. PICK m \in DeltaMessages : m = [delta |-> d, block |-> b] BY <2>5 DEF DeltaMessages
    <2>7. m.block = b /\ m.delta = d BY <2>6
    <2>8. PICK s, t : s = e.queue[StateQueue(1)] /\ t = z.queue[StateQueue(1)] /\ StateGrows(s, t, b)
      BY <2>2, Zenon DEF StateUpTo
    <2>9. s \in Seq(DeltaMessages) /\ f \in EmissionType BY <2>5, <2>8, Zenon DEF StateGrows, Adds
    <2>10. PICK u \in Seq(DeltaMessages) : u = f.queue[StateQueue(1)] BY <1>8, <2>9
    <2>11. d.struct \in PermissionStructs => u = Append(s, m)
      BY <2>5, <2>6, <2>8, <2>10, Zenon DEF Adds, PermissionStructs
    <2>12. d.struct \notin PermissionStructs => u = s
      <3>1. 1 \in 1 .. setup.queues OBVIOUS
      <3>. QED BY <2>5, <2>8, <2>10, <3>1, Zenon DEF Adds, PermissionStructs
    <2>13. /\ StateGrows(u, t, b) /\ \A x \in ToSet(s) : x \in ToSet(u)
           /\ d.struct \in PermissionStructs => m \in ToSet(u)
      <3>1. CASE d.struct \in PermissionStructs
        <4>1. PICK v : v = Append(s, m) OBVIOUS
        <4>2. m \in DeltaMessages /\ m.block = b /\ m.delta \in DeltasIn(b) /\ m.delta.struct \in PermissionStructs
          BY <2>1, <2>7, <3>1
        <4>3. StateGrows(v, t, b) /\ (\A x \in ToSet(s) : x \in ToSet(v)) /\ m \in ToSet(v)
          BY <2>8, <4>1, <4>2, GrowsByOne
        <4>4. u = v BY <2>11, <3>1, <4>1
        <4>. QED BY <4>3, <4>4
      <3>2. CASE d.struct \notin PermissionStructs BY <2>8, <2>12, <3>2
      <3>. QED BY <3>1, <3>2
    <2>14. \A j \in 1 .. k : script[b][j].struct \in PermissionStructs =>
              [delta |-> script[b][j], block |-> b] \in ToSet(u)
      <3>. SUFFICES ASSUME NEW j \in 1 .. k, script[b][j].struct \in PermissionStructs
                    PROVE  [delta |-> script[b][j], block |-> b] \in ToSet(u)
        OBVIOUS
      <3>1. CASE j = k BY <2>1, <2>6, <2>13, <3>1, Zenon
      <3>2. CASE j # k
        <4>1. j \in 1 .. (k - 1) BY <3>2
        <4>2. [delta |-> script[b][j], block |-> b] \in ToSet(s) BY <2>2, <2>8, <4>1, Zenon DEF StateUpTo
        <4>. QED BY <2>13, <4>2, Zenon
      <3>. QED BY <3>1, <3>2
    <2>. QED BY <2>2, <2>3, <2>8, <2>10, <2>13, <2>14, Zenon DEF StateUpTo
  <1>3. \A k \in 0 .. n : k \in P
    <2>. HIDE DEF P
    <2>. QED BY <1>1, <1>2, Ascend
  <1>. QED BY <1>0, <1>3

LEMMA EmissionState ==
  ASSUME setup \in DeltaSetups, script \in DeltaScripts, indexQueue \in QueueType,
         NEW b \in DOMAIN script, NEW tally \in CounterType, setup.deltas, setup.queues = 1
  PROVE  /\ StateGrows(Emission(b, tally).queue[StateQueue(1)], StateMessages, b)
         /\ \A d \in DeltasIn(b) : d.struct \in PermissionStructs =>
               [delta |-> d, block |-> b] \in ToSet(Emission(b, tally).queue[StateQueue(1)])
  <1>1. PICK r : EmissionStates(r, b, tally) BY EmissionSteps
  <1>2. PICK n \in Nat : n = Len(script[b]) BY DeltasAre
  <1>3. PICK f : f = r[n] /\ f = Emission(b, tally) BY <1>1, <1>2 DEF EmissionStates
  <1>4. StateUpTo(f, r[0], b, n)
    <2>1. n \in 0 .. n OBVIOUS
    <2>. QED BY <1>1, <1>2, <1>3, <2>1, EmissionGrowsState
  <1>5. r[0].queue = indexQueue BY <1>1 DEF EmissionStates
  <1>6. \A d \in DeltasIn(b) : d.struct \in PermissionStructs =>
               [delta |-> d, block |-> b] \in ToSet(f.queue[StateQueue(1)])
    <2>. SUFFICES ASSUME NEW d \in DeltasIn(b), d.struct \in PermissionStructs
                  PROVE  [delta |-> d, block |-> b] \in ToSet(f.queue[StateQueue(1)])
      OBVIOUS
    <2>1. PICK k \in 1 .. n : script[b][k] = d BY <1>2, DeltasAre
    <2>. QED BY <1>4, <2>1, Zenon DEF StateUpTo
  <1>7. StateGrows(f.queue[StateQueue(1)], StateMessages, b) BY <1>4, <1>5, Zenon DEF StateUpTo, StateMessages
  <1>. QED BY <1>3, <1>6, <1>7

LEMMA FoldOne ==
  ASSUME NEW p, NEW ordering, DOMAIN ordering = {1}, ordering[1] = 1
  PROVE  FoldLeft(LAMBDA perms, k : WritePermission(perms, p[k]), permissions, ordering)
             = WritePermission(permissions, p[1])
  <1> DEFINE iter == CHOOSE h : h = [t \in SUBSET DOMAIN ordering |->
                        IF t = {} THEN permissions ELSE WritePermission(h[t \ {Max(t)}], p[ordering[Max(t)]])]
             g == [t \in SUBSET DOMAIN ordering |->
                        IF t = {} THEN permissions ELSE WritePermission(permissions, p[1])]
  <1>1. FoldLeft(LAMBDA perms, k : WritePermission(perms, p[k]), permissions, ordering) = iter[DOMAIN ordering]
    BY Zenon DEF FoldLeft, MapThenFoldSet
  <1>2. \A t \in SUBSET DOMAIN ordering : t # {} => t = {1} OBVIOUS
  <1>3. Max({1}) = 1
    <2>1. 1 \in Nat /\ 1 \in 1 .. 1 /\ 1 .. 1 = {1} OBVIOUS
    <2>2. Max(1 .. 1) = 1 BY <2>1, MaxOfInterval
    <2>. QED BY <2>1, <2>2
  <1>4. \A t \in SUBSET DOMAIN ordering : t # {} => t \ {Max(t)} = {} /\ ordering[Max(t)] = 1
    <2>. SUFFICES ASSUME NEW t \in SUBSET DOMAIN ordering, t # {} PROVE t \ {Max(t)} = {} /\ ordering[Max(t)] = 1 OBVIOUS
    <2>1. t = {1} BY <1>2
    <2>2. Max(t) = 1 BY <1>3, <2>1
    <2>. QED BY <2>1, <2>2
  <1>5. g[{}] = permissions OBVIOUS
  <1>6. \E h : h = [t \in SUBSET DOMAIN ordering |->
                      IF t = {} THEN permissions ELSE WritePermission(h[t \ {Max(t)}], p[ordering[Max(t)]])]
    <2>1. PICK h : h = g OBVIOUS
    <2>2. \A t \in SUBSET DOMAIN ordering : t # {} =>
             WritePermission(h[t \ {Max(t)}], p[ordering[Max(t)]]) = WritePermission(permissions, p[1])
      <3>. SUFFICES ASSUME NEW t \in SUBSET DOMAIN ordering, t # {}
                    PROVE  WritePermission(h[t \ {Max(t)}], p[ordering[Max(t)]]) = WritePermission(permissions, p[1])
        OBVIOUS
      <3>1. t \ {Max(t)} = {} /\ ordering[Max(t)] = 1 BY <1>4
      <3>2. h[t \ {Max(t)}] = permissions BY <1>5, <2>1, <3>1
      <3>. QED BY <3>1, <3>2
    <2>3. h = [t \in SUBSET DOMAIN ordering |->
                 IF t = {} THEN permissions ELSE WritePermission(permissions, p[1])]
      BY <2>1
    <2>4. h = [t \in SUBSET DOMAIN ordering |->
                 IF t = {} THEN permissions ELSE WritePermission(h[t \ {Max(t)}], p[ordering[Max(t)]])]
      <3>. HIDE DEF g
      <3>. QED BY <2>2, <2>3
    <2>. QED BY <2>4, Zenon
  <1>7. iter = [t \in SUBSET DOMAIN ordering |->
                  IF t = {} THEN permissions ELSE WritePermission(iter[t \ {Max(t)}], p[ordering[Max(t)]])]
    BY <1>6, Zenon
  <1>. HIDE DEF iter, g
  <1>8. iter[{}] = permissions BY <1>7
  <1>9. iter[{1}] = WritePermission(iter[{1} \ {Max({1})}], p[ordering[Max({1})]])
    <2>1. {1} \in SUBSET DOMAIN ordering /\ {1} # {} OBVIOUS
    <2>. QED BY <1>7, <2>1
  <1>10. {1} \ {Max({1})} = {} /\ ordering[Max({1})] = 1 BY <1>3
  <1>11. iter[{1}] = WritePermission(permissions, p[1]) BY <1>8, <1>9, <1>10
  <1>. QED BY <1>1, <1>11

LEMMA OneAtATime ==
  ASSUME NEW ordering, ordering \in SetToSeqs({1}) PROVE DOMAIN ordering = {1} /\ ordering[1] = 1
  <1>1. Cardinality({1}) = 1 BY FS_Singleton
  <1>2. 1 .. 1 = {1} OBVIOUS
  <1>3. ordering \in [1 .. 1 -> {1}] BY <1>1, Zenon DEF SetToSeqs
  <1>. QED BY <1>2, <1>3

\* The 'state' route with batches of one writes the message at the head of its queue.
StateTaken(s, m) ==
    /\ s = StateMessages /\ s \in Seq(DeltaMessages) /\ Len(s) \in Nat \ {0} /\ m = s[1]
    /\ permissions' = WritePermission(permissions, m)
    /\ indexQueue' = [indexQueue EXCEPT ![StateQueue(1)] = SubSeq(s, 2, Len(s))]
    /\ unnamed' = unnamed

LEMMA StateRouteTakes ==
  ASSUME setup \in DeltaSetups, indexQueue \in QueueType, setup.queues = 1, setup.batch = 1, StateRoute
  PROVE  \E s, m : StateTaken(s, m)
  <1>1. PICK i \in 1 .. setup.queues :
           LET q == <<"state", i>>
               mixed == \E msg \in ToSet(Payload(q)) : msg.delta.struct = "permission"
               strays == {msg \in ToSet(Payload(q)) : mixed /\ msg.delta.struct = "permission_link"}
           IN  /\ indexQueue[q] # <<>>
               /\ indexQueue' = Drop(q, Cargo(q))
               /\ \E ordering \in SetToSeqs(DOMAIN Payload(q)) :
                     permissions' = FoldLeft(LAMBDA perms, k : WritePermission(perms, Payload(q)[k]),
                                             permissions, ordering)
               /\ \/ strays = {} /\ UNCHANGED unnamed
                  \/ \E msg \in strays : unnamed' = msg.delta.present
    BY DEF StateRoute
  <1>2. i = 1 OBVIOUS
  <1>3. PICK q : q = StateQueue(1) OBVIOUS
  <1>4. q \in QueueNames /\ q = <<"state", i>> BY <1>2, <1>3 DEF QueueNames, Routes, StateQueue
  <1>5. PICK s \in Seq(DeltaMessages) : s = indexQueue[q] BY <1>4 DEF QueueType
  <1>6. s # <<>> BY <1>1, <1>4, <1>5, Zenon
  <1>7. Len(s) \in Nat \ {0} BY <1>6
  <1>8. Cargo(q) = 1 BY <1>5, <1>7 DEF Cargo
  <1>9. PICK p : p = Payload(q) OBVIOUS
  <1>10. DOMAIN p = 1 .. 1 /\ p[1] = s[1]
    <2>1. p = SubSeq(s, 1, 1) BY <1>5, <1>8, <1>9 DEF Payload
    <2>2. \A j \in 1 .. 1 : s[j] \in DeltaMessages BY <1>7
    <2>3. /\ p \in Seq(DeltaMessages) /\ Len(p) = IF 1 <= 1 THEN 1 - 1 + 1 ELSE 0
          /\ \A j \in 1 .. (1 - 1 + 1) : p[j] = s[1 + j - 1]
      BY <2>1, <2>2, SubSeqProperties
    <2>4. Len(p) = 1 /\ p[1] = s[1] BY <2>3
    <2>. QED BY <2>3, <2>4
  <1>11. DOMAIN p = {1} /\ p[1] = s[1] /\ ToSet(p) = {s[1]}
    <2>1. 1 .. 1 = {1} OBVIOUS
    <2>. QED BY <1>10, <2>1 DEF ToSet
  <1>12. PICK ordering \in SetToSeqs(DOMAIN Payload(<<"state", i>>)) :
            permissions' = FoldLeft(LAMBDA perms, k : WritePermission(perms, Payload(<<"state", i>>)[k]),
                                    permissions, ordering)
    BY <1>1, Zenon
  <1>13. permissions' = WritePermission(permissions, p[1])
    <2>1. p = Payload(<<"state", i>>) BY <1>4, <1>9
    <2>2. ordering \in SetToSeqs({1}) BY <1>11, <2>1
    <2>3. DOMAIN ordering = {1} /\ ordering[1] = 1 BY <2>2, OneAtATime
    <2>4. FoldLeft(LAMBDA perms, k : WritePermission(perms, Payload(<<"state", i>>)[k]), permissions, ordering)
             = WritePermission(permissions, Payload(<<"state", i>>)[1])
      BY <2>3, FoldOne, Zenon
    <2>. QED BY <1>12, <2>1, <2>4, Zenon
  <1>14. unnamed' = unnamed
    <2>1. PICK mixed, strays :
             /\ mixed <=> \E msg \in ToSet(p) : msg.delta.struct = "permission"
             /\ strays = {msg \in ToSet(p) : mixed /\ msg.delta.struct = "permission_link"}
      OBVIOUS
    <2>2. strays = {} BY <1>11, <2>1
    <2>3. {msg \in ToSet(Payload(q)) : (\E x \in ToSet(Payload(q)) : x.delta.struct = "permission")
                                       /\ msg.delta.struct = "permission_link"} = {}
      BY <1>9, <1>11
    <2>. QED BY <1>1, <1>4, <2>3, Zenon
  <1>15. indexQueue' = [indexQueue EXCEPT ![q] = SubSeq(s, 2, Len(s))]
    <2>1. indexQueue' = Drop(q, Cargo(q)) BY <1>1, <1>4, Zenon
    <2>. QED BY <1>5, <1>8, <2>1 DEF Drop
  <1>16. StateTaken(s, s[1]) BY <1>3, <1>5, <1>7, <1>11, <1>13, <1>14, <1>15 DEF StateTaken, StateMessages
  <1>. QED BY <1>16

LinkKeys == KeysOf({"permission_link"})
PermissionDoc == [auth : Int, links : SUBSET LinkKeys]
PermissionType == [PermissionKeys -> PermissionDoc]

\* No block of done has a later delta of d's row than block c.
Newest(done, d, c) ==
    \A a \in done : \A e \in DeltasIn(a) : e.struct = d.struct /\ e.key = d.key => a <= c
Waits(s, d, c) == [delta |-> d, block |-> c] \in ToSet(s)
AuthOf(d, c) == IF d.present THEN c ELSE -1

\* The messages wait in the order of the blocks, and what waits no more is of no later block.
InBlockOrder(done, s) ==
    /\ \A b \in done : \A a \in 1 .. b : a \in done
    /\ \A i, j \in 1 .. Len(s) : i <= j => s[i].block <= s[j].block
    /\ \A m \in ToSet(s) :
          m.block \in done /\ m.delta \in DeltasIn(m.block) /\ m.delta.struct \in PermissionStructs
    /\ \A c \in done : \A d \in DeltasIn(c) :
          d.struct \in PermissionStructs /\ ~Waits(s, d, c) => \A m \in ToSet(s) : c <= m.block

\* What does not wait any more is in the documents.
DocumentsFollow(done, s, perms) ==
    /\ \A c \in done : \A d \in DeltasIn(c) :
          d.struct = "permission" /\ Newest(done, d, c) /\ ~Waits(s, d, c) =>
              perms[d.key].auth = AuthOf(d, c)
    /\ \A c \in done : \A d \in DeltasIn(c) :
          d.struct = "permission_link" /\ Newest(done, d, c) /\ ~Waits(s, d, c) /\ ~Moved(d.key) =>
              (d.key \in perms[d.to].links <=> d.present)
    /\ \A p \in PermissionKeys : \A k \in perms[p].links :
          \E d \in AllDeltas : d.struct = "permission_link" /\ d.key = k /\ d.to = p

\* s and perms are what the blocks done leave in the queue and in the documents.
Follows(done, s, perms) ==
    /\ done \in SUBSET DOMAIN script /\ s \in Seq(DeltaMessages) /\ perms \in PermissionType
    /\ InBlockOrder(done, s)
    /\ DocumentsFollow(done, s, perms)

LEMMA RowOnce ==
  ASSUME script \in DeltaScripts, NEW b \in DOMAIN script, NEW d \in DeltasIn(b), NEW e \in DeltasIn(b),
         d.struct \in PermissionStructs, e.struct = d.struct, e.key = d.key
  PROVE  e = d
  BY ChainAssumption DEF DeltasIn, PermissionStructs

LEMMA RemovedHasNoLink ==
  ASSUME script \in DeltaScripts, NEW b \in DOMAIN script, NEW c1 \in 1 .. b, NEW c2 \in 1 .. b,
         NEW d \in DeltasIn(c1), NEW l \in DeltasIn(c2),
         d.struct = "permission", IsCurrent(script, b, c1, d), ~d.present,
         l.struct = "permission_link", IsCurrent(script, b, c2, l), l.present
  PROVE  l.to # d.key
  <1>1. \A e \in ToSet(script[c1]), k \in ToSet(script[c2]) :
           /\ e.struct = "permission" /\ IsCurrent(script, b, c1, e) /\ ~e.present
           /\ k.struct = "permission_link" /\ IsCurrent(script, b, c2, k) /\ k.present
           => k.to # e.key
    BY ChainAssumption
  <1>. QED BY <1>1, Zenon DEF DeltasIn

LEMMA NewestIsCurrent ==
  ASSUME script \in DeltaScripts, NEW done \in SUBSET DOMAIN script, NEW b \in done,
         \A a \in 1 .. b : a \in done, NEW c \in 1 .. b, NEW d \in DeltasIn(c), Newest(done, d, c)
  PROVE  IsCurrent(script, b, c, d)
  <1>1. c \in Nat /\ b \in Nat BY ScriptIs
  <1>2. ASSUME NEW a \in c + 1 .. b, NEW e \in ToSet(script[a]), e.struct = d.struct, e.key = d.key PROVE FALSE
    <2>1. a \in 1 .. b /\ a > c BY <1>1
    <2>2. e \in DeltasIn(a) BY DEF DeltasIn
    <2>3. a <= c BY <1>2, <2>1, <2>2 DEF Newest
    <2>. QED BY <1>1, <2>1, <2>3
  <1>. QED BY <1>2 DEF IsCurrent, DeltasIn

LEMMA LastIsCurrent ==
  ASSUME script \in DeltaScripts, NEW b \in DOMAIN script, NEW d \in DeltasIn(b)
  PROVE  IsCurrent(script, b, b, d) /\ b \in 1 .. b
  <1>1. b \in 1 .. b /\ \A a \in b + 1 .. b : FALSE
    <2>1. b \in 1 .. Len(script) /\ Len(script) \in Nat BY ScriptIs
    <2>. QED BY <2>1
  <1>. QED BY <1>1 DEF IsCurrent, DeltasIn

LEMMA KeysAre ==
  ASSUME NEW d \in AllDeltas
  PROVE  /\ d.struct = "permission" => d.key \in PermissionKeys
         /\ d.to \in PermissionKeys
         /\ d.struct = "permission_link" => d.key \in LinkKeys
  BY DEF PermissionKeys, LinkKeys, KeysOf

\* A block is handled.
LEMMA FollowsGrows ==
  ASSUME script \in DeltaScripts, NEW done, NEW s, NEW perms, Follows(done, s, perms),
         NEW b \in DOMAIN script, b \notin done, \A a \in 1 .. b : a = b \/ a \in done,
         NEW t, StateGrows(t, s, b),
         \A d \in DeltasIn(b) : d.struct \in PermissionStructs => Waits(t, d, b)
  PROVE  Follows(done \cup {b}, t, perms)
  <1>1. /\ done \in SUBSET DOMAIN script /\ s \in Seq(DeltaMessages) /\ perms \in PermissionType
        /\ InBlockOrder(done, s) /\ DocumentsFollow(done, s, perms)
    BY DEF Follows
  <1>2. t \in Seq(DeltaMessages) BY DEF StateGrows
  <1>3. DOMAIN script = 1 .. Len(script) /\ Len(script) \in Nat BY ScriptIs
  <1>4. \A c \in done : c < b
    <2>. SUFFICES ASSUME NEW c \in done, ~(c < b) PROVE FALSE OBVIOUS
    <2>1. c \in Nat /\ b \in Nat /\ b >= 1 BY <1>1, <1>3
    <2>2. b \in 1 .. c BY <2>1
    <2>3. b \in done BY <1>1, <2>2 DEF InBlockOrder
    <2>. QED BY <2>3
  <1>5. \A m \in ToSet(s) : m \in ToSet(t)
    <2>1. DOMAIN s = 1 .. Len(s) /\ DOMAIN t = 1 .. Len(t) /\ Len(s) \in Nat /\ Len(t) \in Nat /\ Len(s) <= Len(t)
      BY <1>1, <1>2 DEF StateGrows
    <2>2. \A i \in 1 .. Len(s) : i \in 1 .. Len(t) BY <2>1
    <2>. QED BY <2>1, <2>2 DEF StateGrows, ToSet
  <1>6. \A m \in ToSet(t) : m \in ToSet(s) \/ (m.block = b /\ m.delta \in DeltasIn(b) /\ m.delta.struct \in PermissionStructs)
    <2>. SUFFICES ASSUME NEW m \in ToSet(t), m \notin ToSet(s)
                  PROVE  m.block = b /\ m.delta \in DeltasIn(b) /\ m.delta.struct \in PermissionStructs
      OBVIOUS
    <2>1. PICK i \in 1 .. Len(t) : t[i] = m BY <1>2 DEF ToSet
    <2>2. Len(s) \in Nat /\ DOMAIN s = 1 .. Len(s) BY <1>1
    <2>3. CASE i \in 1 .. Len(s)
      <3>1. s[i] = m BY <2>1, <2>3 DEF StateGrows
      <3>. QED BY <2>2, <2>3, <3>1 DEF ToSet
    <2>4. CASE i > Len(s) BY <2>1, <2>4 DEF StateGrows
    <2>. QED BY <2>2, <2>3, <2>4
  <1>7. \A c, d : ~Waits(t, d, c) => ~Waits(s, d, c) BY <1>5, Zenon DEF Waits
  <1>8. InBlockOrder(done \cup {b}, t)
    <2>1. \A c \in done \cup {b} : \A a \in 1 .. c : a \in done \cup {b} BY <1>1 DEF InBlockOrder
    <2>2. ASSUME NEW i \in 1 .. Len(t), NEW j \in 1 .. Len(t), i <= j PROVE t[i].block <= t[j].block
      <3>1. Len(s) \in Nat BY <1>1
      <3>2. CASE j \in 1 .. Len(s)
        <4>1. i \in 1 .. Len(s) BY <2>2, <3>2
        <4>2. t[i] = s[i] /\ t[j] = s[j] BY <3>2, <4>1 DEF StateGrows
        <4>3. s[i].block <= s[j].block BY <1>1, <2>2, <3>2, <4>1 DEF InBlockOrder
        <4>. QED BY <4>2, <4>3
      <3>3. CASE j > Len(s)
        <4>1. t[j].block = b BY <3>3 DEF StateGrows
        <4>2. t[i] \in ToSet(t) BY <1>2 DEF ToSet
        <4>3. t[i].block \in done \/ t[i].block = b BY <1>1, <1>6, <4>2 DEF InBlockOrder
        <4>4. t[i].block <= b
          <5>1. b \in Nat BY <1>3
          <5>2. CASE t[i].block \in done
            <6>1. PICK c \in done : c = t[i].block BY <5>2
            <6>2. c < b /\ c \in Nat BY <1>1, <1>3, <1>4
            <6>. QED BY <5>1, <6>1, <6>2
          <5>3. CASE t[i].block = b BY <5>1, <5>3
          <5>. QED BY <4>3, <5>2, <5>3
        <4>. QED BY <4>1, <4>4
      <3>. QED BY <3>1, <3>2, <3>3
    <2>3. \A m \in ToSet(t) :
             m.block \in done \cup {b} /\ m.delta \in DeltasIn(m.block) /\ m.delta.struct \in PermissionStructs
      <3>. SUFFICES ASSUME NEW m \in ToSet(t)
                    PROVE  m.block \in done \cup {b} /\ m.delta \in DeltasIn(m.block) /\ m.delta.struct \in PermissionStructs
        OBVIOUS
      <3>1. CASE m \in ToSet(s) BY <1>1, <3>1, Zenon DEF InBlockOrder
      <3>2. CASE m \notin ToSet(s)
        <4>1. m.block = b /\ m.delta \in DeltasIn(b) /\ m.delta.struct \in PermissionStructs BY <1>6, <3>2
        <4>. QED BY <4>1
      <3>. QED BY <3>1, <3>2
    <2>4. ASSUME NEW c \in done \cup {b}, NEW d \in DeltasIn(c), d.struct \in PermissionStructs, ~Waits(t, d, c),
                 NEW m \in ToSet(t)
          PROVE  c <= m.block
      <3>1. c \in done
        <4>1. c # b BY <2>4
        <4>. QED BY <4>1
      <3>2. CASE m \in ToSet(s)
        <4>1. ~Waits(s, d, c) BY <1>7, <2>4
        <4>. QED BY <1>1, <2>4, <3>1, <3>2, <4>1, Zenon DEF InBlockOrder
      <3>3. CASE m \notin ToSet(s)
        <4>1. m.block = b BY <1>6, <3>3
        <4>2. c < b /\ c \in Nat /\ b \in Nat BY <1>1, <1>3, <1>4, <3>1
        <4>. QED BY <4>1, <4>2
      <3>. QED BY <3>2, <3>3
    <2>. QED BY <2>1, <2>2, <2>3, <2>4, Zenon DEF InBlockOrder
  <1>9. \A d, c : Newest(done \cup {b}, d, c) => Newest(done, d, c) BY Zenon DEF Newest
  <1>10. DocumentsFollow(done \cup {b}, t, perms)
    <2>1. ASSUME NEW c \in done \cup {b}, NEW d \in DeltasIn(c), d.struct = "permission",
                 Newest(done \cup {b}, d, c), ~Waits(t, d, c)
          PROVE  perms[d.key].auth = AuthOf(d, c)
      <3>1. d.struct \in PermissionStructs BY <2>1 DEF PermissionStructs
      <3>2. c # b BY <2>1, <3>1
      <3>3. c \in done /\ Newest(done, d, c) /\ ~Waits(s, d, c) BY <1>7, <1>9, <2>1, <3>2
      <3>. QED BY <1>1, <2>1, <3>3, Zenon DEF DocumentsFollow
    <2>2. ASSUME NEW c \in done \cup {b}, NEW d \in DeltasIn(c), d.struct = "permission_link",
                 Newest(done \cup {b}, d, c), ~Waits(t, d, c), ~Moved(d.key)
          PROVE  d.key \in perms[d.to].links <=> d.present
      <3>1. d.struct \in PermissionStructs BY <2>2 DEF PermissionStructs
      <3>2. c # b BY <2>2, <3>1
      <3>3. c \in done /\ Newest(done, d, c) /\ ~Waits(s, d, c) BY <1>7, <1>9, <2>2, <3>2
      <3>. QED BY <1>1, <2>2, <3>3, Zenon DEF DocumentsFollow
    <2>. QED BY <1>1, <2>1, <2>2, Zenon DEF DocumentsFollow
  <1>11. done \cup {b} \in SUBSET DOMAIN script BY <1>1
  <1>. QED BY <1>1, <1>2, <1>8, <1>10, <1>11 DEF Follows

LEMMA LinkedDoes ==
  ASSUME NEW q \in PermissionDoc, NEW d, d.key \in LinkKeys
  PROVE  /\ Linked(q, d) \in PermissionDoc
         /\ \A k : k # d.key => (k \in Linked(q, d).links <=> k \in q.links)
         /\ d.key \in Linked(q, d).links <=> d.present
         /\ Linked(q, d).auth = q.auth \/ (d.present /\ q.auth = -1)
  <1>0. PICK x \in Int, y \in SUBSET LinkKeys : q = [auth |-> x, links |-> y] BY DEF PermissionDoc
  <1>9. q.auth = x /\ q.links = y BY <1>0
  <1>1. CASE d.present
    <2>1. PICK z \in Int : z = IF q = Absent THEN 0 ELSE q.auth BY <1>9
    <2>2. z = x \/ x = -1
      <3>1. q = Absent => x = -1 BY <1>9 DEF Absent
      <3>. QED BY <1>9, <2>1, <3>1
    <2>3. PICK r : r = [auth |-> z, links |-> y \cup {d.key}] OBVIOUS
    <2>4. Linked(q, d) = r BY <1>1, <1>9, <2>1, <2>3 DEF Linked
    <2>5. r \in PermissionDoc /\ r.auth = z /\ r.links = y \cup {d.key} BY <2>3 DEF PermissionDoc
    <2>. QED BY <1>1, <1>9, <2>2, <2>4, <2>5
  <1>2. CASE ~d.present
    <2>1. PICK r : r = [auth |-> x, links |-> y \ {d.key}] OBVIOUS
    <2>2. Linked(q, d) = r BY <1>0, <1>2, <2>1 DEF Linked
    <2>3. r \in PermissionDoc /\ r.auth = x /\ r.links = y \ {d.key} BY <2>1 DEF PermissionDoc
    <2>. QED BY <1>2, <1>9, <2>2, <2>3
  <1>. QED BY <1>1, <1>2

\* The documents r are perms with the link d.
LinkWritten(r, perms, d) ==
    /\ r \in PermissionType
    /\ \A p \in PermissionKeys : p # d.to => r[p] = perms[p]
    /\ \A k : k # d.key => (k \in r[d.to].links <=> k \in perms[d.to].links)
    /\ d.key \in r[d.to].links <=> d.present
    /\ r[d.to].auth = perms[d.to].auth \/ (d.present /\ perms[d.to].auth = -1)

LEMMA WroteLink ==
  ASSUME NEW perms \in PermissionType, NEW m \in DeltaMessages, m.delta \in AllDeltas,
         m.delta.struct = "permission_link"
  PROVE  LinkWritten(WritePermission(perms, m), perms, m.delta)
  <1>0. PICK d, r : d \in AllDeltas /\ d = m.delta /\ r = WritePermission(perms, m) OBVIOUS
  <1>1. d.to \in PermissionKeys /\ d.key \in LinkKeys BY <1>0, KeysAre
  <1>2. PICK q \in PermissionDoc : q = perms[d.to] BY <1>1 DEF PermissionType
  <1>3. PICK z : z = Linked(q, d) OBVIOUS
  <1>4. r = [perms EXCEPT ![d.to] = z] BY <1>0, <1>2, <1>3 DEF WritePermission
  <1>5. z \in PermissionDoc BY <1>1, <1>3, LinkedDoes
  <1>6. r \in PermissionType /\ r[d.to] = z /\ \A p \in PermissionKeys : p # d.to => r[p] = perms[p]
    BY <1>1, <1>4, <1>5 DEF PermissionType
  <1>7. /\ \A k : k # d.key => (k \in z.links <=> k \in q.links)
        /\ d.key \in z.links <=> d.present
        /\ z.auth = q.auth \/ (d.present /\ q.auth = -1)
    BY <1>1, <1>3, LinkedDoes
  <1>. QED BY <1>0, <1>2, <1>6, <1>7 DEF LinkWritten

\* The documents r are perms with the permission d of block b.
PermissionWritten(r, perms, d, b) ==
    /\ r \in PermissionType
    /\ \A p \in PermissionKeys : p # d.key => r[p] = perms[p]
    /\ r[d.key].auth = AuthOf(d, b)
    /\ r[d.key].links \subseteq perms[d.key].links
    /\ d.present => r[d.key].links = perms[d.key].links

LEMMA WrotePermission ==
  ASSUME NEW perms \in PermissionType, NEW m \in DeltaMessages, m.delta \in AllDeltas,
         m.delta.struct = "permission"
  PROVE  PermissionWritten(WritePermission(perms, m), perms, m.delta, m.block)
  <1>0. PICK d, r : d \in AllDeltas /\ d = m.delta /\ r = WritePermission(perms, m) OBVIOUS
  <1>1. d.key \in PermissionKeys BY <1>0, KeysAre
  <1>2. PICK q \in PermissionDoc : q = perms[d.key] BY <1>1 DEF PermissionType
  <1>3. PICK z : z = IF d.present THEN [auth |-> m.block, links |-> q.links] ELSE Absent OBVIOUS
  <1>4. r = [perms EXCEPT ![d.key] = z] BY <1>0, <1>1, <1>2, <1>3 DEF WritePermission, PermissionType
  <1>5. m.block \in Int /\ q.links \in SUBSET LinkKeys BY DEF DeltaMessages, PermissionDoc
  <1>6. /\ z \in PermissionDoc /\ z.auth = AuthOf(d, m.block) /\ z.links \subseteq q.links
        /\ d.present => z.links = q.links
    <2>1. CASE d.present
      <3>1. z = [auth |-> m.block, links |-> q.links] BY <1>3, <2>1
      <3>2. z.auth = m.block /\ z.links = q.links /\ z \in PermissionDoc BY <1>5, <3>1 DEF PermissionDoc
      <3>. QED BY <2>1, <3>2 DEF AuthOf
    <2>2. CASE ~d.present
      <3>1. z = [auth |-> -1, links |-> {}] BY <1>3, <2>2 DEF Absent
      <3>2. z.auth = -1 /\ z.links = {} /\ z \in PermissionDoc BY <3>1 DEF PermissionDoc
      <3>. QED BY <2>2, <3>2 DEF AuthOf
    <2>. QED BY <2>1, <2>2
  <1>7. r \in PermissionType /\ r[d.key] = z /\ \A p \in PermissionKeys : p # d.key => r[p] = perms[p]
    BY <1>1, <1>4, <1>6 DEF PermissionType
  <1>. QED BY <1>0, <1>2, <1>6, <1>7 DEF PermissionWritten

\* The queue without its head.
LEMMA TailIs ==
  ASSUME NEW s \in Seq(DeltaMessages), Len(s) \in Nat \ {0}, NEW t, t = SubSeq(s, 2, Len(s))
  PROVE  /\ t \in Seq(DeltaMessages) /\ Len(t) = Len(s) - 1
         /\ \A i \in 1 .. Len(t) : t[i] = s[i + 1] /\ i + 1 \in 1 .. Len(s)
         /\ s[1] \in DeltaMessages /\ s[1] \in ToSet(s)
         /\ ToSet(s) = {s[1]} \cup ToSet(t)
  <1>1. PICK n \in Nat \ {0} : n = Len(s) OBVIOUS
  <1>2. \A i \in 2 .. n : s[i] \in DeltaMessages BY <1>1
  <1>3. /\ t \in Seq(DeltaMessages) /\ Len(t) = IF 2 <= n THEN n - 2 + 1 ELSE 0
        /\ \A i \in 1 .. (n - 2 + 1) : t[i] = s[2 + i - 1]
    BY <1>1, <1>2, SubSeqProperties
  <1>4. Len(t) = n - 1 BY <1>3
  <1>5. ASSUME NEW i \in 1 .. (n - 1) PROVE t[i] = s[i + 1] /\ i + 1 \in 1 .. n
    <2>1. i \in 1 .. (n - 2 + 1) OBVIOUS
    <2>2. PICK j : j = 2 + i - 1 OBVIOUS
    <2>3. t[i] = s[j] BY <1>3, <2>1, <2>2
    <2>4. j = i + 1 /\ j \in 1 .. n BY <2>2
    <2>. QED BY <2>3, <2>4
  <1>6. DOMAIN s = 1 .. n /\ 1 \in 1 .. n BY <1>1
  <1>7. DOMAIN t = 1 .. (n - 1)
    <2>0. Len(t) \in Nat BY <1>4
    <2>1. PICK k \in Nat : k = Len(t) BY <2>0
    <2>2. DOMAIN t = 1 .. k BY <1>3, <2>1
    <2>. QED BY <1>4, <2>1, <2>2
  <1>8. s[1] \in DeltaMessages /\ s[1] \in ToSet(s) BY <1>6, <1>1 DEF ToSet
  <1>9. ToSet(t) \subseteq ToSet(s) BY <1>5, <1>6, <1>7 DEF ToSet
  <1>10. ASSUME NEW x \in ToSet(s), x # s[1] PROVE x \in ToSet(t)
    <2>1. PICK i \in 1 .. n : s[i] = x BY <1>6 DEF ToSet
    <2>2. i # 1 BY <1>10, <2>1
    <2>3. i - 1 \in 1 .. (n - 1) /\ (i - 1) + 1 = i BY <2>2
    <2>4. t[i - 1] = x BY <1>5, <2>1, <2>3
    <2>. QED BY <1>7, <2>3, <2>4 DEF ToSet
  <1>11. ToSet(s) = {s[1]} \cup ToSet(t) BY <1>8, <1>9, <1>10
  <1>. QED BY <1>1, <1>3, <1>4, <1>5, <1>8, <1>11

\* A message is written.
LEMMA FollowsTakes ==
  ASSUME script \in DeltaScripts, NEW done, NEW s, NEW perms, Follows(done, s, perms),
         Len(s) \in Nat \ {0}, NEW m, m = s[1], NEW t, t = SubSeq(s, 2, Len(s)),
         NEW r, r = WritePermission(perms, m)
  PROVE  Follows(done, t, r)
  <1>1. /\ done \in SUBSET DOMAIN script /\ s \in Seq(DeltaMessages) /\ perms \in PermissionType
        /\ InBlockOrder(done, s) /\ DocumentsFollow(done, s, perms)
    BY DEF Follows
  <1>2. /\ t \in Seq(DeltaMessages) /\ Len(t) = Len(s) - 1
        /\ \A i \in 1 .. Len(t) : t[i] = s[i + 1] /\ i + 1 \in 1 .. Len(s)
        /\ m \in DeltaMessages /\ m \in ToSet(s) /\ ToSet(s) = {m} \cup ToSet(t)
    BY <1>1, TailIs
  <1>3. PICK b, d :
           /\ b \in done
           /\ d \in DeltasIn(b)
           /\ m.block = b /\ m.delta = d /\ d.struct \in PermissionStructs /\ m = [delta |-> d, block |-> b]
    <2>1. m.block \in done /\ m.delta \in DeltasIn(m.block) /\ m.delta.struct \in PermissionStructs
      BY <1>1, <1>2, Zenon DEF InBlockOrder
    <2>2. m = [delta |-> m.delta, block |-> m.block] BY <1>2 DEF DeltaMessages
    <2>. QED BY <2>1, <2>2
  <1>4. b \in DOMAIN script /\ d \in AllDeltas BY <1>1, <1>3, DeltasAre
  <1>5. \A x \in ToSet(s) : b <= x.block
    <2>. SUFFICES ASSUME NEW x \in ToSet(s) PROVE b <= x.block OBVIOUS
    <2>1. PICK i \in 1 .. Len(s) : s[i] = x BY <1>1 DEF ToSet
    <2>2. 1 \in 1 .. Len(s) /\ 1 <= i OBVIOUS
    <2>3. s[1].block <= s[i].block BY <1>1, <2>2 DEF InBlockOrder
    <2>. QED BY <1>3, <2>1, <2>3
  <1>6. ASSUME NEW c \in done, NEW e \in DeltasIn(c), ~Waits(t, e, c), ~(c = b /\ e = d) PROVE ~Waits(s, e, c)
    <2>1. PICK x : x = [delta |-> e, block |-> c] OBVIOUS
    <2>2. x.delta = e /\ x.block = c BY <2>1
    <2>3. x # m BY <1>3, <1>6, <2>2
    <2>4. x \notin ToSet(t) BY <1>6, <2>1 DEF Waits
    <2>5. x \notin ToSet(s) BY <1>2, <2>3, <2>4
    <2>. QED BY <2>1, <2>5 DEF Waits
  <1>7. ASSUME NEW c \in done, NEW e \in DeltasIn(c), ~Waits(t, e, c), e.struct \in PermissionStructs
        PROVE  c <= b /\ c \in 1 .. b
    <2>0. b \in Nat /\ c \in Nat /\ c >= 1 BY <1>1, <1>4, ScriptIs
    <2>1. CASE c = b /\ e = d BY <2>0, <2>1
    <2>2. CASE ~(c = b /\ e = d)
      <3>1. ~Waits(s, e, c) BY <1>6, <1>7, <2>2
      <3>2. c <= m.block BY <1>1, <1>2, <1>7, <3>1, Zenon DEF InBlockOrder
      <3>. QED BY <1>3, <2>0, <3>2
    <2>. QED BY <2>1, <2>2
  <1>8. \A a \in 1 .. b : a \in done BY <1>1, <1>3 DEF InBlockOrder
  <1>9. InBlockOrder(done, t)
    <2>1. \A c \in done : \A a \in 1 .. c : a \in done BY <1>1, Zenon DEF InBlockOrder
    <2>2. ASSUME NEW i \in 1 .. Len(t), NEW j \in 1 .. Len(t), i <= j PROVE t[i].block <= t[j].block
      <3>1. PICK x, y : x = i + 1 /\ y = j + 1 OBVIOUS
      <3>2. t[i] = s[x] /\ t[j] = s[y] /\ x \in 1 .. Len(s) /\ y \in 1 .. Len(s) BY <1>2, <3>1
      <3>3. x <= y BY <1>2, <2>2, <3>1
      <3>4. s[x].block <= s[y].block BY <1>1, <3>2, <3>3 DEF InBlockOrder
      <3>. QED BY <3>2, <3>4
    <2>3. \A x \in ToSet(t) : x.block \in done /\ x.delta \in DeltasIn(x.block) /\ x.delta.struct \in PermissionStructs
      <3>1. \A x \in ToSet(t) : x \in ToSet(s) BY <1>2
      <3>. QED BY <1>1, <3>1, Zenon DEF InBlockOrder
    <2>4. ASSUME NEW c \in done, NEW e \in DeltasIn(c), e.struct \in PermissionStructs, ~Waits(t, e, c),
                 NEW x \in ToSet(t)
          PROVE  c <= x.block
      <3>1. x \in ToSet(s) BY <1>2
      <3>2. b <= x.block /\ c <= b BY <1>5, <1>7, <2>4, <3>1
      <3>3. x.block \in done BY <1>1, <3>1, Zenon DEF InBlockOrder
      <3>4. PICK y \in done : y = x.block BY <3>3
      <3>5. b \in Nat /\ c \in Nat /\ y \in Nat BY <1>1, <1>4, ScriptIs
      <3>6. c <= y BY <3>2, <3>4, <3>5
      <3>. QED BY <3>4, <3>6
    <2>. QED BY <2>1, <2>2, <2>3, <2>4, Zenon DEF InBlockOrder
  <1>10. ASSUME NEW c \in done, NEW e \in DeltasIn(c), e.struct \in PermissionStructs, Newest(done, e, c),
                ~Waits(t, e, c), d.struct = e.struct, d.key = e.key
         PROVE  c = b /\ e = d
    <2>1. b <= c BY <1>3, <1>10 DEF Newest
    <2>2. c <= b BY <1>7, <1>10
    <2>3. b \in Nat /\ c \in Nat BY <1>1, <1>4, ScriptIs
    <2>4. c = b BY <2>1, <2>2, <2>3
    <2>5. e \in DeltasIn(b) BY <2>4
    <2>6. d = e BY <1>3, <1>4, <1>10, <2>5, RowOnce
    <2>. QED BY <2>4, <2>6
  <1>11. \A c \in done : \A e \in DeltasIn(c) : e.struct \in PermissionStructs /\ Newest(done, e, c) /\ ~Waits(t, e, c)
            => IsCurrent(script, b, c, e) /\ c \in 1 .. b
    <2>. SUFFICES ASSUME NEW c \in done, NEW e \in DeltasIn(c), e.struct \in PermissionStructs,
                         Newest(done, e, c), ~Waits(t, e, c)
                  PROVE  IsCurrent(script, b, c, e) /\ c \in 1 .. b
      OBVIOUS
    <2>1. c \in 1 .. b BY <1>7
    <2>. QED BY <1>1, <1>3, <1>8, <2>1, NewestIsCurrent
  <1>12. IsCurrent(script, b, b, d) /\ b \in 1 .. b BY <1>3, <1>4, LastIsCurrent
  <1>13. \A c \in done : \A e \in DeltasIn(c) : e \in AllDeltas BY <1>1, DeltasAre
  <1>14. \A c \in done : c # -1
    <2>1. \A c \in done : c \in Nat BY <1>1, ScriptIs
    <2>. QED BY <2>1
  <1>15. CASE d.struct = "permission_link"
    <2>1. /\ r \in PermissionType
          /\ \A p \in PermissionKeys : p # d.to => r[p] = perms[p]
          /\ \A k : k # d.key => (k \in r[d.to].links <=> k \in perms[d.to].links)
          /\ d.key \in r[d.to].links <=> d.present
          /\ r[d.to].auth = perms[d.to].auth \/ (d.present /\ perms[d.to].auth = -1)
      <3>1. LinkWritten(WritePermission(perms, m), perms, m.delta)
        BY <1>1, <1>2, <1>3, <1>4, <1>15, WroteLink
      <3>2. LinkWritten(r, perms, d) BY <1>3, <3>1, Zenon
      <3>. QED BY <3>2, Zenon DEF LinkWritten
    <2>2. ASSUME NEW c \in done, NEW e \in DeltasIn(c), e.struct = "permission", Newest(done, e, c), ~Waits(t, e, c)
          PROVE  r[e.key].auth = AuthOf(e, c)
      <3>1. e.struct \in PermissionStructs /\ e # d BY <1>15, <2>2 DEF PermissionStructs
      <3>2. ~Waits(s, e, c) BY <1>6, <2>2, <3>1
      <3>3. perms[e.key].auth = AuthOf(e, c) BY <1>1, <2>2, <3>2, Zenon DEF DocumentsFollow
      <3>4. e.key \in PermissionKeys BY <1>13, <2>2, KeysAre
      <3>5. CASE e.key # d.to BY <2>1, <3>3, <3>4, <3>5
      <3>6. CASE e.key = d.to
        <4>1. CASE d.present /\ perms[d.to].auth = -1
          <5>1. AuthOf(e, c) = -1 BY <3>3, <3>6, <4>1
          <5>2. ~e.present BY <1>14, <5>1 DEF AuthOf
          <5>3. IsCurrent(script, b, c, e) /\ c \in 1 .. b BY <1>11, <2>2, <3>1
          <5>4. d.to # e.key
            BY <1>3, <1>4, <1>12, <1>15, <2>2, <4>1, <5>2, <5>3, RemovedHasNoLink
          <5>. QED BY <3>6, <5>4
        <4>2. CASE r[d.to].auth = perms[d.to].auth BY <3>3, <3>6, <4>2
        <4>. QED BY <2>1, <4>1, <4>2
      <3>. QED BY <3>5, <3>6
    <2>3. ASSUME NEW c \in done, NEW e \in DeltasIn(c), e.struct = "permission_link", Newest(done, e, c),
                 ~Waits(t, e, c), ~Moved(e.key)
          PROVE  e.key \in r[e.to].links <=> e.present
      <3>1. e.struct \in PermissionStructs BY <2>3 DEF PermissionStructs
      <3>2. CASE e.key = d.key
        <4>1. e = d BY <1>10, <1>15, <2>3, <3>1, <3>2
        <4>. QED BY <2>1, <4>1
      <3>3. CASE e.key # d.key
        <4>1. e # d BY <3>3
        <4>2. ~Waits(s, e, c) BY <1>6, <2>3, <4>1
        <4>3. e.key \in perms[e.to].links <=> e.present BY <1>1, <2>3, <4>2, Zenon DEF DocumentsFollow
        <4>4. e.to \in PermissionKeys BY <1>13, <2>3, KeysAre
        <4>. QED BY <2>1, <3>3, <4>3, <4>4
      <3>. QED BY <3>2, <3>3
    <2>4. ASSUME NEW p \in PermissionKeys, NEW k \in r[p].links
          PROVE  \E e \in AllDeltas : e.struct = "permission_link" /\ e.key = k /\ e.to = p
      <3>1. CASE p = d.to /\ k = d.key BY <1>4, <1>15, <3>1
      <3>2. CASE ~(p = d.to /\ k = d.key)
        <4>1. k \in perms[p].links BY <2>1, <2>4, <3>2
        <4>. QED BY <1>1, <4>1, Zenon DEF DocumentsFollow
      <3>. QED BY <3>1, <3>2
    <2>6. \A c \in done : \A e \in DeltasIn(c) :
             e.struct = "permission" /\ Newest(done, e, c) /\ ~Waits(t, e, c) => r[e.key].auth = AuthOf(e, c)
      BY <2>2, Zenon
    <2>7. \A c \in done : \A e \in DeltasIn(c) :
             e.struct = "permission_link" /\ Newest(done, e, c) /\ ~Waits(t, e, c) /\ ~Moved(e.key) =>
                (e.key \in r[e.to].links <=> e.present)
      BY <2>3, Zenon
    <2>8. \A p \in PermissionKeys : \A k \in r[p].links :
             \E e \in AllDeltas : e.struct = "permission_link" /\ e.key = k /\ e.to = p
      BY <2>4, Zenon
    <2>5. DocumentsFollow(done, t, r) BY <2>6, <2>7, <2>8, Zenon DEF DocumentsFollow
    <2>. QED BY <1>1, <1>2, <1>9, <2>1, <2>5 DEF Follows
  <1>16. CASE d.struct = "permission"
    <2>1. /\ r \in PermissionType
          /\ \A p \in PermissionKeys : p # d.key => r[p] = perms[p]
          /\ r[d.key].auth = AuthOf(d, m.block)
          /\ r[d.key].links \subseteq perms[d.key].links
          /\ d.present => r[d.key].links = perms[d.key].links
      <3>1. PermissionWritten(WritePermission(perms, m), perms, m.delta, m.block)
        BY <1>1, <1>2, <1>3, <1>4, <1>16, WrotePermission
      <3>2. PermissionWritten(r, perms, d, m.block) BY <1>3, <3>1, Zenon
      <3>. QED BY <3>2, Zenon DEF PermissionWritten
    <2>2. ASSUME NEW c \in done, NEW e \in DeltasIn(c), e.struct = "permission", Newest(done, e, c), ~Waits(t, e, c)
          PROVE  r[e.key].auth = AuthOf(e, c)
      <3>1. e.struct \in PermissionStructs BY <2>2 DEF PermissionStructs
      <3>2. CASE e.key = d.key
        <4>1. c = b /\ e = d BY <1>10, <1>16, <2>2, <3>1, <3>2
        <4>. QED BY <1>3, <2>1, <4>1
      <3>3. CASE e.key # d.key
        <4>1. e # d BY <3>3
        <4>2. ~Waits(s, e, c) BY <1>6, <2>2, <4>1
        <4>3. perms[e.key].auth = AuthOf(e, c) BY <1>1, <2>2, <4>2, Zenon DEF DocumentsFollow
        <4>4. e.key \in PermissionKeys BY <1>13, <2>2, KeysAre
        <4>. QED BY <2>1, <3>3, <4>3, <4>4
      <3>. QED BY <3>2, <3>3
    <2>3. ASSUME NEW c \in done, NEW e \in DeltasIn(c), e.struct = "permission_link", Newest(done, e, c),
                 ~Waits(t, e, c), ~Moved(e.key)
          PROVE  e.key \in r[e.to].links <=> e.present
      <3>1. e.struct \in PermissionStructs /\ e # d BY <1>16, <2>3 DEF PermissionStructs
      <3>2. ~Waits(s, e, c) BY <1>6, <2>3, <3>1
      <3>3. e.key \in perms[e.to].links <=> e.present BY <1>1, <2>3, <3>2, Zenon DEF DocumentsFollow
      <3>4. e.to \in PermissionKeys BY <1>13, <2>3, KeysAre
      <3>5. CASE e.to # d.key BY <2>1, <3>3, <3>4, <3>5
      <3>6. CASE e.to = d.key /\ d.present BY <2>1, <3>3, <3>6
      <3>7. CASE e.to = d.key /\ ~d.present
        <4>1. ~e.present
          <5>. SUFFICES ASSUME e.present PROVE FALSE OBVIOUS
          <5>1. IsCurrent(script, b, c, e) /\ c \in 1 .. b BY <1>11, <2>3, <3>1
          <5>2. e.to # d.key
            BY <1>3, <1>4, <1>12, <1>16, <2>3, <3>7, <5>1, RemovedHasNoLink
          <5>. QED BY <3>7, <5>2
        <4>2. e.key \notin perms[d.key].links BY <3>3, <3>7, <4>1
        <4>. QED BY <2>1, <3>7, <4>1, <4>2
      <3>. QED BY <3>5, <3>6, <3>7
    <2>4. ASSUME NEW p \in PermissionKeys, NEW k \in r[p].links
          PROVE  \E e \in AllDeltas : e.struct = "permission_link" /\ e.key = k /\ e.to = p
      <3>1. k \in perms[p].links BY <2>1, <2>4
      <3>. QED BY <1>1, <3>1, Zenon DEF DocumentsFollow
    <2>6. \A c \in done : \A e \in DeltasIn(c) :
             e.struct = "permission" /\ Newest(done, e, c) /\ ~Waits(t, e, c) => r[e.key].auth = AuthOf(e, c)
      BY <2>2, Zenon
    <2>7. \A c \in done : \A e \in DeltasIn(c) :
             e.struct = "permission_link" /\ Newest(done, e, c) /\ ~Waits(t, e, c) /\ ~Moved(e.key) =>
                (e.key \in r[e.to].links <=> e.present)
      BY <2>3, Zenon
    <2>8. \A p \in PermissionKeys : \A k \in r[p].links :
             \E e \in AllDeltas : e.struct = "permission_link" /\ e.key = k /\ e.to = p
      BY <2>4, Zenon
    <2>5. DocumentsFollow(done, t, r) BY <2>6, <2>7, <2>8, Zenon DEF DocumentsFollow
    <2>. QED BY <1>1, <1>2, <1>9, <2>1, <2>5 DEF Follows
  <1>. QED BY <1>3, <1>15, <1>16 DEF PermissionStructs

\* In order, the queue and the documents follow the blocks that were handled.
PermissionInv ==
    /\ ResourceInv /\ redelivered \in Nat
    /\ InOrder /\ setup.deltas => Follows(handled[1], StateMessages, permissions) /\ ~unnamed

LEMMA FollowsStays ==
  ASSUME script' = script, NEW done, NEW s, NEW perms
  PROVE  Follows(done, s, perms)' <=> Follows(done, s, perms)
  <1>1. \A b : DeltasIn(b)' = DeltasIn(b) BY DEF DeltasIn
  <1>2. AllDeltas' = AllDeltas BY DEF AllDeltas, DeltasIn
  <1>3. PermissionKeys' = PermissionKeys /\ LinkKeys' = LinkKeys BY <1>2 DEF PermissionKeys, LinkKeys, KeysOf
  <1>4. PermissionType' = PermissionType BY <1>3 DEF PermissionType, PermissionDoc
  <1>5. DeltaMessages' = DeltaMessages BY <1>2 DEF DeltaMessages
  <1>6. \A d, c : Newest(done, d, c)' <=> Newest(done, d, c) BY <1>1, Zenon DEF Newest
  <1>7. \A k : Moved(k)' <=> Moved(k) BY <1>2, Zenon DEF Moved
  <1>8. InBlockOrder(done, s)' <=> InBlockOrder(done, s) BY <1>1 DEF InBlockOrder, Waits
  <1>9. DocumentsFollow(done, s, perms)' <=> DocumentsFollow(done, s, perms)
    BY <1>1, <1>2, <1>3, <1>6, <1>7 DEF DocumentsFollow, Waits, AuthOf
  <1>. QED BY <1>4, <1>5, <1>8, <1>9 DEF Follows

\* Where blocks are handled once and in order, the documents are compared with what was.
LEMMA PermissionStep ==
  ASSUME PermissionInv, ResourceInv', redelivered' \in Nat, setup' = setup, script' = script,
         NEW done, done = handled'[1], NEW s, s = indexQueue'[StateQueue(1)], NEW perms, perms = permissions',
         redelivered' = 0 => redelivered = 0,
         InOrder /\ setup.deltas => Follows(done, s, perms) /\ ~unnamed'
  PROVE  PermissionInv'
  <1>1. InOrder' => InOrder BY DEF InOrder
  <1>2. (InOrder /\ setup.deltas)' => InOrder /\ setup.deltas BY <1>1
  <1>3. Follows(done, s, perms) <=> Follows(done, s, perms)' BY FollowsStays
  <1>4. StateMessages' = s BY DEF StateMessages, StateQueue
  <1>5. Follows(handled[1], StateMessages, permissions)' <=> Follows(done, s, perms)'
    BY <1>4 DEF Follows, InBlockOrder, DocumentsFollow, Newest, Waits, AuthOf
  <1>. QED BY <1>2, <1>3, <1>5, Zenon DEF PermissionInv

LEMMA PermissionInvInit == DeltaInit => PermissionInv
  <1>. SUFFICES ASSUME DeltaInit PROVE PermissionInv OBVIOUS
  <1>1. ResourceInv BY ResourceInvInit
  <1>2. redelivered \in Nat /\ ~unnamed BY DEF DeltaInit
  <1>3. ASSUME InOrder PROVE Follows(handled[1], StateMessages, permissions)
    <2>1. PICK done, s, perms : done = handled[1] /\ s = StateMessages /\ perms = permissions OBVIOUS
    <2>2. done = {} BY <1>3, <2>1 DEF DeltaInit, InOrder, Deserializers
    <2>3. s = <<>>
      <3>1. StateQueue(1) \in QueueNames BY <1>3 DEF QueueNames, Routes, StateQueue, InOrder
      <3>. QED BY <2>1, <3>1 DEF DeltaInit, QueueNames, StateMessages
    <2>4. Absent \in PermissionDoc /\ Absent.links = {} BY DEF Absent, PermissionDoc
    <2>5. perms \in PermissionType /\ \A p \in PermissionKeys : perms[p].links = {}
      BY <2>1, <2>4 DEF DeltaInit, PermissionType
    <2>6. s \in Seq(DeltaMessages) /\ Len(s) = 0 /\ ToSet(s) = {} BY <2>3 DEF ToSet
    <2>7. InBlockOrder(done, s) BY <2>2, <2>6 DEF InBlockOrder
    <2>8. DocumentsFollow(done, s, perms) BY <2>2, <2>5 DEF DocumentsFollow
    <2>. QED BY <2>1, <2>2, <2>5, <2>6, <2>7, <2>8 DEF Follows
  <1>. QED BY <1>1, <1>2, <1>3 DEF PermissionInv

LEMMA HandleBlockKeepsPermissions == PermissionInv /\ HandleBlock => PermissionInv'
  <1>. SUFFICES ASSUME PermissionInv, HandleBlock PROVE PermissionInv' OBVIOUS
  <1>1. ResourceInv /\ ResourceInv' BY HandleBlockKeepsResources DEF PermissionInv
  <1>2. PICK w \in Deserializers : \E b \in Waiting(w) : ProcessDeltas(w, b, emitIdx[w]) BY DEF HandleBlock
  <1>3. PICK b \in Waiting(w) : ProcessDeltas(w, b, emitIdx[w]) BY <1>2
  <1>4. redelivered' = redelivered /\ redelivered \in Nat BY DEF HandleBlock, PermissionInv
  <1>5. /\ setup' = setup /\ script' = script /\ permissions' = permissions /\ unnamed' = unnamed
        /\ handled' = [handled EXCEPT ![w] = @ \cup {b}]
        /\ indexQueue' = Emission(b, emitIdx[w]).queue
    BY <1>3 DEF ProcessDeltas
  <1>6. /\ setup \in DeltaSetups /\ script \in DeltaScripts /\ indexQueue \in QueueType
        /\ emitIdx[w] \in CounterType /\ handled \in [Deserializers -> SUBSET DOMAIN script]
    BY <1>1 DEF ResourceInv
  <1>7. ASSUME InOrder, setup.deltas
        PROVE  Follows(handled'[1], indexQueue'[StateQueue(1)], permissions') /\ ~unnamed'
    <2>1. setup.queues = 1 /\ setup.workers = 1 BY <1>7 DEF InOrder
    <2>2. w = 1 /\ 1 \in Deserializers BY <2>1 DEF Deserializers
    <2>3. PICK done, s, perms, t :
             done = handled[1] /\ s = StateMessages /\ perms = permissions /\ t = indexQueue'[StateQueue(1)]
      OBVIOUS
    <2>4. Follows(done, s, perms) /\ ~unnamed BY <1>7, <2>3 DEF PermissionInv
    <2>5. b \in DOMAIN script /\ b \notin done BY <2>2, <2>3 DEF Waiting, BlocksOf
    <2>6. StateGrows(t, s, b) /\ \A d \in DeltasIn(b) : d.struct \in PermissionStructs => Waits(t, d, b)
      BY <1>5, <1>6, <1>7, <2>1, <2>3, <2>5, EmissionState, Zenon DEF Waits
    <2>7. \A a \in 1 .. b : a = b \/ a \in done
      <3>. SUFFICES ASSUME NEW a \in 1 .. b, a # b PROVE a \in done OBVIOUS
      <3>1. b \in 1 .. Len(script) /\ Len(script) \in Nat /\ DOMAIN script = 1 .. Len(script)
        BY <1>6, <2>5, ScriptIs
      <3>2. a \in DOMAIN script /\ a < b /\ a - 1 \in Nat BY <3>1
      <3>3. (a - 1) % setup.workers = 1 - 1 BY <2>1, <3>2
      <3>4. a \in BlocksOf(1) BY <3>2, <3>3 DEF BlocksOf
      <3>. QED BY <2>2, <2>3, <3>2, <3>4 DEF Waiting
    <2>8. Follows(done \cup {b}, t, perms) BY <1>6, <2>4, <2>5, <2>6, <2>7, FollowsGrows
    <2>9. handled'[1] = done \cup {b} BY <1>5, <1>6, <2>2, <2>3
    <2>. QED BY <1>5, <2>3, <2>4, <2>8, <2>9
  <1>. QED BY <1>1, <1>4, <1>5, <1>7, PermissionStep

LEMMA HandleAgainKeepsPermissions == PermissionInv /\ HandleAgain => PermissionInv'
  <1>. SUFFICES ASSUME PermissionInv, HandleAgain PROVE PermissionInv' OBVIOUS
  <1>1. ResourceInv' BY HandleAgainKeepsResources DEF PermissionInv
  <1>2. redelivered \in Nat /\ redelivered' = redelivered + 1 BY DEF HandleAgain, PermissionInv
  <1>3. redelivered' \in Nat /\ redelivered' # 0 BY <1>2
  <1>4. ~InOrder' BY <1>3 DEF InOrder
  <1>. QED BY <1>1, <1>3, <1>4 DEF PermissionInv

LEMMA StateRouteKeepsPermissions == PermissionInv /\ StateRoute => PermissionInv'
  <1>. SUFFICES ASSUME PermissionInv, StateRoute PROVE PermissionInv' OBVIOUS
  <1>1. ResourceInv /\ ResourceInv' BY RoutesKeepResources DEF PermissionInv
  <1>2. setup' = setup /\ script' = script /\ redelivered' = redelivered /\ handled' = handled BY DEF StateRoute
  <1>3. redelivered \in Nat BY DEF PermissionInv
  <1>4. setup \in DeltaSetups /\ script \in DeltaScripts /\ indexQueue \in QueueType BY <1>1 DEF ResourceInv
  <1>5. ASSUME InOrder, setup.deltas
        PROVE  Follows(handled'[1], indexQueue'[StateQueue(1)], permissions') /\ ~unnamed'
    <2>1. setup.queues = 1 /\ setup.batch = 1 BY <1>5 DEF InOrder
    <2>2. PICK s, m : StateTaken(s, m) BY <1>4, <2>1, StateRouteTakes
    <2>3. PICK done, perms, t, r : /\ done = handled[1] /\ perms = permissions
                                   /\ t = SubSeq(s, 2, Len(s)) /\ r = WritePermission(perms, m)
      OBVIOUS
    <2>4. Follows(done, s, perms) /\ ~unnamed BY <1>5, <2>2, <2>3 DEF PermissionInv, StateTaken
    <2>5. Len(s) \in Nat \ {0} /\ m = s[1] BY <2>2 DEF StateTaken
    <2>6. Follows(done, t, r) BY <1>4, <2>3, <2>4, <2>5, FollowsTakes
    <2>7. indexQueue'[StateQueue(1)] = t
      <3>1. StateQueue(1) \in QueueNames BY <2>1 DEF QueueNames, Routes, StateQueue
      <3>2. indexQueue' = [indexQueue EXCEPT ![StateQueue(1)] = t] BY <2>2, <2>3 DEF StateTaken
      <3>. QED BY <1>4, <3>1, <3>2 DEF QueueType
    <2>8. permissions' = r /\ unnamed' = unnamed BY <2>2, <2>3 DEF StateTaken
    <2>. QED BY <1>2, <2>3, <2>4, <2>6, <2>7, <2>8
  <1>. QED BY <1>1, <1>2, <1>3, <1>5, PermissionStep

\* The queue of permissions is left alone.
LEMMA StateQueueStays ==
  ASSUME PermissionInv, ResourceInv', setup' = setup, script' = script, redelivered' = redelivered,
         handled' = handled, permissions' = permissions, unnamed' = unnamed,
         setup.queues = 1 => indexQueue'[StateQueue(1)] = StateMessages
  PROVE  PermissionInv'
  <1>1. redelivered \in Nat BY DEF PermissionInv
  <1>2. ASSUME InOrder, setup.deltas
        PROVE  Follows(handled'[1], indexQueue'[StateQueue(1)], permissions') /\ ~unnamed'
    <2>1. setup.queues = 1 BY <1>2 DEF InOrder
    <2>2. indexQueue'[StateQueue(1)] = StateMessages BY <2>1
    <2>3. Follows(handled[1], StateMessages, permissions) /\ ~unnamed BY <1>2 DEF PermissionInv
    <2>. QED BY <2>2, <2>3
  <1>. QED BY <1>1, <1>2, PermissionStep

LEMMA OtherQueues ==
  ASSUME setup \in DeltaSetups, indexQueue \in QueueType, NEW route \in Routes \ {"state"},
         NEW i \in 1 .. setup.queues, setup.queues = 1
  PROVE  Drop(<<route, i>>, Cargo(<<route, i>>))[StateQueue(1)] = StateMessages
  <1>1. PICK q : q = <<route, i>> OBVIOUS
  <1>2. q \in QueueNames /\ q # StateQueue(1) BY <1>1 DEF QueueNames, StateQueue
  <1>3. StateQueue(1) \in QueueNames BY DEF QueueNames, Routes, StateQueue
  <1>4. TakenFrom(Drop(q, Cargo(q)), q) BY <1>2, DropDoes
  <1>. QED BY <1>1, <1>2, <1>3, <1>4 DEF TakenFrom, StateMessages

LEMMA OtherRoutesKeepPermissions == PermissionInv /\ (GenericRoute \/ DeltaRoute \/ TableRoute) => PermissionInv'
  <1>. SUFFICES ASSUME PermissionInv, GenericRoute \/ DeltaRoute \/ TableRoute PROVE PermissionInv' OBVIOUS
  <1>1. ResourceInv /\ ResourceInv' BY RoutesKeepResources, GenericKeepsResources DEF PermissionInv
  <1>2. /\ setup' = setup /\ script' = script /\ redelivered' = redelivered /\ handled' = handled
        /\ permissions' = permissions /\ unnamed' = unnamed
    BY DEF GenericRoute, DeltaRoute, TableRoute
  <1>3. setup \in DeltaSetups /\ indexQueue \in QueueType BY <1>1 DEF ResourceInv
  <1>4. PICK route \in Routes \ {"state"}, i \in 1 .. setup.queues :
           indexQueue' = indexQueue \/ indexQueue' = Drop(<<route, i>>, Cargo(<<route, i>>))
    <2>1. CASE GenericRoute
      <3>1. "generic" \in Routes \ {"state"} BY DEF Routes
      <3>2. PICK i \in 1 .. setup.queues :
               indexQueue' = indexQueue \/ indexQueue' = Drop(<<"generic", i>>, Cargo(<<"generic", i>>))
        BY <2>1, Zenon DEF GenericRoute
      <3>. QED BY <3>1, <3>2
    <2>2. CASE DeltaRoute
      <3>1. "deltas" \in Routes \ {"state"} BY DEF Routes
      <3>. QED BY <2>2, <3>1, Zenon DEF DeltaRoute
    <2>3. CASE TableRoute
      <3>1. \A x \in {"proposals", "voters", "accounts", "dynamic"} : x \in Routes \ {"state"} BY DEF Routes
      <3>. QED BY <2>3, <3>1, Zenon DEF TableRoute
    <2>. QED BY <2>1, <2>2, <2>3
  <1>5. ASSUME setup.queues = 1 PROVE indexQueue'[StateQueue(1)] = StateMessages
    <2>1. CASE indexQueue' = indexQueue BY <2>1 DEF StateMessages
    <2>2. CASE indexQueue' = Drop(<<route, i>>, Cargo(<<route, i>>)) BY <1>3, <1>5, <2>2, OtherQueues
    <2>. QED BY <1>4, <2>1, <2>2
  <1>. QED BY <1>1, <1>2, <1>5, StateQueueStays

LEMMA PermissionInvKept == PermissionInv /\ [DeltaNext]_deltaVars => PermissionInv'
  <1>. SUFFICES ASSUME PermissionInv, [DeltaNext]_deltaVars PROVE PermissionInv' OBVIOUS
  <1>1. CASE HandleBlock BY <1>1, HandleBlockKeepsPermissions
  <1>2. CASE HandleAgain BY <1>2, HandleAgainKeepsPermissions
  <1>3. CASE StateRoute BY <1>3, StateRouteKeepsPermissions
  <1>4. CASE GenericRoute \/ DeltaRoute \/ TableRoute BY <1>4, OtherRoutesKeepPermissions
  <1>5. CASE UNCHANGED deltaVars
    <2>1. ResourceInv' BY <1>5, ResourceInvKept DEF PermissionInv
    <2>2. /\ setup' = setup /\ script' = script /\ redelivered' = redelivered /\ handled' = handled
          /\ permissions' = permissions /\ unnamed' = unnamed /\ indexQueue' = indexQueue
      BY <1>5 DEF deltaVars
    <2>3. indexQueue'[StateQueue(1)] = StateMessages BY <2>2 DEF StateMessages
    <2>. QED BY <2>1, <2>2, <2>3, StateQueueStays
  <1>. QED BY <1>1, <1>2, <1>3, <1>4, <1>5 DEF DeltaNext

LEMMA LastPermissionIs ==
  ASSUME NEW p
  PROVE  LastPermission(p) = LastOf({b \in DOMAIN script : \E d \in DeltasIn(b) : d.struct = "permission" /\ d.key = p})
  BY Zenon DEF LastPermission, Touching

LEMMA LastLinkIs ==
  ASSUME NEW k
  PROVE  LastLink(k) = LastOf({b \in DOMAIN script : \E d \in DeltasIn(b) : d.struct = "permission_link" /\ d.key = k})
  BY Zenon DEF LastLink, Touching

\* The last delta of a row of the chain.
IsLast(c, struct, k) ==
    /\ c \in DOMAIN script
    /\ \E d \in DeltasIn(c) : d.struct = struct /\ d.key = k /\ Newest(DOMAIN script, d, c)

LEMMA LastDelta ==
  ASSUME script \in DeltaScripts, NEW struct, NEW k, NEW T \in SUBSET DOMAIN script, T # {},
         \A b \in DOMAIN script : b \in T <=> \E d \in DeltasIn(b) : d.struct = struct /\ d.key = k
  PROVE  IsLast(LastOf(T), struct, k)
  <1>2. PICK c : c = LastOf(T) /\ c \in T /\ \A b \in T : b <= c BY LastIs
  <1>3. PICK d \in DeltasIn(c) : d.struct = struct /\ d.key = k BY <1>2
  <1>4. Newest(DOMAIN script, d, c) BY <1>2, <1>3 DEF Newest
  <1>. QED BY <1>2, <1>3, <1>4 DEF IsLast

LEMMA PermissionInvFollows == PermissionInv => PermissionsFollowChain
  <1>. SUFFICES ASSUME PermissionInv, Drained, InOrder, setup.deltas
                PROVE  /\ ~unnamed
                       /\ \A p \in DOMAIN permissions :
                           /\ LastPermission(p) # 0 =>
                                permissions[p].auth = (IF PermissionIs(p) THEN LastPermission(p) ELSE -1)
                           /\ \A k \in KeysOf({"permission_link"}) :
                                 ~Moved(k) => (k \in permissions[p].links <=> LinkedTo(k, p))
    BY DEF PermissionsFollowChain
  <1>1. PICK done, s, perms : done = handled[1] /\ s = StateMessages /\ perms = permissions OBVIOUS
  <1>2. Follows(done, s, perms) /\ ~unnamed BY <1>1 DEF PermissionInv
  <1>3. setup \in DeltaSetups /\ script \in DeltaScripts /\ indexQueue \in QueueType
    BY DEF PermissionInv, ResourceInv
  <1>4. setup.queues = 1 /\ setup.workers = 1 BY DEF InOrder
  <1>5. done = DOMAIN script
    <2>1. 1 \in Deserializers BY <1>4 DEF Deserializers
    <2>2. handled[1] = BlocksOf(1) BY <2>1 DEF Drained
    <2>3. DOMAIN script \subseteq BlocksOf(1)
      <3>. SUFFICES ASSUME NEW b \in DOMAIN script PROVE b \in BlocksOf(1) OBVIOUS
      <3>1. PICK w \in Deserializers : b \in BlocksOf(w) BY <1>3, BlockHasDeserializer
      <3>2. w = 1 BY <1>4 DEF Deserializers
      <3>. QED BY <3>1, <3>2
    <2>4. BlocksOf(1) \subseteq DOMAIN script BY DEF BlocksOf
    <2>. QED BY <1>1, <2>2, <2>3, <2>4
  <1>6. \A d, c : ~Waits(s, d, c)
    <2>1. StateQueue(1) \in QueueNames BY <1>4 DEF QueueNames, Routes, StateQueue
    <2>2. StateQueue(1) \in DOMAIN indexQueue BY <1>3, <2>1 DEF QueueType
    <2>3. s = <<>> BY <1>1, <2>2 DEF Drained, StateMessages
    <2>4. ToSet(s) = {} BY <2>3 DEF ToSet
    <2>. QED BY <2>4 DEF Waits
  <1>7. DocumentsFollow(done, s, perms) /\ perms \in PermissionType BY <1>2 DEF Follows
  <1>8. DOMAIN permissions = PermissionKeys BY <1>1, <1>7 DEF PermissionType
  <1>9. ASSUME NEW p \in PermissionKeys, LastPermission(p) # 0
        PROVE  permissions[p].auth = (IF PermissionIs(p) THEN LastPermission(p) ELSE -1)
    <2>1. PICK T : T = {b \in DOMAIN script : \E d \in DeltasIn(b) : d.struct = "permission" /\ d.key = p} OBVIOUS
    <2>2. LastPermission(p) = LastOf(T) BY <2>1, LastPermissionIs
    <2>3. T # {} BY <1>9, <2>2 DEF LastOf
    <2>4. PICK c : c = LastPermission(p) OBVIOUS
    <2>5. c \in DOMAIN script /\ \E d \in DeltasIn(c) :
             d.struct = "permission" /\ d.key = p /\ Newest(DOMAIN script, d, c)
      <3>1. /\ T \in SUBSET DOMAIN script
            /\ \A b \in DOMAIN script : b \in T <=> \E d \in DeltasIn(b) : d.struct = "permission" /\ d.key = p
        BY <2>1
      <3>2. IsLast(LastOf(T), "permission", p) BY <1>3, <2>3, <3>1, LastDelta, Zenon
      <3>3. c = LastOf(T) BY <2>2, <2>4
      <3>. QED BY <3>2, <3>3, Zenon DEF IsLast
    <2>6. PICK d \in DeltasIn(c) : d.struct = "permission" /\ d.key = p /\ Newest(done, d, c) BY <1>5, <2>5
    <2>7. perms[d.key].auth = AuthOf(d, c) BY <1>5, <1>6, <1>7, <2>5, <2>6, Zenon DEF DocumentsFollow
    <2>8. PermissionIs(p) <=> d.present
      <3>1. \A e \in DeltasIn(c) : e.struct = "permission" /\ e.key = p => e = d
        BY <1>3, <2>5, <2>6, RowOnce DEF PermissionStructs
      <3>. QED BY <2>4, <2>6, <3>1, Zenon DEF PermissionIs
    <2>. QED BY <1>1, <2>4, <2>6, <2>7, <2>8 DEF AuthOf
  <1>10. ASSUME NEW p \in PermissionKeys, NEW k \in KeysOf({"permission_link"}), ~Moved(k)
         PROVE  k \in permissions[p].links <=> LinkedTo(k, p)
    <2>1. PICK T : T = {b \in DOMAIN script : \E d \in DeltasIn(b) : d.struct = "permission_link" /\ d.key = k} OBVIOUS
    <2>2. LastLink(k) = LastOf(T) BY <2>1, LastLinkIs
    <2>3. T # {}
      <3>1. PICK e \in AllDeltas : e.struct = "permission_link" /\ e.key = k BY DEF KeysOf
      <3>2. PICK b \in DOMAIN script : e \in DeltasIn(b) BY DEF AllDeltas
      <3>. QED BY <2>1, <3>1, <3>2
    <2>4. PICK c : c = LastLink(k) OBVIOUS
    <2>5. c \in DOMAIN script /\ \E d \in DeltasIn(c) :
             d.struct = "permission_link" /\ d.key = k /\ Newest(DOMAIN script, d, c)
      <3>1. /\ T \in SUBSET DOMAIN script
            /\ \A b \in DOMAIN script : b \in T <=> \E d \in DeltasIn(b) : d.struct = "permission_link" /\ d.key = k
        BY <2>1
      <3>2. IsLast(LastOf(T), "permission_link", k) BY <1>3, <2>3, <3>1, LastDelta, Zenon
      <3>3. c = LastOf(T) BY <2>2, <2>4
      <3>. QED BY <3>2, <3>3, Zenon DEF IsLast
    <2>6. PICK d \in DeltasIn(c) : d.struct = "permission_link" /\ d.key = k /\ Newest(done, d, c) BY <1>5, <2>5
    <2>7. k \in perms[d.to].links <=> d.present
      BY <1>5, <1>6, <1>7, <1>10, <2>5, <2>6, Zenon DEF DocumentsFollow
    <2>8. \A e \in DeltasIn(c) : e.struct = "permission_link" /\ e.key = k => e = d
      BY <1>3, <2>5, <2>6, RowOnce DEF PermissionStructs
    <2>9. c # 0 BY <1>3, <2>5, ScriptIs
    <2>10. LinkedTo(k, p) <=> d.to = p /\ d.present
      BY <2>4, <2>6, <2>8, <2>9, Zenon DEF LinkedTo
    <2>11. k \in perms[p].links => d.to = p
      <3>. SUFFICES ASSUME k \in perms[p].links PROVE d.to = p OBVIOUS
      <3>1. PICK e \in AllDeltas : e.struct = "permission_link" /\ e.key = k /\ e.to = p
        BY <1>7, Zenon DEF DocumentsFollow
      <3>2. d \in AllDeltas BY <1>3, <2>5, DeltasAre
      <3>. QED BY <1>10, <2>6, <3>1, <3>2 DEF Moved
    <2>. QED BY <1>1, <2>7, <2>10, <2>11
  <1>. QED BY <1>2, <1>8, <1>9, <1>10

\* With one worker and one queue, and batches of one, and no block handled twice, the
\* permissions of MongoDB and their links are the chain's when every queue is empty.
THEOREM PermissionsAreTheChains == DeltaSpec => []PermissionsFollowChain
<1>1. DeltaInit => PermissionInv BY PermissionInvInit
<1>2. PermissionInv /\ [DeltaNext]_deltaVars => PermissionInv' BY PermissionInvKept
<1>3. PermissionInv => PermissionsFollowChain BY PermissionInvFollows
<1> QED BY <1>1, <1>2, <1>3, PTL DEF DeltaSpec

-----------------------------------------------------------------------------
(* Side by side *)

\* Each behaviour of Operations is one of each component, so that what was proved of them
\* holds of what the run checks.
THEOREM OperationsKeepAll ==
    OpsSpec => /\ [](StopAfterIdle /\ FinishedMeansRead)
               /\ []ReloadMeansApplied
               /\ []StoredAbiDecodes
               /\ []EndMeansDelivered
               /\ [](NoOrphans /\ ScansExact /\ DoneMeansRead)
               /\ []EveryContractHasWorker
               /\ [](ResourcesFollowChain /\ PermissionsFollowChain)
               /\ [](AnswersAreExact /\ LookupShowsOneExecution)
<1>1. OpsInit => LifeInit /\ AbiInit /\ PastInit /\ ConfigReloadInit /\ RepairInit /\ RoutingInit /\ DeltaInit
         /\ ApiInit /\ LookupInit
  BY DEF OpsInit
<1>2. [OpsNext]_<<part, repairVars, masterLifeVars, routingVars, abiVars, pastVars, lookupVars, apiVars,
                  deltaVars, reloadVars, syncVars>> =>
         /\ [LifeNext]_masterLifeVars /\ [AbiNext]_abiVars /\ [PastNext]_pastVars /\ [ConfigReloadNext]_reloadVars
         /\ [RepairNext]_repairVars /\ [RoutingNext]_routingVars /\ [DeltaNext]_deltaVars
         /\ [ApiNext]_apiVars /\ [LookupNext]_lookupVars
  BY DEF OpsNext
<1>3. OpsSpec => /\ LifeSpec /\ AbiSpec /\ PastSpec /\ RepairSpec /\ RoutingSpec /\ DeltaSpec /\ ApiSpec /\ LookupSpec
                 /\ ConfigReloadInit /\ [][ConfigReloadNext]_reloadVars
  BY <1>1, <1>2, PTL DEF OpsSpec, LifeSpec, AbiSpec, PastSpec, RepairSpec, RoutingSpec, DeltaSpec,
                          ApiSpec, LookupSpec
<1>4. ConfigReloadInit /\ [][ConfigReloadNext]_reloadVars => []ReloadMeansApplied
  BY ReloadInvInit, ReloadInvKept, ReloadInvMeans, PTL
<1> QED
  BY <1>3, <1>4, StopWaits, FinishedIsRead, StoredIsDecoded, HistoryIsDelivered,
     NothingIsOrphaned, ScansFindDamage, DoneIsRead, ContractsHaveWorkers,
     ResourcesAreTheChains, PermissionsAreTheChains, AnswersAreThePages, LookupsShowOneExecution, PTL

=============================================================================
