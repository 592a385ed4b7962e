-------------------------- MODULE ContractRouting --------------------------
(***************************************************************************)
(* How a transaction trace finds its pool worker.  The deserializer filters *)
(* it by its actions and picks a queue (routeToPool of                     *)
(* src/indexer/workers/deserializer.ts), in turn or by the contract of its *)
(* first action; pool workers count the contracts they meet and report     *)
(* (src/indexer/workers/ds-pool.ts); every five seconds the master shares  *)
(* the contracts out among the workers and sends the map to the            *)
(* deserializers (updateWorkerAssignments of                               *)
(* src/indexer/modules/master.ts).                                         *)
(*                                                                         *)
(* Fractions of the load are kept exact: a contract's share is its hits    *)
(* times the number of workers, a worker's capacity is all hits.  A trace  *)
(* is handled by its worker as soon as it is routed.                       *)
(***************************************************************************)
EXTENDS Integers, Sequences, FiniteSets, SequencesExt

CONSTANTS
    Codes,      \* contracts
    Traces,     \* traces explored: sequences of actions [code, name]
    Filters,    \* filters explored: [black, white] sets of patterns, max_depth (0: none)
    PoolSize,   \* scaling.ds_pool_size
    MaxTraces   \* bound: traces

ASSUME RoutingAssumption ==
    /\ PoolSize \in Nat \ {0}
    /\ IsFiniteSet(Codes)
    /\ \A t \in Traces : /\ IsFiniteSet(DOMAIN t) /\ Len(t) > 0
                         /\ \A i \in DOMAIN t : t[i].code \in Codes

VARIABLES
    filter,     \* filters of the configuration and scaling.routing_mode
    hits,       \* contractUsage of each pool worker since its last report
    caches,     \* contracts whose ABI a pool worker holds
    usage,      \* globalUsageMap[code][0]
    order,      \* contracts of globalUsageMap, in the order they came
    assigned,   \* globalUsageMap[code][2]: workers from 0
    poolMap,    \* dsPoolMap of the deserializer, [2] of each contract
    counters,   \* ds_pool_counters: last worker used, -1 for none
    lastSelected, \* lastSelectedWorker
    sent,       \* history: contract and queue of the last routed trace
    routed      \* traces routed

routingVars == <<filter, hits, caches, usage, order, assigned, poolMap, counters,
                 lastSelected, sent, routed>>

Slots == 0 .. PoolSize - 1
NoCode == "none"
None == -1

RoutingInit ==
    /\ \E f \in Filters, mode \in {"heatmap", "round_robin"} : filter = [rules |-> f, mode |-> mode]
    /\ hits = [q \in 1 .. PoolSize |-> [c \in Codes |-> 0]]
    /\ caches = [q \in 1 .. PoolSize |-> {}]
    /\ usage = [c \in Codes |-> 0] /\ order = <<>>
    /\ assigned = [c \in Codes |-> <<>>]
    /\ poolMap = [c \in {} |-> <<>>]
    /\ counters = [c \in Codes |-> None] /\ lastSelected = 0
    /\ sent = [code |-> NoCode, queue |-> 1] /\ routed = 0

-----------------------------------------------------------------------------
(* the deserializer *)

\* checkBlacklist and checkWhitelist: code::*, *::name or code::name.
Listed(list, act) ==
    \E p \in list : p.code \in {act.code, "*"} /\ p.name \in {act.name, "*"} /\ p # [code |-> "*", name |-> "*"]

\* The whitelist looks at the actions down to max_depth, one more than it says.
Allowed(trace) ==
    LET seen == IF filter.rules.max_depth = 0 THEN DOMAIN trace
                ELSE {i \in DOMAIN trace : i <= filter.rules.max_depth + 1}
    IN  /\ ~Listed(filter.rules.black, trace[1])
        /\ filter.rules.white = {} \/ \E i \in seen : Listed(filter.rules.white, trace[i])

\* Heatmap: the worker of the contract after the last one used, around its list.
\* A counter above every worker of a changed list finds none.
NextWorker(code) ==
    LET workers == poolMap[code]
        last == counters[code]
        later == SelectSeq(workers, LAMBDA w : w > last)
    IN  IF workers = <<>> THEN None
        ELSE IF last = None \/ last = workers[Len(workers)] THEN workers[1]
        ELSE IF later = <<>> THEN None ELSE later[1]

HeatmapSlot(code) == IF code \in DOMAIN poolMap THEN NextWorker(code) ELSE None
HeatmapQueue(code) == IF HeatmapSlot(code) = None THEN 2 ELSE HeatmapSlot(code) + 1

RoundRobin_OffByOne == IF lastSelected + 1 = PoolSize + 2 THEN 1 ELSE lastSelected + 1
RoundRobin == IF lastSelected + 1 = PoolSize + 1 THEN 1 ELSE lastSelected + 1

\* A queue no worker asserts drops the trace.
Deliver(trace, q) ==
    IF q \in 1 .. PoolSize
    THEN /\ hits' = [hits EXCEPT ![q] = [c \in Codes |->
                        @[c] + Cardinality({i \in DOMAIN trace : trace[i].code = c})]]
         /\ caches' = [caches EXCEPT ![q] = @ \cup {trace[i].code : i \in DOMAIN trace}]
    ELSE UNCHANGED <<hits, caches>>

RouteToPool ==
    \E trace \in Traces :
        LET code == trace[1].code
            q == IF filter.mode = "heatmap" THEN HeatmapQueue(code) ELSE RoundRobin
        IN  /\ routed < MaxTraces
            /\ Allowed(trace)
            /\ counters' = IF filter.mode = "heatmap" /\ HeatmapSlot(code) # None
                           THEN [counters EXCEPT ![code] = HeatmapSlot(code)] ELSE counters
            /\ lastSelected' = IF filter.mode = "heatmap" THEN lastSelected ELSE RoundRobin
            /\ sent' = [code |-> code, queue |-> q]
            /\ routed' = routed + 1
            /\ Deliver(trace, q)
            /\ UNCHANGED <<filter, usage, order, assigned, poolMap>>

-----------------------------------------------------------------------------
(* the pool worker's monitoring loop and contract_usage_report *)

Report(q) ==
    LET met == {c \in Codes : hits[q][c] > 0}
    IN  /\ met # {}
        /\ usage' = [c \in Codes |-> usage[c] + hits[q][c]]
        /\ \E new \in SetToSeqs({c \in met : usage[c] = 0}) : order' = order \o new
        /\ hits' = [hits EXCEPT ![q] = [c \in Codes |-> 0]]
        /\ UNCHANGED <<filter, caches, assigned, poolMap, counters, lastSelected, sent, routed>>

-----------------------------------------------------------------------------
(* updateWorkerAssignments *)

Fewer(a, b) == IF a < b THEN a ELSE b

\* Phase 1: each contract fills the room left in the workers, from the first on.
Share_Forgets(s, c, total, i) ==
    LET need == usage[c] * PoolSize
        take == Fewer(need, total - s.shares[i])
    IN  IF take > 0 /\ need > s.used
        THEN [shares |-> [s.shares EXCEPT ![i] = @ + take], used |-> s.used + take,
              workers |-> Append(s.workers, i)]
        ELSE s
Share(s, c, total, i) ==
    LET take == Fewer(usage[c] * PoolSize - s.used, total - s.shares[i])
    IN  IF take > 0
        THEN [shares |-> [s.shares EXCEPT ![i] = @ + take], used |-> s.used + take,
              workers |-> Append(s.workers, i)]
        ELSE s

Filled(shares, c, total) ==
    FoldLeft(LAMBDA s, i : Share(s, c, total, i),
             [shares |-> shares, used |-> 0, workers |-> <<>>],
             [k \in 1 .. PoolSize |-> k - 1])

Propose(p, c, total) ==
    LET filled == Filled(p.shares, c, total)
    IN  [shares |-> filled.shares, map |-> [p.map EXCEPT ![c] = filled.workers]]

TotalHits == FoldLeft(LAMBDA sum, c : sum + usage[c], 0, order)

\* The assignments of the contracts in order: phase one for all.
Proposed ==
    LET total == TotalHits
    IN  FoldLeft(LAMBDA p, c : Propose(p, c, total),
                 [shares |-> [i \in Slots |-> 0], map |-> [c \in Codes |-> <<>>]], order).map

\* Phase 2: contracts alone on a crowded worker move to one with fewer contracts.
CountOf(map, i) == Cardinality({c \in Codes : i \in ToSet(map[c])})
Crowded(map) == {i \in Slots : CountOf(map, i) * PoolSize * 10 > Len(order) * 11}

Rebalance(map, crowded, c) ==
    LET free == {i \in Slots : CountOf(map, i) * PoolSize < Len(order)}
    IN  IF Len(map[c]) = 1 /\ map[c][1] \in crowded /\ free # {}
        THEN [map EXCEPT ![c] = <<CHOOSE i \in free : \A j \in free : i <= j>>]
        ELSE map

Balanced ==
    LET proposed == Proposed
        crowded == Crowded(proposed)
    IN  FoldLeft(LAMBDA map, c : Rebalance(map, crowded, c), proposed, order)

\* Phase 3: a worker that lost a contract is told to forget it.  Assignments count
\* workers from 0 and dsPoolMap from 1: the message goes to the worker before.
UpdateWorkerAssignments ==
    /\ order # <<>>
    /\ assigned' = Balanced
    /\ caches' = [q \in 1 .. PoolSize |->
                    caches[q] \ {c \in Codes : q \in ToSet(assigned[c]) \ ToSet(assigned'[c])}]
    /\ poolMap' = [c \in ToSet(order) |-> assigned'[c]]
    /\ UNCHANGED <<filter, hits, usage, order, counters, lastSelected, sent, routed>>

RoutingNext ==
    \/ RouteToPool
    \/ \E q \in 1 .. PoolSize : Report(q)
    \/ UpdateWorkerAssignments

RoutingSpec == RoutingInit /\ [][RoutingNext]_routingVars

-----------------------------------------------------------------------------
\* Types.
RoutingTypeOK ==
    /\ hits \in [1 .. PoolSize -> [Codes -> Nat]]
    /\ caches \in [1 .. PoolSize -> SUBSET Codes]
    /\ counters \in [Codes -> Slots \cup {None}]
    /\ lastSelected \in 0 .. PoolSize
    /\ DOMAIN poolMap \subseteq Codes

\* Every trace goes to the queue of a pool worker, whatever the mode, the map and
\* the counter left from an older map (with one worker the heatmap mode breaks it:
\* an unknown contract goes to queue 2).
TraceHasQueue == sent.queue \in 1 .. PoolSize

\* The master gives every contract it has counted a worker of the pool: the shares
\* of the others leave room for it, and moving contracts to spread them loses none.
EveryContractHasWorker ==
    \A c \in DOMAIN poolMap :
        poolMap[c] # <<>> /\ ToSet(poolMap[c]) \subseteq Slots

\* Where a contract's traces go is one of its workers: broken by a counter that an
\* older map left above every worker of the new one.
RoutedToItsWorker ==
    [][\A c \in DOMAIN poolMap :
         filter.mode = "heatmap" /\ routed' # routed /\ sent'.code = c
            => \E k \in DOMAIN poolMap[c] : sent'.queue = poolMap[c][k] + 1]_routingVars

=============================================================================
