---------------------------- MODULE Operations ----------------------------
(***************************************************************************)
(* The components that share no variables with the back-fill, the live     *)
(* pipeline and the streaming of traces, side by side: a behaviour is one  *)
(* of a single component, part, while the others stay in an initial state. *)
(***************************************************************************)
EXTENDS Repair, MasterLifecycle, ContractRouting, AbiCache, PastStream, TransactionLookup,
        HistoryApi, DeltaTables, ConfigReload, Synchronizers

VARIABLE
    part    \* the component that moves

Parts == {"repair", "lifecycle", "routing", "abis", "past", "lookup", "history", "deltas",
          "reload", "sync"}

Some(S) == CHOOSE x \in S : TRUE

OpsInit ==
    /\ part \in Parts
    /\ IF part = "routing" THEN TRUE ELSE filter = [rules |-> Some(Filters), mode |-> "heatmap"]
    /\ IF part = "past" THEN TRUE ELSE ask = Some(StreamRequests) /\ indexWindow = Some(IndexWindows)
    /\ IF part = "lookup" THEN TRUE ELSE oldFormat = TRUE
    /\ IF part = "history" THEN TRUE ELSE clients = Some(Clients) /\ stored = 0
    /\ IF part = "deltas" THEN TRUE ELSE setup = Some(DeltaSetups) /\ script = Some(DeltaScripts)
    /\ IF part = "sync" THEN TRUE ELSE kind = Some(SyncKinds) /\ scan = Some(Scans)
    /\ RepairInit /\ LifeInit /\ AbiInit /\ RoutingInit /\ PastInit /\ LookupInit /\ ApiInit
    /\ DeltaInit /\ ConfigReloadInit /\ SynchronizersInit
    /\ part # "reload" => [c \in Tools |-> tool[c].kind] = Some(CommandKinds)

OpsNext ==
    /\ UNCHANGED part
    /\ IF part = "repair" THEN RepairNext ELSE UNCHANGED repairVars
    /\ IF part = "lifecycle" THEN LifeNext ELSE UNCHANGED masterLifeVars
    /\ IF part = "routing" THEN RoutingNext ELSE UNCHANGED routingVars
    /\ IF part = "abis" THEN AbiNext ELSE UNCHANGED abiVars
    /\ IF part = "past" THEN PastNext ELSE UNCHANGED pastVars
    /\ IF part = "lookup" THEN LookupNext ELSE UNCHANGED lookupVars
    /\ IF part = "history" THEN ApiNext ELSE UNCHANGED apiVars
    /\ IF part = "deltas" THEN DeltaNext ELSE UNCHANGED deltaVars
    /\ IF part = "reload" THEN ConfigReloadNext ELSE UNCHANGED reloadVars
    /\ IF part = "sync" THEN SynchronizersNext ELSE UNCHANGED syncVars

\* The fairness of the components: see RepairFairness, LifeFairSpec, ConfigReloadSpec
\* and SynchronizersSpec.
OpsFairness ==
    /\ WF_repairVars(part = "repair" /\ Tool)
    /\ WF_repairVars(part = "repair" /\ Master)
    /\ WF_repairVars(part = "repair" /\ Reader)
    /\ WF_masterLifeVars(part = "lifecycle" /\ Back)
    /\ WF_masterLifeVars(part = "lifecycle" /\ Consume)
    /\ WF_masterLifeVars(part = "lifecycle" /\ Cycle)
    /\ WF_masterLifeVars(part = "lifecycle" /\ TimerFires)
    /\ WF_masterLifeVars(part = "lifecycle" /\ KillWorkers)
    /\ WF_masterLifeVars(part = "lifecycle" /\ SwitchMode)
    /\ WF_masterLifeVars(part = "lifecycle" /\ StopCompletes)
    /\ WF_reloadVars(part = "reload" /\ Progress)
    /\ WF_syncVars(part = "sync" /\ SynchronizersNext)

OpsSpec == OpsInit /\ [][OpsNext]_<<part, repairVars, masterLifeVars, routingVars, abiVars,
                                  pastVars, lookupVars, apiVars, deltaVars, reloadVars, syncVars>> /\ OpsFairness
=============================================================================
