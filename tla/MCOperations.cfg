SPECIFICATION OpsSpec
CONSTANTS
 NumBlocks=7 ScanBatch=5 ToolBatch=3 IndexerBatch=2 ChunkSize=1 RepairBegin=3 Repaired<-MCRepaired
 MaxRepairCrashes=1 MaxInterrupts=1 MaxCloses=1
 Settings<-MCSettings MaxReaders=2 Batch=1 AutoStop=3 MaxAttempts=1 MaxBacklog=1 MaxFailures=1
 Codes={"a","b","c"} Traces<-MCTraces Filters<-MCFilters PoolSize=2 MaxTraces=4
 Types={"t","u"} Histories<-MCHistories MaxBlock=2
 StreamRequests<-MCStreamRequests Docs<-MCDocs StartHead=3 MaxHead=4 ScrollBatch=2 ScrollLimit=3 IndexWindows={1,2}
 TraceSet<-MCTraceSet Dropped={"z"} TrxBlocks={5,6} TrxSize=3 SeqBases<-MCSeqBases
 DeltaScripts<-MCDeltaScripts DeltaSetups<-MCDeltaSetups MaxBulkErrors=1 MaxRedelivered=1
 Actions<-MCActions Clients<-MCClients MaxActions=4 MaxSkip=4 CacheLife=2 ChainTtl=1 MaxTime=2
 Decoders={"d1","d2"} Tools={"t1","t2"} CommandKinds<-MCCommandKinds MaxExits=1
 SyncKinds={"voters","proposals","permissions","accounts","contract-state"} Scans<-MCScans BulkSize=2
 MaxSyncErrors=1
INVARIANTS
 DoneMeansRead
 ScansExact
 NoOrphans
 FinishedMeansRead
 StopAfterIdle
 EveryContractHasWorker
 StoredAbiDecodes
 EndMeansDelivered
 LookupShowsOneExecution
 AnswersAreExact
 ResourcesFollowChain
 PermissionsFollowChain
 ReloadMeansApplied
PROPERTIES
 ChunkAnswered
 StopEnds
 CommandsAnswered
 SyncEnds
CHECK_DEADLOCK FALSE
