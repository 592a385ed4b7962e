---------------------------- MODULE StoreWriters ----------------------------
(***************************************************************************)
(* What writes to and deletes from the store, side by side: an ingestor    *)
(* with its queue, the live reader that removes forked blocks, or the      *)
(* pruning of old partitions.  They share no variables here, since an      *)
(* ingestor is modelled by messages, the removal of forks by blocks and    *)
(* pruning by partitions; a behaviour is one of a single one.              *)
(***************************************************************************)
EXTENDS Ingestor, ForkHandling, IndexLifecycle

VARIABLE
    writer  \* the one that moves

WritersInit ==
    /\ writer \in {"ingestor", "forks", "pruning"}
    /\ Init /\ ForkInit /\ IndexLifecycleInit
    /\ writer # "pruning" => retention = 0
    /\ writer # "ingestor" => settings = CHOOSE s \in IdsMatch \X Prefetches : TRUE

WritersNext ==
    /\ UNCHANGED writer
    /\ IF writer = "ingestor" THEN Next ELSE UNCHANGED vars
    /\ IF writer = "forks" THEN ForkNext ELSE UNCHANGED forkVars
    /\ IF writer = "pruning" THEN IndexLifecycleNext ELSE UNCHANGED lifecycleVars

\* The fairness of FairSpec and ForkFairSpec.
WritersFairness ==
    /\ WF_vars(writer = "ingestor" /\ Deliver)
    /\ WF_vars(writer = "ingestor" /\ StartBulk)
    /\ WF_vars(writer = "ingestor" /\ ExecuteBulk)
    /\ WF_vars(writer = "ingestor" /\ Settle)
    /\ WF_vars(writer = "ingestor" /\ Return)
    /\ WF_forkVars(writer = "forks" /\ ReadBlock)
    /\ WF_forkVars(writer = "forks" /\ IndexBlock)
    /\ WF_forkVars(writer = "forks" /\ \E p \in Passes : StartPass(p))
    /\ \A p \in Passes : WF_forkVars(writer = "forks" /\ PassStep(p))

WritersSpec == WritersInit /\ [][WritersNext]_<<writer, vars, forkVars, lifecycleVars>> /\ WritersFairness

-----------------------------------------------------------------------------
\* Of a behaviour of the ingestor: every message that is not lost is written.
IngestorWrites == writer = "ingestor" => AllWritten
=============================================================================
