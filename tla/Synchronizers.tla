--------------------------- MODULE Synchronizers ---------------------------
(***************************************************************************)
(* The tools that copy state of the chain to MongoDB (the run methods of   *)
(* src/cli/sync-modules/): a scan of the chain in requests, whose rows go  *)
(* to a cargo of the async library that writes in bulk, and the end of the *)
(* run, which each tool reaches in its own way.  StateTables has the       *)
(* pausing of the indexer around a run.                                    *)
(***************************************************************************)
EXTENDS Integers, Sequences, FiniteSets

CONSTANTS
    SyncKinds,    \* the tools explored
    Scans,        \* what is on the chain: the number of rows each request returns
    BulkSize,      \* rows of a bulk write, 1000 in the code
    MaxSyncErrors \* bound: requests and writes that fail

ASSUME SyncAssumption ==
    /\ SyncKinds \subseteq {"voters", "proposals", "permissions", "accounts", "contract-state"}
    /\ \A s \in Scans : s \in Seq(Nat)
    /\ BulkSize \in Nat \ {0} /\ MaxSyncErrors \in Nat

VARIABLES
    kind, scan,
    requested,   \* requests made
    unread,      \* rows of the last answer that wait for the one before to be written
    cargo,       \* rows queued
    bulkWriting, \* rows of the bulk write under way
    synced, skipped,
    runOutcome,  \* "setup", "scanning", "draining", "polling", "done", "failed", "exited"
    syncErrors

syncVars == <<kind, scan, requested, unread, cargo, bulkWriting, synced, skipped, runOutcome,
              syncErrors>>

\* These push without waiting for the row to be written.
PushesAtOnce(k) == k \in {"voters", "proposals", "permissions"}

\* After the scan these wait for the cargo to drain; contract-state looks every two
\* seconds whether it is idle, for "stuck drain()"; accounts has nothing to wait for.
Completion_Drain(k) == IF k = "accounts" THEN "done" ELSE "draining"  \* mutant: no work-around
Completion(k) == IF PushesAtOnce(k) THEN "draining" ELSE IF k = "accounts" THEN "done" ELSE "polling"

RowsOf(m) == {<<m, i>> : i \in 1 .. scan[m]}
AllRows == UNION {RowsOf(m) : m \in DOMAIN scan}

SynchronizersInit ==
    /\ kind \in SyncKinds /\ scan \in Scans /\ requested = 0
    /\ unread = {} /\ cargo = {} /\ bulkWriting = {} /\ synced = {} /\ skipped = {}
    /\ runOutcome = "setup" /\ syncErrors = 0

Fails == syncErrors < MaxSyncErrors /\ syncErrors' = syncErrors + 1

\* What follows the last request of a scan: a drain() of a cargo with nothing to do
\* never resolves.
AfterRequest(m) == IF PushesAtOnce(kind) /\ m = Len(scan) THEN Completion(kind) ELSE "scanning"

\* get_info and setupMongo; their errors are not caught.
SetupRun ==
    /\ runOutcome = "setup"
    /\ \/ runOutcome' = AfterRequest(0) /\ UNCHANGED syncErrors
       \/ runOutcome' = "failed" /\ Fails
    /\ UNCHANGED <<kind, scan, requested, unread, cargo, bulkWriting, synced, skipped>>

\* The rows of an answer are pushed before anything else runs, and after the last
\* answer so is the call of drain().
Fetch ==
    /\ runOutcome = "scanning" /\ requested < Len(scan) /\ unread = {}
    /\ PushesAtOnce(kind) \/ cargo \cup bulkWriting = {}
    /\ requested' = requested + 1
    /\ IF PushesAtOnce(kind) THEN cargo' = cargo \cup RowsOf(requested') /\ UNCHANGED unread
       ELSE unread' = RowsOf(requested') /\ UNCHANGED cargo
    /\ runOutcome' = AfterRequest(requested')
    /\ UNCHANGED <<kind, scan, bulkWriting, synced, skipped, syncErrors>>

\* voters exits; proposals, and the requests for scopes of permissions and accounts,
\* reject; an account's error skips it, and a table's its remaining rows.
FetchFails ==
    /\ runOutcome = "scanning" /\ requested < Len(scan) /\ unread = {} /\ Fails
    /\ PushesAtOnce(kind) \/ cargo \cup bulkWriting = {}
    /\ \/ kind = "voters" /\ runOutcome' = "exited" /\ UNCHANGED <<requested, skipped>>
       \/ /\ kind \in {"proposals", "permissions", "accounts"}
          /\ runOutcome' = "failed" /\ UNCHANGED <<requested, skipped>>
       \/ /\ kind \in {"permissions", "accounts", "contract-state"}
          /\ requested' \in IF kind = "contract-state" THEN requested + 1 .. Len(scan) ELSE {requested + 1}
          /\ skipped' = skipped \cup UNION {RowsOf(m) : m \in requested + 1 .. requested'}
          /\ runOutcome' = AfterRequest(requested')
    /\ UNCHANGED <<kind, scan, unread, cargo, bulkWriting, synced>>

PushRow ==
    /\ runOutcome = "scanning" /\ unread # {} /\ cargo \cup bulkWriting = {}
    /\ LET r == CHOOSE x \in unread : TRUE
       IN  unread' = unread \ {r} /\ cargo' = {r}
    /\ UNCHANGED <<kind, scan, requested, bulkWriting, synced, skipped, runOutcome, syncErrors>>

Live == runOutcome \in {"scanning", "draining"}

BeginBulk ==
    /\ Live /\ bulkWriting = {} /\ cargo # {}
    /\ \E bulk \in SUBSET cargo :
        /\ Cardinality(bulk) = IF Cardinality(cargo) > BulkSize THEN BulkSize ELSE Cardinality(cargo)
        /\ \A r \in bulk, q \in cargo \ bulk : r[1] < q[1] \/ (r[1] = q[1] /\ r[2] < q[2])
        /\ bulkWriting' = bulk /\ cargo' = cargo \ bulk
    /\ UNCHANGED <<kind, scan, requested, unread, synced, skipped, runOutcome, syncErrors>>

\* The callback of the bulk write: the cargo drains when it has nothing left.
BulkDone ==
    /\ Live /\ bulkWriting # {}
    /\ synced' = synced \cup bulkWriting /\ bulkWriting' = {}
    /\ runOutcome' = IF runOutcome = "draining" /\ cargo = {} THEN "done" ELSE runOutcome
    /\ UNCHANGED <<kind, scan, requested, unread, cargo, skipped, syncErrors>>

\* A rejection that only finally() sees ends the process; contract-state's run rejects.
BulkFails ==
    /\ Live /\ bulkWriting # {} /\ Fails
    /\ runOutcome' = IF kind = "contract-state" THEN "failed" ELSE "exited"
    /\ UNCHANGED <<kind, scan, requested, unread, cargo, bulkWriting, synced, skipped>>

\* The end of a scan that waited for every row.
EndScan ==
    /\ runOutcome = "scanning" /\ ~PushesAtOnce(kind)
    /\ requested = Len(scan) /\ unread \cup cargo \cup bulkWriting = {}
    /\ runOutcome' = Completion(kind)
    /\ UNCHANGED <<kind, scan, requested, unread, cargo, bulkWriting, synced, skipped, syncErrors>>

PollIdle ==
    /\ runOutcome = "polling" /\ cargo \cup bulkWriting = {}
    /\ runOutcome' = "done"
    /\ UNCHANGED <<kind, scan, requested, unread, cargo, bulkWriting, synced, skipped, syncErrors>>

SynchronizersNext ==
    SetupRun \/ Fetch \/ FetchFails \/ PushRow \/ BeginBulk \/ BulkDone \/ BulkFails \/ EndScan \/ PollIdle

\* The node and MongoDB answer.
SynchronizersSpec == SynchronizersInit /\ [][SynchronizersNext]_syncVars /\ WF_syncVars(SynchronizersNext)

-----------------------------------------------------------------------------
\* Types; a row is in one place.
SynchronizersTypeOK ==
    /\ kind \in SyncKinds /\ scan \in Scans /\ requested \in 0 .. Len(scan)
    /\ unread \cup cargo \cup bulkWriting \cup synced \cup skipped \subseteq AllRows
    /\ Cardinality(unread) + Cardinality(cargo) + Cardinality(bulkWriting) + Cardinality(synced)
          + Cardinality(skipped) = Cardinality(unread \cup cargo \cup bulkWriting \cup synced \cup skipped)
    /\ syncErrors \in 0 .. MaxSyncErrors

\* The last request of a tool that drains returned no row.
EndsOnNothing ==
    /\ kind \in {"voters", "proposals", "permissions"}
    /\ scan = <<>> \/ (Len(scan) = requested /\ RowsOf(requested) \subseteq skipped)

\* Every run ends, so that the indexer is resumed: with every row of the scan written
\* that no error skipped, or with an error; except that a tool that drains a cargo
\* waits for ever when its last request returned no row.
SyncEnds ==
    runOutcome = "scanning" ~>
        \/ runOutcome = "done" /\ synced \cup skipped = AllRows
        \/ runOutcome \in {"failed", "exited"}
        \/ EndsOnNothing
=============================================================================
