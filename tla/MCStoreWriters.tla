--------------------------- MODULE MCStoreWriters ---------------------------
(* Instances of the ingestor and of fork handling for TLC: four messages in the
   order of their names, each its own document. *)
EXTENDS StoreWriters

CONSTANTS m1, m2, m3, m4

MCMsgs == {m1, m2, m3, m4}
MCQueue == <<m1, m2, m3, m4>>
OwnDoc == [m \in MCMsgs |-> m]

\* No pruning, and a retention that is rounded up to a partition; partitions without
\* deltas, and a block without actions.
MCRetention == {-1, 1}
MCQuietBlocks == { [action |-> {5}, delta |-> {3, 4}, block |-> {}] }
=============================================================================
