---------------------------- MODULE MCIngestor ----------------------------
(* Instances of Ingestor for TLC: four messages in the order of their names. *)
EXTENDS Ingestor

CONSTANTS m1, m2, m3, m4

MCMsgs == {m1, m2, m3, m4}
MCQueue == <<m1, m2, m3, m4>>

\* Every message its own document.
OwnDoc == [m \in MCMsgs |-> m]
===========================================================================
