--------------------------- MODULE IngestContract ---------------------------
(***************************************************************************)
(* What an ingestor owes the queue it consumes.  It may settle a message   *)
(* before it was written, but then it still has it in memory: what leaves  *)
(* the queue is written or held, or its rejection was reported.  A message *)
(* can therefore only be lost without a report from memory, between an     *)
(* early settlement and its write, or when an answer is misdirected; and   *)
(* what was settled never returns to the queue.                            *)
(***************************************************************************)
CONSTANT Msgs

VARIABLES
    pending,  \* messages the broker still has, delivered or not
    held,     \* messages in the memory of the ingestor
    written,  \* messages whose documents were written
    reported, \* messages whose rejection was reported
    misdirected \* the awaited answer would settle a message that is not its own

vars == <<pending, held, written, reported, misdirected>>

Init == pending = Msgs /\ held = {} /\ written = {} /\ reported = {} /\ misdirected = FALSE

Take ==
    /\ \E some \in SUBSET pending : held' = held \cup some
    /\ UNCHANGED <<pending, written, reported>>

Write ==
    /\ \E some \in SUBSET held : written' = written \cup some
    /\ UNCHANGED <<pending, held, reported>>

\* Messages leave the queue, the memory or both; some of those in memory may be
\* reported.
Release ==
    /\ \E settled \in SUBSET pending, dropped \in SUBSET held :
        /\ pending' = pending \ settled
        /\ held' = held \ dropped
        /\ reported' \in {reported \cup some : some \in SUBSET held}
        /\ misdirected \/ settled \subseteq written \cup held' \cup reported'
    /\ UNCHANGED written

Next == (Take \/ Write \/ Release) /\ misdirected' \in BOOLEAN

Spec == Init /\ [][Next]_vars
=============================================================================
