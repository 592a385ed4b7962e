--------------------------- MODULE MCReaderRanges ---------------------------
(* Instances of ReaderRanges: a SHIP that has the whole range from its first block
   and one that begins in the middle of the first reader's range or after it. *)
EXTENDS ReaderRanges

MCEarlyShip == {[trace |-> 0, state |-> 1]}
MCShips == MCEarlyShip \cup {[trace |-> 0, state |-> 2], [trace |-> 4, state |-> 1]}
=============================================================================
