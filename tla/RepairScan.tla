----------------------------- MODULE RepairScan -----------------------------
(***************************************************************************)
(* What hyp-repair's scans compute from the block index                    *)
(* (src/cli/repair-cli/scan.ts, functions.ts, utils.ts), as functions of   *)
(* the index.  The index keeps one document per block number, so the state *)
(* of a number is one of four kinds.  A forked document is of one fork     *)
(* branch; its parent is a block of the chain ("branch") or a block of the *)
(* branch ("twig").                                                        *)
(***************************************************************************)
EXTENDS Integers, Sequences, FiniteSets, SequencesExt

CONSTANTS
    NumBlocks,  \* block numbers are 1 .. NumBlocks
    ScanBatch   \* --batch of hyp-repair scan

ASSUME ScanAssumption == NumBlocks \in Nat \ {0, 1} /\ ScanBatch \in Nat \ {0}

Blocks == 1 .. NumBlocks
Kinds == {"ok", "absent", "branch", "twig"}
Indexes == [Blocks -> Kinds]

Forked(ix, n) == ix[n] \in {"branch", "twig"}
Stored(ix) == {n \in Blocks : ix[n] # "absent"}

\* block_id of the document and prev_id it names: of the chain or of the branch.
BlockId(ix, n) == IF Forked(ix, n) THEN "f" ELSE "c"
PrevId(ix, n) == IF ix[n] = "twig" THEN "f" ELSE "c"
\* /v1/chain/get_block_info knows the chain only.
Differs(ix, n) == BlockId(ix, n) # "c"

\* The elements of a set of numbers, the greatest first.
Descending(S) == [i \in 1 .. Cardinality(S) |-> CHOOSE n \in S : Cardinality({m \in S : m >= n}) = i]

\* A page of the index, newest first, cut at size hits.
GetBlocks(ix, from, to, size) ==
    LET hits == Descending({n \in Stored(ix) : n \in to .. from})
    IN  SubSeq(hits, 1, IF Len(hits) < size THEN Len(hits) ELSE size)

-----------------------------------------------------------------------------
(* scan: pages of ScanBatch blocks from the last block down *)

NoStart == 0

ScanState ==
    [errors : Seq([start : Nat, end : Nat, ids : SUBSET Blocks]),
     missing : Seq([start : Nat, end : Nat]),
     pending : Nat]

Pair_Inclusive(ix, s, cur, prev) ==
    IF prev # cur - 1
    THEN [s EXCEPT !.missing = Append(@, [start |-> prev, end |-> cur - 1])]
    ELSE s

\* One pair of neighbours of a page.  start, removals are locals of the page:
\* s is a record of the shared state and of the locals.
Pair(ix, s, cur, prev) ==
    IF prev # cur - 1
    THEN [s EXCEPT !.missing = Append(@, [start |-> prev + 1, end |-> cur - 1])]
    ELSE IF BlockId(ix, prev) # PrevId(ix, cur)
    THEN IF s.start # NoStart THEN s
         ELSE [s EXCEPT !.start = cur - 1,
                        !.removals = IF Differs(ix, prev) THEN @ \cup {prev} ELSE @]
    ELSE IF s.start = NoStart THEN s
    ELSE IF Differs(ix, cur) THEN [s EXCEPT !.removals = @ \cup {cur}]
    ELSE [s EXCEPT !.errors = Append(@, [start |-> s.start, end |-> cur + 1, ids |-> s.removals]),
                   !.start = NoStart,
                   !.removals = {}]

FindForksOnRange(ix, s, page) ==
    LET blocks == IF page # <<>> /\ s.pending # 0 /\ page[1] # s.pending
                  THEN <<s.pending>> \o page ELSE page
        local == [errors |-> s.errors, missing |-> s.missing, start |-> NoStart, removals |-> {}]
        end == FoldLeft(LAMBDA acc, i : Pair(ix, acc, blocks[i], blocks[i + 1]),
                        local, [i \in 1 .. (Len(blocks) - 1) |-> i])
    IN  IF blocks = <<>> THEN s
        ELSE [errors |-> end.errors, missing |-> end.missing, pending |-> Last(blocks)]

\* run(): the pages of scan, each starting on the last number of the one before.
Run(ix, first, last) ==
    LET pages == (last - first + ScanBatch - 1) \div ScanBatch
        from(i) == last - (i - 1) * ScanBatch
        to(i) == IF from(i) - ScanBatch < first THEN first ELSE from(i) - ScanBatch
    IN  FoldLeft(LAMBDA s, i : FindForksOnRange(ix, s, GetBlocks(ix, from(i), to(i), ScanBatch)),
                 [errors |-> <<>>, missing |-> <<>>, pending |-> 0],
                 [i \in 1 .. pages |-> i])

\* The range of a scan without arguments: first and last indexed block.
FirstIndexed(ix) == CHOOSE n \in Stored(ix) : \A m \in Stored(ix) : n <= m
LastIndexed(ix) == CHOOSE n \in Stored(ix) : \A m \in Stored(ix) : n >= m

ScanChain(ix) == Run(ix, FirstIndexed(ix), LastIndexed(ix))

-----------------------------------------------------------------------------
(* quick-scan: bisection on the number of documents *)

Count(ix, first, last) == Cardinality({n \in Stored(ix) : n \in first .. last})

\* The missing ranges in the order they are found.
SearchMissingBlocks(ix) ==
    LET search[r \in Blocks \X Blocks] ==
            LET first == r[1]
                last == r[2]
                middle == (first + last) \div 2
            IN  IF Count(ix, first, last) = 0 THEN <<[start |-> first, end |-> last]>>
                ELSE IF last - first + 1 - Count(ix, first, last) > 0
                THEN search[<<first, middle>>] \o search[<<middle + 1, last>>]
                ELSE <<>>
    IN  search

\* Neighbouring ranges become one.
MergeRanges(ranges) ==
    FoldLeft(LAMBDA acc, r :
                 IF acc # <<>> /\ r.start = Last(acc).end + 1
                 THEN Front(acc) \o <<[start |-> Last(acc).start, end |-> r.end]>>
                 ELSE Append(acc, r),
             <<>>, ranges)

QuickScanChain(ix, first, last) == MergeRanges(SearchMissingBlocks(ix)[<<first, last>>])

-----------------------------------------------------------------------------
(* scan-actions: bisection on the API's count of missing actions.  lacking
   are the blocks that lack actions, failing the ranges whose request fails. *)

\* What the API answers for a range; a range whose request fails reports nothing.
MissesActions(lacking, failing, first, last) ==
    <<first, last>> \notin failing /\ lacking \cap (first .. last) # {}

\* The base cases of the search: a block, or a range that is small enough.
NotSplit(first, last, minRangeSize) ==
    first = last \/ (last - first + 1 <= minRangeSize /\ last - first + 1 > 1)

SearchMissingActions(lacking, failing, minRangeSize) ==
    LET search[r \in Blocks \X Blocks] ==
            LET first == r[1]
                last == r[2]
                middle == (first + last) \div 2
            IN  IF ~MissesActions(lacking, failing, first, last) THEN <<>>
                ELSE IF NotSplit(first, last, minRangeSize)
                THEN <<[start |-> first, end |-> last]>>
                ELSE search[<<first, middle>>] \o search[<<middle + 1, last>>]
    IN  search

ScanActions(lacking, failing, minRangeSize, first, last) ==
    MergeRanges(SearchMissingActions(lacking, failing, minRangeSize)[<<first, last>>])

-----------------------------------------------------------------------------
(* The files the scans write, cut to the indexer's batches before use. *)

RangeOf(r) == r.start .. r.end

\* Ranges of more than batchSize blocks in pieces, the others as they are
\* (also one whose start is above its end: its count is not positive).
PreprocessRanges(ranges, batchSize) ==
    LET pieces(r) ==
            IF r.end - r.start + 1 <= batchSize
            THEN <<[start |-> r.start, end |-> r.end]>>
            ELSE [i \in 1 .. ((r.end - r.start + batchSize) \div batchSize) |->
                     [start |-> r.start + (i - 1) * batchSize,
                      end |-> LET e == r.start + i * batchSize - 1
                              IN  IF e < r.end THEN e ELSE r.end]]
    IN  FoldLeft(LAMBDA acc, r : acc \o pieces(r), <<>>, ranges)

Covered(ranges) == UNION {RangeOf(ranges[i]) : i \in DOMAIN ranges}
==============================================================================
