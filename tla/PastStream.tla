---------------------------- MODULE PastStream ----------------------------
(***************************************************************************)
(* A stream request that also asks for past data: processStreamRequest of  *)
(* src/api/socketManager.ts and streamPastCommon of                        *)
(* src/api/helpers/functions.ts.  The request joins the live stream first, *)
(* notes the current block, scrolls through the index up to that block and *)
(* then asks up to three times for what was not indexed yet.               *)
(*                                                                         *)
(* At most one action a block.  The relay announces a block before it      *)
(* sends the block's actions; the index receives them later.               *)
(***************************************************************************)
EXTENDS Integers, FiniteSets, FiniteSetsExt

CONSTANTS
    StreamRequests,    \* explored: [start, until, live, op, filters, known]
    Docs,        \* the action of each block that has one: a function of blocks
    StartHead,   \* head block when the request comes
    MaxHead,     \* bound: head block
    ScrollBatch, \* api.stream_scroll_batch
    ScrollLimit, \* api.stream_scroll_limit
    IndexWindows \* bounds explored: how many blocks out of order a block may be indexed

ASSUME RequestAssumption ==
    \A r \in StreamRequests : r \in [start : Int, until : Int, live : BOOLEAN, op : {"and", "or"},
                                    filters : {r.filters}, known : BOOLEAN]

ASSUME PastAssumption ==
    /\ StartHead \in Nat \ {0} /\ MaxHead \in Nat \ {0} /\ ScrollBatch \in Nat \ {0} /\ IndexWindows \subseteq Nat \ {0}
    /\ DOMAIN Docs \subseteq 1 .. MaxHead

VARIABLES
    ask,        \* the request as the code has it: start_from, read_until change
    wish,       \* history: the request as it came
    pastPhase,  \* new, refused, attached, search, page, scrolled, ended, failed
    attached,   \* the live stream serves the request
    clientUp,   \* socket.connected
    currentBlock, \* currentBlockNum of the relay
    indexWindow, \* 1 when blocks are indexed in order
    traced,      \* blocks up to here went to live clients
    indexed,    \* blocks whose action is in the index
    historyBlock, \* lastHistoryBlock
    scroll,     \* the search context: documents left, total, counter
    tries,      \* attempts
    reached,    \* lastTransmittedBlock of this scroll, and of the first one
    opening,    \* history: documents the first search found
    past,       \* history: how often a block was sent as history
    seenLive    \* history: blocks sent live

pastVars == <<ask, wish, pastPhase, attached, clientUp, currentBlock, traced, indexWindow, indexed,
              historyBlock, scroll, tries, reached, opening, past, seenLive>>

PastInit ==
    /\ ask \in StreamRequests /\ wish = ask
    /\ pastPhase = "new" /\ attached = FALSE /\ clientUp = TRUE
    /\ currentBlock = StartHead /\ traced = StartHead /\ indexWindow \in IndexWindows
    /\ indexed = {b \in DOMAIN Docs : b < currentBlock}
    /\ historyBlock = 0 /\ scroll = [left |-> {}, total |-> 0, counter |-> 0] /\ tries = 0
    /\ reached = [now |-> 0, first |-> 0] /\ opening = {}
    /\ past = [b \in 1 .. MaxHead |-> 0] /\ seenLive = {}

\* checkMetaFilter: the operators that matter here, on a field the document may lack.
Holds(f, doc) ==
    IF f.field \notin DOMAIN doc THEN FALSE
    ELSE IF f.operator = "ne" THEN doc[f.field] # f.value ELSE doc[f.field] = f.value

\* Equality of an indexed meta field goes into the query, the rest is checked on
\* each document.
InQuery(f) == f.meta /\ f.operator = "eq"
QueryFilters == {f \in ask.filters : InQuery(f)}
OnDemand == {f \in ask.filters : ~InQuery(f)}

Satisfies(filters, doc) ==
    IF filters = {} THEN TRUE
    ELSE IF ask.op = "or" THEN \E f \in filters : Holds(f, doc)
    ELSE \A f \in filters : Holds(f, doc)

-----------------------------------------------------------------------------
(* processStreamRequest *)

\* validateRequest: the range as given, a field filtered once unless filters are
\* alternatives, and names (known) that the contract's ABI has.
Valid(r) ==
    /\ r.known
    /\ r.start # 0 /\ r.until # 0 => r.start <= r.until
    /\ r.op # "or" => \A f, g \in r.filters : f.field = g.field => f = g

Refuse ==
    /\ pastPhase = "new" /\ ~Valid(ask)
    /\ pastPhase' = "refused"
    /\ UNCHANGED <<ask, wish, attached, clientUp, currentBlock, traced, indexWindow, indexed, historyBlock,
                   scroll, tries, reached, opening, past, seenLive>>

\* The request is filed and sent to the relay, which files it too.
Attach ==
    /\ pastPhase = "new" /\ Valid(ask)
    /\ attached' = ask.live
    /\ pastPhase' = "attached"
    /\ UNCHANGED <<ask, wish, clientUp, currentBlock, traced, indexWindow, indexed, historyBlock,
                   scroll, tries, reached, opening, past, seenLive>>

\* The relay's answer carries the current block; without live data there is none.
Joined(block) ==
    /\ pastPhase = "attached"
    /\ historyBlock' = IF ask.live THEN block ELSE 0
    /\ ask' = IF ask.until = 0 /\ ask.live THEN [ask EXCEPT !.until = block] ELSE ask
    /\ tries' = 1
    /\ pastPhase' = IF ask.start = 0 THEN "live" ELSE "search"
    /\ UNCHANGED <<wish, attached, clientUp, currentBlock, traced, indexWindow, indexed, scroll, reached,
                   opening, past, seenLive>>
Answer_OffByOne == Joined(currentBlock - 1)
Answer == Joined(currentBlock)

-----------------------------------------------------------------------------
(* streamPastCommon *)

\* addBlockRangeOpts: a negative bound counts back from the head block.
Bound(n) == IF n < 0 THEN currentBlock + n ELSE n
InRange(b) ==
    /\ ask.start # 0 => b >= Bound(ask.start)
    /\ ask.until # 0 => b <= Bound(ask.until)

Search ==
    LET found == {b \in indexed : InRange(b) /\ Satisfies(QueryFilters, Docs[b])}
    IN  /\ pastPhase = "search"
        /\ scroll' = [left |-> found, total |-> Cardinality(found), counter |-> 0]
        /\ reached' = [reached EXCEPT !.now = 0]
        /\ opening' = IF tries = 1 THEN found ELSE opening
        /\ pastPhase' = IF ScrollLimit # -1 /\ Cardinality(found) > ScrollLimit THEN "failed" ELSE "page"
        /\ UNCHANGED <<ask, wish, attached, clientUp, currentBlock, traced, indexWindow, indexed,
                       historyBlock, tries, past, seenLive>>

FirstBlocks(S) == {b \in S : Cardinality({c \in S : c <= b}) <= ScrollBatch}
Messages(page) == {b \in page : Satisfies(OnDemand, Docs[b])}
Highest(S) == Max(S \cup {reached.now})

Page ==
    LET page == FirstBlocks(scroll.left)
        counter == scroll.counter + Cardinality(page)
    IN  /\ pastPhase = "page"
        /\ scroll' = [scroll EXCEPT !.left = @ \ page, !.counter = counter]
        /\ reached' = [reached EXCEPT !.now = Highest(page)]
        /\ IF clientUp
           THEN /\ past' = [b \in 1 .. MaxHead |-> past[b] + IF b \in Messages(page) THEN 1 ELSE 0]
                /\ \/ pastPhase' = IF counter = scroll.total THEN "scrolled" ELSE "page"
                   \/ Messages(page) # {} /\ pastPhase' = "failed"   \* NACK or no answer
           ELSE pastPhase' = "scrolled" /\ UNCHANGED past
        /\ UNCHANGED <<ask, wish, attached, clientUp, currentBlock, traced, indexWindow, indexed,
                       historyBlock, tries, opening, seenLive>>

\* The block the scroll reached; nothing found counts as the block before the range.
Reached ==
    IF scroll.counter > 0 THEN reached.now
    ELSE IF ask.start < 0 /\ ask.start - 1 < 0 THEN currentBlock + ask.start - 1
    ELSE ask.start - 1

\* The fill requests start where the first scroll ended, whatever they found so far,
\* and end at the current block noted above, whatever the client asked for.
Decide ==
    LET ltb == Reached
        first == IF tries = 1 THEN ltb ELSE reached.first
        again == ltb > 0 /\ historyBlock > ltb /\ tries <= 3
    IN  /\ pastPhase = "scrolled"
        /\ reached' = [now |-> ltb, first |-> first]
        /\ tries' = IF again THEN tries + 1 ELSE tries
        /\ ask' = IF again THEN [ask EXCEPT !.start = first + 1, !.until = historyBlock] ELSE ask
        /\ pastPhase' = IF again THEN "search" ELSE "ended"
        /\ UNCHANGED <<wish, attached, clientUp, currentBlock, traced, indexWindow, indexed, historyBlock,
                       scroll, opening, past, seenLive>>

-----------------------------------------------------------------------------
(* the relay, the indexers and the client *)

AnnounceBlock ==
    /\ currentBlock < MaxHead
    /\ currentBlock' = currentBlock + 1
    /\ UNCHANGED <<ask, wish, pastPhase, attached, clientUp, traced, indexWindow, indexed, historyBlock,
                   scroll, tries, reached, opening, past, seenLive>>

SendTraces ==
    /\ traced < currentBlock
    /\ traced' = traced + 1
    /\ seenLive' = IF attached /\ clientUp /\ traced + 1 \in DOMAIN Docs
                   THEN seenLive \cup {traced + 1} ELSE seenLive
    /\ UNCHANGED <<ask, wish, pastPhase, attached, clientUp, currentBlock, indexWindow, indexed,
                   historyBlock, scroll, tries, reached, opening, past>>

Missing == {b \in DOMAIN Docs : b <= currentBlock} \ indexed

IndexBlock ==
    \E b \in Missing :
        /\ Cardinality({c \in Missing : c < b}) < indexWindow
        /\ indexed' = indexed \cup {b}
        /\ UNCHANGED <<ask, wish, pastPhase, attached, clientUp, currentBlock, traced, indexWindow,
                       historyBlock, scroll, tries, reached, opening, past, seenLive>>

ClientLost ==
    /\ clientUp /\ clientUp' = FALSE
    /\ UNCHANGED <<ask, wish, pastPhase, attached, currentBlock, traced, indexWindow, indexed, historyBlock,
                   scroll, tries, reached, opening, past, seenLive>>

PastNext ==
    \/ Refuse \/ Attach \/ Answer \/ Search \/ Page \/ Decide
    \/ AnnounceBlock \/ SendTraces \/ IndexBlock \/ ClientLost

PastSpec == PastInit /\ [][PastNext]_pastVars

-----------------------------------------------------------------------------
\* Types.
PastTypeOK ==
    /\ indexed \subseteq DOMAIN Docs /\ opening \subseteq DOMAIN Docs
    /\ past \in [1 .. MaxHead -> 0 .. 4] /\ seenLive \subseteq DOMAIN Docs
    /\ tries \in 0 .. 4

\* What the client asked for, read from its request.
WishedFor(b) ==
    \/ wish.filters = {}
    \/ wish.op = "and" /\ \A f \in wish.filters : Holds(f, Docs[b])
    \/ wish.op = "or" /\ \E f \in wish.filters : Holds(f, Docs[b])

\* With "or", filters of both kinds are joined by "and": left out.
OneKind == wish.op = "and" \/ QueryFilters = {} \/ OnDemand = {}

Delivered(b) == past[b] > 0 \/ b \in seenLive
Expected(b) == b \in DOMAIN Docs /\ OneKind /\ WishedFor(b)

\* The client that sees the end of its history has received everything that the
\* index held when it asked, and, where blocks are indexed in order and the scroll
\* reached the block noted on joining, everything from its first block to the
\* live stream: page limits, filters, fill requests and the join leave no gap.
EndMeansDelivered ==
    pastPhase = "ended" /\ clientUp =>
        /\ \A b \in opening : Expected(b) => past[b] > 0
        /\ indexWindow = 1 /\ wish.live /\ wish.until = 0 /\ wish.start > 0 /\ reached.now >= historyBlock =>
               \A b \in wish.start .. traced : Expected(b) => Delivered(b)
        /\ \A b \in DOMAIN Docs : past[b] > 0 /\ OneKind => WishedFor(b)

\* No block is sent twice as history: broken by a second fill request, which starts
\* where the first scroll ended.
NoRepeatedHistory == \A b \in DOMAIN past : past[b] <= 1

\* Nothing after the block the client asked to stop at is sent as history: broken
\* by a fill request.
StopsAtReadUntil == wish.until > 0 => \A b \in DOMAIN past : past[b] > 0 => b <= wish.until

=============================================================================
