---------------------------- MODULE HistoryApi ----------------------------
(***************************************************************************)
(* How the API answers get_actions and the node's chain API: the query     *)
(* that v2 get_actions builds (src/api/routes/v2-history/get_actions), the *)
(* window of v1 get_actions (src/api/routes/v1-history/get_actions), the   *)
(* answers kept in Redis (timedQuery of src/api/helpers/functions.ts) and  *)
(* those of the node kept in memory (src/api/helpers/cacheManager.ts).     *)
(*                                                                         *)
(* Actions are indexed in order of their global sequence while clients ask.*)
(* Left out: the time range, parent and data filters of v1, and of v2      *)
(* sortedBy, hot_only, match_operator and what only changes an answer's    *)
(* layout.                                                                 *)
(***************************************************************************)
EXTENDS Integers, Sequences, FiniteSets, SequencesExt, Ranks

CONSTANTS
    Actions,    \* indexed one after the other: [parties, code, name, plain, extended]
    Clients,    \* sets of requests made side by side: of v1 and v2, and of version 0: for the node
    MaxActions, \* api.limits.get_actions
    MaxSkip,    \* the 10000 of getSkipLimit
    CacheLife,  \* api.cache_life
    ChainTtl,   \* ttl of api.v1_chain_cache
    MaxTime     \* bound: seconds

HistoryRequests == UNION Clients

\* The last line: without a time range v1 sorts in descending order.
ASSUME ApiAssumption ==
    /\ MaxActions \in Nat \ {0} /\ CacheLife \in Nat \ {0} /\ ChainTtl \in Nat \ {0} /\ MaxTime \in Nat
    /\ MaxSkip \in Nat /\ Actions # <<>> /\ Actions \in Seq(ToSet(Actions))
    /\ \A r \in HistoryRequests :
          /\ r.version \in 0 .. 2 /\ (r.version # 0 => IsFiniteSet(r.filters))
          /\ r.version = 2 =>
                /\ r = [version |-> 2, account |-> r.account, filters |-> r.filters, values |-> r.values,
                        after |-> r.after, before |-> r.before, sort |-> r.sort, skip |-> r.skip, limit |-> r.limit]
                /\ r.skip \in Int /\ r.limit \in Int
                /\ \A v \in r.values :
                      /\ v.form \in {"range", "list", "words"}
                      /\ v.form # "range" => IsFiniteSet(v.parts) /\ \A p \in v.parts : p.not \in BOOLEAN
          /\ r.version = 1 =>
                /\ r = [version |-> 1, account |-> r.account, filters |-> r.filters, sort |-> "desc",
                        pos |-> r.pos, offset |-> r.offset]
                /\ r.pos \in Int /\ r.offset \in Int

VARIABLES
    clients,    \* the requests made, again and again
    stored,     \* actions indexed: Actions[1..stored]
    seconds,    \* time
    kept,       \* answers in Redis, by their keys
    answer,     \* history: the last answer, who asked, what it was computed from and when
    chainKept,  \* v1Caches: the node's answer and its expiry
    chainAnswer \* history: the last answer of the chain API and its age

apiVars == <<clients, stored, seconds, kept, answer, chainKept, chainAnswer>>

NoAnswer == [docs |-> <<>>, from |-> 0, made |-> 0, given |-> 0, by |-> [version |-> 0]]

ApiInit ==
    /\ clients \in Clients
    /\ stored \in {0, Len(Actions) - 1} /\ seconds = 0
    /\ kept = [k \in {} |-> NoAnswer] /\ answer = NoAnswer
    /\ chainKept = {} /\ chainAnswer = [block |-> 1, age |-> 0]

-----------------------------------------------------------------------------
(* v2: functions.ts of get_actions *)

\* The values of a field; a property of an action's data has an extended name as well.
Field(fields, prop) == IF prop \in DOMAIN fields THEN fields[prop] ELSE {}
Memo(v) == v.extended /\ v.prop = "transfer.memo"

Between(low, high, found) == \E x \in found : low <= x /\ x <= high
Negated(v) == {p \in v.parts : p.not}

\* applyGenericFilters: a value with "-" is a range; with "," it has several parts,
\* looked up under the plain name; otherwise it has words, each sought as it is, except
\* those of a memo, of which one is enough, and a "!" before a single one.
HasValue(v, d) ==
    LET plain == Field(d.plain, v.prop)
        found == IF v.extended THEN Field(d.extended, v.prop) ELSE plain
        wanted == v.parts \ Negated(v)
    IN  \/ v.form = "range" /\ Between(v.low, v.high, found)
        \/ /\ v.form = "list"
           /\ wanted # {} => \E p \in wanted : p.value \in plain
           /\ \A p \in Negated(v) : p.value \notin plain
        \/ v.form = "words" /\ Memo(v) /\ \E p \in v.parts : p.value \in found
        \/ /\ v.form = "words" /\ ~Memo(v) /\ Cardinality(v.parts) > 1
           /\ \A p \in v.parts : ~p.not /\ p.value \in found
        \/ /\ v.form = "words" /\ ~Memo(v) /\ Cardinality(v.parts) <= 1
           /\ \A p \in v.parts : p.not <=> p.value \notin found

\* applyCodeActionFilters: "*:*" is left out of the list.
Filtered(filters, d) ==
    LET used == {f \in filters : f # [code |-> "*", name |-> "*"]}
    IN  used # {} => \E f \in used : f.code \in {"*", d.code} /\ f.name \in {"*", d.name}

\* applyTimeFilter, by block: a bound of 0 is none.
InTime(r, n) == (r.after > 0 => n >= r.after) /\ (r.before > 0 => n <= r.before)

MatchesV2(r, n) ==
    LET d == Actions[n]
    IN  /\ r.account # "" => r.account \in d.parties
        /\ \A v \in r.values : HasValue(v, d)
        /\ InTime(r, n)
        /\ Filtered(r.filters, d)

\* The store sorts by sequence number and cuts.
Hits(r, from, size, matching) ==
    LET all == Sorted(matching, r.sort)
    IN  SubSeq(all, from + 1, IF from + size < Len(all) THEN from + size ELSE Len(all))

\* getSkipLimit and getSortDir: what the API refuses. A limit of 0 is one not given; one
\* given below 1 stands as -1.
Refused(r) ==
    /\ r.version = 2
    /\ \/ r.skip < 0 \/ r.skip > MaxSkip \/ r.limit < 0 \/ r.limit > MaxActions
       \/ r.sort = "asc" /\ r.after = 0 /\ r.before = 0

PageSize(r) == IF r.limit = 0 THEN 10 ELSE r.limit
AnswerV2(r, n) == Hits(r, r.skip, PageSize(r), {k \in 1 .. n : MatchesV2(r, k)})

-----------------------------------------------------------------------------
(* v1: get_actions.ts *)

MatchesV1(r, n) ==
    LET d == Actions[n]
    IN  /\ r.account # "" => r.account \in d.parties
        /\ r.filters # {} => \E f \in r.filters : f.code \in {"*", d.code} /\ f.name \in {"*", d.name}

From(r) == IF r.pos >= 0 /\ r.offset >= 0 THEN r.pos ELSE 0
Size(r) ==
    IF r.pos = -1 THEN (IF r.offset < 0 THEN -r.offset ELSE 0)
    ELSE IF r.pos < 0 THEN 0
    ELSE IF r.offset < 0 THEN r.pos + 1 ELSE r.offset + 1
Capped(r) == IF Size(r) > MaxActions THEN MaxActions ELSE Size(r)

\* A negative offset takes the end of what was found.
AnswerV1(r, n) ==
    LET hits == Hits(r, From(r), Capped(r), {k \in 1 .. n : MatchesV1(r, k)})
        cut == Len(hits) + r.offset - (IF r.pos = -1 THEN 0 ELSE 1)
    IN  IF r.offset < 0 /\ cut > 0 THEN SubSeq(hits, cut + 1, Len(hits)) ELSE hits

-----------------------------------------------------------------------------
(* timedQuery *)

Query(r, n) == IF r.version = 1 THEN AnswerV1(r, n) ELSE AnswerV2(r, n)

\* getCachedResponse: the key is the route's name, get_actions for v1 and v2 alike, and
\* the JSON of the body of v1 or of the query of v2. A v1 body with numbers is no v2 query,
\* and the account has two names: they are equal when both give filters and an order at
\* most. ignoreCache is read from the query, which is part of the key for v2 only.
OnlyFilters(r) ==
    /\ r.account = ""
    /\ r.version = 1 => r.pos = 0 /\ r.offset = 20
    /\ r.version = 2 => r.values = {} /\ r.after = 0 /\ r.before = 0 /\ r.skip = 0 /\ r.limit = 0
Key_FiltersOnly(r, ignore) ==
    [only |-> TRUE, of |-> <<r.filters, r.sort>>, ignore |-> ignore /\ r.version = 2]
Key(r, ignore) ==
    [only |-> OnlyFilters(r), of |-> IF OnlyFilters(r) THEN <<r.filters, r.sort>> ELSE <<r>>,
     ignore |-> ignore /\ r.version = 2]

Kept(k) == k \in DOMAIN kept /\ kept[k].made + CacheLife > seconds

Ask(r, ignore) ==
    LET k == Key(r, ignore)
        new == [docs |-> Query(r, stored), from |-> stored, made |-> seconds, given |-> seconds, by |-> r]
    IN  /\ r.version # 0 /\ ~Refused(r)
        /\ IF Kept(k) /\ ~ignore
           THEN answer' = [kept[k] EXCEPT !.given = seconds, !.by = r] /\ UNCHANGED kept
           ELSE answer' = new /\ kept' = [x \in DOMAIN kept \cup {k} |-> IF x = k THEN new ELSE kept[x]]
        /\ UNCHANGED <<clients, stored, seconds, chainKept, chainAnswer>>

-----------------------------------------------------------------------------
(* chainApiHandler and the cache manager *)

NodeBlock == seconds + 1

\* A failed call is answered with an error and nothing is kept: "" counts as no entry.
ChainRequest ==
    LET fresh == {e \in chainKept : e.exp > seconds}
    IN  /\ \E r \in clients : r.version = 0
        /\ IF fresh # {}
           THEN /\ \E e \in fresh : chainAnswer' = [block |-> e.block, age |-> seconds - (e.exp - ChainTtl)]
                /\ UNCHANGED chainKept
           ELSE \/ /\ chainAnswer' = [block |-> NodeBlock, age |-> 0]
                   /\ chainKept' = {[block |-> NodeBlock, exp |-> seconds + ChainTtl]}
                \/ UNCHANGED <<chainAnswer, chainKept>>
        /\ UNCHANGED <<clients, stored, seconds, kept, answer>>

\* The sweep every five seconds.
SweepChain ==
    /\ chainKept # {} /\ chainKept' = {e \in chainKept : e.exp >= seconds} /\ chainKept' # chainKept
    /\ UNCHANGED <<clients, stored, seconds, kept, answer, chainAnswer>>

IndexAction ==
    /\ (\E r \in clients : r.version # 0) /\ stored < Len(Actions) /\ stored' = stored + 1
    /\ UNCHANGED <<clients, seconds, kept, answer, chainKept, chainAnswer>>

PassTime ==
    /\ seconds < MaxTime /\ seconds' = seconds + 1
    /\ UNCHANGED <<clients, stored, kept, answer, chainKept, chainAnswer>>

ApiNext == \/ \E r \in clients, ignore \in BOOLEAN : Ask(r, ignore)
        \/ ChainRequest \/ SweepChain \/ IndexAction \/ PassTime

ApiSpec == ApiInit /\ [][ApiNext]_apiVars

-----------------------------------------------------------------------------
\* Types.
ApiTypeOK ==
    /\ stored \in 0 .. Len(Actions) /\ seconds \in 0 .. MaxTime
    /\ DOMAIN kept \subseteq {Key(r, i) : r \in {q \in clients : q.version # 0}, i \in BOOLEAN} /\ Cardinality(chainKept) <= 1

\* What a value asks of those found in its field: one in the range; one of the list and
\* none of those ruled out; every word, and for a memo one of them.
Obeyed(p, found) == IF p.not THEN p.value \notin found ELSE p.value \in found
IsAsked(v, found) ==
    CASE v.form = "range" -> Between(v.low, v.high, found)
      [] v.form = "list" -> /\ \A p \in Negated(v) : Obeyed(p, found)
                            /\ v.parts # Negated(v) => \E p \in v.parts \ Negated(v) : Obeyed(p, found)
      [] OTHER -> IF Memo(v) THEN \E p \in v.parts : Obeyed(p, found) ELSE \A p \in v.parts : Obeyed(p, found)

\* What a request asks for, read from its parameters: v2 pages through the matching
\* actions; v1 takes the actions from pos to pos + offset, or the last ones.
AskedFor(r, n) ==
    LET d == Actions[n]
    IN  /\ r.account # "" => r.account \in d.parties
        /\ r.filters = {} \/ \E f \in r.filters : f.code \in {"*", d.code} /\ f.name \in {"*", d.name}
        /\ r.version = 2 => InTime(r, n) /\ \A v \in r.values :
                IsAsked(v, Field(IF v.extended THEN d.extended ELSE d.plain, v.prop))

Window(r) ==
    IF r.version = 2 THEN [first |-> r.skip, last |-> r.skip + PageSize(r) - 1]
    ELSE IF r.pos = -1 THEN [first |-> 0, last |-> -r.offset - 1]
    ELSE IF r.offset < 0 THEN [first |-> r.pos + r.offset, last |-> r.pos]
    ELSE [first |-> r.pos, last |-> r.pos + r.offset]

Reference(r, n) ==
    LET all == {k \in 1 .. n : AskedFor(r, k)}
    IN  Sorted({k \in all : Rank(all, r.sort, k) \in Window(r).first .. Window(r).last}, r.sort)

\* Left out: several values of an extended property, "!" in a memo or beside other words,
\* "*:*" beside other filters, a v1 position below -1, and a v1 window that the limit cuts
\* or that ends after the last action found.
Regular(r, n) ==
    IF r.version = 2
    THEN (\A v \in r.values :
            /\ v.form = "list" => ~v.extended
            /\ v.form = "words" /\ (Memo(v) \/ Cardinality(v.parts) > 1) => Negated(v) = {})
         /\ ([code |-> "*", name |-> "*"] \in r.filters => Cardinality(r.filters) = 1)
    ELSE r.pos >= -1 /\ Size(r) <= MaxActions /\ (r.pos >= 0 /\ r.offset < 0 =>
            Cardinality({k \in 1 .. n : AskedFor(r, k)}) > r.pos)

\* A request and those of the other version with its key: both give filters only.
Sharing(r) ==
    {q \in clients : q = r \/ /\ q.version \notin {0, r.version} /\ OnlyFilters(q) /\ OnlyFilters(r)
                              /\ q.filters = r.filters /\ q.sort = r.sort}

\* Every answer is the page the request describes, of the index as it was within
\* the life of the cache: the query built from the parameters selects, sorts and
\* cuts exactly that, and a kept answer is given only to the request it was computed
\* for. Excepted is what the keys do: of a request of v1 and one of v2 that give filters
\* only, and the same, each may get the other's answer.
AnswersAreExact ==
    /\ answer # NoAnswer => \E r \in Sharing(answer.by) :
          Regular(r, answer.from) => answer.docs = Reference(r, answer.from)
    /\ answer.given - answer.made < CacheLife
    /\ chainAnswer.age < ChainTtl

=============================================================================
