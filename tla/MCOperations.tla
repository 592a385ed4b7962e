---------------------------- MODULE MCOperations ----------------------------
(***************************************************************************)
(* Instance of Operations.  The values are chosen so that every action of  *)
(* every component happens.                                                *)
(***************************************************************************)
EXTENDS Operations

\* Damaged indexes whose repair is followed step by step (the scans are checked on
\* all of them): gaps longer than a batch, a fork of one block and one of two.
MCRepaired ==
    { <<"ok", "absent", "absent", "absent", "absent", "ok", "ok">>,
      <<"ok", "absent", "ok", "absent", "absent", "ok", "ok">>,
      <<"ok", "ok", "ok", "ok", "branch", "ok", "ok">>,
      <<"ok", "ok", "ok", "ok", "branch", "twig", "ok">> }

\* Back-fill only, by one reader and by two; live only after the preview; ABI scan with
\* the switch of modes; a rewrite from a start block with auto-stop.
MCPlain ==
    [readers |-> 1,
     startOn |-> 0, stopOn |-> 0, rewrite |-> FALSE, abiScan |-> FALSE, autoSwitch |-> FALSE,
     liveReader |-> FALSE, liveOnly |-> FALSE, preview |-> FALSE, autoStop |-> FALSE,
     lastIndexed |-> 1, lastAbi |-> 2, shipBegin |-> 2, chainHead |-> 4]
MCSettings ==
    { MCPlain,
      [MCPlain EXCEPT !.readers = 2],
      [MCPlain EXCEPT !.liveReader = TRUE, !.preview = TRUE, !.liveOnly = TRUE],
      [MCPlain EXCEPT !.abiScan = TRUE, !.autoSwitch = TRUE, !.stopOn = 3, !.lastIndexed = 2],
      [MCPlain EXCEPT !.startOn = 1, !.rewrite = TRUE, !.autoStop = TRUE] }

\* A contract that changes a layout, one that adds a table, one whose ABI does not load.
MCLayout(t, u) == [x \in {"t", "u"} |-> IF x = "t" THEN t ELSE u]
MCAbi(b, l, n, j) == [block |-> b, layout |-> l, native |-> n, json |-> j]
MCHistories ==
    { <<MCAbi(1, MCLayout(1, 0), TRUE, TRUE), MCAbi(2, MCLayout(1, 1), FALSE, TRUE)>>,
      <<MCAbi(1, MCLayout(1, 0), FALSE, TRUE), MCAbi(2, MCLayout(1, 1), FALSE, TRUE)>>,
      <<MCAbi(1, MCLayout(1, 1), FALSE, TRUE), MCAbi(2, MCLayout(2, 1), TRUE, TRUE)>>,
      <<MCAbi(1, MCLayout(1, 1), TRUE, TRUE), MCAbi(2, MCLayout(2, 0), FALSE, FALSE)>> }

\* Transactions with one and two contracts; no filters, and both lists with a depth.
MCAct(c, n) == [code |-> c, name |-> n]
MCTraces == { <<MCAct("a", "x")>>, <<MCAct("b", "y"), MCAct("c", "x")>>, <<MCAct("c", "x")>> }
MCFilters ==
    { [black |-> {}, white |-> {}, max_depth |-> 0],
      [black |-> {MCAct("c", "*")}, white |-> {MCAct("*", "x"), MCAct("a", "z")}, max_depth |-> 1] }

\* Requests from a block, from before the head, with a last block and without live
\* data, with filters of the query and on demand, and one that is refused.
MCFilter(f, m, o, v) == [field |-> f, meta |-> m, operator |-> o, value |-> v]
MCRequest(start, until, live, op, filters) ==
    [known |-> TRUE, start |-> start, until |-> until, live |-> live, op |-> op, filters |-> filters]
MCStreamRequests ==
    { MCRequest(2, 0, TRUE, "and", {}),
      MCRequest(-2, 0, TRUE, "and", {MCFilter("m", TRUE, "eq", 1), MCFilter("d", FALSE, "ne", 1)}),
      MCRequest(1, 3, FALSE, "or", {MCFilter("m", TRUE, "eq", 1), MCFilter("s", TRUE, "eq", 2)}),
      MCRequest(1, 2, TRUE, "and", {}),
      MCRequest(3, 2, TRUE, "and", {}) }
MCDocs ==
    [b \in 1 .. 4 |-> CASE b = 1 -> [m |-> 1, d |-> 1] [] b = 2 -> [m |-> 1, d |-> 2]
                        [] b = 3 -> [m |-> 2, d |-> 2, s |-> 2] [] b = 4 -> [m |-> 1, d |-> 3]]

\* Transactions with a notification, equal actions twice, inline actions that look
\* like or unlike their creator, and an action the filters drop.
MCTrace(d, c, r) == [digest |-> d, creator |-> c, receiver |-> r]
MCTraceSet ==
    { <<MCTrace("x", 0, "p"), MCTrace("x", 1, "q")>>,
      <<MCTrace("x", 0, "p"), MCTrace("x", 1, "q"), MCTrace("y", 2, "q")>>,
      <<MCTrace("t", 0, "p"), MCTrace("t", 0, "p"), MCTrace("t", 2, "q")>>,
      <<MCTrace("u", 0, "p"), MCTrace("z", 1, "q"), MCTrace("u", 2, "q")>> }

\* The second execution starts before, or later in, the sequences of the first.
MCSeqBases == <<{2}, {1, 4}>>

\* Five actions between two accounts, and queries of each kind of parameter, made
\* alone, beside one of the other version with the same key, and beside others.
MCDone(p, c, n, to, memo) ==
    [parties |-> p, code |-> c, name |-> n, plain |-> [x \in {"producer", "ram"} |-> IF x = "ram" THEN {Len(n)} ELSE {c}],
     extended |-> [x \in {"transfer.to", "transfer.memo"} |-> IF x = "transfer.to" THEN {to} ELSE memo]]
MCActions ==
    << MCDone({"u"}, "a", "t", "v", {"m"}), MCDone({"u", "v"}, "b", "t", "u", {"m", "n"}),
       MCDone({"v"}, "a", "ww", "v", {}), MCDone({"u"}, "a", "t", "u", {"n"}),
       MCDone({"u", "v"}, "a", "ww", "w", {"o"}) >>
MCQuery2 == [version |-> 2, account |-> "", filters |-> {}, values |-> {}, after |-> 0, before |-> 0,
             sort |-> "desc", skip |-> 0, limit |-> 0]
MCQuery1 == [version |-> 1, account |-> "u", filters |-> {}, sort |-> "desc", pos |-> 0, offset |-> 20]
MCPart(v, n) == [value |-> v, not |-> n]
MCValue(p, e, f, parts) == [prop |-> p, extended |-> e, form |-> f, parts |-> parts]
MCBetween(p, low, high) == [prop |-> p, extended |-> FALSE, form |-> "range", low |-> low, high |-> high]
MCValues(values) == [MCQuery2 EXCEPT !.values = values]
MCAlone ==
    { [version |-> 0], MCQuery2, MCQuery1,
      [MCQuery2 EXCEPT !.account = "u", !.skip = 1, !.limit = 2],
      [MCQuery2 EXCEPT !.filters = {MCAct("a", "*"), MCAct("*", "ww")}, !.after = 2],
      MCValues({MCValue("transfer.to", TRUE, "words", {MCPart("u", FALSE)}),
                MCValue("producer", FALSE, "list", {MCPart("a", FALSE), MCPart("b", FALSE), MCPart("b", TRUE)})}),
      [MCValues({MCValue("transfer.to", TRUE, "words", {MCPart("u", TRUE)})}) EXCEPT !.sort = "asc", !.before = 4],
      MCValues({MCValue("transfer.memo", TRUE, "words", {MCPart("m", FALSE), MCPart("n", FALSE)}),
                MCBetween("ram", 1, 1)}),
      MCValues({MCValue("transfer.memo", TRUE, "list", {MCPart("m", FALSE), MCPart("n", FALSE)}),
                MCValue("producer", FALSE, "words", {MCPart("a", FALSE), MCPart("b", TRUE)})}),
      [MCQuery2 EXCEPT !.limit = 9], [MCQuery2 EXCEPT !.skip = 5],
      [MCQuery1 EXCEPT !.pos = -1, !.offset = -2],
      [MCQuery1 EXCEPT !.pos = 2, !.offset = -1],
      [MCQuery1 EXCEPT !.pos = 1, !.offset = 2] }
MCClients ==
    { {r} : r \in MCAlone } \cup
    { {MCQuery2, [MCQuery1 EXCEPT !.account = "", !.offset = 20]},
      {[MCQuery2 EXCEPT !.filters = {MCAct("a", "t")}],
       [MCQuery1 EXCEPT !.pos = 1, !.offset = 1, !.filters = {MCAct("a", "t")}]} }

\* Deltas of resources, of permissions with their links, of rows that come and go, and
\* a link that moves; in order with batches of one, and over queues and workers.
MCDelta(s, c, t, k, to, p) ==
    [struct |-> s, code |-> c, table |-> t, key |-> k, to |-> to, present |-> p, decoded |-> TRUE]
MCRow(c, t, k, p) == MCDelta("contract_row", c, t, k, "-", p)
MCPerm(k, p) == MCDelta("permission", "-", "-", k, "-", p)
MCLink(k, to, p) == MCDelta("permission_link", "-", "-", k, to, p)
MCResource(s, k) == MCDelta(s, "x", "-", k, "-", TRUE)
MCDeltaScripts ==
    { << <<MCResource("resource_limits", "u"), MCResource("global_property", "1")>>,
         <<MCResource("resource_limits", "u"), MCResource("resource_usage", "u")>> >>,
      << <<MCPerm("p", TRUE), MCLink("l", "p", TRUE)>>, <<MCPerm("p", TRUE), MCLink("m", "p", TRUE)>>,
         <<MCLink("m", "p", FALSE)>> >>,
      << <<MCRow("eosio.msig", "proposal", "x", TRUE), MCRow("a", "accounts", "u", TRUE)>>,
         <<MCRow("a", "t", "r", TRUE), MCRow("b", "t", "r", TRUE)>>,
         <<MCRow("a", "t", "r", FALSE), MCResource("generated_transaction", "g")>> >>,
      << <<MCPerm("p", TRUE), MCLink("l", "p", TRUE)>>,
         <<MCPerm("p", FALSE), MCPerm("q", TRUE), MCLink("l", "q", TRUE)>> >> }
MCSetup ==
    [queues |-> 1, workers |-> 1, batch |-> 1, deltas |-> TRUE, all |-> TRUE, deferred |-> TRUE,
     limits |-> TRUE, usage |-> TRUE, indexing |-> TRUE, tables |-> {"proposals", "voters", "accounts"},
     dynamic |-> {<<"a", "t">>}, plugins |-> {"b"}, black |-> {}, white |-> {}]
MCDeltaSetups ==
    { MCSetup, [MCSetup EXCEPT !.queues = 2, !.batch = 2],
      [MCSetup EXCEPT !.workers = 2, !.batch = 2, !.all = FALSE, !.white = {<<"a", "*">>, <<"x", "*">>}] }

\* Two reloads, and a reload with a report.
MCCommandKinds == {[c \in Tools |-> "reload"], [c \in Tools |-> IF c = "t1" THEN "reload" ELSE "report"]}

\* Scans: of nothing, of full requests, and of a last request without rows.
MCScans == { <<>>, <<2>>, <<3, 1>>, <<2, 0>>, <<1, 2, 1>> }
=============================================================================
