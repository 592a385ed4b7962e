---------------------------- MODULE ConfigReload ----------------------------
(***************************************************************************)
(* Commands of the tools that the master answers when its workers have:    *)
(* the reload of a contract's configuration after hyp-config wrote it      *)
(* (master.ts reloadContractConfig, deserializer.ts reload_config) and the *)
(* reports of memory and heap (requestDataFromWorkers).  A tool waits ten  *)
(* seconds and closes its socket.                                          *)
(***************************************************************************)
EXTENDS Integers, Sequences, FiniteSets

CONSTANTS
    Decoders,     \* the deserializer workers
    Tools,        \* processes that send commands
    CommandKinds, \* what each tool sends: functions from Tools to "reload" or "report"
    MaxExits      \* bound: times a worker ends

\* No promise is pending.
Nobody == "none"

ASSUME ReloadAssumption ==
    /\ IsFiniteSet(Decoders) /\ CommandKinds \subseteq [Tools -> {"reload", "report"}]
    /\ Nobody \notin Tools /\ MaxExits \in Nat

VARIABLES
    configFile, \* [version, torn, contracts]: complete writes so far, whether one has begun,
                \* and the tools whose contract is configured
    loadedVersion,     \* the version each worker has loaded
    running,    \* workers that have a process
    orders,     \* IPC messages to each worker: the kind of command
    replies,    \* IPC messages from each worker
    tool,       \* [stage, kind, seen, since]: what each tool does, the contracts it read, and
                \* the version its reload is for
    waits,      \* the workers each command waits for
    pendingReloadPromises, \* the tool each worker's next config_reloaded is for
    open,       \* tools that have not closed their socket
    masterUp,
    stranded,   \* history: tools whose wait for a worker can never end
    crossed,    \* history: a reload was sent while another was awaited
    exits

reloadVars == <<configFile, loadedVersion, running, orders, replies, tool, waits, pendingReloadPromises,
                open, masterUp, stranded, crossed, exits>>

ConfigReloadInit ==
    /\ configFile = [version |-> 0, torn |-> FALSE, contracts |-> {}]
    /\ loadedVersion = [w \in Decoders |-> 0] /\ running = Decoders
    /\ orders = [w \in Decoders |-> <<>>] /\ replies = [w \in Decoders |-> <<>>]
    /\ \E k \in CommandKinds : tool = [c \in Tools |-> [stage |-> "idle", kind |-> k[c], seen |-> {}, since |-> 0]]
    /\ waits = [c \in Tools |-> {}] /\ pendingReloadPromises = [w \in Decoders |-> Nobody]
    /\ open = Tools /\ masterUp = TRUE /\ stranded = {} /\ crossed = FALSE /\ exits = 0

\* addOrUpdateContractConfig reads the file, which ends the tool when it does not parse,
\* adds its contract and writes the whole: writeFile truncates the file and fills it.
ReadConfig(c) ==
    /\ tool[c].stage = "idle" /\ tool[c].kind = "reload"
    /\ tool' = [tool EXCEPT ![c].stage = IF configFile.torn THEN "ended" ELSE "read",
                           ![c].seen = configFile.contracts]
    /\ UNCHANGED <<configFile, loadedVersion, running, orders, replies, waits, pendingReloadPromises,
                   open, masterUp, stranded, crossed, exits>>

BeginWrite(c) ==
    /\ tool[c].stage = "read"
    /\ tool' = [tool EXCEPT ![c].stage = "writing"]
    /\ configFile' = [configFile EXCEPT !.torn = TRUE]
    /\ UNCHANGED <<loadedVersion, running, orders, replies, waits, pendingReloadPromises, open,
                   masterUp, stranded, crossed, exits>>

EndWrite(c) ==
    /\ tool[c].stage = "writing"
    /\ tool' = [tool EXCEPT ![c].stage = "written"]
    /\ configFile' = [version |-> configFile.version + 1, contracts |-> tool[c].seen \cup {c},
                      torn |-> \E d \in Tools \ {c} : tool[d].stage = "writing"]
    /\ UNCHANGED <<loadedVersion, running, orders, replies, waits, pendingReloadPromises, open,
                   masterUp, stranded, crossed, exits>>

\* reloadContractConfig reads the file: one that does not parse ends the process; one
\* without the contract, which another tool overwrote, is refused.
RequestReload(c) ==
    /\ tool[c].stage = "written"
    /\ masterUp' = ~configFile.torn
    /\ tool' = [tool EXCEPT ![c].stage = IF c \in configFile.contracts THEN "indexing" ELSE "failed",
                           ![c].since = configFile.version]
    /\ UNCHANGED <<configFile, loadedVersion, running, orders, replies, waits, pendingReloadPromises,
                   open, stranded, crossed, exits>>

\* parseContractStateConfig made the collections' indexes; or Elasticsearch's or the
\* node's error is the answer.
IndexesMade(c) ==
    /\ tool[c].stage = "indexing"
    /\ tool' = [tool EXCEPT ![c].stage = "sent"]
    /\ waits' = [waits EXCEPT ![c] = Decoders]
    /\ stranded' = stranded \cup ({pendingReloadPromises[w] : w \in Decoders} \ {Nobody})
                            \cup (IF running = Decoders THEN {} ELSE {c})
    /\ crossed' = (crossed \/ \E w \in Decoders : pendingReloadPromises[w] # Nobody \/ replies[w] # <<>>)
    /\ pendingReloadPromises' = [w \in Decoders |-> c]
    /\ orders' = [w \in Decoders |-> IF w \in running THEN Append(orders[w], "reload") ELSE orders[w]]
    /\ UNCHANGED <<configFile, loadedVersion, running, replies, open, masterUp, exits>>

IndexesFail(c) ==
    /\ tool[c].stage = "indexing"
    /\ tool' = [tool EXCEPT ![c].stage = "failed"]
    /\ UNCHANGED <<configFile, loadedVersion, running, orders, replies, waits, pendingReloadPromises,
                   open, masterUp, stranded, crossed, exits>>

\* requestDataFromWorkers asks the workers there are.
RequestReport(c) ==
    /\ tool[c].stage = "idle" /\ tool[c].kind = "report"
    /\ tool' = [tool EXCEPT ![c].stage = "sent"]
    /\ waits' = [waits EXCEPT ![c] = running]
    /\ orders' = [w \in Decoders |-> IF w \in running THEN Append(orders[w], "report") ELSE orders[w]]
    /\ UNCHANGED <<configFile, loadedVersion, running, replies, pendingReloadPromises, open, masterUp,
                   stranded, crossed, exits>>

-----------------------------------------------------------------------------
(* The worker *)

Reply_Stale(w) == IF Head(orders[w]) = "reload" /\ loadedVersion[w] = configFile.version THEN <<>>
                  ELSE <<Head(orders[w])>>  \* mutant: no answer when nothing is new
Reply(w) == <<Head(orders[w])>>

\* A worker that reads a file that does not parse ends.
HandleOrder(w) ==
    /\ w \in running /\ orders[w] # <<>>
    /\ IF Head(orders[w]) = "reload" /\ configFile.torn
       THEN /\ running' = running \ {w} /\ orders' = [orders EXCEPT ![w] = <<>>]
            /\ stranded' = stranded \cup ({pendingReloadPromises[w]} \ {Nobody})
            /\ UNCHANGED <<loadedVersion, replies>>
       ELSE /\ replies' = [replies EXCEPT ![w] = @ \o Reply(w)]
            /\ orders' = [orders EXCEPT ![w] = Tail(@)]
            /\ loadedVersion' = [loadedVersion EXCEPT ![w] =
                                    IF Head(orders[w]) = "reload" THEN configFile.version ELSE @]
            /\ UNCHANGED <<running, stranded>>
    /\ UNCHANGED <<configFile, tool, waits, pendingReloadPromises, open, masterUp, crossed, exits>>

\* kill_worker, or a crash: its orders are lost, its replies are still read.
WorkerExits(w) ==
    /\ w \in running /\ exits < MaxExits
    /\ exits' = exits + 1
    /\ running' = running \ {w} /\ orders' = [orders EXCEPT ![w] = <<>>]
    /\ stranded' = stranded \cup (IF "reload" \in {orders[w][i] : i \in DOMAIN orders[w]}
                                  THEN {pendingReloadPromises[w]} \ {Nobody} ELSE {})
    /\ UNCHANGED <<configFile, loadedVersion, replies, tool, waits, pendingReloadPromises, open,
                   masterUp, crossed>>

\* launchWorkers after handleWorkerDisconnect; the process reads the file as it starts,
\* and ends again when it does not parse.
RelaunchDecoder(w) ==
    /\ w \notin running /\ ~configFile.torn
    /\ running' = running \cup {w}
    /\ loadedVersion' = [loadedVersion EXCEPT ![w] = configFile.version]
    /\ UNCHANGED <<configFile, orders, replies, tool, waits, pendingReloadPromises, open, masterUp,
                   stranded, crossed, exits>>

-----------------------------------------------------------------------------
(* The master *)

Awaiting(k) == {c \in Tools : tool[c].stage = "sent" /\ tool[c].kind = k}

\* config_reloaded resolves the promise of the worker, whichever order it answers; a
\* report resolves every request that listens to the worker.
MasterHears(w) ==
    /\ replies[w] # <<>>
    /\ replies' = [replies EXCEPT ![w] = Tail(@)]
    /\ IF Head(replies[w]) = "reload"
       THEN /\ waits' = [c \in Tools |-> IF c = pendingReloadPromises[w] THEN waits[c] \ {w} ELSE waits[c]]
            /\ pendingReloadPromises' = [pendingReloadPromises EXCEPT ![w] = Nobody]
       ELSE /\ waits' = [c \in Tools |-> IF c \in Awaiting("report") THEN waits[c] \ {w} ELSE waits[c]]
            /\ UNCHANGED pendingReloadPromises
    /\ UNCHANGED <<configFile, loadedVersion, running, orders, tool, open, masterUp, stranded, crossed,
                   exits>>

\* One second, for each worker.
ReportTimeout(c, w) ==
    /\ c \in Awaiting("report") /\ w \in waits[c]
    /\ waits' = [waits EXCEPT ![c] = @ \ {w}]
    /\ UNCHANGED <<configFile, loadedVersion, running, orders, replies, tool, pendingReloadPromises,
                   open, masterUp, stranded, crossed, exits>>

Answerable_First(c) == waits[c] # Decoders  \* mutant: the first worker's answer is enough
Answerable(c) == waits[c] = {}

\* Sending to a socket that is closed throws where nothing catches, and ends the master.
AnswerTool(c) ==
    /\ \/ tool[c].stage = "sent" /\ Answerable(c) /\ tool' = [tool EXCEPT ![c].stage = "succeeded"]
       \/ tool[c].stage = "failed" /\ tool' = [tool EXCEPT ![c].stage = "refused"]
    /\ masterUp' = (c \in open)
    /\ UNCHANGED <<configFile, loadedVersion, running, orders, replies, waits, pendingReloadPromises,
                   open, stranded, crossed, exits>>

\* The tool's ten seconds are over: it rejects and closes.
ClientLeaves(c) ==
    /\ c \in open /\ tool[c].stage \in {"indexing", "sent", "failed"}
    /\ open' = open \ {c}
    /\ UNCHANGED <<configFile, loadedVersion, running, orders, replies, tool, waits,
                   pendingReloadPromises, masterUp, stranded, crossed, exits>>

\* The workers end with the master.
ConfigReloadNext ==
    /\ masterUp
    /\ \/ \E c \in Tools :
          \/ ReadConfig(c) \/ BeginWrite(c) \/ EndWrite(c) \/ RequestReload(c)
          \/ IndexesMade(c) \/ IndexesFail(c) \/ RequestReport(c) \/ AnswerTool(c) \/ ClientLeaves(c)
          \/ \E w \in Decoders : ReportTimeout(c, w)
       \/ \E w \in Decoders : HandleOrder(w) \/ WorkerExits(w) \/ RelaunchDecoder(w) \/ MasterHears(w)

\* What Node does without being asked: it serves the messages and the timers of reports,
\* and the creation of indexes ends.
Progress ==
    /\ masterUp
    /\ \/ \E w \in Decoders : HandleOrder(w) \/ MasterHears(w)
       \/ \E c \in Tools :
          \/ IndexesMade(c) \/ IndexesFail(c) \/ AnswerTool(c) \/ \E w \in Decoders : ReportTimeout(c, w)

ConfigReloadSpec == ConfigReloadInit /\ [][ConfigReloadNext]_reloadVars /\ WF_reloadVars(Progress)

-----------------------------------------------------------------------------
\* Types; only orders of processes that run are outstanding.
ConfigReloadTypeOK ==
    /\ configFile.version \in 0 .. Cardinality(Tools) /\ running \subseteq Decoders
    /\ \A w \in Decoders : loadedVersion[w] <= configFile.version /\ (w \notin running => orders[w] = <<>>)
    /\ open \subseteq Tools /\ exits \in 0 .. MaxExits
    /\ \A c \in Tools : waits[c] \subseteq Decoders

\* A tool told that the reload succeeded can rely on it: every deserializer that runs
\* decodes by a configuration at least as new as the one the tool asked to load, also
\* after workers ended and came back, unless a second reload crossed the first.
ReloadMeansApplied ==
    \A c \in Tools : tool[c].stage = "succeeded" /\ tool[c].kind = "reload" /\ ~crossed =>
        \A w \in running : loadedVersion[w] >= tool[c].since

\* Every command is answered, whatever the workers do, unless a worker that a reload
\* waits for was gone, the reload was replaced by another, its client left, or the
\* master ended.
CommandsAnswered ==
    \A c \in Tools :
        tool[c].stage \in {"indexing", "sent", "failed"}
            ~> (tool[c].stage \in {"succeeded", "refused"} \/ c \in stranded \/ c \notin open \/ ~masterUp)
=============================================================================
