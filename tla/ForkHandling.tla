---------------------------- MODULE ForkHandling ----------------------------
(***************************************************************************)
(* How the live reader removes forked blocks from the store                *)
(* (src/indexer/workers/state-reader.ts, registerReversibleBlock to        *)
(* cleanReversibleBlocks and deleteForkedBlockById).                       *)
(*                                                                         *)
(* The chain has two branches, "A" and "B", that part at block Fork.  SHIP *)
(* sends a block when the chain adopts it, so a branch that wins again is  *)
(* sent again.  The reader notices that a block number has a new id,       *)
(* remembers the old id and, after a delay, runs a removal pass: it asks   *)
(* the chain API about each remembered id and deletes the documents of     *)
(* those that are gone.  A pass awaits an answer for every id, and blocks, *)
(* timers and other passes interleave with it at each of these points.     *)
(***************************************************************************)
EXTENDS Integers, Sequences, FiniteSets

CONSTANTS
    Fork,           \* first block number on which the branches differ
    MaxHead,        \* bound: the chain's last block
    MaxLib,         \* bound: the last block that becomes irreversible
    MaxSwitches,    \* bound: changes of branch
    MaxFailedCalls, \* bound: get_block and deleteByQuery calls that fail
    MaxInFlight,    \* bound: blocks that were read and are not indexed yet
    Passes          \* bound: names for removal passes that run at once

ASSUME ForkAssumption ==
    /\ {Fork, MaxHead, MaxLib, MaxSwitches, MaxFailedCalls, MaxInFlight} \subseteq Nat
    /\ 1 < Fork /\ Fork <= MaxHead

Other(b) == IF b = "A" THEN "B" ELSE "A"
IdOn(b, n) == <<n, IF n < Fork THEN "A" ELSE b>>
Ids == {IdOn(b, n) : b \in {"A", "B"}, n \in 1 .. MaxHead}
Num(id) == id[1]
NoId == <<0, "A">>

VARIABLES
    \* the chain, as nodeos has it
    branch, head, lib, switches,
    inbox,      \* blocks SHIP sent, each with the lib of the time
    \* the live reader
    reversible, \* reversibleBlockMap: block number -> id, NoId when absent
    forked,     \* keys of forkedBlocks
    localLib,   \* local_lib
    mode,       \* forkHandlingMode
    armed,      \* the timer forkHandlingTimeout refers to has yet to fire
    loose,      \* other timers yet to fire: no variable refers to them
    pass,       \* removeForkedBlocks calls in progress
    callFailures,
    spared,     \* history: forked ids that were given up with documents left, or to come
    \* indexing
    pipeline,   \* blocks on their way to the store
    docs        \* ids with documents in the store

chainVars == <<branch, head, lib, switches>>
timerVars == <<mode, armed, loose>>
failedCalls == <<callFailures, spared>>
forkVars == <<chainVars, inbox, reversible, forked, localLib, timerVars, pass, failedCalls, pipeline,
          docs>>

Canonical == {IdOn(branch, n) : n \in 1 .. head}

\* A pass that is not running, and one that starts on a snapshot of forkedBlocks.
Idle == [step |-> "idle", left |-> {}, at |-> NoId, answer |-> "none", pending |-> FALSE]
Started(snapshot) ==
    [step |-> "next", left |-> snapshot, at |-> NoId, answer |-> "none", pending |-> FALSE]

ForkInit ==
    /\ branch = "A" /\ head = 1 /\ lib = 1 /\ switches = 0
    /\ inbox = <<>>
    /\ reversible = [n \in 1 .. MaxHead |-> NoId]
    /\ forked = {}
    /\ localLib = 1
    /\ mode = FALSE /\ armed = FALSE /\ loose = 0
    /\ pass = [p \in Passes |-> Idle]
    /\ callFailures = 0 /\ spared = {}
    /\ pipeline = <<>>
    /\ docs = {IdOn("A", 1)}

-----------------------------------------------------------------------------
(* The chain *)

Emit(b, first, last) ==
    inbox' = inbox \o [i \in 1 .. last - first + 1 |->
                          [id |-> IdOn(b, first + i - 1), lib |-> lib]]

ExtendBranch ==
    /\ head < MaxHead
    /\ head' = head + 1
    /\ Emit(branch, head + 1, head + 1)
    /\ UNCHANGED <<branch, lib, switches, reversible, forked, localLib, timerVars, pass,
                   failedCalls, pipeline, docs>>

\* The other branch becomes the longer one: the chain adopts all of it.
SwitchBranch ==
    /\ switches < MaxSwitches
    /\ head < MaxHead
    /\ Fork <= head /\ lib < Fork
    /\ switches' = switches + 1
    /\ branch' = Other(branch)
    /\ head' = head + 1
    /\ Emit(Other(branch), Fork, head + 1)
    /\ UNCHANGED <<lib, reversible, forked, localLib, timerVars, pass, failedCalls, pipeline,
                   docs>>

AdvanceLib ==
    /\ lib < head /\ lib < MaxLib
    /\ lib' = lib + 1
    /\ UNCHANGED <<branch, head, switches, inbox, reversible, forked, localLib, timerVars, pass,
                   failedCalls, pipeline, docs>>

-----------------------------------------------------------------------------
(* The reader *)

CleanUpTo_Exclusive(n, newLib) == n < newLib \* mutant
CleanUpTo(n, newLib) == n <= newLib

Replaces(id, old) == old \notin {NoId, id}

\* processForkedBlocks: postpone the pass, or arm its timer.
Rearm == mode' = TRUE /\ armed' = TRUE /\ UNCHANGED loose

\* handleBlockResult of the live reader: register the block, take the new lib,
\* pass the block on.
ReadBlock ==
    /\ inbox # <<>> /\ Len(pipeline) < MaxInFlight
    /\ LET id == Head(inbox).id
           n == Num(id)
           newLib == Head(inbox).lib
           replaced == Replaces(id, reversible[n])
           registered == [reversible EXCEPT ![n] = id]
       IN /\ forked' = (forked \ {id}) \cup (IF replaced THEN {reversible[n]} ELSE {})
          /\ IF replaced THEN Rearm ELSE UNCHANGED timerVars
          /\ IF newLib > localLib
             THEN /\ localLib' = newLib
                  /\ reversible' = [k \in 1 .. MaxHead |->
                                       IF CleanUpTo(k, newLib) THEN NoId ELSE registered[k]]
             ELSE /\ UNCHANGED localLib
                  /\ reversible' = registered
          /\ pipeline' = Append(pipeline, id)
    /\ inbox' = Tail(inbox)
    /\ UNCHANGED <<chainVars, pass, failedCalls, docs>>

\* A timer fires and a pass begins.
StartPass(p) ==
    /\ pass[p] = Idle
    /\ \/ armed /\ armed' = FALSE /\ UNCHANGED loose
       \/ loose > 0 /\ loose' = loose - 1 /\ UNCHANGED armed
    /\ pass' = [pass EXCEPT ![p] = Started(forked)]
    /\ UNCHANGED <<chainVars, inbox, reversible, forked, localLib, mode, failedCalls, pipeline,
                   docs>>

\* rpc.v1.chain.get_block(id): nodeos finds blocks of the chain, and those of
\* the losing branch until they are pruned from its fork database.
AskChain(p) ==
    /\ pass[p].step = "next"
    /\ \E id \in pass[p].left, answer \in {"found", "error"} :
        /\ answer = "found" => id \in Canonical \/ lib < Fork
        /\ answer = "error" /\ id \in Canonical => callFailures < MaxFailedCalls
        /\ callFailures' = callFailures + IF answer = "error" /\ id \in Canonical THEN 1 ELSE 0
        /\ pass' = [pass EXCEPT ![p].step = "answered", ![p].at = id, ![p].answer = answer,
                                ![p].left = @ \ {id}]
    /\ UNCHANGED <<chainVars, inbox, reversible, forked, localLib, timerVars, spared, pipeline, docs>>

Superseded_Ignored(id) == FALSE  \* mutant: the current id is not looked at
Superseded(id) == reversible[Num(id)] \notin {NoId, id}

BelowLib(id) == Num(id) <= localLib

\* An id that is not of the chain and is forgotten although documents stay.
Spare(id, stays) == spared' = spared \cup {f \in {id} \ Canonical : stays}

\* A block below the lib is taken for one that was never forked.
Dismiss(p) ==
    /\ pass[p].step = "answered" /\ pass[p].answer = "found"
    /\ BelowLib(pass[p].at)
    /\ forked' = forked \ {pass[p].at}
    /\ Spare(pass[p].at, TRUE)
    /\ pass' = [pass EXCEPT ![p].step = "next"]
    /\ UNCHANGED <<chainVars, inbox, reversible, localLib, timerVars, callFailures,
                   pipeline, docs>>

\* Nothing else has its number yet: look again later.
Postpone(p) ==
    /\ pass[p].step = "answered" /\ pass[p].answer = "found"
    /\ ~BelowLib(pass[p].at) /\ ~Superseded(pass[p].at)
    /\ pass' = [pass EXCEPT ![p].step = "next", ![p].pending = TRUE]
    /\ UNCHANGED <<chainVars, inbox, reversible, forked, localLib, timerVars, failedCalls,
                   pipeline, docs>>

\* Forked: another block has its number, or get_block threw, whatever the reason.
Condemn(p) ==
    /\ pass[p].step = "answered"
    /\ \/ /\ pass[p].answer = "found"
          /\ ~BelowLib(pass[p].at) /\ Superseded(pass[p].at)
          /\ UNCHANGED forked
       \/ /\ pass[p].answer = "error"
          /\ forked' = forked \ {pass[p].at}
    /\ pass' = [pass EXCEPT ![p].step = "delete"]
    /\ UNCHANGED <<chainVars, inbox, reversible, localLib, timerVars, failedCalls, pipeline, docs>>

Remaining_All(id) == docs \ {d \in docs : Num(d) = Num(id)}  \* mutant: delete by block_num
Remaining(id) == docs \ {id}

\* deleteForkedBlockById: by block_id, in the block, delta and action indices;
\* an error is logged and the id is forgotten all the same, as is one whose
\* documents are yet to be written.
DeleteBlock(p) ==
    /\ pass[p].step = "delete"
    /\ \/ /\ docs' = Remaining(pass[p].at)
          /\ Spare(pass[p].at, \E i \in DOMAIN pipeline : pipeline[i] = pass[p].at)
          /\ UNCHANGED callFailures
       \/ /\ callFailures < MaxFailedCalls
          /\ callFailures' = callFailures + 1
          /\ Spare(pass[p].at, TRUE)
          /\ UNCHANGED docs
    /\ forked' = forked \ {pass[p].at}
    /\ pass' = [pass EXCEPT ![p].step = "next"]
    /\ UNCHANGED <<chainVars, inbox, reversible, localLib, timerVars, pipeline>>

StillArmed_Cleared == 0  \* mutant: the end of a pass clears the timer it finds
StillArmed == IF armed THEN 1 ELSE 0

ModeAfterPass == FALSE

\* The end of a pass: schedule another one if an id is pending.  It forgets the
\* timer a newer fork may have armed meanwhile, which fires all the same.
EndPass(p) ==
    /\ pass[p].step = "next" /\ pass[p].left = {}
    /\ loose' = loose + StillArmed + IF pass[p].pending THEN 1 ELSE 0
    /\ mode' = ModeAfterPass /\ armed' = FALSE
    /\ pass' = [pass EXCEPT ![p] = Idle]
    /\ UNCHANGED <<chainVars, inbox, reversible, forked, localLib, failedCalls, pipeline, docs>>

\* Deserializers and ingestors bring a block's documents to the store.
IndexBlock ==
    /\ pipeline # <<>>
    /\ docs' = docs \cup {Head(pipeline)}
    /\ pipeline' = Tail(pipeline)
    /\ UNCHANGED <<chainVars, inbox, reversible, forked, localLib, timerVars, pass, failedCalls>>

-----------------------------------------------------------------------------
PassStep(p) ==
    \/ AskChain(p)
    \/ Dismiss(p)
    \/ Postpone(p)
    \/ Condemn(p)
    \/ DeleteBlock(p)
    \/ EndPass(p)

ForkNext ==
    \/ ExtendBranch
    \/ SwitchBranch
    \/ AdvanceLib
    \/ ReadBlock
    \/ IndexBlock
    \/ \E p \in Passes : StartPass(p) \/ PassStep(p)

ForkSpec == ForkInit /\ [][ForkNext]_forkVars

\* The reader, its timers and the indexers keep running; the chain owes nothing.
ForkFairSpec ==
    /\ ForkSpec
    /\ WF_forkVars(ReadBlock) /\ WF_forkVars(IndexBlock)
    /\ WF_forkVars(\E p \in Passes : StartPass(p))
    /\ \A p \in Passes : WF_forkVars(PassStep(p))

-----------------------------------------------------------------------------
(* Properties *)

\* The reader's maps, its timers and its passes keep their types.
ForkTypeOK ==
    /\ branch \in {"A", "B"} /\ head \in 1 .. MaxHead /\ lib \in 1 .. head
    /\ localLib \in 1 .. lib
    /\ inbox \in Seq([id : Ids, lib : 1 .. MaxHead]) /\ pipeline \in Seq(Ids)
    /\ reversible \in [1 .. MaxHead -> Ids \cup {NoId}]
    /\ forked \subseteq Ids /\ docs \subseteq Ids /\ spared \subseteq Ids \cup {NoId}
    /\ {mode, armed} \subseteq BOOLEAN /\ loose \in Nat
    /\ pass \in [Passes -> [step : {"idle", "next", "answered", "delete"}, left : SUBSET Ids,
                            at : Ids \cup {NoId}, answer : {"none", "found", "error"},
                            pending : BOOLEAN]]

\* No fork is forgotten: as long as an id is in forkedBlocks, a timer is going to
\* fire or a pass has it before it, although every pass resets the handling mode
\* and the timer variable behind the back of newer forks.
Covered(p, id) ==
    pass[p].step # "idle" /\ (id \in pass[p].left \cup {pass[p].at} \/ pass[p].pending)
NoForkForgotten ==
    \A id \in forked : armed \/ loose > 0 \/ \E p \in Passes : Covered(p, id)

\* Blocks of the chain that were indexed stay indexed.
InFlight == {inbox[i].id : i \in DOMAIN inbox} \cup {pipeline[i] : i \in DOMAIN pipeline}
KeepsCanonical == Canonical \subseteq docs \cup InFlight

\* What remains of that: while the chain changes branch once, no block comes back,
\* and neither failed calls nor an advancing lib make a pass delete a block of the
\* chain.
KeepsCanonicalOnce == switches <= 1 => KeepsCanonical

\* Once all that was sent is read, reversibleBlockMap has the chain's id for every
\* block above the lib, whatever branches came and went, and nothing below it.
MapFollowsChain ==
    inbox = <<>> => \A n \in 1 .. head :
                       reversible[n] = IF n > localLib THEN IdOn(branch, n) ELSE NoId

\* In the end no documents of a forked block are left, wherever the lib is by then,
\* unless that block was given up by name: the lib passed it between the chain's answer
\* and the look at it, its deletion failed, or it was deleted before it was indexed.
ForksCleaned == <>[](docs \subseteq Canonical \cup spared)
=============================================================================
