------------------------ MODULE ReaderRanges_proofs ------------------------
(***************************************************************************)
(* Theorems about ReaderRanges, for every head, batch size and number of   *)
(* readers and for any number of crashes and pauses.                       *)
(***************************************************************************)
EXTENDS ReaderRanges, TLAPS, FunctionTheorems, SequenceTheorems

USE RangeAssumption DEF Ranges

-----------------------------------------------------------------------------
(* Arithmetic of the ranges defined at setup *)

\* setupReaders hands out at least no range and at most one per allowed reader.
LEMMA NumReadersType == NumReaders \in Nat
  BY DEF NumReaders, Lesser

\* Multiplying two ordered counts by the batch size keeps their order.
LEMMA BatchMonotone ==
  ASSUME NEW a \in Int, NEW b \in Int, a <= b
  PROVE  a * BatchSize <= b * BatchSize
  <1> DEFINE d == b - a
  <1>1. d \in Nat OBVIOUS
  <1>2. d * BatchSize \in Nat BY <1>1
  <1>3. b * BatchSize = a * BatchSize + d * BatchSize
    <2>1. b = a + d OBVIOUS
    <2>. HIDE DEF d
    <2>. QED BY <2>1, <1>1
  <1>. QED BY <1>2, <1>3

\* The first range of a reader is a range that starts at or after
\* starting_block and ends by the head.
LEMMA EnvRangeType ==
  ASSUME NEW r \in Readers
  PROVE  /\ EnvRange(r) \in Ranges
         /\ Start <= EnvRange(r).first
         /\ EnvRange(r).last <= HeadBlock
  <1>1. r \in Nat /\ r >= 1 BY NumReadersType DEF Readers
  <1>2. (r - 1) * BatchSize \in Nat /\ r * BatchSize \in Nat BY <1>1
  <1>. QED BY <1>2 DEF EnvRange, Lesser

\* No reader is forked for an empty range: the loop stops at the head.
LEMMA EnvRangeNonEmpty ==
  ASSUME NEW r \in Readers
  PROVE  EnvRange(r).first < EnvRange(r).last
  <1> DEFINE room == HeadBlock - Start + BatchSize - 1
             k == room \div BatchSize
  <1>1. room \in Nat /\ BatchSize \in Nat /\ BatchSize > 0 OBVIOUS
  <1>2. k \in Nat /\ k * BatchSize <= room BY <1>1
  <1>3. r \in Nat /\ 1 <= r /\ r <= k BY NumReadersType, <1>2 DEF Readers, NumReaders, Lesser
  <1>. HIDE DEF k
  <1>4. r * BatchSize <= k * BatchSize BY <1>2, <1>3, BatchMonotone
  <1>5. r * BatchSize = (r - 1) * BatchSize + BatchSize /\ r * BatchSize \in Nat
    <2>1. r = (r - 1) + 1 /\ r - 1 \in Nat BY <1>3
    <2>. QED BY <2>1
  <1>6. Start + (r - 1) * BatchSize < HeadBlock
    <2> DEFINE p == (r - 1) * BatchSize
               q == r * BatchSize
               t == k * BatchSize
    <2>1. p \in Int /\ q \in Nat /\ t \in Int BY <1>2, <1>3
    <2>2. t <= room /\ q <= t /\ q = p + BatchSize BY <1>2, <1>4, <1>5
    <2>. HIDE DEF p, q, t
    <2>3. Start + p < HeadBlock BY <2>1, <2>2
    <2>. QED BY <2>3 DEF p
  <1>. QED BY <1>3, <1>5, <1>6, EnvRangeType DEF EnvRange, Lesser

\* First ranges are laid out in the order of the readers, below the mark that
\* setupReaders leaves in lastAssignedBlock.
LEMMA EnvRangesApart ==
  ASSUME NEW r \in Readers
  PROVE  /\ EnvRange(r).last <= Start + NumReaders * BatchSize
         /\ \A s \in Readers : r < s => EnvRange(r).last <= EnvRange(s).first
  <1>1. r \in Nat /\ r >= 1 /\ r <= NumReaders BY NumReadersType DEF Readers
  <1>2. r * BatchSize <= NumReaders * BatchSize
    BY <1>1, BatchMonotone, NumReadersType
  <1>3. r * BatchSize \in Nat /\ NumReaders * BatchSize \in Nat
    BY <1>1, NumReadersType
  <1>4. EnvRange(r).last <= Start + r * BatchSize
    BY <1>3 DEF EnvRange, Lesser
  <1>5. ASSUME NEW s \in Readers, r < s
        PROVE  EnvRange(r).last <= EnvRange(s).first
    <2>1. s \in Nat /\ r <= s - 1 BY <1>5, <1>1, NumReadersType DEF Readers
    <2>2. r * BatchSize <= (s - 1) * BatchSize BY <1>1, <2>1, BatchMonotone
    <2>3. (s - 1) * BatchSize \in Int BY <2>1
    <2>. QED BY <1>3, <1>4, <2>2, <2>3, EnvRangeType DEF EnvRange
  <1>. QED BY <1>2, <1>3, <1>4, <1>5, EnvRangeType

-----------------------------------------------------------------------------
(* Type correctness *)

\* The messages the two sides build have the types of the channels.
LEMMA MessageTypes ==
  /\ Pause \in ReaderMsgs /\ Resume \in ReaderMsgs
  /\ \A x \in Ranges : NewRange(x) \in ReaderMsgs
  /\ Completed \in MasterMsgs
  /\ \A b \in Nat : UpdateLastAssigned(b) \in MasterMsgs
  BY DEF Pause, Resume, NewRange, ReaderMsgs, Completed, UpdateLastAssigned, MasterMsgs

\* What newRange leaves behind has the right types.
LEMMA TakeRangeType ==
  ASSUME TypeOK, NEW r \in Readers, NEW x \in Ranges, NEW msgs \in Seq(MasterMsgs),
         TakeRange(r, x, msgs)
  PROVE  /\ toMaster' \in [Readers -> Seq(MasterMsgs)]
         /\ job' \in [Readers -> Ranges]
         /\ count' \in [Readers -> Nat]
         /\ proc' \in [Readers -> ProcStates]
         /\ nextBlock' \in [Readers -> Nat]
  <1> DEFINE trimmed == [first |-> Greater(x.first, ship.trace), last |-> x.last]
             done == IF Empty(trimmed) THEN <<Completed>> ELSE <<>>
  <1>1. trimmed \in Ranges BY DEF Greater, TypeOK
  <1>2. done \in Seq(MasterMsgs) BY MessageTypes
  <1>3. toMaster[r] \o msgs \o done \in Seq(MasterMsgs) BY <1>2 DEF TypeOK
  <1>4. toMaster' = [toMaster EXCEPT ![r] = toMaster[r] \o msgs \o done]
    BY DEF TakeRange
  <1>5. toMaster' \in [Readers -> Seq(MasterMsgs)]
    BY <1>3, <1>4 DEF TypeOK
  <1>6. job' = [job EXCEPT ![r] = trimmed] BY DEF TakeRange
  <1>7. job' \in [Readers -> Ranges] BY <1>1, <1>6 DEF TypeOK
  <1>8. nextBlock' \in [Readers -> Nat] /\ proc' \in [Readers -> ProcStates]
    <2>1. trimmed.first \in Nat BY <1>1
    <2>. HIDE DEF trimmed
    <2>2. /\ proc' = [proc EXCEPT ![r] = IF allow[r] THEN "streaming" ELSE "pending"]
          /\ nextBlock' = IF allow[r] THEN [nextBlock EXCEPT ![r] = trimmed.first] ELSE nextBlock
      BY DEF TakeRange, trimmed
    <2>. QED BY <2>1, <2>2 DEF TypeOK, ProcStates
  <1>. QED BY <1>5, <1>7, <1>8 DEF TakeRange, TypeOK

\* A message sent to some of the readers keeps the type of the channels.
LEMMA SendToType ==
  ASSUME TypeOK, NEW to, NEW msg \in ReaderMsgs, SendTo(to, msg)
  PROVE  toReader' \in [Readers -> Seq(ReaderMsgs)]
  BY DEF TypeOK, SendTo

\* The range after lastAssignedBlock is a range.
LEMMA NextRangeType ==
  ASSUME TypeOK
  PROVE  NextRange \in Ranges
  BY DEF TypeOK, NextRange, Lesser

\* Receiving from a reader keeps the type of the channels.
LEMMA FromReaderType ==
  ASSUME TypeOK, NEW r \in Readers, NEW e, FromReader(r, e)
  PROVE  /\ toMaster' \in [Readers -> Seq(MasterMsgs)]
         /\ Head(toMaster[r]) \in MasterMsgs
  BY DEF TypeOK, FromReader

LEMMA TypeInit == Init => TypeOK
  <1> SUFFICES ASSUME Init PROVE TypeOK OBVIOUS
  <1>1. job \in [Readers -> Ranges] BY EnvRangeType DEF Init
  <1>2. nextBlock \in [Readers -> Nat] BY EnvRangeType DEF Init
  <1>3. lastAssigned \in Nat
    <2>1. NumReaders * BatchSize \in Nat BY NumReadersType
    <2>. QED BY <2>1 DEF Init
  <1>4. /\ toMaster \in [Readers -> Seq(MasterMsgs)]
        /\ toReader \in [Readers -> Seq(ReaderMsgs)]
    BY DEF Init
  <1>5. /\ proc \in [Readers -> ProcStates]
        /\ count \in [Readers -> Nat]
        /\ unconf \in [Readers -> SUBSET Nat]
        /\ allow \in [Readers -> BOOLEAN]
    BY DEF Init, ProcStates
  <1>6. /\ activeReaders \in Int /\ inMap \subseteq Readers /\ doomed \subseteq Readers
        /\ readingPaused \in BOOLEAN /\ stopping \in BOOLEAN
        /\ relaunches \in Nat /\ crashes \in Nat /\ pauses \in Nat
        /\ settled \subseteq Nat /\ nacked \subseteq Nat
    <2>1. /\ activeReaders = NumReaders
          /\ inMap = Readers /\ doomed = {} /\ settled = {} /\ nacked = {}
          /\ readingPaused = FALSE /\ stopping = FALSE
          /\ relaunches = 0 /\ crashes = 0 /\ pauses = 0
      BY DEF Init
    <2>2. readingPaused \in BOOLEAN /\ stopping \in BOOLEAN BY <2>1, Zenon
    <2>3. activeReaders \in Int BY <2>1, NumReadersType
    <2>4. relaunches \in Nat /\ crashes \in Nat /\ pauses \in Nat BY <2>1
    <2>. QED BY <2>1, <2>2, <2>3, <2>4
  <1>7. ship \in [trace : Nat, state : Nat] BY DEF Init
  <1>. QED BY <1>1, <1>2, <1>3, <1>4, <1>5, <1>6, <1>7 DEF TypeOK

LEMMA TypeNext == TypeOK /\ [Next]_vars => TypeOK'
  <1> SUFFICES ASSUME TypeOK, [Next]_vars PROVE TypeOK' OBVIOUS
  <1> USE DEF TypeOK, ProcStates, masterVars, streamVars, ipcVars
  <1>1. ASSUME NEW r \in Readers, RequestFirstRange(r) PROVE TypeOK'
    BY <1>1 DEF RequestFirstRange
  <1>2. ASSUME NEW r \in Readers, SkipToShipBegin(r) PROVE TypeOK'
    <2> DEFINE capped == Lesser(BeginBlock + BatchSize, EnvRange(r).last)
               last == IF BeginBlock > capped THEN BeginBlock + BatchSize ELSE capped
               x == [first |-> BeginBlock, last |-> last]
    <2>1. BeginBlock \in Nat BY DEF BeginBlock, Greater
    <2>2. last \in Nat BY <2>1, EnvRangeType DEF Lesser
    <2>3. x \in Ranges BY <2>1, <2>2
    <2>4. <<UpdateLastAssigned(last)>> \in Seq(MasterMsgs) BY <2>2, MessageTypes
    <2>5. TakeRange(r, x, <<UpdateLastAssigned(last)>>) BY <1>2 DEF SkipToShipBegin
    <2>. HIDE DEF x, last
    <2>. QED BY <1>2, <2>3, <2>4, <2>5, TakeRangeType DEF SkipToShipBegin
  <1>3. ASSUME NEW r \in Readers, DistributeBlock(r) PROVE TypeOK'
    <2>1. nextBlock' \in [Readers -> Nat] /\ unconf' \in [Readers -> SUBSET Nat]
      BY <1>3 DEF DistributeBlock
    <2>2. count' \in [Readers -> Nat] /\ proc' \in [Readers -> ProcStates]
      BY <1>3 DEF DistributeBlock
    <2>. QED BY <1>3, <2>1, <2>2 DEF DistributeBlock
  <1>4. ASSUME NEW r \in Readers, ConfirmBlock(r) PROVE TypeOK'
    <2>1. PICK b \in unconf[r] :
            /\ unconf' = [unconf EXCEPT ![r] = @ \ {b}]
            /\ settled' = settled \cup {b}
            /\ nacked' = nacked \ {b} \/ nacked' = nacked \cup {b}
      BY <1>4 DEF ConfirmBlock
    <2>2. b \in Nat OBVIOUS
    <2>3. unconf' \in [Readers -> SUBSET Nat] BY <2>1
    <2>4. settled' \subseteq Nat /\ nacked' \subseteq Nat BY <2>1, <2>2
    <2>. QED BY <1>4, <2>3, <2>4 DEF ConfirmBlock
  <1>5. ASSUME NEW r \in Readers, ReportCompletion(r) PROVE TypeOK'
    BY SMTT(20), <1>5, MessageTypes DEF ReportCompletion
  <1>6. ASSUME NEW r \in Readers, ReceiveNewRange(r) PROVE TypeOK'
    <2>1. Head(toReader[r]) \in ReaderMsgs BY <1>6 DEF ReceiveNewRange
    <2>2. Head(toReader[r]).range \in Ranges
      BY <1>6, <2>1 DEF ReceiveNewRange, ReaderMsgs, Pause, Resume
    <2>3. toReader' \in [Readers -> Seq(ReaderMsgs)] BY <1>6 DEF ReceiveNewRange
    <2>4. TakeRange(r, Head(toReader[r]).range, <<>>) BY <1>6 DEF ReceiveNewRange
    <2>5. <<>> \in Seq(MasterMsgs) OBVIOUS
    <2>. QED BY <1>6, <2>2, <2>3, <2>4, <2>5, TakeRangeType DEF ReceiveNewRange
  <1>7. ASSUME NEW r \in Readers, ReceivePause(r) PROVE TypeOK'
    BY SMTT(20), <1>7 DEF ReceivePause
  <1>8. ASSUME NEW r \in Readers, ReceiveResume(r) PROVE TypeOK'
    <2>1. toReader' \in [Readers -> Seq(ReaderMsgs)] BY <1>8 DEF ReceiveResume
    <2>2. allow' \in [Readers -> BOOLEAN] BY <1>8 DEF ReceiveResume
    <2>3. /\ proc' \in [Readers -> ProcStates]
          /\ nextBlock' \in [Readers -> Nat]
      <3>1. CASE HoldsRequest(r)
        <4>1. /\ proc' = [proc EXCEPT ![r] = "streaming"]
              /\ nextBlock' = [nextBlock EXCEPT ![r] = job[r].first]
          BY <1>8, <3>1, Zenon DEF ReceiveResume
        <4>2. job[r].first \in Nat OBVIOUS
        <4>. QED BY <4>1, <4>2
      <3>2. CASE ~HoldsRequest(r) BY <1>8, <3>2 DEF ReceiveResume
      <3>. QED BY <3>1, <3>2
    <2>. QED BY <1>8, <2>1, <2>2, <2>3 DEF ReceiveResume
  <1>9. ASSUME NEW r \in Readers, Exit(r) PROVE TypeOK'
    BY SMTT(20), <1>9 DEF Exit
  <1>10. ASSUME NEW r \in Readers, AssignNextRange(r) PROVE TypeOK'
    <2>1. toMaster' \in [Readers -> Seq(MasterMsgs)]
      BY <1>10, FromReaderType DEF AssignNextRange
    <2>2. toReader' \in [Readers -> Seq(ReaderMsgs)]
      BY <1>10, SendToType, NextRangeType, MessageTypes DEF AssignNextRange
    <2>3. lastAssigned' \in Nat /\ activeReaders' \in Int
      BY SMTT(20), <1>10, NextRangeType DEF AssignNextRange, MarkAssigned, CountReassigned
    <2>. QED BY <1>10, <2>1, <2>2, <2>3 DEF AssignNextRange
  <1>11. ASSUME NEW r \in Readers, FinishReaders(r) PROVE TypeOK'
    <2>1. toMaster' \in [Readers -> Seq(MasterMsgs)]
      BY <1>11, FromReaderType DEF FinishReaders
    <2>. QED BY SMTT(20), <1>11, <2>1 DEF FinishReaders
  <1>12. ASSUME NEW r \in Readers, RetireReader(r) PROVE TypeOK'
    <2>1. toMaster' \in [Readers -> Seq(MasterMsgs)]
      BY <1>12, FromReaderType DEF RetireReader
    <2>. QED BY SMTT(20), <1>12, <2>1 DEF RetireReader
  <1>13. ASSUME NEW r \in Readers, MoveAssignment(r) PROVE TypeOK'
    <2>1. /\ toMaster' \in [Readers -> Seq(MasterMsgs)]
          /\ Head(toMaster[r]) \in MasterMsgs
      BY <1>13, FromReaderType DEF MoveAssignment
    <2>2. Head(toMaster[r]).event = "update_last_assigned_block"
      BY <1>13 DEF MoveAssignment, FromReader
    <2>3. Head(toMaster[r]).block_num \in Nat BY <2>1, <2>2 DEF MasterMsgs
    <2>. QED BY <1>13, <2>1, <2>3 DEF MoveAssignment
  <1>14. ASSUME NEW r \in Readers, HandleDisconnect(r) PROVE TypeOK'
    BY <1>14 DEF HandleDisconnect
  <1>15. CASE Relaunch
    <2> DEFINE fresh == {r \in inMap : proc[r] = "down"}
    <2>1. proc' \in [Readers -> ProcStates] /\ count' \in [Readers -> Nat]
          /\ allow' \in [Readers -> BOOLEAN]
      BY <1>15 DEF Relaunch
    <2>2. job' = [r \in Readers |-> IF r \in fresh THEN EnvRange(r) ELSE job[r]]
      BY <1>15 DEF Relaunch, RelaunchRange
    <2>3. nextBlock' = [r \in Readers |-> IF r \in fresh THEN EnvRange(r).first ELSE nextBlock[r]]
      BY <1>15 DEF Relaunch, RelaunchRange
    <2>. HIDE DEF fresh
    <2>4. job' \in [Readers -> Ranges] BY <2>2, EnvRangeType
    <2>5. \A r \in Readers : EnvRange(r).first \in Nat BY EnvRangeType
    <2>6. nextBlock' \in [Readers -> Nat] BY <2>3, <2>5
    <2>7. relaunches' \in Nat BY <1>15 DEF Relaunch
    <2>8. UNCHANGED <<ship, lastAssigned, activeReaders, inMap, readingPaused, stopping, unconf,
                      toMaster, toReader, doomed, settled, nacked, crashes, pauses>>
      BY <1>15 DEF Relaunch
    <2>. QED BY <2>1, <2>4, <2>6, <2>7, <2>8
  <1>16. CASE PauseReaders
    <2>1. toReader' \in [Readers -> Seq(ReaderMsgs)]
      BY <1>16, SendToType, MessageTypes DEF PauseReaders
    <2>. QED BY <1>16, <2>1 DEF PauseReaders
  <1>17. CASE ResumeReaders
    <2>1. toReader' \in [Readers -> Seq(ReaderMsgs)]
      BY <1>17, SendToType, MessageTypes DEF ResumeReaders
    <2>. QED BY <1>17, <2>1 DEF ResumeReaders
  <1>18. CASE GracefulStop
    BY <1>18 DEF GracefulStop
  <1>19. CASE UNCHANGED vars
    BY <1>19 DEF vars
  <1>. QED
    BY <1>1, <1>2, <1>3, <1>4, <1>5, <1>6, <1>7, <1>8, <1>9, <1>10, <1>11, <1>12, <1>13,
       <1>14, <1>15, <1>16, <1>17, <1>18, <1>19 DEF Next, ReaderStep, MasterStep

\* The state of the master, the readers and the channels keeps its types.
THEOREM TypeCorrect == Spec => []TypeOK
  BY TypeInit, TypeNext, PTL DEF Spec

-----------------------------------------------------------------------------
(* Ranges of different readers stay apart *)

\* Two ranges, one of which ends before the other begins.
Apart(x, y) == x.last <= y.first \/ y.last <= x.first

\* The inductive invariant: every range a reader may read lies between
\* starting_block and both the head and the assignment mark, ranges of two
\* readers are apart, and no reader has asked to move the mark.
Separated ==
    /\ \A r \in Readers : \A x \in Claims(r) :
          Start <= x.first /\ x.last <= HeadBlock /\ x.last <= lastAssigned
    /\ \A r, s \in Readers : r # s =>
          \A x \in Claims(r), y \in Claims(s) : Apart(x, y)
    /\ \A r \in Readers : \A i \in DOMAIN toMaster[r] :
          toMaster[r][i].event = "completed"

\* Claims are ranges.
LEMMA ClaimsType ==
  ASSUME TypeOK, NEW r \in Readers
  PROVE  Claims(r) \subseteq Ranges
  <1>1. InFlight(r) \subseteq Ranges
    <2>1. \A i \in DOMAIN toReader[r] : toReader[r][i] \in ReaderMsgs
      BY DEF TypeOK
    <2>. QED BY <2>1 DEF InFlight, ReaderMsgs, Pause, Resume
  <1>. QED BY <1>1, EnvRangeType DEF Claims, TypeOK

\* A step that gives no reader a new claim, never lowers the mark and asks for
\* no move of it keeps the ranges apart.
LEMMA SeparatedKept ==
  ASSUME TypeOK, Separated, TypeOK',
         \A r \in Readers : Claims(r)' \subseteq Claims(r),
         lastAssigned' = lastAssigned,
         \A r \in Readers : \A i \in DOMAIN toMaster'[r] :
            toMaster'[r][i].event = "completed"
  PROVE  Separated'
  BY ClaimsType DEF Separated

\* InFlight after receiving the first message, and after a message is sent.
LEMMA InFlightTail ==
  ASSUME TypeOK, NEW r \in Readers, toReader[r] # <<>>,
         toReader' = [toReader EXCEPT ![r] = Tail(@)]
  PROVE  /\ \A q \in Readers : InFlight(q)' \subseteq InFlight(q)
         /\ Head(toReader[r]).event = "new_range" => Head(toReader[r]).range \in InFlight(r)
  <1>1. \A q \in Readers : q # r => toReader'[q] = toReader[q] BY DEF TypeOK
  <1>2. toReader'[r] = Tail(toReader[r]) BY DEF TypeOK
  <1>3. \A i \in DOMAIN toReader'[r] :
           i + 1 \in DOMAIN toReader[r] /\ toReader'[r][i] = toReader[r][i + 1]
    BY <1>2 DEF TypeOK
  <1>4. 1 \in DOMAIN toReader[r] /\ Head(toReader[r]) = toReader[r][1] BY DEF TypeOK
  <1>. QED BY <1>1, <1>3, <1>4 DEF InFlight

LEMMA InFlightSent ==
  ASSUME TypeOK, NEW to, NEW msg \in ReaderMsgs, SendTo(to, msg), NEW q \in Readers,
         NEW x \in InFlight(q)'
  PROVE  x \in InFlight(q) \/ (q \in to /\ msg.event = "new_range" /\ x = msg.range)
  <1>1. CASE q \in to /\ Alive(q)
    <2>1. toReader'[q] = Append(toReader[q], msg) BY <1>1 DEF SendTo, TypeOK
    <2>2. \A i \in DOMAIN toReader'[q] :
             \/ i \in DOMAIN toReader[q] /\ toReader'[q][i] = toReader[q][i]
             \/ toReader'[q][i] = msg
      BY <2>1 DEF TypeOK
    <2>. QED BY <1>1, <2>2 DEF InFlight
  <1>2. CASE ~(q \in to /\ Alive(q))
    <2>1. toReader'[q] = toReader[q] BY <1>2 DEF SendTo
    <2>. QED BY <2>1 DEF InFlight
  <1>. QED BY <1>1, <1>2

LEMMA SeparatedInit ==
  ASSUME ShipCoversStart, Init
  PROVE  Separated
  <1>1. \A r \in Readers : InFlight(r) = {} BY DEF Init, InFlight
  <1>2. \A r \in Readers : Claims(r) = {EnvRange(r)} BY <1>1 DEF Init, Claims
  <1>3. \A r \in Readers : \A i \in DOMAIN toMaster[r] : toMaster[r][i].event = "completed"
    BY DEF Init
  <1>4. lastAssigned = Start + NumReaders * BatchSize BY DEF Init
  <1>5. \A r \in Readers :
          /\ Start <= EnvRange(r).first
          /\ EnvRange(r).last <= HeadBlock
          /\ EnvRange(r).last <= lastAssigned
    BY <1>4, EnvRangeType, EnvRangesApart
  <1>6. ASSUME NEW r \in Readers, NEW s \in Readers, r # s
        PROVE  Apart(EnvRange(r), EnvRange(s))
    <2>1. r < s \/ s < r BY <1>6, NumReadersType DEF Readers
    <2>. QED BY <2>1, EnvRangesApart DEF Apart
  <1>. QED BY <1>2, <1>3, <1>5, <1>6 DEF Separated

\* Taking a range the reader may already read gives it no new claim.
LEMMA TakeRangeClaims ==
  ASSUME ShipCoversStart, TypeOK, Separated, TypeOK', NEW r \in Readers,
         NEW x \in Claims(r), TakeRange(r, x, <<>>),
         \A q \in Readers : InFlight(q)' \subseteq InFlight(q)
  PROVE  /\ \A q \in Readers : Claims(q)' \subseteq Claims(q)
         /\ \A q \in Readers : \A i \in DOMAIN toMaster'[q] :
               toMaster'[q][i].event = "completed"
  <1> DEFINE trimmed == [first |-> Greater(x.first, ship.trace), last |-> x.last]
             done == IF Empty(trimmed) THEN <<Completed>> ELSE <<>>
  <1>1. x \in Ranges /\ Start <= x.first BY ClaimsType DEF Separated
  <1>2. trimmed = x
    <2>1. ship.trace \in Nat /\ ship.state \in Nat BY DEF TypeOK
    <2>2. ship.trace <= Start BY <2>1 DEF ShipCoversStart, BeginBlock, Greater
    <2>. QED BY <1>1, <2>1, <2>2 DEF Greater
  <1>3. job' = [job EXCEPT ![r] = x] BY <1>2 DEF TakeRange
  <1>4. \A q \in Readers : Claims(q)' \subseteq Claims(q)
    BY <1>3 DEF Claims, TypeOK
  <1>5. toMaster' = [toMaster EXCEPT ![r] = toMaster[r] \o <<>> \o done] BY DEF TakeRange
  <1>6. \A i \in DOMAIN toMaster'[r] : toMaster'[r][i].event = "completed"
    <2>1. done = <<>> \/ done = <<Completed>> OBVIOUS
    <2>. HIDE DEF done
    <2>2. \A i \in DOMAIN toMaster[r] : toMaster[r][i].event = "completed" BY DEF Separated
    <2>3. toMaster[r] \in Seq(MasterMsgs) BY DEF TypeOK
    <2>4. toMaster'[r] = toMaster[r] \o <<>> \o done BY <1>5 DEF TypeOK
    <2>5. Completed \in MasterMsgs /\ Completed.event = "completed"
      BY DEF Completed, MasterMsgs
    <2>6. CASE done = <<>> BY <2>2, <2>3, <2>4, <2>6
    <2>7. CASE done = <<Completed>> BY <2>2, <2>3, <2>4, <2>5, <2>7
    <2>. QED BY <2>1, <2>6, <2>7
  <1>7. \A q \in Readers : q # r => toMaster'[q] = toMaster[q] BY <1>5 DEF TypeOK
  <1>. QED BY <1>4, <1>6, <1>7 DEF Separated

\* Receiving the next message of a reader keeps the rest as it is.
LEMMA FromReaderRest ==
  ASSUME TypeOK, Separated, NEW r \in Readers, NEW e, FromReader(r, e)
  PROVE  /\ e = "completed"
         /\ \A q \in Readers : \A i \in DOMAIN toMaster'[q] :
               toMaster'[q][i].event = "completed"
  <1>1. toMaster[r] \in Seq(MasterMsgs) /\ toMaster[r] # <<>> BY DEF TypeOK, FromReader
  <1>2. 1 \in DOMAIN toMaster[r] /\ Head(toMaster[r]) = toMaster[r][1] BY <1>1
  <1>3. Head(toMaster[r]).event = e BY DEF FromReader
  <1>4. e = "completed" BY <1>2, <1>3 DEF Separated
  <1>5. toMaster'[r] = Tail(toMaster[r]) /\ \A q \in Readers : q # r => toMaster'[q] = toMaster[q]
    BY DEF FromReader, TypeOK
  <1>6. \A i \in DOMAIN toMaster'[r] :
           i + 1 \in DOMAIN toMaster[r] /\ toMaster'[r][i] = toMaster[r][i + 1]
    BY <1>1, <1>5
  <1>7. \A i \in DOMAIN toMaster'[r] : toMaster'[r][i].event = "completed"
    BY <1>6 DEF Separated
  <1>8. ASSUME NEW q \in Readers, q # r
        PROVE  \A i \in DOMAIN toMaster'[q] : toMaster'[q][i].event = "completed"
    BY <1>5, <1>8 DEF Separated
  <1>. QED BY <1>4, <1>7, <1>8

\* 'completed' hands out the range above the mark, which no reader can claim.
LEMMA AssignKeepsSeparated ==
  ASSUME TypeOK, Separated, TypeOK', NEW r \in Readers, AssignNextRange(r)
  PROVE  Separated'
  <1> DEFINE n == NextRange
  <1>1. /\ n \in Ranges
        /\ n.first = lastAssigned /\ n.last <= HeadBlock /\ lastAssigned <= n.last
    BY NextRangeType DEF AssignNextRange, NextRange, Lesser, TypeOK
  <1>2. lastAssigned' = n.last BY DEF AssignNextRange, MarkAssigned
  <1>3. UNCHANGED job BY DEF AssignNextRange, streamVars
  <1>4. \A q \in Readers : \A x \in Claims(q)' : x \in Claims(q) \/ (q = r /\ x = n)
    <2>1. NewRange(n) \in ReaderMsgs /\ NewRange(n).range = n
      BY <1>1, MessageTypes DEF NewRange
    <2>2. SendTo({r}, NewRange(n)) BY DEF AssignNextRange
    <2>. HIDE DEF n
    <2>3. \A q \in Readers : \A x \in InFlight(q)' : x \in InFlight(q) \/ (q = r /\ x = n)
      BY <2>1, <2>2, InFlightSent
    <2>. QED BY <1>3, <2>3 DEF Claims
  <1>5. \A q \in Readers : \A i \in DOMAIN toMaster'[q] : toMaster'[q][i].event = "completed"
    BY FromReaderRest DEF AssignNextRange
  <1>6. Start <= lastAssigned
    <2>1. EnvRange(r) \in Claims(r) BY DEF Claims
    <2>2. Start <= EnvRange(r).first /\ EnvRange(r).last <= lastAssigned BY <2>1 DEF Separated
    <2>3. EnvRange(r).first <= EnvRange(r).last
      BY EnvRangeNonEmpty, EnvRangeType
    <2>4. EnvRange(r) \in Ranges /\ lastAssigned \in Int BY EnvRangeType DEF TypeOK
    <2>. HIDE DEF n
    <2>. QED BY <2>2, <2>3, <2>4
  <1>. HIDE DEF n
  <1>7. \A q \in Readers : \A x \in Claims(q) : Apart(x, n)
    BY <1>1, ClaimsType DEF Apart, Separated, TypeOK
  <1>8. \A q \in Readers : \A x \in Claims(q)' :
          Start <= x.first /\ x.last <= HeadBlock /\ x.last <= lastAssigned'
    <2>1. lastAssigned \in Int /\ n.last \in Int BY <1>1 DEF TypeOK
    <2>2. Start <= n.first /\ n.last <= HeadBlock /\ n.last <= lastAssigned'
      BY <1>1, <1>2, <1>6, <2>1
    <2>3. ASSUME NEW q \in Readers, NEW x \in Claims(q)
          PROVE  Start <= x.first /\ x.last <= HeadBlock /\ x.last <= lastAssigned'
      <3>1. x \in Ranges BY ClaimsType
      <3>2. Start <= x.first /\ x.last <= HeadBlock /\ x.last <= lastAssigned
        BY DEF Separated
      <3>. QED BY <1>1, <1>2, <2>1, <3>1, <3>2
    <2>. QED BY <1>4, <2>2, <2>3
  <1>9. \A q, s \in Readers : q # s => \A x \in Claims(q)', y \in Claims(s)' : Apart(x, y)
    BY <1>4, <1>7 DEF Separated, Apart
  <1>. QED BY <1>5, <1>8, <1>9 DEF Separated

LEMMA SeparatedNext ==
  ASSUME ShipCoversStart, TypeOK, TypeOK', Separated, [Next]_vars
  PROVE  Separated'
  <1> USE DEF masterVars, streamVars, ipcVars
  <1>0. ASSUME UNCHANGED <<job, toReader>>
        PROVE  \A q \in Readers : Claims(q)' = Claims(q)
    BY <1>0 DEF Claims, InFlight
  <1>1. ASSUME NEW r \in Readers, RequestFirstRange(r) PROVE Separated'
    BY <1>0, <1>1, SeparatedKept DEF RequestFirstRange, Separated
  <1>2. ASSUME NEW r \in Readers, SkipToShipBegin(r) PROVE Separated'
    <2>1. BeginBlock <= Start BY DEF ShipCoversStart
    <2>2. BeginBlock > EnvRange(r).first BY <1>2 DEF SkipToShipBegin
    <2>3. BeginBlock \in Nat BY DEF BeginBlock, Greater, TypeOK
    <2>. QED BY <2>1, <2>2, <2>3, EnvRangeType
  <1>3. ASSUME NEW r \in Readers, DistributeBlock(r) PROVE Separated'
    BY <1>0, <1>3, SeparatedKept DEF DistributeBlock, Separated
  <1>4. ASSUME NEW r \in Readers, ConfirmBlock(r) PROVE Separated'
    BY <1>0, <1>4, SeparatedKept DEF ConfirmBlock, Separated
  <1>5. ASSUME NEW r \in Readers, ReportCompletion(r) PROVE Separated'
    <2>1. toMaster'[r] = Append(toMaster[r], Completed) /\ toMaster[r] \in Seq(MasterMsgs)
      BY <1>5 DEF ReportCompletion, TypeOK
    <2>2. \A q \in Readers : q # r => toMaster'[q] = toMaster[q]
      BY <1>5 DEF ReportCompletion, TypeOK
    <2>3. Completed \in MasterMsgs /\ Completed.event = "completed"
      BY DEF Completed, MasterMsgs
    <2>4. \A i \in DOMAIN toMaster'[r] : toMaster'[r][i].event = "completed"
      <3>1. \A i \in DOMAIN toMaster[r] : toMaster[r][i].event = "completed" BY DEF Separated
      <3>. QED BY <2>1, <2>3, <3>1
    <2>5. \A q \in Readers : \A i \in DOMAIN toMaster'[q] : toMaster'[q][i].event = "completed"
      BY <2>2, <2>4 DEF Separated
    <2>. QED BY <1>0, <1>5, <2>5, SeparatedKept DEF ReportCompletion
  <1>6. ASSUME NEW r \in Readers, ReceiveNewRange(r) PROVE Separated'
    <2>1. /\ toReader[r] # <<>> /\ toReader' = [toReader EXCEPT ![r] = Tail(@)]
          /\ Head(toReader[r]).event = "new_range"
          /\ TakeRange(r, Head(toReader[r]).range, <<>>)
          /\ lastAssigned' = lastAssigned
      BY <1>6 DEF ReceiveNewRange
    <2>2. /\ \A q \in Readers : InFlight(q)' \subseteq InFlight(q)
          /\ Head(toReader[r]).range \in Claims(r)
      BY <2>1, InFlightTail DEF Claims
    <2>3. /\ \A q \in Readers : Claims(q)' \subseteq Claims(q)
          /\ \A q \in Readers : \A i \in DOMAIN toMaster'[q] : toMaster'[q][i].event = "completed"
      BY <2>1, <2>2, TakeRangeClaims
    <2>. QED BY <2>1, <2>3, SeparatedKept
  <1>7. ASSUME NEW r \in Readers, ReceivePause(r) \/ ReceiveResume(r) PROVE Separated'
    <2>1. /\ toReader[r] # <<>> /\ toReader' = [toReader EXCEPT ![r] = Tail(@)]
          /\ UNCHANGED <<job, toMaster, lastAssigned>>
      BY <1>7 DEF ReceivePause, ReceiveResume
    <2>2. \A q \in Readers : Claims(q)' \subseteq Claims(q) BY <2>1, InFlightTail DEF Claims
    <2>. QED BY <2>1, <2>2, SeparatedKept DEF Separated
  <1>8. ASSUME NEW r \in Readers, Exit(r) PROVE Separated'
    <2>1. /\ toReader' = [toReader EXCEPT ![r] = <<>>]
          /\ UNCHANGED <<job, toMaster, lastAssigned>>
      BY <1>8 DEF Exit
    <2>2. \A q \in Readers : InFlight(q)' \subseteq InFlight(q) BY <2>1 DEF InFlight, TypeOK
    <2>3. \A q \in Readers : Claims(q)' \subseteq Claims(q) BY <2>1, <2>2 DEF Claims
    <2>. QED BY <2>1, <2>3, SeparatedKept DEF Separated
  <1>9. ASSUME NEW r \in Readers, AssignNextRange(r) PROVE Separated'
    BY <1>9, AssignKeepsSeparated
  <1>10. ASSUME NEW r \in Readers, FinishReaders(r) \/ RetireReader(r) PROVE Separated'
    <2>1. FromReader(r, "completed") /\ UNCHANGED <<job, toReader, lastAssigned>>
      BY <1>10 DEF FinishReaders, RetireReader
    <2>. QED BY <1>0, <2>1, FromReaderRest, SeparatedKept
  <1>11. ASSUME NEW r \in Readers, MoveAssignment(r) PROVE Separated'
    <2>1. FromReader(r, "update_last_assigned_block") BY <1>11 DEF MoveAssignment
    <2>. QED BY <2>1, FromReaderRest
  <1>12. ASSUME NEW r \in Readers, HandleDisconnect(r) PROVE Separated'
    BY <1>0, <1>12, SeparatedKept DEF HandleDisconnect, Separated
  <1>13. CASE Relaunch
    <2>1. /\ \A q \in Readers : job'[q] \in {EnvRange(q), job[q]}
          /\ UNCHANGED <<toReader, toMaster, lastAssigned>>
      BY <1>13 DEF Relaunch, RelaunchRange
    <2>2. \A q \in Readers : Claims(q)' \subseteq Claims(q) BY <2>1 DEF Claims, InFlight
    <2>. QED BY <2>1, <2>2, SeparatedKept DEF Separated
  <1>14. CASE PauseReaders \/ ResumeReaders
    <2>1. PICK msg \in {Pause, Resume} : SendTo(inMap, msg)
      BY <1>14 DEF PauseReaders, ResumeReaders
    <2>2. UNCHANGED <<job, toMaster, lastAssigned>>
      BY <1>14 DEF PauseReaders, ResumeReaders
    <2>3. msg \in ReaderMsgs /\ msg.event # "new_range" BY DEF Pause, Resume, ReaderMsgs
    <2>4. \A q \in Readers : InFlight(q)' \subseteq InFlight(q)
      BY <2>1, <2>3, InFlightSent
    <2>5. \A q \in Readers : Claims(q)' \subseteq Claims(q) BY <2>2, <2>4 DEF Claims
    <2>. QED BY <2>2, <2>5, SeparatedKept DEF Separated
  <1>15. CASE GracefulStop
    BY <1>0, <1>15, SeparatedKept DEF GracefulStop, Separated
  <1>16. CASE UNCHANGED vars
    BY <1>0, <1>16, SeparatedKept DEF vars, Separated
  <1>. QED
    BY <1>1, <1>2, <1>3, <1>4, <1>5, <1>6, <1>7, <1>8, <1>9, <1>10, <1>11, <1>12, <1>13,
       <1>14, <1>15, <1>16 DEF Next, ReaderStep, MasterStep

\* SHIP's status does not change.
LEMMA ShipFixed == [Next]_vars => (ShipCoversStart' <=> ShipCoversStart)
  <1>1. ASSUME [Next]_vars PROVE ship' = ship
    <2>1. ASSUME NEW r \in Readers, ReaderStep(r) PROVE ship' = ship
      BY <2>1 DEF ReaderStep, RequestFirstRange, SkipToShipBegin, DistributeBlock, ConfirmBlock,
                  ReportCompletion, ReceiveNewRange, ReceivePause, ReceiveResume
    <2>2. ASSUME NEW r \in Readers, MasterStep(r) \/ Exit(r) PROVE ship' = ship
      BY <2>2 DEF MasterStep, AssignNextRange, FinishReaders, RetireReader, MoveAssignment,
                  HandleDisconnect, Exit
    <2>3. CASE Relaunch \/ PauseReaders \/ ResumeReaders \/ GracefulStop
      BY <2>3 DEF Relaunch, PauseReaders, ResumeReaders, GracefulStop
    <2>4. CASE UNCHANGED vars BY <2>4 DEF vars
    <2>. QED BY <1>1, <2>1, <2>2, <2>3, <2>4 DEF Next
  <1>. QED BY <1>1 DEF ShipCoversStart, BeginBlock

\* The ranges stay apart for as long as SHIP has all of them, which is for ever or never.
LEMMA AlwaysSeparated == Spec => [](ShipCoversStart => Separated)
  <1>1. Init => (ShipCoversStart => Separated) BY SeparatedInit
  <1>2. TypeOK /\ TypeOK' /\ (ShipCoversStart => Separated) /\ [Next]_vars
          => (ShipCoversStart => Separated)'
    <2>1. SUFFICES ASSUME TypeOK, TypeOK', ShipCoversStart => Separated, [Next]_vars,
                          ShipCoversStart'
                   PROVE  Separated'
      OBVIOUS
    <2>2. ShipCoversStart BY <2>1, ShipFixed
    <2>. QED BY <2>1, <2>2, SeparatedNext
  <1>. QED BY <1>1, <1>2, TypeCorrect, PTL DEF Spec

\* If SHIP has every block from starting_block on, no block is ever in the
\* ranges of two readers, through completions, pauses, crashes and relaunches.
THEOREM ReadersShareNoBlock == Spec => []NoSharedBlock
  <1>1. (ShipCoversStart => Separated) /\ TypeOK => NoSharedBlock
    <2>1. SUFFICES ASSUME Separated, TypeOK, NEW r \in Readers, NEW s \in Readers, r # s,
                          NEW x \in Claims(r), NEW y \in Claims(s)
                   PROVE  Span(x) \cap Span(y) = {}
      BY DEF NoSharedBlock
    <2>2. Apart(x, y) /\ x \in Ranges /\ y \in Ranges BY <2>1, ClaimsType DEF Separated
    <2>. QED BY <2>2 DEF Apart, Span
  <1>. QED BY <1>1, AlwaysSeparated, TypeCorrect, PTL

\* Under the same condition no reader is ever given a block at or past the head.
THEOREM ReadersStayBelowHead == Spec => []NothingPastHead
  <1>1. (ShipCoversStart => Separated) => NothingPastHead BY DEF Separated, NothingPastHead
  <1>. QED BY <1>1, AlwaysSeparated, PTL

-----------------------------------------------------------------------------
(***************************************************************************)
(* No assigned block is forgotten, whatever SHIP has: until the master      *)
(* dismisses the readers, each block is settled or will be.               *)
(***************************************************************************)

(* What a reader still has to publish *)

HasCompleted(r) == \E i \in DOMAIN toMaster[r] : toMaster[r][i].event = "completed"
HasNewRange(r) == \E i \in DOMAIN toReader[r] : toReader[r][i].event = "new_range"

\* Nothing is left of the range the reader was last given.
Spent(r) ==
    /\ unconf[r] = {}
    /\ \/ proc[r] = "idle"
       \/ proc[r] = "streaming" /\ job[r].last <= nextBlock[r]
       \/ proc[r] = "pending" /\ Empty(job[r])

\* One reader and its channels: a completion is the last thing it said, and it has
\* one range at a time, so that a new one never replaces a range it still reads.
Sound(r) ==
    /\ \A i \in DOMAIN toMaster[r] : toMaster[r][i].event = "completed" => i = Len(toMaster[r])
    /\ \A i, j \in DOMAIN toReader[r] :
          toReader[r][i].event = "new_range" /\ toReader[r][j].event = "new_range" => i = j
    /\ HasCompleted(r) => ~HasNewRange(r)
    /\ (HasCompleted(r) \/ HasNewRange(r)) /\ Alive(r) => Spent(r)
    /\ proc[r] = "starting" =>
          /\ toMaster[r] = <<>> /\ ~HasNewRange(r) /\ job[r] = EnvRange(r) /\ unconf[r] = {}
          /\ count[r] = 0 /\ nextBlock[r] = EnvRange(r).first
    /\ proc[r] = "streaming" =>
          job[r].last <= nextBlock[r] \/ nextBlock[r] = job[r].first + count[r]
    /\ proc[r] = "pending" => count[r] = 0
    /\ proc[r] \in {"dead", "down"} => toReader[r] = <<>> /\ unconf[r] = {}
    /\ proc[r] = "down" => toMaster[r] = <<>>

LEMMA RemainingIs ==
    ASSUME NEW r \in Readers, NEW b
    PROVE  b \in Remaining(r) <=>
              \/ \E x \in InFlight(r) : b \in Span(x)
              \/ b \in unconf[r]
              \/ b \in Unread(r)
<1>1. b \in UNION {Span(x) : x \in InFlight(r)} <=> \E x \in InFlight(r) : b \in Span(x)
  OBVIOUS
<1> QED
  BY <1>1 DEF Remaining

LEMMA RemainingIsPrimed ==
    ASSUME NEW r \in Readers, NEW b
    PROVE  b \in Remaining(r)' <=>
              \/ \E x \in InFlight(r)' : b \in Span(x)
              \/ b \in unconf'[r]
              \/ b \in Unread(r)'
<1>1. b \in UNION {Span(x) : x \in InFlight(r)'} <=> \E x \in InFlight(r)' : b \in Span(x)
  OBVIOUS
<1> QED
  BY <1>1 DEF Remaining

\* The ranges in flight, by their place in the channel.
LEMMA InFlightIs ==
    ASSUME NEW r \in Readers, NEW x
    PROVE  x \in InFlight(r) <=>
              \E i \in DOMAIN toReader[r] : toReader[r][i].event = "new_range" /\ toReader[r][i].range = x
BY DEF InFlight

\* A reader that takes no step and receives nothing.
Same(q) ==
    /\ proc'[q] = proc[q] /\ job'[q] = job[q] /\ nextBlock'[q] = nextBlock[q] /\ count'[q] = count[q]
    /\ unconf'[q] = unconf[q] /\ toMaster'[q] = toMaster[q] /\ toReader'[q] = toReader[q]

\* What it has left is settled, or it still has it.
Keeps(q) ==
    \A b \in Nat : BeginBlock <= b /\ b \in Remaining(q) => b \in settled' \/ b \in Remaining(q)'

LEMMA SameSound ==
    ASSUME NEW q \in Readers, Sound(q), Same(q)
    PROVE  Sound(q)'
BY DEF Sound, Same, HasCompleted, HasNewRange, Alive, Spent

\* Nothing is lost of a reader that takes no step while the map and the timers stay.
LEMMA SameKeeps ==
    ASSUME TypeOK, TypeOK', NEW q \in Readers, Same(q),
           proc[q] = "down" => inMap' = inMap /\ (relaunches > 0 => relaunches' > 0)
    PROVE  Keeps(q)
<1>1. InFlight(q)' = InFlight(q)
  BY DEF Same, InFlight
<1> SUFFICES ASSUME NEW b \in Nat, b \in Remaining(q)
             PROVE  b \in Remaining(q)'
  BY DEF Keeps
<1>2. b \in unconf[q] => b \in unconf'[q]
  BY DEF Same
<1>3. b \in Unread(q) => b \in Unread(q)'
  BY DEF Same, Unread
<1> QED
  BY <1>1, <1>2, <1>3, RemainingIs, RemainingIsPrimed

\* A step of reader r and of nobody else.
StepOf(r) ==
    /\ \A q \in Readers : q # r => Same(q)
    /\ inMap' = inMap /\ relaunches' >= relaunches /\ settled \subseteq settled'

\* SHIP's first block is at or after its first trace.
LEMMA BeginBlockIs ==
    ASSUME TypeOK
    PROVE  BeginBlock \in Nat /\ ship.trace \in Nat /\ ship.trace <= BeginBlock
BY DEF TypeOK, BeginBlock, Greater

\* A channel with a message on top of it.
LEMMA Appended ==
    ASSUME NEW S, NEW s \in Seq(S), NEW m \in S
    PROVE  /\ Append(s, m) \in Seq(S) /\ Len(Append(s, m)) = Len(s) + 1
           /\ DOMAIN s = 1 .. Len(s) /\ Len(s) \in Nat
           /\ DOMAIN Append(s, m) = 1 .. Len(s) + 1
           /\ \A i \in 1 .. Len(s) : Append(s, m)[i] = s[i]
           /\ Append(s, m)[Len(s) + 1] = m
OBVIOUS

\* A channel without its first message.
LEMMA Tailed ==
    ASSUME NEW S, NEW s \in Seq(S), s # <<>>
    PROVE  /\ Tail(s) \in Seq(S) /\ Len(Tail(s)) = Len(s) - 1 /\ Head(s) = s[1] /\ 1 \in DOMAIN s
           /\ \A i \in DOMAIN Tail(s) : i \in Nat /\ i + 1 \in DOMAIN s /\ Tail(s)[i] = s[i + 1]
           /\ \A i \in DOMAIN s :
                 i # 1 => i \in Nat /\ i - 1 \in DOMAIN Tail(s) /\ Tail(s)[i - 1] = s[i]
OBVIOUS

-----------------------------------------------------------------------------
(* The steps of a reader *)

LEMMA RequestFirstRangeStep ==
    ASSUME TypeOK, TypeOK', NEW r \in Readers, Sound(r), RequestFirstRange(r)
    PROVE  StepOf(r) /\ Sound(r)' /\ Keeps(r)
<1> USE DEF streamVars, ipcVars, masterVars
<1>1. /\ proc[r] = "starting" /\ proc' = [proc EXCEPT ![r] = "streaming"]
      /\ UNCHANGED <<job, nextBlock, count, unconf, toMaster, toReader, inMap, relaunches, settled>>
  BY DEF RequestFirstRange
<1>2. proc'[r] = "streaming" /\ \A q \in Readers : q # r => proc'[q] = proc[q]
  BY <1>1 DEF TypeOK
<1>3. StepOf(r)
  BY <1>1, <1>2 DEF StepOf, Same, TypeOK
<1>4. /\ toMaster[r] = <<>> /\ ~HasNewRange(r) /\ job[r] = EnvRange(r) /\ unconf[r] = {}
      /\ count[r] = 0 /\ nextBlock[r] = EnvRange(r).first
  BY <1>1 DEF Sound
<1>5. EnvRange(r).first \in Nat
  BY EnvRangeType
<1>6. Sound(r)'
  BY <1>1, <1>2, <1>4, <1>5 DEF Sound, HasCompleted, HasNewRange, Alive, Spent
<1>7. Keeps(r)
  <2>1. InFlight(r)' = InFlight(r) /\ unconf'[r] = unconf[r]
    BY <1>1 DEF InFlight
  <2>2. Unread(r) = Span(EnvRange(r)) /\ Unread(r)' = EnvRange(r).first .. (EnvRange(r).last - 1)
    BY <1>1, <1>2, <1>4 DEF Unread
  <2>3. Unread(r)' = Unread(r)
    BY <2>2 DEF Span
  <2> QED
    BY <2>1, <2>3, RemainingIs, RemainingIsPrimed DEF Keeps
<1> QED
  BY <1>3, <1>6, <1>7

LEMMA DistributeBlockStep ==
    ASSUME TypeOK, TypeOK', NEW r \in Readers, Sound(r), DistributeBlock(r)
    PROVE  StepOf(r) /\ Sound(r)' /\ Keeps(r)
<1> USE DEF streamVars, ipcVars, masterVars
<1> DEFINE filled == count[r] + 1 = job[r].last - job[r].first
<1>1. /\ proc[r] = "streaming" /\ nextBlock[r] < job[r].last
      /\ nextBlock' = [nextBlock EXCEPT ![r] = @ + 1]
      /\ unconf' = [unconf EXCEPT ![r] = @ \cup {nextBlock[r]}]
      /\ count' = [count EXCEPT ![r] = IF filled THEN 0 ELSE @ + 1]
      /\ proc' = [proc EXCEPT ![r] = IF filled THEN "completing" ELSE @]
      /\ UNCHANGED <<job, toMaster, toReader, inMap, relaunches, settled>>
  BY DEF DistributeBlock
<1>2. /\ proc'[r] = IF filled THEN "completing" ELSE "streaming"
      /\ nextBlock'[r] = nextBlock[r] + 1 /\ count'[r] = IF filled THEN 0 ELSE count[r] + 1
      /\ unconf'[r] = unconf[r] \cup {nextBlock[r]}
      /\ \A q \in Readers : q # r => /\ proc'[q] = proc[q] /\ nextBlock'[q] = nextBlock[q]
                                     /\ count'[q] = count[q] /\ unconf'[q] = unconf[q]
  BY <1>1 DEF TypeOK
<1>3. StepOf(r)
  BY <1>1, <1>2 DEF StepOf, Same, TypeOK
<1>t. /\ job[r].first \in Nat /\ job[r].last \in Nat /\ nextBlock[r] \in Nat /\ count[r] \in Nat
  BY DEF TypeOK
<1>4. nextBlock[r] = job[r].first + count[r]
  BY <1>1, <1>t DEF Sound
<1>5. ~HasCompleted(r) /\ ~HasNewRange(r)
  <2>1. ~(job[r].last <= nextBlock[r])
    BY <1>1, <1>t
  <2>2. ~Spent(r) /\ Alive(r)
    BY <1>1, <2>1 DEF Spent, Alive
  <2> QED
    BY <2>2 DEF Sound
<1>6. ~HasCompleted(r)' /\ ~HasNewRange(r)'
  BY <1>1, <1>5 DEF HasCompleted, HasNewRange
<1>7. proc'[r] = "streaming" => nextBlock'[r] = job'[r].first + count'[r]
  BY <1>1, <1>2, <1>4, <1>t
<1>8. proc'[r] \in {"streaming", "completing"}
  BY <1>2
<1>9. Sound(r)'
  <2>1. \A i \in DOMAIN toMaster'[r] : toMaster'[r][i].event # "completed"
    BY <1>6 DEF HasCompleted
  <2>2. \A i \in DOMAIN toReader'[r] : toReader'[r][i].event # "new_range"
    BY <1>6 DEF HasNewRange
  <2> QED
    BY <1>6, <1>7, <1>8, <2>1, <2>2 DEF Sound
<1>10. Keeps(r)
  <2> SUFFICES ASSUME NEW b \in Nat, b \in Remaining(r)
               PROVE  b \in Remaining(r)'
    BY DEF Keeps
  <2>1. InFlight(r)' = InFlight(r)
    BY <1>1 DEF InFlight
  <2>2. CASE \E x \in InFlight(r) : b \in Span(x)
    BY <2>1, <2>2, RemainingIsPrimed
  <2>3. CASE b \in unconf[r]
    BY <1>2, <2>3, RemainingIsPrimed
  <2>4. CASE b \in Unread(r)
    <3>1. b \in nextBlock[r] .. (job[r].last - 1)
      BY <1>1, <2>4 DEF Unread
    <3>2. CASE b = nextBlock[r]
      BY <1>2, <3>2, RemainingIsPrimed
    <3>3. CASE b # nextBlock[r]
      <4>1. ~filled
        BY <1>4, <1>t, <3>1, <3>3
      <4>2. proc'[r] = "streaming" /\ b \in nextBlock'[r] .. (job'[r].last - 1)
        BY <1>1, <1>2, <1>t, <3>1, <3>3, <4>1
      <4> QED
        BY <4>2, RemainingIsPrimed DEF Unread
    <3> QED
      BY <3>2, <3>3
  <2> QED
    BY <2>2, <2>3, <2>4, RemainingIs
<1> QED
  BY <1>3, <1>9, <1>10

LEMMA ConfirmBlockStep ==
    ASSUME TypeOK, TypeOK', NEW r \in Readers, Sound(r), ConfirmBlock(r)
    PROVE  StepOf(r) /\ Sound(r)' /\ Keeps(r)
<1> USE DEF streamVars, ipcVars, masterVars
<1>1. PICK c \in unconf[r] : /\ unconf' = [unconf EXCEPT ![r] = @ \ {c}]
                             /\ settled' = settled \cup {c}
  BY DEF ConfirmBlock
<1>2. UNCHANGED <<proc, job, nextBlock, count, toMaster, toReader, inMap, relaunches>>
  BY DEF ConfirmBlock
<1>3. unconf'[r] = unconf[r] \ {c} /\ \A q \in Readers : q # r => unconf'[q] = unconf[q]
  BY <1>1 DEF TypeOK
<1>4. StepOf(r)
  BY <1>1, <1>2, <1>3 DEF StepOf, Same, TypeOK
<1>5. Sound(r)'
  <2>1. unconf[r] # {}
    BY <1>1
  <2>2. ~(HasCompleted(r) /\ Alive(r)) /\ ~(HasNewRange(r) /\ Alive(r)) /\ proc[r] # "starting"
    BY <2>1 DEF Sound, Spent
  <2>3. HasCompleted(r)' = HasCompleted(r) /\ HasNewRange(r)' = HasNewRange(r) /\ Alive(r)' = Alive(r)
    BY <1>2 DEF HasCompleted, HasNewRange, Alive
  <2> QED
    BY <1>2, <1>3, <2>2, <2>3 DEF Sound
<1>6. Keeps(r)
  <2> SUFFICES ASSUME NEW b \in Nat, b \in Remaining(r)
               PROVE  b \in settled' \/ b \in Remaining(r)'
    BY DEF Keeps
  <2>1. InFlight(r)' = InFlight(r) /\ Unread(r)' = Unread(r)
    BY <1>2 DEF InFlight, Unread
  <2>2. b \in unconf[r] => b \in unconf'[r] \/ b \in settled'
    BY <1>1, <1>3
  <2> QED
    BY <2>1, <2>2, RemainingIs, RemainingIsPrimed
<1> QED
  BY <1>4, <1>5, <1>6

LEMMA ReportCompletionStep ==
    ASSUME TypeOK, TypeOK', NEW r \in Readers, Sound(r), ReportCompletion(r)
    PROVE  StepOf(r) /\ Sound(r)' /\ Keeps(r)
<1> USE DEF streamVars, ipcVars, masterVars
<1>1. /\ proc[r] = "completing" /\ unconf[r] = {}
      /\ proc' = [proc EXCEPT ![r] = "idle"]
      /\ toMaster' = [toMaster EXCEPT ![r] = Append(@, Completed)]
      /\ UNCHANGED <<job, nextBlock, count, unconf, toReader, inMap, relaunches, settled>>
  BY DEF ReportCompletion, AllConfirmed
<1>2. /\ proc'[r] = "idle" /\ toMaster'[r] = Append(toMaster[r], Completed)
      /\ \A q \in Readers : q # r => proc'[q] = proc[q] /\ toMaster'[q] = toMaster[q]
  BY <1>1 DEF TypeOK
<1>3. StepOf(r)
  BY <1>1, <1>2 DEF StepOf, Same, TypeOK
<1>4. ~HasCompleted(r) /\ ~HasNewRange(r)
  BY <1>1 DEF Sound, Spent, Alive
<1>5. ~HasNewRange(r)'
  BY <1>1, <1>4 DEF HasNewRange
<1>6. \A i \in DOMAIN toMaster'[r] : toMaster'[r][i].event = "completed" => i = Len(toMaster'[r])
  <2>1. toMaster[r] \in Seq(MasterMsgs) /\ Completed \in MasterMsgs
    BY MessageTypes DEF TypeOK
  <2>2. \A i \in 1 .. Len(toMaster[r]) : toMaster[r][i].event # "completed"
    BY <1>4, <2>1 DEF HasCompleted
  <2> QED
    BY <1>2, <2>1, <2>2, Appended
<1>7. Spent(r)'
  BY <1>1, <1>2 DEF Spent
<1>8. Sound(r)'
  <2>1. \A i \in DOMAIN toReader'[r] : toReader'[r][i].event # "new_range"
    BY <1>5 DEF HasNewRange
  <2> QED
    BY <1>2, <1>5, <1>6, <1>7, <2>1 DEF Sound
<1>9. Keeps(r)
  <2>1. InFlight(r)' = InFlight(r) /\ unconf'[r] = unconf[r] /\ Unread(r) = {}
    BY <1>1 DEF InFlight, Unread
  <2> QED
    BY <2>1, RemainingIs, RemainingIsPrimed DEF Keeps
<1> QED
  BY <1>3, <1>8, <1>9

-----------------------------------------------------------------------------
(* Taking a range *)

\* What newRange does to the reader's state and to its messages.
LEMMA TakeRangeIs ==
    ASSUME TypeOK, NEW r \in Readers, NEW x \in Ranges, NEW msgs \in Seq(MasterMsgs),
           TakeRange(r, x, msgs)
    PROVE  /\ job'[r].first = Greater(x.first, ship.trace) /\ job'[r].last = x.last
           /\ count'[r] = 0
           /\ \/ proc'[r] = "streaming" /\ nextBlock'[r] = job'[r].first
              \/ proc'[r] = "pending"
           /\ \/ toMaster'[r] = toMaster[r] \o msgs
              \/ toMaster'[r] = Append(toMaster[r] \o msgs, Completed) /\ Empty(job'[r])
           /\ \A q \in Readers : q # r => /\ proc'[q] = proc[q] /\ job'[q] = job[q]
                                          /\ nextBlock'[q] = nextBlock[q] /\ count'[q] = count[q]
                                          /\ toMaster'[q] = toMaster[q]
<1> DEFINE trimmed == [first |-> Greater(x.first, ship.trace), last |-> x.last]
           done == IF Empty(trimmed) THEN <<Completed>> ELSE <<>>
           sent == toMaster[r] \o msgs \o done
<1>1. /\ toMaster' = [toMaster EXCEPT ![r] = sent]
      /\ job' = [job EXCEPT ![r] = trimmed]
      /\ count' = [count EXCEPT ![r] = 0]
  BY DEF TakeRange
<1>2. /\ toMaster'[r] = sent /\ job'[r] = trimmed /\ count'[r] = 0
      /\ \A q \in Readers : q # r => /\ job'[q] = job[q] /\ count'[q] = count[q]
                                     /\ toMaster'[q] = toMaster[q]
  <2> HIDE DEF sent, trimmed
  <2> QED
    BY <1>1 DEF TypeOK
<1>3. \/ sent = toMaster[r] \o msgs
      \/ sent = Append(toMaster[r] \o msgs, Completed) /\ Empty(trimmed)
  <2>1. toMaster[r] \in Seq(MasterMsgs) /\ Completed \in MasterMsgs
    BY MessageTypes DEF TypeOK
  <2>2. toMaster[r] \o msgs \in Seq(MasterMsgs)
    BY <2>1
  <2> DEFINE before == toMaster[r] \o msgs
  <2>3. before \in Seq(MasterMsgs)
    BY <2>2
  <2> HIDE DEF before
  <2>4. CASE Empty(trimmed)
    <3>1. done = <<Completed>>
      BY <2>4
    <3>2. before \o <<Completed>> = Append(before, Completed)
      BY <2>1, <2>3
    <3> QED
      BY <2>4, <3>1, <3>2 DEF before
  <2>5. CASE ~Empty(trimmed)
    <3>1. done = <<>>
      BY <2>5
    <3>2. before \o <<>> = before
      BY <2>3
    <3> QED
      BY <3>1, <3>2 DEF before
  <2> QED
    BY <2>4, <2>5
<1>4. /\ job'[r].first = Greater(x.first, ship.trace) /\ job'[r].last = x.last
      /\ Empty(trimmed) => Empty(job'[r])
  <2>1. job'[r] = trimmed
    BY <1>2
  <2>2. trimmed.first = Greater(x.first, ship.trace) /\ trimmed.last = x.last
    OBVIOUS
  <2> HIDE DEF trimmed
  <2> QED
    BY <2>1, <2>2 DEF Empty
<1>5. \/ toMaster'[r] = toMaster[r] \o msgs
      \/ toMaster'[r] = Append(toMaster[r] \o msgs, Completed) /\ Empty(job'[r])
  <2>1. CASE sent = toMaster[r] \o msgs
    BY <1>2, <2>1
  <2>2. CASE sent = Append(toMaster[r] \o msgs, Completed) /\ Empty(trimmed)
    <3>1. Empty(job'[r])
      BY <1>4, <2>2
    <3>2. toMaster'[r] = Append(toMaster[r] \o msgs, Completed)
      BY <1>2, <2>2
    <3> QED
      BY <3>1, <3>2
  <2> QED
    BY <1>3, <2>1, <2>2
<1>6. /\ \/ proc'[r] = "streaming" /\ nextBlock'[r] = job'[r].first
         \/ proc'[r] = "pending"
      /\ \A q \in Readers : q # r => proc'[q] = proc[q] /\ nextBlock'[q] = nextBlock[q]
  <2>1. CASE allow[r]
    <3>1. /\ proc' = [proc EXCEPT ![r] = "streaming"]
          /\ nextBlock' = [nextBlock EXCEPT ![r] = Greater(x.first, ship.trace)]
      BY <2>1 DEF TakeRange
    <3>2. /\ proc'[r] = "streaming" /\ nextBlock'[r] = Greater(x.first, ship.trace)
          /\ \A q \in Readers : q # r => proc'[q] = proc[q] /\ nextBlock'[q] = nextBlock[q]
      BY <3>1 DEF TypeOK
    <3> QED
      BY <1>4, <3>2
  <2>2. CASE ~allow[r]
    <3>1. proc' = [proc EXCEPT ![r] = "pending"] /\ nextBlock' = nextBlock
      BY <2>2 DEF TakeRange
    <3> QED
      BY <3>1 DEF TypeOK
  <2> QED
    BY <2>1, <2>2
<1> HIDE DEF sent, trimmed
<1> QED
  BY <1>2, <1>4, <1>5, <1>6

\* A reader that takes a range when it has nothing else to say or to hear is sound, and
\* has all of the range that SHIP has.
LEMMA TakeRangeIsSound ==
    ASSUME TypeOK, TypeOK', NEW r \in Readers, NEW x \in Ranges, NEW msgs \in Seq(MasterMsgs),
           TakeRange(r, x, msgs), ~HasCompleted(r), unconf'[r] = {}, ~HasNewRange(r)',
           \A i \in DOMAIN msgs : msgs[i].event # "completed"
    PROVE  /\ Sound(r)'
           /\ \A b \in Nat : BeginBlock <= b /\ b \in Span(x) => b \in Unread(r)'
<1> DEFINE before == toMaster[r] \o msgs
<1>1. toMaster[r] \in Seq(MasterMsgs) /\ Completed \in MasterMsgs
  BY MessageTypes DEF TypeOK
<1>2. before \in Seq(MasterMsgs) /\ \A i \in 1 .. Len(before) : before[i].event # "completed"
  BY <1>1 DEF HasCompleted
<1>3. /\ job'[r].first = Greater(x.first, ship.trace) /\ job'[r].last = x.last
      /\ count'[r] = 0
      /\ \/ proc'[r] = "streaming" /\ nextBlock'[r] = job'[r].first
         \/ proc'[r] = "pending"
      /\ \/ toMaster'[r] = before
         \/ toMaster'[r] = Append(before, Completed) /\ Empty(job'[r])
  BY TakeRangeIs
<1> HIDE DEF before
<1>4. \A i \in DOMAIN toMaster'[r] : toMaster'[r][i].event = "completed" => i = Len(toMaster'[r])
  <2>1. CASE toMaster'[r] = before
    BY <1>2, <2>1, Appended
  <2>2. CASE toMaster'[r] = Append(before, Completed)
    BY <1>1, <1>2, <2>2, Appended
  <2> QED
    BY <1>3, <2>1, <2>2
<1>5. HasCompleted(r)' => Empty(job'[r])
  <2>1. CASE toMaster'[r] = before
    <3>1. ~HasCompleted(r)'
      BY <1>2, <2>1, Appended DEF HasCompleted
    <3> QED
      BY <3>1
  <2> QED
    BY <1>3, <2>1
<1>6. job'[r].first \in Nat /\ job'[r].last \in Nat
  BY DEF TypeOK
<1>7. Empty(job'[r]) => Spent(r)'
  BY <1>3, <1>6 DEF Empty, Spent
<1>8. Sound(r)'
  <2>1. \A i \in DOMAIN toReader'[r] : toReader'[r][i].event # "new_range"
    BY DEF HasNewRange
  <2>2. proc'[r] = "streaming" => nextBlock'[r] = job'[r].first + count'[r]
    BY <1>3, <1>6
  <2>3. proc'[r] \in {"streaming", "pending"}
    BY <1>3
  <2> QED
    BY <1>3, <1>4, <1>5, <1>7, <2>1, <2>2, <2>3 DEF Sound
<1>9. ASSUME NEW b \in Nat, BeginBlock <= b, b \in Span(x)
      PROVE  b \in Unread(r)'
  <2>1. b \in job'[r].first .. (job'[r].last - 1)
    BY <1>3, <1>9, BeginBlockIs DEF Span, Greater
  <2>2. b \in Span(job'[r])
    BY <2>1 DEF Span
  <2> QED
    BY <1>3, <2>1, <2>2 DEF Unread
<1> QED
  BY <1>8, <1>9

\* A range message carries a range.
LEMMA HeadIsRange ==
    ASSUME TypeOK, NEW r \in Readers, ReceiveNewRange(r)
    PROVE  Head(toReader[r]).range \in Ranges
<1>1. toReader[r] # <<>> /\ Head(toReader[r]).event = "new_range"
  BY DEF ReceiveNewRange
<1>2. Head(toReader[r]) \in ReaderMsgs
  BY <1>1 DEF TypeOK
<1> QED
  BY <1>1, <1>2 DEF ReaderMsgs, Pause, Resume

LEMMA ReceiveNewRangeStep ==
    ASSUME TypeOK, TypeOK', NEW r \in Readers, Sound(r), ReceiveNewRange(r)
    PROVE  StepOf(r) /\ Sound(r)' /\ Keeps(r)
<1> USE DEF streamVars, ipcVars, masterVars
<1> DEFINE x == Head(toReader[r]).range
<1>1. /\ Alive(r) /\ toReader[r] # <<>> /\ Head(toReader[r]).event = "new_range"
      /\ TakeRange(r, x, <<>>)
      /\ toReader' = [toReader EXCEPT ![r] = Tail(@)]
      /\ UNCHANGED <<unconf, inMap, relaunches, settled>>
  BY DEF ReceiveNewRange
<1>2. toReader[r] \in Seq(ReaderMsgs) /\ toReader'[r] = Tail(toReader[r])
  BY <1>1 DEF TypeOK
<1>3. /\ 1 \in DOMAIN toReader[r] /\ Head(toReader[r]) = toReader[r][1]
      /\ \A i \in DOMAIN Tail(toReader[r]) : i \in Nat \ {0} /\ i + 1 \in DOMAIN toReader[r]
                                             /\ Tail(toReader[r])[i] = toReader[r][i + 1]
  BY <1>1, <1>2
<1>4. toReader[r][1].event = "new_range" /\ HasNewRange(r) /\ ~HasCompleted(r) /\ Spent(r)
  BY <1>1, <1>3 DEF Sound, HasNewRange
<1>5. ~HasNewRange(r)'
  <2>1. ASSUME NEW i \in DOMAIN toReader'[r], toReader'[r][i].event = "new_range"
        PROVE  FALSE
    <3>1. i \in Nat \ {0} /\ i + 1 \in DOMAIN toReader[r] /\ toReader[r][i + 1].event = "new_range"
      BY <1>2, <1>3, <2>1
    <3>2. i + 1 = 1
      BY <1>3, <1>4, <3>1 DEF Sound
    <3> QED
      BY <3>1, <3>2
  <2> QED
    BY <2>1 DEF HasNewRange
<1>6. x \in Ranges
  <2>1. toReader[r][1] \in ReaderMsgs
    BY <1>2, <1>3
  <2> QED
    BY <1>3, <1>4, <2>1 DEF ReaderMsgs, Pause, Resume
<1>7. <<>> \in Seq(MasterMsgs) /\ \A i \in DOMAIN <<>> : <<>>[i].event # "completed"
  OBVIOUS
<1>8. StepOf(r)
  <2>1. \A q \in Readers : q # r => toReader'[q] = toReader[q]
    BY <1>1 DEF TypeOK
  <2> HIDE DEF x
  <2>2. \A q \in Readers : q # r => /\ proc'[q] = proc[q] /\ job'[q] = job[q]
                                    /\ nextBlock'[q] = nextBlock[q] /\ count'[q] = count[q]
                                    /\ toMaster'[q] = toMaster[q]
    BY <1>1, <1>6, <1>7, TakeRangeIs
  <2> QED
    BY <1>1, <2>1, <2>2 DEF StepOf, Same, TypeOK
<1>9. unconf'[r] = {}
  BY <1>1, <1>4 DEF Spent
<1> HIDE DEF x
<1>10. Sound(r)' /\ \A b \in Nat : BeginBlock <= b /\ b \in Span(x) => b \in Unread(r)'
  BY <1>1, <1>4, <1>5, <1>6, <1>7, <1>9, TakeRangeIsSound
<1>11. Keeps(r)
  <2> SUFFICES ASSUME NEW b \in Nat, BeginBlock <= b, b \in Remaining(r)
               PROVE  b \in Remaining(r)'
    BY DEF Keeps
  <2>1. \A y \in InFlight(r) : y = x
    BY <1>3, <1>4 DEF InFlight, Sound, x
  <2>2. unconf[r] = {} /\ b \notin Unread(r)
    <3>1. job[r].first \in Nat /\ job[r].last \in Nat /\ nextBlock[r] \in Nat
      BY DEF TypeOK
    <3> QED
      BY <1>4, <3>1 DEF Spent, Unread, Span, Empty
  <2>3. b \in Span(x)
    BY <2>1, <2>2, RemainingIs
  <2> QED
    BY <1>10, <2>3, RemainingIsPrimed
<1> QED
  BY <1>8, <1>10, <1>11

\* The first range of a reader is no longer than a batch.
LEMMA EnvRangeIsBatch ==
    ASSUME NEW r \in Readers
    PROVE  EnvRange(r).last <= EnvRange(r).first + BatchSize
<1>1. r \in Nat /\ r >= 1
  BY NumReadersType DEF Readers
<1>2. r = (r - 1) + 1 /\ r - 1 \in Nat
  BY <1>1
<1> DEFINE p == r - 1
<1>3. p \in Nat /\ r = p + 1
  BY <1>2
<1> HIDE DEF p
<1>4. (p + 1) * BatchSize = p * BatchSize + BatchSize /\ p * BatchSize \in Nat
  BY <1>3
<1>5. r * BatchSize = (r - 1) * BatchSize + BatchSize /\ (r - 1) * BatchSize \in Nat
  BY <1>3, <1>4 DEF p
<1> DEFINE a == (r - 1) * BatchSize
           c == r * BatchSize
<1>6. /\ c = a + BatchSize /\ a \in Nat
      /\ EnvRange(r).first = Start + a /\ EnvRange(r).last = Lesser(Start + c, HeadBlock)
  BY <1>5 DEF EnvRange
<1> HIDE DEF a, c
<1> QED
  BY <1>6 DEF Lesser

\* A reader that skips to SHIP's first block keeps what SHIP has of its range, and has
\* every block up to the mark it reports.
LEMMA SkipToShipBeginStep ==
    ASSUME TypeOK, TypeOK', NEW r \in Readers, Sound(r), SkipToShipBegin(r)
    PROVE  /\ StepOf(r) /\ Sound(r)' /\ Keeps(r)
           /\ \A i \in DOMAIN toMaster'[r] : toMaster'[r][i].event = "update_last_assigned_block" =>
                 \A b \in Nat : BeginBlock <= b /\ b < toMaster'[r][i].block_num => b \in Unread(r)'
<1> USE DEF streamVars, ipcVars, masterVars
<1> DEFINE capped == Lesser(BeginBlock + BatchSize, EnvRange(r).last)
           last == IF BeginBlock > capped THEN BeginBlock + BatchSize ELSE capped
           x == [first |-> BeginBlock, last |-> last]
           msg == UpdateLastAssigned(last)
           msgs == <<msg>>
<1>1. /\ proc[r] = "starting" /\ BeginBlock > EnvRange(r).first
      /\ TakeRange(r, x, msgs)
      /\ UNCHANGED <<unconf, toReader, inMap, relaunches, settled>>
  BY DEF SkipToShipBegin
<1>2. /\ toMaster[r] = <<>> /\ ~HasNewRange(r) /\ job[r] = EnvRange(r) /\ unconf[r] = {}
  BY <1>1 DEF Sound
<1>3. /\ EnvRange(r).first \in Nat /\ EnvRange(r).last \in Nat
      /\ EnvRange(r).last <= EnvRange(r).first + BatchSize /\ BeginBlock \in Nat
  BY EnvRangeType, EnvRangeIsBatch, BeginBlockIs
<1>4. last \in Nat /\ (BeginBlock < EnvRange(r).last => last = EnvRange(r).last)
  BY <1>1, <1>3 DEF Lesser
<1>5. x \in Ranges /\ x.first = BeginBlock /\ x.last = last
  BY <1>3, <1>4
<1>6. /\ msg \in MasterMsgs /\ msg.event = "update_last_assigned_block" /\ msg.block_num = last
      /\ msgs \in Seq(MasterMsgs) /\ \A i \in DOMAIN msgs : msgs[i].event # "completed"
  <2>1. msg \in MasterMsgs
    BY <1>4, MessageTypes
  <2>2. msg.event = "update_last_assigned_block" /\ msg.block_num = last
    BY DEF UpdateLastAssigned
  <2> HIDE DEF msg
  <2> QED
    BY <2>1, <2>2
<1> HIDE DEF msg, msgs, x, last
<1>7. StepOf(r)
  <2>1. \A q \in Readers : q # r => /\ proc'[q] = proc[q] /\ job'[q] = job[q]
                                    /\ nextBlock'[q] = nextBlock[q] /\ count'[q] = count[q]
                                    /\ toMaster'[q] = toMaster[q]
    BY <1>1, <1>5, <1>6, TakeRangeIs
  <2> QED
    BY <1>1, <2>1 DEF StepOf, Same, TypeOK
<1>8. Sound(r)' /\ \A b \in Nat : BeginBlock <= b /\ b \in Span(x) => b \in Unread(r)'
  <2>1. ~HasCompleted(r)
    BY <1>2 DEF HasCompleted
  <2>2. ~HasNewRange(r)' /\ unconf'[r] = {}
    BY <1>1, <1>2 DEF HasNewRange
  <2> QED
    BY <1>1, <1>5, <1>6, <2>1, <2>2, TakeRangeIsSound
<1>9. Keeps(r)
  <2> SUFFICES ASSUME NEW b \in Nat, BeginBlock <= b, b \in Remaining(r)
               PROVE  b \in Remaining(r)'
    BY DEF Keeps
  <2>1. InFlight(r) = {}
    BY <1>2 DEF InFlight, HasNewRange
  <2>2. b \in Unread(r)
    BY <1>2, <2>1, RemainingIs
  <2>3. b \in Span(EnvRange(r))
    BY <1>1, <1>2, <2>2 DEF Unread
  <2>4. b \in Span(x)
    BY <1>3, <1>4, <1>5, <2>3 DEF Span
  <2> QED
    BY <1>8, <2>4, RemainingIsPrimed
<1>10. ASSUME NEW i \in DOMAIN toMaster'[r], toMaster'[r][i].event = "update_last_assigned_block"
       PROVE  toMaster'[r][i].block_num = last
  <2>1. toMaster[r] \o msgs = msgs /\ Completed \in MasterMsgs /\ Completed.event = "completed"
    BY <1>2, <1>6, MessageTypes DEF Completed
  <2>2. toMaster'[r] = msgs \/ toMaster'[r] = Append(msgs, Completed)
    <3>1. \/ toMaster'[r] = toMaster[r] \o msgs
          \/ toMaster'[r] = Append(toMaster[r] \o msgs, Completed)
      BY <1>1, <1>5, <1>6, TakeRangeIs
    <3> QED
      BY <2>1, <3>1
  <2>3. Len(msgs) = 1 /\ msgs[1] = msg
    BY DEF msgs
  <2>4. i = 1 /\ toMaster'[r][1] = msg
    <3>1. CASE toMaster'[r] = msgs
      BY <1>6, <1>10, <2>3, <3>1, Appended
    <3>2. CASE toMaster'[r] = Append(msgs, Completed)
      <4>1. /\ DOMAIN Append(msgs, Completed) = 1 .. 2 /\ Append(msgs, Completed)[2] = Completed
            /\ Append(msgs, Completed)[1] = msgs[1]
        <5>1. /\ DOMAIN Append(msgs, Completed) = 1 .. Len(msgs) + 1
              /\ \A k \in 1 .. Len(msgs) : Append(msgs, Completed)[k] = msgs[k]
              /\ Append(msgs, Completed)[Len(msgs) + 1] = Completed
          BY <1>6, <2>1, Appended
        <5> QED
          BY <2>3, <5>1
      <4> QED
        BY <1>10, <2>1, <2>3, <3>2, <4>1
    <3> QED
      BY <2>2, <3>1, <3>2
  <2> QED
    BY <1>6, <2>4
<1>11. ASSUME NEW b \in Nat, BeginBlock <= b, b < last
       PROVE  b \in Unread(r)'
  BY <1>3, <1>4, <1>5, <1>8, <1>11 DEF Span
<1> QED
  BY <1>7, <1>8, <1>9, <1>10, <1>11

\* Receiving anything but a range.
LEMMA OtherMessageStep ==
    ASSUME TypeOK, TypeOK', NEW r \in Readers, toReader[r] # <<>>,
           Head(toReader[r]).event # "new_range", toReader' = [toReader EXCEPT ![r] = Tail(@)]
    PROVE  /\ \A q \in Readers : q # r => toReader'[q] = toReader[q]
           /\ InFlight(r)' = InFlight(r) /\ (HasNewRange(r)' <=> HasNewRange(r))
           /\ (\A i, j \in DOMAIN toReader[r] :
                 toReader[r][i].event = "new_range" /\ toReader[r][j].event = "new_range" => i = j)
              => \A i, j \in DOMAIN toReader'[r] :
                 toReader'[r][i].event = "new_range" /\ toReader'[r][j].event = "new_range" => i = j
<1>1. /\ toReader[r] \in Seq(ReaderMsgs) /\ toReader'[r] = Tail(toReader[r])
      /\ \A q \in Readers : q # r => toReader'[q] = toReader[q]
  BY DEF TypeOK
<1>2. toReader[r][1].event # "new_range"
  BY <1>1, Tailed
<1>t. /\ \A i \in DOMAIN Tail(toReader[r]) :
            i \in Nat /\ i + 1 \in DOMAIN toReader[r] /\ Tail(toReader[r])[i] = toReader[r][i + 1]
      /\ \A i \in DOMAIN toReader[r] :
            i # 1 => /\ i \in Nat /\ i - 1 \in DOMAIN Tail(toReader[r])
                     /\ Tail(toReader[r])[i - 1] = toReader[r][i]
  BY <1>1, Tailed
<1>3. \A i \in DOMAIN toReader'[r] : /\ i \in Nat /\ i + 1 \in DOMAIN toReader[r]
                                     /\ toReader'[r][i] = toReader[r][i + 1]
  BY <1>1, <1>t
<1>4. \A i \in DOMAIN toReader[r] : i # 1 => /\ i \in Nat /\ i - 1 \in DOMAIN toReader'[r]
                                             /\ toReader'[r][i - 1] = toReader[r][i]
  BY <1>1, <1>t
<1>5. HasNewRange(r)' <=> HasNewRange(r)
  <2>1. ASSUME NEW i \in DOMAIN toReader'[r], toReader'[r][i].event = "new_range"
        PROVE  HasNewRange(r)
    BY <1>3, <2>1 DEF HasNewRange
  <2>2. ASSUME NEW i \in DOMAIN toReader[r], toReader[r][i].event = "new_range"
        PROVE  HasNewRange(r)'
    BY <1>2, <1>4, <2>2 DEF HasNewRange
  <2> QED
    BY <2>1, <2>2 DEF HasNewRange
<1>6. ASSUME NEW x PROVE x \in InFlight(r)' <=> x \in InFlight(r)
  <2>1. ASSUME NEW i \in DOMAIN toReader'[r], toReader'[r][i].event = "new_range",
               toReader'[r][i].range = x
        PROVE  x \in InFlight(r)
    BY <1>3, <2>1, InFlightIs
  <2>2. ASSUME NEW i \in DOMAIN toReader[r], toReader[r][i].event = "new_range",
               toReader[r][i].range = x
        PROVE  x \in InFlight(r)'
    <3>1. i - 1 \in DOMAIN toReader'[r] /\ toReader'[r][i - 1] = toReader[r][i]
      BY <1>2, <1>4, <2>2
    <3> QED
      BY <2>2, <3>1 DEF InFlight
  <2>3. x \in InFlight(r)' => \E i \in DOMAIN toReader'[r] :
                                toReader'[r][i].event = "new_range" /\ toReader'[r][i].range = x
    BY DEF InFlight
  <2> QED
    BY <2>1, <2>2, <2>3, InFlightIs
<1>7. InFlight(r)' = InFlight(r)
  BY <1>6
<1>8. ASSUME \A i, j \in DOMAIN toReader[r] :
                toReader[r][i].event = "new_range" /\ toReader[r][j].event = "new_range" => i = j,
             NEW i \in DOMAIN toReader'[r], NEW j \in DOMAIN toReader'[r],
             toReader'[r][i].event = "new_range", toReader'[r][j].event = "new_range"
      PROVE  i = j
  <2>1. i + 1 = j + 1 /\ i \in Nat /\ j \in Nat
    BY <1>3, <1>8
  <2> QED
    BY <2>1
<1> QED
  BY <1>1, <1>5, <1>7, <1>8

LEMMA ReceivePauseStep ==
    ASSUME TypeOK, TypeOK', NEW r \in Readers, Sound(r), ReceivePause(r)
    PROVE  StepOf(r) /\ Sound(r)' /\ Keeps(r)
<1> USE DEF streamVars, ipcVars, masterVars
<1>1. /\ Alive(r) /\ toReader[r] # <<>> /\ Head(toReader[r]).event = "pause"
      /\ toReader' = [toReader EXCEPT ![r] = Tail(@)]
      /\ UNCHANGED <<proc, job, nextBlock, count, unconf, toMaster, inMap, relaunches, settled>>
  BY DEF ReceivePause
<1>2. /\ \A q \in Readers : q # r => toReader'[q] = toReader[q]
      /\ InFlight(r)' = InFlight(r) /\ (HasNewRange(r)' <=> HasNewRange(r))
      /\ \A i, j \in DOMAIN toReader'[r] :
            toReader'[r][i].event = "new_range" /\ toReader'[r][j].event = "new_range" => i = j
  BY <1>1, OtherMessageStep DEF Sound
<1>3. StepOf(r)
  BY <1>1, <1>2 DEF StepOf, Same, TypeOK
<1>4. Sound(r)'
  <2>1. HasCompleted(r)' = HasCompleted(r) /\ Spent(r)' = Spent(r) /\ Alive(r)' = Alive(r)
    BY <1>1 DEF HasCompleted, Spent, Alive
  <2>2. proc[r] \notin {"dead", "down"}
    BY <1>1 DEF Alive
  <2> QED
    BY <1>1, <1>2, <2>1, <2>2 DEF Sound
<1>5. Keeps(r)
  <2>1. Unread(r)' = Unread(r) /\ unconf'[r] = unconf[r]
    BY <1>1 DEF Unread
  <2> QED
    BY <1>2, <2>1, RemainingIs, RemainingIsPrimed DEF Keeps
<1> QED
  BY <1>3, <1>4, <1>5

LEMMA ReceiveResumeStep ==
    ASSUME TypeOK, TypeOK', NEW r \in Readers, Sound(r), ReceiveResume(r)
    PROVE  StepOf(r) /\ Sound(r)' /\ Keeps(r)
<1> USE DEF streamVars, ipcVars, masterVars
<1>1. /\ Alive(r) /\ toReader[r] # <<>> /\ Head(toReader[r]).event = "resume"
      /\ toReader' = [toReader EXCEPT ![r] = Tail(@)]
      /\ IF proc[r] = "pending"
         THEN /\ proc' = [proc EXCEPT ![r] = "streaming"]
              /\ nextBlock' = [nextBlock EXCEPT ![r] = job[r].first]
         ELSE UNCHANGED <<proc, nextBlock>>
      /\ UNCHANGED <<job, count, unconf, toMaster, inMap, relaunches, settled>>
  BY DEF ReceiveResume, HoldsRequest
<1>2. /\ \A q \in Readers : q # r => toReader'[q] = toReader[q]
      /\ InFlight(r)' = InFlight(r) /\ (HasNewRange(r)' <=> HasNewRange(r))
      /\ \A i, j \in DOMAIN toReader'[r] :
            toReader'[r][i].event = "new_range" /\ toReader'[r][j].event = "new_range" => i = j
  BY <1>1, OtherMessageStep DEF Sound
<1>3. CASE proc[r] # "pending"
  <2>1. UNCHANGED <<proc, nextBlock>>
    BY <1>1, <1>3
  <2>2. StepOf(r)
    BY <1>1, <1>2, <2>1 DEF StepOf, Same, TypeOK
  <2>3. HasCompleted(r)' = HasCompleted(r) /\ Spent(r)' = Spent(r) /\ Alive(r)' = Alive(r)
    BY <1>1, <2>1 DEF HasCompleted, Spent, Alive
  <2>4. proc[r] \notin {"dead", "down"}
    BY <1>1 DEF Alive
  <2>5. Sound(r)'
    BY <1>1, <1>2, <2>1, <2>3, <2>4 DEF Sound
  <2>6. Unread(r)' = Unread(r) /\ unconf'[r] = unconf[r]
    BY <1>1, <2>1 DEF Unread
  <2> QED
    BY <1>2, <2>2, <2>5, <2>6, RemainingIs, RemainingIsPrimed DEF Keeps
<1>4. CASE proc[r] = "pending"
  <2>1. /\ proc'[r] = "streaming" /\ nextBlock'[r] = job[r].first
        /\ \A q \in Readers : q # r => proc'[q] = proc[q] /\ nextBlock'[q] = nextBlock[q]
    BY <1>1, <1>4 DEF TypeOK
  <2>2. StepOf(r)
    BY <1>1, <1>2, <2>1 DEF StepOf, Same, TypeOK
  <2>3. /\ HasCompleted(r)' = HasCompleted(r) /\ count[r] = 0
        /\ job[r].first \in Nat /\ job[r].last \in Nat
    BY <1>1, <1>4 DEF HasCompleted, Sound, TypeOK
  <2>4. Spent(r) => Spent(r)'
    BY <1>1, <1>4, <2>1, <2>3 DEF Spent, Empty
  <2>5. nextBlock'[r] = job'[r].first + count'[r]
    BY <1>1, <2>1, <2>3
  <2>6. (HasCompleted(r)' \/ HasNewRange(r)') => Spent(r)'
    BY <1>1, <1>2, <2>3, <2>4 DEF Sound
  <2>7. /\ \A i \in DOMAIN toMaster'[r] : toMaster'[r][i].event = "completed" => i = Len(toMaster'[r])
        /\ HasCompleted(r)' => ~HasNewRange(r)'
    BY <1>1, <1>2, <2>3 DEF Sound
  <2>8. Sound(r)'
    BY <1>2, <2>1, <2>5, <2>6, <2>7 DEF Sound
  <2>9. Unread(r)' = Unread(r) /\ unconf'[r] = unconf[r]
    BY <1>1, <1>4, <2>1 DEF Unread, Span
  <2> QED
    BY <1>2, <2>2, <2>8, <2>9, RemainingIs, RemainingIsPrimed DEF Keeps
<1> QED
  BY <1>3, <1>4

\* A process that exits gets its first range back, whatever it was reading.
LEMMA ExitStep ==
    ASSUME TypeOK, TypeOK', NEW r \in Readers, Sound(r), Exit(r)
    PROVE  /\ StepOf(r) /\ Sound(r)'
           /\ \A b \in Nat : b \in Span(EnvRange(r)) => b \in Remaining(r)'
<1> USE DEF streamVars, ipcVars, masterVars
<1>1. /\ unconf' = [unconf EXCEPT ![r] = {}] /\ proc' = [proc EXCEPT ![r] = "dead"]
      /\ toReader' = [toReader EXCEPT ![r] = <<>>] /\ settled \subseteq settled'
      /\ UNCHANGED <<job, nextBlock, count, toMaster, inMap, relaunches>>
  BY DEF Exit
<1>2. /\ unconf'[r] = {} /\ proc'[r] = "dead" /\ toReader'[r] = <<>>
      /\ \A q \in Readers : q # r => /\ unconf'[q] = unconf[q] /\ proc'[q] = proc[q]
                                     /\ toReader'[q] = toReader[q]
  BY <1>1 DEF TypeOK
<1>3. StepOf(r)
  BY <1>1, <1>2 DEF StepOf, Same, TypeOK
<1>4. ~HasNewRange(r)' /\ ~Alive(r)'
  BY <1>2 DEF HasNewRange, Alive
<1>5. Sound(r)'
  BY <1>1, <1>2, <1>4 DEF Sound
<1>6. \A b \in Nat : b \in Span(EnvRange(r)) => b \in Unread(r)'
  BY <1>2 DEF Unread
<1> QED
  BY <1>3, <1>5, <1>6, RemainingIsPrimed

-----------------------------------------------------------------------------
(* The steps of the master *)

\* The master hears the first message of a reader.
LEMMA HearsStep ==
    ASSUME TypeOK, NEW r \in Readers, NEW event, FromReader(r, event)
    PROVE  /\ toMaster[r] # <<>> /\ 1 \in DOMAIN toMaster[r] /\ toMaster[r][1].event = event
           /\ Head(toMaster[r]) = toMaster[r][1]
           /\ \A q \in Readers : q # r => toMaster'[q] = toMaster[q]
           /\ Len(toMaster'[r]) = Len(toMaster[r]) - 1 /\ Len(toMaster[r]) \in Nat
           /\ DOMAIN toMaster'[r] = 1 .. Len(toMaster'[r])
           /\ \A i \in DOMAIN toMaster'[r] : /\ i \in Nat /\ i + 1 \in DOMAIN toMaster[r]
                                             /\ toMaster'[r][i] = toMaster[r][i + 1]
<1>1. /\ toMaster[r] # <<>> /\ Head(toMaster[r]).event = event
      /\ toMaster' = [toMaster EXCEPT ![r] = Tail(@)]
  BY DEF FromReader
<1>2. /\ toMaster[r] \in Seq(MasterMsgs) /\ toMaster'[r] = Tail(toMaster[r])
      /\ \A q \in Readers : q # r => toMaster'[q] = toMaster[q]
  BY <1>1 DEF TypeOK
<1>3. /\ Tail(toMaster[r]) \in Seq(MasterMsgs) /\ Len(Tail(toMaster[r])) = Len(toMaster[r]) - 1
      /\ Head(toMaster[r]) = toMaster[r][1] /\ 1 \in DOMAIN toMaster[r]
      /\ \A i \in DOMAIN Tail(toMaster[r]) :
            i \in Nat /\ i + 1 \in DOMAIN toMaster[r] /\ Tail(toMaster[r])[i] = toMaster[r][i + 1]
  BY <1>1, <1>2, Tailed
<1>4. Len(toMaster[r]) \in Nat /\ DOMAIN Tail(toMaster[r]) = 1 .. Len(Tail(toMaster[r]))
  BY <1>2, <1>3
<1> QED
  BY <1>1, <1>2, <1>3, <1>4

\* What a reader said and the master has not heard stays in order.
LEMMA HeardSound ==
    ASSUME TypeOK, NEW r \in Readers, Sound(r), NEW event, FromReader(r, event),
           proc'[r] = proc[r], job'[r] = job[r], nextBlock'[r] = nextBlock[r],
           count'[r] = count[r], unconf'[r] = unconf[r], toReader'[r] = toReader[r]
    PROVE  Sound(r)'
<1>1. /\ toMaster[r] # <<>> /\ Len(toMaster'[r]) = Len(toMaster[r]) - 1 /\ Len(toMaster[r]) \in Nat
      /\ \A i \in DOMAIN toMaster'[r] : /\ i \in Nat /\ i + 1 \in DOMAIN toMaster[r]
                                        /\ toMaster'[r][i] = toMaster[r][i + 1]
  BY HearsStep
<1>2. proc[r] # "starting" /\ proc[r] # "down"
  BY <1>1 DEF Sound
<1>3. ASSUME NEW i \in DOMAIN toMaster'[r], toMaster'[r][i].event = "completed"
      PROVE  i = Len(toMaster'[r])
  <2>1. i \in Nat /\ i + 1 = Len(toMaster[r])
    BY <1>1, <1>3 DEF Sound
  <2> QED
    BY <1>1, <2>1
<1>4. HasCompleted(r)' => HasCompleted(r)
  BY <1>1 DEF HasCompleted
<1>5. /\ (HasNewRange(r)' <=> HasNewRange(r)) /\ (Alive(r)' <=> Alive(r))
      /\ (Spent(r)' <=> Spent(r))
  BY DEF HasNewRange, Alive, Spent
<1> QED
  BY <1>2, <1>3, <1>4, <1>5 DEF Sound

\* The master has been told to assign up to a block past b.
Announced(q, b) ==
    \E i \in DOMAIN toMaster[q] :
        toMaster[q][i].event = "update_last_assigned_block" /\ b < toMaster[q][i].block_num

LEMMA HeardAnnounced ==
    ASSUME TypeOK, NEW r \in Readers, NEW event, FromReader(r, event), NEW q \in Readers, NEW b,
           Announced(q, b)'
    PROVE  Announced(q, b)
<1>1. /\ \A p \in Readers : p # r => toMaster'[p] = toMaster[p]
      /\ \A i \in DOMAIN toMaster'[r] : /\ i \in Nat /\ i + 1 \in DOMAIN toMaster[r]
                                        /\ toMaster'[r][i] = toMaster[r][i + 1]
  BY HearsStep
<1>2. CASE q = r
  BY <1>1, <1>2 DEF Announced
<1>3. CASE q # r
  BY <1>1, <1>3 DEF Announced
<1> QED
  BY <1>2, <1>3

\* A completion announces nothing.
LEMMA AppendedAnnounced ==
    ASSUME TypeOK, NEW r \in Readers,
           toMaster'[r] = toMaster[r] \/ toMaster'[r] = Append(toMaster[r], Completed),
           NEW b, Announced(r, b)'
    PROVE  Announced(r, b)
<1>1. CASE toMaster'[r] = toMaster[r]
  BY <1>1 DEF Announced
<1>2. CASE toMaster'[r] = Append(toMaster[r], Completed)
  <2>1. toMaster[r] \in Seq(MasterMsgs) /\ Completed \in MasterMsgs
    BY MessageTypes DEF TypeOK
  <2>2. /\ DOMAIN toMaster[r] = 1 .. Len(toMaster[r]) /\ Len(toMaster[r]) \in Nat
        /\ DOMAIN toMaster'[r] = 1 .. Len(toMaster[r]) + 1
        /\ \A i \in 1 .. Len(toMaster[r]) : toMaster'[r][i] = toMaster[r][i]
        /\ toMaster'[r][Len(toMaster[r]) + 1] = Completed
    BY <1>2, <2>1, Appended
  <2>3. PICK i \in DOMAIN toMaster'[r] : /\ toMaster'[r][i].event = "update_last_assigned_block"
                                         /\ b < toMaster'[r][i].block_num
    BY DEF Announced
  <2>4. Completed.event = "completed"
    BY DEF Completed
  <2>5. i # Len(toMaster[r]) + 1
    BY <2>2, <2>3, <2>4
  <2>6. i \in DOMAIN toMaster[r] /\ toMaster'[r][i] = toMaster[r][i]
    BY <2>2, <2>5
  <2> QED
    BY <2>3, <2>6 DEF Announced
<1> QED
  BY <1>1, <1>2

-----------------------------------------------------------------------------
(* The inductive invariant *)

\* The master keeps all of its readers until the back-fill ends, kills none before,
\* and has armed a timer for each one that is down.
Managed ==
    /\ inMap \in {Readers, {}}
    /\ doomed # {} => inMap = {}
    /\ inMap # {} /\ crashes = 0 => \A r \in Readers : Alive(r)
    /\ inMap # {} /\ ~stopping => \A r \in Readers : proc[r] = "down" => relaunches > 0

\* The master has assigned b, or a reader tells it that it has.
Owed(b) == b < lastAssigned \/ \E r \in Readers : Announced(r, b)

Covered(b) == b \in settled \/ \E r \in Readers : b \in Remaining(r)

\* Without a crash, a block that SHIP has and the master owes is covered.
AssignedCovered ==
    inMap # {} /\ crashes = 0 =>
        \A b \in Nat : Start <= b /\ BeginBlock <= b /\ b < HeadBlock /\ Owed(b) => Covered(b)

\* Whatever crashed, a block of a reader's first range is settled or its own to publish.
FirstRangesCovered ==
    inMap # {} /\ ~stopping =>
        \A r \in Readers : \A b \in Nat :
            BeginBlock <= b /\ b \in Span(EnvRange(r)) => b \in settled \/ b \in Remaining(r)

CoverageInv ==
    /\ \A r \in Readers : Sound(r)
    /\ Managed /\ AssignedCovered /\ FirstRangesCovered

\* Coverage stays while no reader loses anything and nothing new is owed.
LEMMA AssignedKept ==
    ASSUME AssignedCovered, UNCHANGED ship, settled \subseteq settled',
           inMap' # {} /\ crashes' = 0 =>
              /\ inMap # {} /\ crashes = 0
              /\ \A q \in Readers : Keeps(q)
              /\ \A b \in Nat : Start <= b /\ BeginBlock <= b /\ b < HeadBlock /\ Owed(b)' =>
                                Owed(b) \/ Covered(b)'
    PROVE  AssignedCovered'
<1> SUFFICES ASSUME inMap' # {}, crashes' = 0, NEW b \in Nat,
                    Start <= b, BeginBlock <= b, b < HeadBlock, Owed(b)'
             PROVE  Covered(b)'
  BY DEF AssignedCovered, BeginBlock
<1>1. Owed(b) \/ Covered(b)'
  OBVIOUS
<1>2. CASE Owed(b)
  <2>1. Covered(b)
    BY <1>2 DEF AssignedCovered
  <2>2. ASSUME NEW q \in Readers, b \in Remaining(q) PROVE Covered(b)'
    BY <2>2 DEF Keeps, Covered
  <2> QED
    BY <2>1, <2>2 DEF Covered
<1> QED
  BY <1>1, <1>2

LEMMA FirstRangesKept ==
    ASSUME FirstRangesCovered, UNCHANGED ship, settled \subseteq settled',
           inMap' # {} /\ ~stopping' =>
              /\ inMap # {} /\ ~stopping
              /\ \A q \in Readers :
                    Keeps(q) \/ \A b \in Nat : b \in Span(EnvRange(q)) => b \in Remaining(q)'
    PROVE  FirstRangesCovered'
<1> SUFFICES ASSUME inMap' # {}, ~stopping', NEW r \in Readers, NEW b \in Nat,
                    BeginBlock <= b, b \in Span(EnvRange(r))
             PROVE  b \in settled' \/ b \in Remaining(r)'
  BY DEF FirstRangesCovered, BeginBlock, Span, EnvRange
<1>1. CASE Keeps(r)
  BY <1>1 DEF FirstRangesCovered, Keeps
<1>2. CASE \A c \in Nat : c \in Span(EnvRange(r)) => c \in Remaining(r)'
  BY <1>2
<1> QED
  BY <1>1, <1>2

-----------------------------------------------------------------------------
(* Every step keeps the invariant *)

\* The other readers in a step of one of them.
LEMMA OthersKept ==
    ASSUME TypeOK, TypeOK', CoverageInv, NEW r \in Readers, StepOf(r), NEW q \in Readers, q # r
    PROVE  Sound(q)' /\ Keeps(q) /\ Same(q)
<1>1. Same(q) /\ inMap' = inMap /\ relaunches \in Nat /\ relaunches' \in Nat
      /\ relaunches' >= relaunches /\ Sound(q)
  BY DEF StepOf, CoverageInv, TypeOK
<1> QED
  BY <1>1, SameSound, SameKeeps

\* A step of a reader that lives on.
LEMMA ReaderKeepsInv ==
    ASSUME TypeOK, TypeOK', CoverageInv, NEW r \in Readers, StepOf(r), Sound(r)', Keeps(r),
           Alive(r)', UNCHANGED <<ship, lastAssigned, stopping, doomed, crashes>>,
           \A b \in Nat : BeginBlock <= b /\ Announced(r, b)' =>
                             Announced(r, b) \/ b \in Remaining(r)'
    PROVE  CoverageInv'
<1>1. \A q \in Readers : Sound(q)' /\ Keeps(q)
  BY OthersKept
<1>2. \A q \in Readers : q # r => toMaster'[q] = toMaster[q] /\ proc'[q] = proc[q]
  BY DEF StepOf, Same
<1>3. inMap' = inMap /\ settled \subseteq settled' /\ relaunches' >= relaunches
      /\ relaunches' \in Nat /\ relaunches \in Nat
  BY DEF StepOf, TypeOK
<1>4. Managed'
  <2>1. \A q \in Readers : (Alive(q) => Alive(q)') /\ (proc'[q] = "down" => proc[q] = "down")
    BY <1>2 DEF Alive
  <2> QED
    BY <1>3, <2>1 DEF Managed, CoverageInv
<1>5. ASSUME NEW b \in Nat, BeginBlock <= b, Owed(b)'
      PROVE  Owed(b) \/ Covered(b)'
  <2>1. CASE b < lastAssigned'
    BY <2>1 DEF Owed
  <2>2. ASSUME NEW q \in Readers, Announced(q, b)'
        PROVE  Owed(b) \/ Covered(b)'
    <3>1. CASE q = r
      BY <1>5, <2>2, <3>1 DEF Owed, Covered
    <3>2. CASE q # r
      <4>1. Announced(q, b)
        BY <1>2, <2>2, <3>2 DEF Announced
      <4> QED
        BY <4>1 DEF Owed
    <3> QED
      BY <3>1, <3>2
  <2> QED
    BY <1>5, <2>1, <2>2 DEF Owed
<1>6. AssignedCovered'
  BY <1>1, <1>3, <1>5, AssignedKept DEF CoverageInv
<1>7. FirstRangesCovered'
  BY <1>1, <1>3, FirstRangesKept DEF CoverageInv
<1> QED
  BY <1>1, <1>4, <1>6, <1>7 DEF CoverageInv

LEMMA ReaderStepKeepsInv ==
    ASSUME TypeOK, TypeOK', CoverageInv, NEW r \in Readers, ReaderStep(r)
    PROVE  CoverageInv'
<1> USE DEF streamVars, ipcVars, masterVars
<1>0. Sound(r) /\ toMaster[r] \in Seq(MasterMsgs)
  BY DEF CoverageInv, TypeOK
<1>1. CASE RequestFirstRange(r)
  <2>1. StepOf(r) /\ Sound(r)' /\ Keeps(r)
    BY <1>0, <1>1, RequestFirstRangeStep
  <2>2. UNCHANGED <<ship, lastAssigned, stopping, doomed, crashes, toMaster>> /\ proc'[r] = "streaming"
    BY <1>1 DEF RequestFirstRange, TypeOK
  <2>3. \A b : Announced(r, b)' => Announced(r, b)
    BY <2>2 DEF Announced
  <2> QED
    BY <2>1, <2>2, <2>3, ReaderKeepsInv DEF Alive
<1>2. CASE SkipToShipBegin(r)
  <2>1. /\ StepOf(r) /\ Sound(r)' /\ Keeps(r)
        /\ \A i \in DOMAIN toMaster'[r] : toMaster'[r][i].event = "update_last_assigned_block" =>
              \A b \in Nat : BeginBlock <= b /\ b < toMaster'[r][i].block_num => b \in Unread(r)'
    BY <1>0, <1>2, SkipToShipBeginStep
  <2>2. UNCHANGED <<ship, lastAssigned, stopping, doomed, crashes>>
    BY <1>2 DEF SkipToShipBegin
  <2>3. \A b \in Nat : BeginBlock <= b /\ Announced(r, b)' => b \in Remaining(r)'
    BY <2>1, RemainingIsPrimed DEF Announced
  <2>4. proc'[r] \in {"streaming", "pending"}
    BY <1>2 DEF SkipToShipBegin, TakeRange, TypeOK
  <2> QED
    BY <2>1, <2>2, <2>3, <2>4, ReaderKeepsInv DEF Alive
<1>3. CASE DistributeBlock(r)
  <2>1. StepOf(r) /\ Sound(r)' /\ Keeps(r)
    BY <1>0, <1>3, DistributeBlockStep
  <2>2. UNCHANGED <<ship, lastAssigned, stopping, doomed, crashes, toMaster>>
    BY <1>3 DEF DistributeBlock
  <2>3. \A b : Announced(r, b)' => Announced(r, b)
    BY <2>2 DEF Announced
  <2>4. proc'[r] \in {"streaming", "completing"}
    BY <1>3 DEF DistributeBlock, TypeOK
  <2> QED
    BY <2>1, <2>2, <2>3, <2>4, ReaderKeepsInv DEF Alive
<1>4. CASE ConfirmBlock(r)
  <2>1. StepOf(r) /\ Sound(r)' /\ Keeps(r)
    BY <1>0, <1>4, ConfirmBlockStep
  <2>2. UNCHANGED <<ship, lastAssigned, stopping, doomed, crashes, toMaster, proc>> /\ Alive(r)
    BY <1>4 DEF ConfirmBlock
  <2>3. \A b : Announced(r, b)' => Announced(r, b)
    BY <2>2 DEF Announced
  <2> QED
    BY <2>1, <2>2, <2>3, ReaderKeepsInv DEF Alive
<1>5. CASE ReportCompletion(r)
  <2>1. StepOf(r) /\ Sound(r)' /\ Keeps(r)
    BY <1>0, <1>5, ReportCompletionStep
  <2>2. UNCHANGED <<ship, lastAssigned, stopping, doomed, crashes>> /\ proc'[r] = "idle"
        /\ toMaster'[r] = Append(toMaster[r], Completed)
    BY <1>5 DEF ReportCompletion, TypeOK
  <2>3. \A b : Announced(r, b)' => Announced(r, b)
    BY <2>2, AppendedAnnounced
  <2> QED
    BY <2>1, <2>2, <2>3, ReaderKeepsInv DEF Alive
<1>6. CASE ReceiveNewRange(r)
  <2> DEFINE x == Head(toReader[r]).range
  <2>1. StepOf(r) /\ Sound(r)' /\ Keeps(r)
    BY <1>0, <1>6, ReceiveNewRangeStep
  <2>2. UNCHANGED <<ship, lastAssigned, stopping, doomed, crashes>> /\ TakeRange(r, x, <<>>)
    BY <1>6 DEF ReceiveNewRange
  <2>3. x \in Ranges
    BY <1>6, HeadIsRange
  <2> HIDE DEF x
  <2>4. /\ proc'[r] \in {"streaming", "pending"}
        /\ \/ toMaster'[r] = toMaster[r] \o <<>>
           \/ toMaster'[r] = Append(toMaster[r] \o <<>>, Completed)
    <3>1. <<>> \in Seq(MasterMsgs)
      OBVIOUS
    <3> QED
      BY <2>2, <2>3, <3>1, TakeRangeIs
  <2>5. toMaster[r] \o <<>> = toMaster[r]
    BY <1>0
  <2>6. \A b : Announced(r, b)' => Announced(r, b)
    BY <2>4, <2>5, AppendedAnnounced
  <2> QED
    BY <2>1, <2>2, <2>4, <2>6, ReaderKeepsInv DEF Alive
<1>7. CASE ReceivePause(r)
  <2>1. StepOf(r) /\ Sound(r)' /\ Keeps(r)
    BY <1>0, <1>7, ReceivePauseStep
  <2>2. UNCHANGED <<ship, lastAssigned, stopping, doomed, crashes, toMaster, proc>> /\ Alive(r)
    BY <1>7 DEF ReceivePause
  <2>3. \A b : Announced(r, b)' => Announced(r, b)
    BY <2>2 DEF Announced
  <2> QED
    BY <2>1, <2>2, <2>3, ReaderKeepsInv DEF Alive
<1>8. CASE ReceiveResume(r)
  <2>1. StepOf(r) /\ Sound(r)' /\ Keeps(r)
    BY <1>0, <1>8, ReceiveResumeStep
  <2>2. UNCHANGED <<ship, lastAssigned, stopping, doomed, crashes, toMaster>> /\ Alive(r)
    BY <1>8 DEF ReceiveResume
  <2>3. \A b : Announced(r, b)' => Announced(r, b)
    BY <2>2 DEF Announced
  <2>4. proc'[r] \in {"streaming", proc[r]}
    BY <1>8 DEF ReceiveResume, TypeOK
  <2> QED
    BY <2>1, <2>2, <2>3, <2>4, ReaderKeepsInv DEF Alive
<1> QED
  BY <1>1, <1>2, <1>3, <1>4, <1>5, <1>6, <1>7, <1>8 DEF ReaderStep

LEMMA ExitKeepsInv ==
    ASSUME TypeOK, TypeOK', CoverageInv, NEW r \in Readers, Exit(r)
    PROVE  CoverageInv'
<1> USE DEF streamVars, ipcVars, masterVars
<1>1. /\ StepOf(r) /\ Sound(r)'
      /\ \A b \in Nat : b \in Span(EnvRange(r)) => b \in Remaining(r)'
  BY ExitStep DEF CoverageInv
<1>2. UNCHANGED <<ship, lastAssigned, stopping, doomed, inMap>> /\ crashes \in Nat
      /\ (r \in doomed \/ crashes' = crashes + 1) /\ proc'[r] = "dead"
  BY DEF Exit, TypeOK
<1>3. \A q \in Readers : q # r => Sound(q)' /\ Keeps(q) /\ Same(q)
  BY <1>1, OthersKept
<1>4. inMap' # {} => crashes' # 0
  BY <1>2 DEF Managed, CoverageInv
<1>5. settled \subseteq settled' /\ relaunches' >= relaunches /\ relaunches' \in Nat /\ relaunches \in Nat
  BY <1>1 DEF StepOf, TypeOK
<1>6. Managed'
  <2>1. \A q \in Readers : proc'[q] = "down" => proc[q] = "down"
    BY <1>2, <1>3 DEF Same
  <2> QED
    BY <1>2, <1>4, <1>5, <2>1 DEF Managed, CoverageInv
<1>7. AssignedCovered'
  BY <1>4 DEF AssignedCovered
<1>8. FirstRangesCovered'
  BY <1>1, <1>2, <1>3, <1>5, FirstRangesKept DEF CoverageInv
<1> QED
  BY <1>1, <1>3, <1>6, <1>7, <1>8 DEF CoverageInv

\* Where nothing changes but the master's own state.
LEMMA AllSame ==
    ASSUME TypeOK, TypeOK', CoverageInv, UNCHANGED <<proc, streamVars, toReader>>,
           NEW q \in Readers, toMaster'[q] = toMaster[q]
    PROVE  Same(q) /\ Sound(q)'
<1>1. Same(q)
  BY DEF Same, streamVars
<1> QED
  BY <1>1, SameSound DEF CoverageInv

\* The master hears a reader and moves nothing else of the readers.
LEMMA HeardKeeps ==
    ASSUME TypeOK, TypeOK', CoverageInv, NEW r \in Readers, NEW event, FromReader(r, event),
           UNCHANGED <<proc, streamVars, toReader>>, NEW q \in Readers
    PROVE  /\ Sound(q)'
           /\ UNCHANGED <<inMap, relaunches, settled>> => Keeps(q)
<1>1. \A p \in Readers : p # r => toMaster'[p] = toMaster[p]
  BY HearsStep
<1>2. Sound(q)'
  <2>1. CASE q = r
    BY <2>1, HeardSound DEF CoverageInv, streamVars
  <2>2. CASE q # r
    BY <1>1, <2>2, AllSame
  <2> QED
    BY <2>1, <2>2
<1>3. ASSUME UNCHANGED <<inMap, relaunches, settled>> PROVE Keeps(q)
  <2>1. InFlight(q)' = InFlight(q) /\ Unread(q)' = Unread(q) /\ unconf'[q] = unconf[q]
    BY <1>3 DEF InFlight, Unread, streamVars
  <2> QED
    BY <2>1, RemainingIs, RemainingIsPrimed DEF Keeps
<1> QED
  BY <1>2, <1>3

LEMMA FinishKeepsInv ==
    ASSUME TypeOK, TypeOK', CoverageInv, NEW r \in Readers, FinishReaders(r)
    PROVE  CoverageInv'
<1>1. /\ FromReader(r, "completed") /\ inMap' = {}
      /\ UNCHANGED <<proc, streamVars, toReader>>
  BY DEF FinishReaders
<1>2. \A q \in Readers : Sound(q)'
  BY <1>1, HeardKeeps
<1>3. Managed' /\ AssignedCovered' /\ FirstRangesCovered'
  BY <1>1 DEF Managed, AssignedCovered, FirstRangesCovered
<1> QED
  BY <1>2, <1>3 DEF CoverageInv

LEMMA RetireKeepsInv ==
    ASSUME TypeOK, TypeOK', CoverageInv, NEW r \in Readers, RetireReader(r)
    PROVE  CoverageInv'
<1>1. /\ FromReader(r, "completed")
      /\ UNCHANGED <<proc, streamVars, toReader>>
      /\ UNCHANGED <<inMap, relaunches, settled>>
      /\ UNCHANGED <<ship, lastAssigned, stopping, doomed, crashes>>
  BY DEF RetireReader
<1>2. \A q \in Readers : Sound(q)' /\ Keeps(q)
  BY <1>1, HeardKeeps
<1>3. Managed'
  BY <1>1 DEF Managed, CoverageInv, Alive
<1>4. ASSUME NEW b \in Nat, Owed(b)' PROVE Owed(b)
  BY <1>1, <1>4, HeardAnnounced DEF Owed
<1>5. AssignedCovered' /\ FirstRangesCovered'
  BY <1>1, <1>2, <1>4, AssignedKept, FirstRangesKept DEF CoverageInv
<1> QED
  BY <1>2, <1>3, <1>5 DEF CoverageInv

LEMMA MoveKeepsInv ==
    ASSUME TypeOK, TypeOK', CoverageInv, NEW r \in Readers, MoveAssignment(r)
    PROVE  CoverageInv'
<1>1. /\ FromReader(r, "update_last_assigned_block")
      /\ lastAssigned' = Head(toMaster[r]).block_num
      /\ UNCHANGED <<proc, streamVars, toReader>>
      /\ UNCHANGED <<inMap, relaunches, settled>>
      /\ UNCHANGED <<ship, stopping, doomed, crashes>>
  BY DEF MoveAssignment
<1>2. \A q \in Readers : Sound(q)' /\ Keeps(q)
  BY <1>1, HeardKeeps
<1>3. Managed'
  BY <1>1 DEF Managed, CoverageInv, Alive
<1>4. /\ 1 \in DOMAIN toMaster[r] /\ toMaster[r][1].event = "update_last_assigned_block"
      /\ lastAssigned' = toMaster[r][1].block_num
  BY <1>1, HearsStep
<1>5. ASSUME NEW b \in Nat, Owed(b)' PROVE Owed(b)
  <2>1. CASE b < lastAssigned'
    <3>1. Announced(r, b)
      BY <1>4, <2>1 DEF Announced
    <3> QED
      BY <3>1 DEF Owed
  <2>2. ASSUME NEW q \in Readers, Announced(q, b)' PROVE Owed(b)
    BY <1>1, <2>2, HeardAnnounced DEF Owed
  <2> QED
    BY <1>5, <2>1, <2>2 DEF Owed
<1>6. AssignedCovered' /\ FirstRangesCovered'
  BY <1>1, <1>2, <1>5, AssignedKept, FirstRangesKept DEF CoverageInv
<1> QED
  BY <1>2, <1>3, <1>6 DEF CoverageInv

LEMMA DisconnectKeepsInv ==
    ASSUME TypeOK, TypeOK', CoverageInv, NEW r \in Readers, HandleDisconnect(r)
    PROVE  CoverageInv'
<1>1. /\ proc[r] = "dead" /\ toMaster[r] = <<>> /\ proc' = [proc EXCEPT ![r] = "down"]
      /\ relaunches' = IF ArmsRelaunch(r) THEN relaunches + 1 ELSE relaunches
      /\ UNCHANGED <<job, nextBlock, count, unconf, toMaster, toReader>>
      /\ UNCHANGED <<inMap, settled, ship, lastAssigned, stopping, doomed, crashes>>
  BY DEF HandleDisconnect, streamVars, ipcVars
<1>2. proc'[r] = "down" /\ \A q \in Readers : q # r => proc'[q] = proc[q]
  BY <1>1 DEF TypeOK
<1>3. relaunches \in Nat /\ relaunches' \in Nat /\ relaunches' >= relaunches
      /\ (ArmsRelaunch(r) => relaunches' > 0)
  <2>1. relaunches \in Nat /\ relaunches' \in Nat
    BY DEF TypeOK
  <2>2. CASE ArmsRelaunch(r)
    BY <1>1, <2>1, <2>2
  <2>3. CASE ~ArmsRelaunch(r)
    BY <1>1, <2>1, <2>3
  <2> QED
    BY <2>1, <2>2, <2>3
<1>4. \A q \in Readers : q # r => Same(q)
  BY <1>1, <1>2 DEF Same
<1>5. \A q \in Readers : q # r => Sound(q)' /\ Keeps(q)
  BY <1>1, <1>3, <1>4, SameSound, SameKeeps DEF CoverageInv
<1>6. Sound(r)'
  <2>1. toReader[r] = <<>> /\ unconf[r] = {}
    BY <1>1 DEF CoverageInv, Sound
  <2>2. ~HasNewRange(r)' /\ ~HasCompleted(r)' /\ ~Alive(r)'
    BY <1>1, <1>2, <2>1 DEF HasNewRange, HasCompleted, Alive
  <2> QED
    BY <1>1, <1>2, <2>1, <2>2 DEF Sound
<1>7. inMap # {} => r \in inMap /\ crashes # 0
  BY <1>1 DEF CoverageInv, Managed, Alive
<1>8. ASSUME inMap # {}, ~stopping PROVE relaunches' > 0 /\ Keeps(r)
  <2>1. r \in inMap /\ relaunches' > 0
    BY <1>3, <1>7, <1>8 DEF ArmsRelaunch
  <2>2. Unread(r)' = Unread(r) /\ InFlight(r)' = InFlight(r) /\ unconf'[r] = unconf[r]
    BY <1>1, <1>2, <2>1 DEF Unread, InFlight
  <2> QED
    BY <2>1, <2>2, RemainingIs, RemainingIsPrimed DEF Keeps
<1>9. Managed'
  BY <1>1, <1>7, <1>8 DEF Managed, CoverageInv
<1>10. AssignedCovered'
  BY <1>1, <1>7 DEF AssignedCovered
<1>11. FirstRangesCovered'
  BY <1>1, <1>5, <1>8, FirstRangesKept DEF CoverageInv
<1> QED
  BY <1>5, <1>6, <1>9, <1>10, <1>11 DEF CoverageInv

LEMMA RelaunchKeepsInv ==
    ASSUME TypeOK, TypeOK', CoverageInv, Relaunch
    PROVE  CoverageInv'
<1> DEFINE fresh == {r \in inMap : proc[r] = "down"}
<1>1. /\ proc' = [r \in Readers |-> IF r \in fresh THEN "starting" ELSE proc[r]]
      /\ job' = [r \in Readers |-> IF r \in fresh THEN RelaunchRange(r) ELSE job[r]]
      /\ nextBlock' = [r \in Readers |->
                         IF r \in fresh THEN RelaunchRange(r).first ELSE nextBlock[r]]
      /\ count' = [r \in Readers |-> IF r \in fresh THEN 0 ELSE count[r]]
      /\ UNCHANGED <<unconf, toMaster, toReader>>
      /\ UNCHANGED <<inMap, settled, ship, lastAssigned, stopping, doomed, crashes>>
  BY DEF Relaunch, ipcVars
<1>2. ASSUME NEW q \in Readers, q \notin fresh
      PROVE  Same(q) /\ Sound(q)'
  <2>1. Same(q)
    BY <1>1, <1>2 DEF Same
  <2> QED
    BY <2>1, SameSound DEF CoverageInv
<1>3. ASSUME NEW q \in Readers, q \in fresh
      PROVE  /\ proc[q] = "down" /\ proc'[q] = "starting" /\ job'[q] = EnvRange(q)
             /\ nextBlock'[q] = EnvRange(q).first /\ count'[q] = 0
             /\ toReader'[q] = <<>> /\ unconf'[q] = {} /\ toMaster'[q] = <<>>
  <2>1. proc[q] = "down"
    BY <1>3
  <2>2. toReader[q] = <<>> /\ unconf[q] = {} /\ toMaster[q] = <<>>
    BY <2>1 DEF CoverageInv, Sound
  <2> QED
    BY <1>1, <1>3, <2>1, <2>2 DEF RelaunchRange
<1> HIDE DEF fresh
<1>4. ASSUME NEW q \in Readers, q \in fresh
      PROVE  Sound(q)' /\ Keeps(q)
  <2>1. ~HasNewRange(q)' /\ ~HasCompleted(q)'
    BY <1>3, <1>4 DEF HasNewRange, HasCompleted
  <2>2. Sound(q)'
    BY <1>3, <1>4, <2>1 DEF Sound
  <2>3. /\ InFlight(q) = {} /\ unconf[q] = {}
        /\ \A b \in Nat : b \in Unread(q) => b \in Unread(q)'
    <3>1. toReader[q] = <<>> /\ unconf[q] = {}
      BY <1>1, <1>3, <1>4
    <3> QED
      BY <1>3, <1>4, <3>1 DEF InFlight, Unread
  <2> QED
    BY <2>2, <2>3, RemainingIs, RemainingIsPrimed DEF Keeps
<1>5. ASSUME inMap # {}, NEW q \in Readers PROVE Keeps(q)
  <2>1. CASE q \in fresh
    BY <1>4, <2>1
  <2>2. CASE q \notin fresh
    <3>1. proc[q] # "down"
      BY <1>5, <2>2 DEF fresh, CoverageInv, Managed
    <3> QED
      BY <1>2, <2>2, <3>1, SameKeeps
  <2> QED
    BY <2>1, <2>2
<1>6. \A q \in Readers : Sound(q)'
  BY <1>2, <1>4
<1>7. Managed'
  <2>1. ASSUME inMap # {}, NEW q \in Readers PROVE proc'[q] # "down"
    <3>1. CASE q \in fresh
      BY <1>3, <3>1
    <3>2. CASE q \notin fresh
      BY <1>2, <2>1, <3>2 DEF fresh, CoverageInv, Managed, Same
    <3> QED
      BY <3>1, <3>2
  <2>2. ASSUME inMap # {}, crashes = 0, NEW q \in Readers PROVE Alive(q)'
    <3>1. Alive(q)
      BY <2>2 DEF CoverageInv, Managed
    <3>2. proc'[q] = proc[q] \/ proc'[q] = "starting"
      BY <1>1
    <3> QED
      BY <3>1, <3>2 DEF Alive
  <2> QED
    BY <1>1, <2>1, <2>2 DEF Managed, CoverageInv
<1>8. \A b : Owed(b)' => Owed(b)
  BY <1>1 DEF Owed, Announced
<1>9. AssignedCovered' /\ FirstRangesCovered'
  BY <1>1, <1>5, <1>8, AssignedKept, FirstRangesKept DEF CoverageInv
<1> QED
  BY <1>6, <1>7, <1>9 DEF CoverageInv

\* Sending to some of the readers: those that run have one more message.
LEMMA SentIs ==
    ASSUME TypeOK, NEW to, NEW msg \in ReaderMsgs, SendTo(to, msg), NEW q \in Readers
    PROVE  /\ ~(q \in to /\ Alive(q)) => toReader'[q] = toReader[q]
           /\ q \in to /\ Alive(q) =>
                /\ DOMAIN toReader[q] = 1 .. Len(toReader[q]) /\ Len(toReader[q]) \in Nat
                /\ DOMAIN toReader'[q] = 1 .. Len(toReader[q]) + 1
                /\ \A i \in 1 .. Len(toReader[q]) : toReader'[q][i] = toReader[q][i]
                /\ toReader'[q][Len(toReader[q]) + 1] = msg
<1>1. toReader'[q] = IF q \in to /\ Alive(q) THEN Append(toReader[q], msg) ELSE toReader[q]
  BY DEF SendTo
<1>2. toReader[q] \in Seq(ReaderMsgs)
  BY DEF TypeOK
<1>3. ASSUME q \in to /\ Alive(q)
      PROVE  /\ DOMAIN toReader[q] = 1 .. Len(toReader[q]) /\ Len(toReader[q]) \in Nat
             /\ DOMAIN toReader'[q] = 1 .. Len(toReader[q]) + 1
             /\ \A i \in 1 .. Len(toReader[q]) : toReader'[q][i] = toReader[q][i]
             /\ toReader'[q][Len(toReader[q]) + 1] = msg
  <2>1. toReader'[q] = Append(toReader[q], msg)
    BY <1>1, <1>3
  <2> QED
    BY <1>2, <2>1, Appended
<1> QED
  BY <1>1, <1>3

\* A message that is no range gives the reader nothing to read.
LEMMA NoRangeSent ==
    ASSUME TypeOK, TypeOK', CoverageInv, NEW to, NEW msg \in ReaderMsgs, msg.event # "new_range",
           SendTo(to, msg), UNCHANGED <<proc, streamVars, toMaster, inMap, relaunches, settled>>,
           NEW q \in Readers
    PROVE  Sound(q)' /\ Keeps(q)
<1> USE DEF streamVars
<1>1. CASE ~(q \in to /\ Alive(q))
  <2>1. Same(q)
    BY <1>1, SentIs DEF Same
  <2> QED
    BY <2>1, SameSound, SameKeeps DEF CoverageInv
<1>2. CASE q \in to /\ Alive(q)
  <2>1. /\ DOMAIN toReader[q] = 1 .. Len(toReader[q]) /\ Len(toReader[q]) \in Nat
        /\ DOMAIN toReader'[q] = 1 .. Len(toReader[q]) + 1
        /\ \A i \in 1 .. Len(toReader[q]) : toReader'[q][i] = toReader[q][i]
        /\ toReader'[q][Len(toReader[q]) + 1] = msg
    BY <1>2, SentIs
  <2>2. ASSUME NEW i \in DOMAIN toReader'[q], toReader'[q][i].event = "new_range"
        PROVE  i \in DOMAIN toReader[q] /\ toReader'[q][i] = toReader[q][i]
    BY <2>1, <2>2
  <2>3. \A i \in DOMAIN toReader[q] : i \in DOMAIN toReader'[q] /\ toReader'[q][i] = toReader[q][i]
    BY <2>1
  <2> HIDE <2>1
  <2>4. InFlight(q)' = InFlight(q)
    BY <2>2, <2>3 DEF InFlight
  <2>5. HasNewRange(q)' <=> HasNewRange(q)
    BY <2>2, <2>3 DEF HasNewRange
  <2>6. \A i, j \in DOMAIN toReader'[q] :
            toReader'[q][i].event = "new_range" /\ toReader'[q][j].event = "new_range" => i = j
    BY <2>2 DEF CoverageInv, Sound
  <2>7. (HasCompleted(q)' <=> HasCompleted(q)) /\ (Spent(q)' <=> Spent(q)) /\ (Alive(q)' <=> Alive(q))
        /\ Unread(q)' = Unread(q)
    BY DEF HasCompleted, Spent, Alive, Unread
  <2>8. Sound(q) /\ proc[q] \notin {"dead", "down"}
    BY <1>2 DEF CoverageInv, Alive
  <2>9. Sound(q)'
    BY <2>5, <2>6, <2>7, <2>8 DEF Sound
  <2> QED
    BY <2>4, <2>7, <2>9, RemainingIs, RemainingIsPrimed DEF Keeps
<1> QED
  BY <1>1, <1>2

LEMMA PausesKeepInv ==
    ASSUME TypeOK, TypeOK', CoverageInv, PauseReaders \/ ResumeReaders
    PROVE  CoverageInv'
<1>1. /\ SendTo(inMap, Pause) \/ SendTo(inMap, Resume)
      /\ UNCHANGED <<proc, streamVars, toMaster, inMap, relaunches, settled>>
      /\ UNCHANGED <<ship, lastAssigned, stopping, doomed, crashes>>
  BY DEF PauseReaders, ResumeReaders
<1>2. /\ Pause \in ReaderMsgs /\ Pause.event # "new_range"
      /\ Resume \in ReaderMsgs /\ Resume.event # "new_range"
  BY MessageTypes DEF Pause, Resume
<1>3. \A q \in Readers : Sound(q)' /\ Keeps(q)
  BY <1>1, <1>2, NoRangeSent
<1>4. Managed'
  BY <1>1 DEF Managed, CoverageInv, Alive
<1>5. \A b : Owed(b)' => Owed(b)
  BY <1>1 DEF Owed, Announced
<1>6. AssignedCovered' /\ FirstRangesCovered'
  BY <1>1, <1>3, <1>5, AssignedKept, FirstRangesKept DEF CoverageInv
<1> QED
  BY <1>3, <1>4, <1>6 DEF CoverageInv

\* The reader that reported completion gets the blocks that follow the mark.
LEMMA AssignKeepsInv ==
    ASSUME TypeOK, TypeOK', CoverageInv, NEW r \in Readers, AssignNextRange(r)
    PROVE  CoverageInv'
<1> USE DEF streamVars
<1> DEFINE x == NextRange
           msg == NewRange(x)
<1>1. /\ FromReader(r, "completed") /\ SendTo({r}, msg) /\ lastAssigned' = x.last
      /\ UNCHANGED <<proc, job, nextBlock, count, unconf, inMap, relaunches, settled>>
      /\ UNCHANGED <<ship, stopping, doomed, crashes>>
  BY DEF AssignNextRange, MarkAssigned
<1>2. /\ x \in Ranges /\ x.first = lastAssigned /\ x.last \in Nat /\ lastAssigned \in Nat
      /\ x.last <= HeadBlock
  <2>1. lastAssigned \in Nat
    BY DEF TypeOK
  <2> QED
    BY <2>1, NextRangeType DEF NextRange, Lesser
<1>3. msg \in ReaderMsgs /\ msg.event = "new_range" /\ msg.range = x
  BY <1>2, MessageTypes DEF NewRange
<1> HIDE DEF x, msg
<1>4. \A q \in Readers : q # r => Same(q)
  <2>1. \A q \in Readers : q # r => toMaster'[q] = toMaster[q] /\ toReader'[q] = toReader[q]
    BY <1>1, <1>3, HearsStep, SentIs
  <2> QED
    BY <1>1, <2>1 DEF Same
<1>5. \A q \in Readers : q # r => Sound(q)' /\ Keeps(q)
  BY <1>1, <1>4, SameSound, SameKeeps DEF CoverageInv
<1>6. /\ HasCompleted(r) /\ ~HasNewRange(r) /\ (Alive(r) => Spent(r)) /\ ~HasCompleted(r)'
      /\ toMaster[r] # <<>>
  <2>1. /\ toMaster[r] # <<>> /\ 1 \in DOMAIN toMaster[r] /\ toMaster[r][1].event = "completed"
        /\ Len(toMaster'[r]) = Len(toMaster[r]) - 1 /\ DOMAIN toMaster'[r] = 1 .. Len(toMaster'[r])
    BY <1>1, HearsStep
  <2>2. HasCompleted(r) /\ 1 = Len(toMaster[r])
    BY <2>1 DEF HasCompleted, CoverageInv, Sound
  <2>3. \A i \in DOMAIN toMaster'[r] : FALSE
    <3>1. Len(toMaster'[r]) = 0
      BY <2>1, <2>2
    <3>2. DOMAIN toMaster'[r] = 1 .. 0
      BY <2>1, <3>1
    <3> QED
      BY <3>2
  <2> QED
    BY <2>1, <2>2, <2>3 DEF HasCompleted, CoverageInv, Sound
<1>7. CASE ~Alive(r)
  <2>1. toReader'[r] = toReader[r]
    BY <1>1, <1>3, <1>7, SentIs
  <2>2. Sound(r)'
    BY <1>1, <2>1, HeardSound DEF CoverageInv
  <2>3. Keeps(r)
    <3>1. InFlight(r)' = InFlight(r) /\ Unread(r)' = Unread(r) /\ unconf'[r] = unconf[r]
      BY <1>1, <2>1 DEF InFlight, Unread
    <3> QED
      BY <3>1, RemainingIs, RemainingIsPrimed DEF Keeps
  <2>4. Managed'
    BY <1>1 DEF Managed, CoverageInv, Alive
  <2>5. inMap' # {} => crashes' # 0
    BY <1>1, <1>7 DEF Managed, CoverageInv
  <2>6. AssignedCovered'
    BY <2>5 DEF AssignedCovered
  <2>7. FirstRangesCovered'
    BY <1>1, <1>5, <2>3, FirstRangesKept DEF CoverageInv
  <2> QED
    BY <1>5, <2>2, <2>4, <2>6, <2>7 DEF CoverageInv
<1>8. CASE Alive(r)
  <2>1. /\ DOMAIN toReader[r] = 1 .. Len(toReader[r]) /\ Len(toReader[r]) \in Nat
        /\ DOMAIN toReader'[r] = 1 .. Len(toReader[r]) + 1
        /\ \A i \in 1 .. Len(toReader[r]) : toReader'[r][i] = toReader[r][i]
        /\ toReader'[r][Len(toReader[r]) + 1] = msg
    BY <1>1, <1>3, <1>8, SentIs
  <2>2. \A i \in DOMAIN toReader[r] : i \in DOMAIN toReader'[r] /\ toReader'[r][i] = toReader[r][i]
    BY <2>1
  <2>3. \A i \in DOMAIN toReader'[r] : i \notin DOMAIN toReader[r] => i = Len(toReader[r]) + 1
    BY <2>1
  <2>4. \A i, j \in DOMAIN toReader'[r] :
            toReader'[r][i].event = "new_range" /\ toReader'[r][j].event = "new_range" => i = j
    <3>1. \A i \in DOMAIN toReader[r] : toReader[r][i].event # "new_range"
      BY <1>6 DEF HasNewRange
    <3>2. \A i \in DOMAIN toReader'[r] : toReader'[r][i].event = "new_range" => i \notin DOMAIN toReader[r]
      BY <2>2, <3>1
    <3> QED
      BY <2>3, <3>2
  <2>5. x \in InFlight(r)' /\ \A y : y \in InFlight(r) => y \in InFlight(r)'
    <3>1. Len(toReader[r]) + 1 \in DOMAIN toReader'[r]
      BY <2>1
    <3>2. x \in InFlight(r)'
      BY <1>3, <2>1, <3>1 DEF InFlight
    <3>3. \A y : y \in InFlight(r) => y \in InFlight(r)'
      BY <2>2 DEF InFlight
    <3> QED
      BY <3>2, <3>3
  <2>6. Sound(r)'
    <3>1. Spent(r)' /\ Alive(r)'
      BY <1>1, <1>6, <1>8 DEF Spent, Alive
    <3>2. /\ proc[r] # "starting" /\ proc[r] \notin {"dead", "down"}
          /\ (proc[r] = "streaming" => job[r].last <= nextBlock[r] \/ nextBlock[r] = job[r].first + count[r])
          /\ (proc[r] = "pending" => count[r] = 0)
      BY <1>6, <1>8 DEF CoverageInv, Sound, Alive
    <3>3. \A i \in DOMAIN toMaster'[r] : toMaster'[r][i].event # "completed"
      BY <1>6 DEF HasCompleted
    <3> QED
      BY <1>1, <1>6, <2>4, <3>1, <3>2, <3>3 DEF Sound
  <2>7. Keeps(r)
    <3>1. Unread(r)' = Unread(r) /\ unconf'[r] = unconf[r]
      BY <1>1 DEF Unread
    <3> QED
      BY <2>5, <3>1, RemainingIs, RemainingIsPrimed DEF Keeps
  <2>8. Managed'
    BY <1>1 DEF Managed, CoverageInv, Alive
  <2>9. ASSUME NEW b \in Nat, Owed(b)'
        PROVE  Owed(b) \/ Covered(b)'
    <3>1. ASSUME NEW q \in Readers, Announced(q, b)' PROVE Owed(b)
      BY <1>1, <3>1, HeardAnnounced DEF Owed
    <3>2. CASE b < lastAssigned' /\ ~(b < lastAssigned)
      <4>1. b \in Span(x)
        BY <1>1, <1>2, <3>2 DEF Span
      <4>2. b \in Remaining(r)'
        BY <2>5, <4>1, RemainingIsPrimed
      <4> QED
        BY <4>2 DEF Covered
    <3> QED
      BY <2>9, <3>1, <3>2 DEF Owed
  <2>10. AssignedCovered'
    BY <1>1, <1>5, <2>7, <2>9, AssignedKept DEF CoverageInv
  <2>11. FirstRangesCovered'
    BY <1>1, <1>5, <2>7, FirstRangesKept DEF CoverageInv
  <2> QED
    BY <1>5, <2>6, <2>8, <2>10, <2>11 DEF CoverageInv
<1> QED
  BY <1>7, <1>8

\* The operator stops the indexer, or nothing happens.
LEMMA IdleKeepsInv ==
    ASSUME TypeOK, TypeOK', CoverageInv, GracefulStop \/ UNCHANGED vars
    PROVE  CoverageInv'
<1> USE DEF streamVars, ipcVars, masterVars
<1>1. /\ UNCHANGED <<proc, streamVars, toMaster, toReader, inMap, relaunches, settled>>
      /\ UNCHANGED <<ship, lastAssigned, doomed, crashes>> /\ (stopping => stopping')
  <2>1. CASE GracefulStop
    BY <2>1 DEF GracefulStop
  <2>2. CASE UNCHANGED vars
    BY <2>2 DEF vars
  <2> QED
    BY <2>1, <2>2
<1>2. \A q \in Readers : Same(q)
  BY <1>1 DEF Same
<1>3. \A q \in Readers : Sound(q)' /\ Keeps(q)
  BY <1>1, <1>2, SameSound, SameKeeps DEF CoverageInv
<1>4. Managed'
  BY <1>1 DEF Managed, CoverageInv, Alive
<1>5. \A b : Owed(b)' => Owed(b)
  BY <1>1 DEF Owed, Announced
<1>6. AssignedCovered' /\ FirstRangesCovered'
  BY <1>1, <1>3, <1>5, AssignedKept, FirstRangesKept DEF CoverageInv
<1> QED
  BY <1>3, <1>4, <1>6 DEF CoverageInv

LEMMA CoverageNext ==
    ASSUME TypeOK, TypeOK', CoverageInv, [Next]_vars
    PROVE  CoverageInv'
<1>1. CASE Next
  BY <1>1, ReaderStepKeepsInv, ExitKeepsInv, AssignKeepsInv, FinishKeepsInv, RetireKeepsInv,
     MoveKeepsInv, DisconnectKeepsInv, RelaunchKeepsInv, PausesKeepInv, IdleKeepsInv
     DEF Next, MasterStep
<1>2. CASE UNCHANGED vars
  BY <1>2, IdleKeepsInv
<1> QED
  BY <1>1, <1>2

-----------------------------------------------------------------------------
(* The invariant at the start, and what it implies *)

\* The batches handed out at setup leave no gap.
LEMMA BatchOfBlock ==
    ASSUME NEW b \in Nat, Start <= b, b < HeadBlock, b < Start + NumReaders * BatchSize
    PROVE  \E r \in Readers : b \in Span(EnvRange(r))
<1> DEFINE k == (b - Start) \div BatchSize
<1>1. k \in Nat /\ k * BatchSize <= b - Start /\ b - Start < k * BatchSize + BatchSize
  OBVIOUS
<1>2. NumReaders \in Nat /\ NumReaders * BatchSize \in Nat /\ k * BatchSize \in Nat
  BY <1>1, NumReadersType
<1> HIDE DEF k
<1>3. k < NumReaders
  <2>1. ASSUME NumReaders <= k PROVE FALSE
    <3>1. NumReaders * BatchSize <= k * BatchSize
      BY <1>1, <1>2, <2>1, BatchMonotone
    <3> QED
      BY <1>1, <1>2, <3>1
  <2> QED
    BY <1>1, <1>2, <2>1
<1>4. k + 1 \in Readers /\ (k + 1) - 1 = k
  BY <1>1, <1>2, <1>3 DEF Readers
<1>5. (k + 1) * BatchSize = k * BatchSize + BatchSize
  BY <1>1
<1>6. /\ EnvRange(k + 1).first = Start + k * BatchSize
      /\ EnvRange(k + 1).last = Lesser(Start + (k + 1) * BatchSize, HeadBlock)
  BY <1>4 DEF EnvRange
<1> DEFINE m == k * BatchSize
<1>7. /\ EnvRange(k + 1).first = Start + m
      /\ EnvRange(k + 1).last = Lesser(Start + (m + BatchSize), HeadBlock)
      /\ m \in Nat /\ m <= b - Start /\ b - Start < m + BatchSize
  BY <1>1, <1>2, <1>5, <1>6
<1> HIDE DEF m
<1>8. b \in Span(EnvRange(k + 1))
  BY <1>7 DEF Span, Lesser
<1> QED
  BY <1>4, <1>8

LEMMA CoverageInit ==
    ASSUME Init
    PROVE  CoverageInv
<1>1. /\ lastAssigned = Start + NumReaders * BatchSize /\ inMap = Readers /\ doomed = {}
      /\ \A r \in Readers : /\ proc[r] = "starting" /\ job[r] = EnvRange(r)
                            /\ nextBlock[r] = EnvRange(r).first /\ count[r] = 0 /\ unconf[r] = {}
                            /\ toMaster[r] = <<>> /\ toReader[r] = <<>>
  BY DEF Init
<1>2. \A r \in Readers : ~HasCompleted(r) /\ ~HasNewRange(r) /\ Alive(r)
                         /\ \A b : ~Announced(r, b)
  BY <1>1 DEF HasCompleted, HasNewRange, Alive, Announced
<1>3. \A r \in Readers : Sound(r)
  BY <1>1, <1>2 DEF Sound
<1>4. Managed
  BY <1>1, <1>2 DEF Managed, Alive
<1>5. ASSUME NEW r \in Readers, NEW b, b \in Span(EnvRange(r)) PROVE b \in Remaining(r)
  BY <1>1, <1>5, RemainingIs DEF Unread
<1>6. AssignedCovered
  <2> SUFFICES ASSUME NEW b \in Nat, Start <= b, b < HeadBlock, Owed(b)
               PROVE  Covered(b)
    BY DEF AssignedCovered
  <2>1. b < Start + NumReaders * BatchSize
    BY <1>1, <1>2 DEF Owed
  <2> QED
    BY <1>5, <2>1, BatchOfBlock DEF Covered
<1>7. FirstRangesCovered
  BY <1>5 DEF FirstRangesCovered
<1> QED
  BY <1>3, <1>4, <1>6, <1>7 DEF CoverageInv

LEMMA CoverageAlways == Spec => []CoverageInv
<1>1. TypeOK /\ TypeOK' /\ CoverageInv /\ [Next]_vars => CoverageInv'
  BY CoverageNext
<1> QED
  BY <1>1, CoverageInit, TypeCorrect, PTL DEF Spec

\* Until the master dismisses the readers, every block it has assigned is settled or
\* some reader will publish it: all of them as long as no reader crashed, and those of
\* the first ranges after any number of crashes and relaunches.
THEOREM NoBlockIsForgotten == Spec => []NoBlockForgotten
<1>1. TypeOK /\ CoverageInv => NoBlockForgotten
  <2> SUFFICES ASSUME TypeOK, CoverageInv, ~Finished,
                      NEW b \in Greater(Start, BeginBlock) .. (Lesser(lastAssigned, HeadBlock) - 1),
                      crashes > 0 => ~stopping /\ \E r \in Readers : b \in Span(EnvRange(r))
               PROVE  b \in settled \/ \E r \in Readers : b \in Remaining(r)
    BY DEF NoBlockForgotten
  <2>1. /\ b \in Nat /\ Start <= b /\ BeginBlock <= b /\ b < HeadBlock /\ b < lastAssigned
        /\ crashes \in Nat /\ inMap # {}
    <3>1. BeginBlock \in Nat /\ lastAssigned \in Nat /\ crashes \in Nat /\ inMap # {}
      BY BeginBlockIs DEF TypeOK, Finished
    <3> HIDE DEF BeginBlock
    <3>2. b \in Greater(Start, BeginBlock) .. (Lesser(lastAssigned, HeadBlock) - 1)
      OBVIOUS
    <3> QED
      BY <3>1, <3>2 DEF Greater, Lesser
  <2>2. CASE crashes = 0
    BY <2>1, <2>2 DEF CoverageInv, AssignedCovered, Owed, Covered
  <2>3. CASE crashes > 0
    BY <2>1, <2>3 DEF CoverageInv, FirstRangesCovered
  <2> QED
    BY <2>1, <2>2, <2>3
<1> QED
  BY <1>1, CoverageAlways, TypeCorrect, PTL
=============================================================================
