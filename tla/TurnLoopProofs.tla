--------------------------- MODULE TurnLoopProofs ---------------------------
(***************************************************************************)
(* What holds of a turn for any limits, policies and length of streams:    *)
(* its counters keep their limits, requests wait for the rows before them, *)
(* and the reason it returns is true.                                      *)
(***************************************************************************)
EXTENDS TurnLoop, TLAPS

RowKinds == {"turn/start", "turn/end", "step/start", "step/end", "request/header", "chunk",
             "assistant", "results", "retry", "retry/started", "compaction/start",
             "compaction/summary", "compaction/checkpoint", "compaction/end"}
Subjects == Policies \cup {"none", "content", "finish", "failure", "error"}
LogRow == [kind : RowKinds, step : Nat, attempt : Nat, of : Subjects, n : Nat]

TypeInv == TypeOK /\ log \in Seq(LogRow)

\* Where the turn stands says which limits are still open, that the attempt before is
\* closed, that a full session is about to end the turn, and which policy waits.
PlaceInv ==
    /\ at \in {"claimed", "prepared", "rearm"} \cup InSummary => steps < MaxSteps
    /\ at \notin {"stream", "sealed", "settle", "failed"} => open = "none"
    /\ at \in {"stream", "sealed"} => open # "none"
    /\ limit => at \in {"settle", "closing", "closed", "failed"}
    /\ at \in {"dispatch", "stream", "sealed", "delay"} => policy \in Policies

\* The last row is of the given kinds, or that row is the end of a step behind one.
EndsWith(kinds) == Len(log) > 0 /\ log[Len(log)].kind \in kinds
StepEndsWith(kinds) ==
    /\ Len(log) > 1
    /\ log[Len(log)].kind = "step/end" /\ log[Len(log)].attempt = 0
    /\ log[Len(log) - 1].kind \in kinds

InsideStep == {"step", "dispatch", "stream", "sealed", "delay", "round", "settle", "stepped"}
Answered == {"continue", "completed", "maxTokens"}
Replies  == {"assistant", "results"}

\* What is known of a stop, and of the last attempt, until the turn says so.
VerdictInv ==
    /\ stopped => cancelled \/ deadline
    /\ at = "opening" => ~deadline /\ steps = 0
    /\ "aborted" \in {outcome, latched, reason} => cancelled
    /\ "timeout" \in {outcome, latched, reason} => deadline
    /\ lastCall = "summary" => attempts < MaxAttempts
    /\ at \in {"settle", "stepped"} /\ outcome = "attempts" => lastCall # "summary"
    /\ at = "closing" /\ reason = "attempts" => lastCall # "summary"

\* An answer is the last row when its step ends, and the last but one when it has.
AnswerInv ==
    /\ at = "round" => outcome \in {"continue", "observer"}
    /\ at = "settle" /\ open = "none" /\ outcome \in Answered => EndsWith(Replies)
    /\ at \in InsideStep => steps > 0
    /\ at = "stepped" /\ outcome \in Answered => StepEndsWith(Replies)
    /\ at = "closing" /\ reason \in Answered =>
         ~stopped /\ (steps > 0 => StepEndsWith(Replies))

Inv == TypeInv /\ PlaceInv /\ VerdictInv /\ AnswerInv /\ ReasonIsTrue

-----------------------------------------------------------------------------
(* The rows of a turn *)

LEMMA RowFacts ==
    ASSUME TypeOK, NEW kind \in RowKinds
    PROVE  /\ Row(kind) \in LogRow /\ Row(kind).kind = kind /\ Row(kind).attempt = 0
           /\ [Row(kind) EXCEPT !.step = steps + 1] \in LogRow
           /\ AttemptRow(kind) \in LogRow /\ AttemptRow(kind).kind = kind
           /\ \A p \in Policies : RetryRow(kind, p, chain[p] + 1) \in LogRow
           /\ \A p \in Policies : [RetryRow(kind, p, chain[p]) EXCEPT !.attempt = 0] \in LogRow
           /\ \A s \in Subjects : [Row(kind) EXCEPT !.of = s] \in LogRow
           /\ \A s \in Subjects : [AttemptRow(kind) EXCEPT !.of = s] \in LogRow
<1>1. /\ steps \in Nat /\ attempts \in Nat
      /\ \A p \in Policies : chain[p] \in Nat
  <2>1. MaxSteps \in Nat /\ MaxAttempts \in Nat /\ PolicyMax \in Nat
    BY LimitsAssumption
  <2>2. /\ steps \in 0..MaxSteps /\ attempts \in 0..MaxAttempts
        /\ chain \in [Policies -> 0..PolicyMax]
    BY DEF TypeOK
  <2> QED BY <2>1, <2>2
<1>2. Row(kind) = [kind |-> kind, step |-> steps, attempt |-> 0, of |-> "none", n |-> 0]
  BY DEF Row
<1>3. AttemptRow(kind) = [kind |-> kind, step |-> steps, attempt |-> attempts,
                          of |-> "none", n |-> 0]
  BY <1>2 DEF AttemptRow
<1>4. ASSUME NEW p \in Policies, NEW m \in Nat
      PROVE  RetryRow(kind, p, m) = [kind |-> kind, step |-> steps, attempt |-> attempts,
                                     of |-> p, n |-> m]
  BY DEF RetryRow
<1>5. /\ Row(kind) \in LogRow /\ Row(kind).kind = kind /\ Row(kind).attempt = 0
      /\ [Row(kind) EXCEPT !.step = steps + 1] \in LogRow
  BY <1>1, <1>2 DEF LogRow, Subjects
<1>6. AttemptRow(kind) \in LogRow /\ AttemptRow(kind).kind = kind
  BY <1>1, <1>3 DEF LogRow, Subjects
<1>7. ASSUME NEW p \in Policies
      PROVE  /\ RetryRow(kind, p, chain[p] + 1) \in LogRow
             /\ [RetryRow(kind, p, chain[p]) EXCEPT !.attempt = 0] \in LogRow
  BY <1>1, <1>4 DEF LogRow, Subjects
<1>8. ASSUME NEW s \in Subjects
      PROVE  [Row(kind) EXCEPT !.of = s] \in LogRow /\ [AttemptRow(kind) EXCEPT !.of = s] \in LogRow
  BY <1>1, <1>2, <1>3 DEF LogRow
<1> QED BY <1>5, <1>6, <1>7, <1>8

\* A row that is written is the last one, and the others stay where they are; one
\* that is published is durable with all of them.
LEMMA Written ==
    ASSUME TypeInv, NEW row \in LogRow, Write(row) \/ Publish(row)
    PROVE  /\ log' \in Seq(LogRow) /\ synced' \in 0..Len(log')
           /\ Len(log') = Len(log) + 1 /\ log'[Len(log')] = row
           /\ \A k \in 1..Len(log) : log'[k] = log[k]
           /\ Publish(row) => synced' = Len(log')
<1>1. log \in Seq(LogRow) /\ synced \in 0..Len(log)
  BY DEF TypeInv, TypeOK
<1>2. log' = Append(log, row)
  BY DEF Write, Publish
<1>3. /\ log' \in Seq(LogRow) /\ Len(log') = Len(log) + 1
      /\ log'[Len(log')] = row
      /\ \A k \in 1..Len(log) : log'[k] = log[k]
  BY <1>1, <1>2
<1>4. synced' \in {synced, Len(log) + 1} /\ (Publish(row) => synced' = Len(log) + 1)
  BY DEF Write, Publish
<1> QED BY <1>1, <1>3, <1>4

-----------------------------------------------------------------------------
(* Types *)

LEMMA InitEstablishesInv == Init => Inv
<1> SUFFICES ASSUME Init PROVE Inv
  OBVIOUS
<1>1. TypeInv
  <2>1. 0 \in 0..MaxSteps /\ 0 \in 0..MaxAttempts /\ 0 \in 0..MaxRetries /\ 0 \in 0..PolicyMax
    BY LimitsAssumption
  <2>2. log \in Seq(LogRow) /\ synced \in 0..Len(log)
    BY DEF Init
  <2> QED
    BY <2>1, <2>2 DEF Init, TypeInv, TypeOK, Places, Preparations, Outcomes, Failures, Reasons
<1>2. PlaceInv /\ VerdictInv /\ AnswerInv /\ ReasonIsTrue
  BY DEF Init, PlaceInv, VerdictInv, AnswerInv, ReasonIsTrue, InsideStep, InSummary
<1> QED BY <1>1, <1>2 DEF Inv

\* The rows, whatever the action.
LEMMA LogStaysTyped ==
    ASSUME Inv, Next
    PROVE  log' \in Seq(LogRow) /\ synced' \in 0..Len(log')
<1> USE DEF RowKinds
<1>0. /\ TypeInv /\ TypeOK /\ log \in Seq(LogRow) /\ synced \in 0..Len(log)
      /\ at \in {"sealed", "delay"} => policy \in Policies
  BY DEF Inv, TypeInv, TypeOK, PlaceInv
<1>1. CASE UNCHANGED journal
  BY <1>0, <1>1 DEF journal
<1>2. CASE log' = log /\ synced' = Len(log)
  BY <1>0, <1>2
<1>3. CASE \E row \in LogRow : Write(row) \/ Publish(row)
  BY <1>0, <1>3, Written
<1>4. \/ UNCHANGED journal
      \/ log' = log /\ synced' = Len(log)
      \/ \E row \in LogRow : Write(row) \/ Publish(row)
  <2>1. CASE OpenTurn \/ EndTurn \/ Answer \/ Call \/ RunRound
    BY <2>1, <1>0, RowFacts DEF OpenTurn, EndTurn, Answer, Call, RunRound, Retire, Full
  <2>11. CASE Stream
    BY <2>11, <1>0, RowFacts DEF Stream, ChunkRow, Subjects, Full
  <2>2. CASE Summarise \/ CutSummary \/ FailSummary \/ StoreSummary \/ EndSummary
    <3>1. BrokenSummary \in LogRow /\ Row("compaction/end") \in LogRow
      BY <1>0, RowFacts DEF BrokenSummary, Subjects
    <3>2. CASE Summarise \/ StoreSummary
      BY <3>2, <1>0, RowFacts DEF Summarise, StoreSummary, Full
    <3>3. CASE CutSummary \/ FailSummary \/ EndSummary
      BY <3>1, <3>3 DEF CutSummary, FailSummary, EndSummary, BreakSummary
    <3> QED BY <2>2, <3>2, <3>3
  <2>3. CASE EnterStep
    BY <2>3, <1>0, RowFacts DEF EnterStep
  <2>4. CASE EndStep
    BY <2>4, <1>0, RowFacts DEF EndStep
  <2>5. CASE StartRetry
    BY <2>5, <1>0, RowFacts DEF StartRetry, Full
  <2>6. CASE Retry
    BY <2>6, <1>0, RowFacts DEF Retry, Retire, Full
  <2>7. CASE ClaimStep \/ Prepare \/ Prune \/ Decide \/ Interrupt \/ AfterStep \/ StepBreaks
    BY <2>7 DEF ClaimStep, Prepare, Prune, Decide, Interrupt, AfterStep, StepBreaks
  <2>10. CASE BeginRequest
    BY <2>10, <1>0, RowFacts, LimitsAssumption DEF BeginRequest, HeaderRow, Subjects, Full
  <2>8. CASE CallerCancels \/ DeadlinePasses \/ ObserverLeaves \/ StorageFails
    BY <2>8 DEF CallerCancels, DeadlinePasses, ObserverLeaves, StorageFails
  <2>9. CASE Dispatch
    BY <2>9 DEF Dispatch
  <2> QED
    BY <2>1, <2>2, <2>3, <2>4, <2>5, <2>6, <2>7, <2>8, <2>9, <2>10, <2>11
    DEF Next, Drive
<1> QED BY <1>1, <1>2, <1>3, <1>4

\* The parts of TypeOK: flags, counters and what ranges over a few names.
FlagTypes ==
    /\ cancelled \in BOOLEAN /\ deadline \in BOOLEAN /\ observer \in BOOLEAN
    /\ limit \in BOOLEAN /\ summarised \in BOOLEAN /\ stopped \in BOOLEAN
CounterTypes ==
    /\ steps \in 0..MaxSteps /\ attempts \in 0..MaxAttempts /\ retries \in 0..MaxRetries
    /\ chain \in [Policies -> 0..PolicyMax] /\ policy \in Policies \cup {"none"}
    /\ lastCall \in {"none", "step", "summary"}
PlaceTypes == at \in Places /\ open \in {"none", "streaming", "sealed"}
RequestTypes ==
    /\ claims \subseteq {"step/start", "step/end", "turn/end"}
    /\ prep \in Preparations \cup {"none"} /\ tried \subseteq {"hard", "pressure"}
VerdictTypes ==
    /\ outcome \in Outcomes /\ latched \in {"none", "aborted", "timeout"} /\ reason \in Reasons

LEMMA TypeParts ==
    TypeOK <=> /\ FlagTypes /\ CounterTypes /\ PlaceTypes /\ RequestTypes /\ VerdictTypes
               /\ synced \in 0..Len(log)
  BY DEF TypeOK, FlagTypes, CounterTypes, PlaceTypes, RequestTypes, VerdictTypes

\* Flags.
LEMMA FlagsStay ==
    ASSUME Inv, Next
    PROVE  FlagTypes'
<1> USE DEF FlagTypes
<1>0. FlagTypes
  BY TypeParts DEF Inv, TypeInv
<1>1. CASE OpenTurn \/ ClaimStep \/ Prepare \/ Decide
  BY <1>0, <1>1 DEF OpenTurn, ClaimStep, Prepare, Decide, Close, Stop, GiveUp, PreStepStop,
     world, counters, request
<1>2. CASE Prune \/ Summarise \/ StoreSummary
  BY <1>0, <1>2 DEF Prune, Summarise, StoreSummary, CountSummary, Full, world, request
<1>9. CASE CutSummary \/ FailSummary \/ EndSummary
  BY <1>0, <1>9 DEF CutSummary, FailSummary, EndSummary, world, request
<1>3. CASE EnterStep \/ Dispatch
  BY <1>0, <1>3 DEF EnterStep, Dispatch, world, request
<1>8. CASE BeginRequest
  <2>1. UNCHANGED <<summarised, world>> /\ limit' \in {limit, TRUE}
    BY <1>8 DEF BeginRequest, Full
  <2> QED BY <1>0, <2>1 DEF world
<1>4. CASE Stream \/ Interrupt \/ StepBreaks \/ Answer \/ Call \/ RunRound
  BY <1>0, <1>4 DEF Stream, Interrupt, StepBreaks, Answer, Call, RunRound, Settle, Full,
     Stop, Retire, world, counters, request
<1>5. CASE Retry
  BY <1>0, <1>5 DEF Retry, Settle, Retire, Full, world, counters, request
<1>6. CASE StartRetry \/ EndStep \/ AfterStep \/ EndTurn
  BY <1>0, <1>6 DEF StartRetry, EndStep, AfterStep, EndTurn, Settle, Full, Close, Stop,
     world, counters, request
<1>7. CASE CallerCancels \/ DeadlinePasses \/ ObserverLeaves \/ StorageFails
  BY <1>0, <1>7 DEF CallerCancels, DeadlinePasses, ObserverLeaves, StorageFails, NoteStop,
     world, counters, request, verdict
<1> QED BY <1>1, <1>2, <1>3, <1>4, <1>5, <1>6, <1>7, <1>8, <1>9 DEF Next, Drive

\* The counters keep their limits.
LEMMA CountersStay ==
    ASSUME Inv, Next
    PROVE  CounterTypes'
<1> USE DEF CounterTypes, PlaceInv, InSummary
<1>0. CounterTypes /\ PlaceInv
  BY TypeParts DEF Inv, TypeInv
<1>a. /\ MaxSteps \in Nat /\ MaxAttempts \in Nat /\ MaxRetries \in Nat /\ PolicyMax \in Nat
      /\ 0 \in 0..MaxRetries /\ 0 \in 0..PolicyMax /\ FirstCalls \subseteq Policies
  BY LimitsAssumption
<1>1. CASE OpenTurn \/ ClaimStep \/ Prepare \/ Decide
  BY <1>0, <1>1, <1>a DEF OpenTurn, ClaimStep, Prepare, Decide, Close, Stop, GiveUp,
     PreStepStop, world, counters, request
<1>2. CASE Summarise
  BY <1>0, <1>2, <1>a DEF Summarise, CountSummary
<1>9. CASE Prune \/ CutSummary \/ FailSummary \/ StoreSummary \/ EndSummary
  <2>1. UNCHANGED counters
    BY <1>9 DEF Prune, CutSummary, FailSummary, StoreSummary, EndSummary
  <2> QED BY <1>0, <2>1 DEF counters
<1>3. CASE EnterStep \/ Dispatch
  BY <1>0, <1>3, <1>a DEF EnterStep, Dispatch, GiveUp, Close, Settle, world, counters, request
<1>8. CASE BeginRequest
  <2>1. /\ UNCHANGED <<steps, retries, chain>>
        /\ policy' = policy \/ policy' \in FirstCalls \/ policy' \in Policies
        /\ \/ UNCHANGED <<attempts, lastCall>>
           \/ ~(attempts >= MaxAttempts) /\ attempts' = attempts + 1 /\ lastCall' = "step"
    BY <1>8 DEF BeginRequest
  <2> QED BY <1>0, <1>a, <2>1
<1>4. CASE Stream \/ Interrupt \/ StepBreaks \/ Answer \/ Call \/ RunRound
  BY <1>0, <1>4, <1>a DEF Stream, Interrupt, StepBreaks, Answer, Call, RunRound, Settle,
     Full, Stop, Retire, world, counters, request
<1>5. CASE Retry
  BY <1>0, <1>5, <1>a DEF Retry, Settle, Retire, Full, world, counters, request
<1>6. CASE StartRetry \/ EndStep \/ AfterStep \/ EndTurn
  BY <1>0, <1>6, <1>a DEF StartRetry, EndStep, AfterStep, EndTurn, Settle, Full, Close,
     Stop, world, counters, request
<1>7. CASE CallerCancels \/ DeadlinePasses \/ ObserverLeaves \/ StorageFails
  BY <1>0, <1>7, <1>a DEF CallerCancels, DeadlinePasses, ObserverLeaves, StorageFails,
     NoteStop, world, counters, request, verdict
<1> QED BY <1>1, <1>2, <1>3, <1>4, <1>5, <1>6, <1>7, <1>8, <1>9 DEF Next, Drive

\* Places.
LEMMA PlaceTypesStay ==
    ASSUME Inv, Next
    PROVE  PlaceTypes'
<1> USE DEF PlaceTypes, Places, InSummary
<1>0. PlaceTypes
  BY TypeParts DEF Inv, TypeInv
<1>1. CASE OpenTurn \/ ClaimStep \/ Prepare \/ Decide
  BY <1>0, <1>1 DEF OpenTurn, ClaimStep, Prepare, Decide, Close, Stop, GiveUp, PreStepStop,
     world, counters, request
<1>2. CASE Prune \/ Summarise
  BY <1>0, <1>2 DEF Prune, Summarise, SummaryFailed, GiveUp, Close
<1>9. CASE StoreSummary
  BY <1>0, <1>9 DEF StoreSummary
<1>8. CASE CutSummary \/ FailSummary \/ EndSummary
  BY <1>0, <1>8 DEF CutSummary, FailSummary, EndSummary, SummaryFailed, GiveUp, Close, request
<1>3. CASE EnterStep \/ BeginRequest \/ Dispatch
  BY <1>0, <1>3 DEF EnterStep, BeginRequest, Dispatch, GiveUp, Close, Settle, Stop, world,
     counters, request
<1>4. CASE Stream \/ Interrupt \/ StepBreaks \/ Answer \/ Call \/ RunRound
  BY <1>0, <1>4 DEF Stream, Interrupt, StepBreaks, Answer, Call, RunRound, Settle, Full,
     Stop, Retire, world, counters, request
<1>5. CASE Retry
  BY <1>0, <1>5 DEF Retry, Settle, Retire, Full, world, counters, request
<1>6. CASE StartRetry \/ EndStep \/ AfterStep \/ EndTurn
  BY <1>0, <1>6 DEF StartRetry, EndStep, AfterStep, EndTurn, Settle, Full, Close, Stop,
     world, counters, request
<1>7. CASE CallerCancels \/ DeadlinePasses \/ ObserverLeaves \/ StorageFails
  BY <1>0, <1>7 DEF CallerCancels, DeadlinePasses, ObserverLeaves, StorageFails, NoteStop,
     world, counters, request, verdict
<1> QED BY <1>1, <1>2, <1>3, <1>4, <1>5, <1>6, <1>7, <1>8, <1>9 DEF Next, Drive

\* Claims and the preparation of a request.
LEMMA RequestTypesStay ==
    ASSUME Inv, Next
    PROVE  RequestTypes'
<1> USE DEF RequestTypes, Preparations
<1>0. RequestTypes
  BY TypeParts DEF Inv, TypeInv
<1>1. CASE OpenTurn \/ ClaimStep \/ Prepare \/ Decide
  BY <1>0, <1>1 DEF OpenTurn, ClaimStep, Prepare, Decide, Close, Stop, GiveUp, PreStepStop,
     world, counters, request
<1>2. CASE Prune \/ Summarise \/ StoreSummary
  BY <1>0, <1>2 DEF Prune, Summarise, StoreSummary, NeedsPrune, SummaryFailed, GiveUp, request
<1>8. CASE CutSummary \/ FailSummary \/ EndSummary
  BY <1>0, <1>8 DEF CutSummary, FailSummary, EndSummary, SummaryFailed, GiveUp, request
<1>3. CASE EnterStep \/ BeginRequest \/ Dispatch
  BY <1>0, <1>3 DEF EnterStep, BeginRequest, Dispatch, GiveUp, Close, Settle, Stop, world,
     counters, request
<1>4. CASE Stream \/ Interrupt \/ StepBreaks \/ Answer \/ Call \/ RunRound
  BY <1>0, <1>4 DEF Stream, Interrupt, StepBreaks, Answer, Call, RunRound, Settle, Full,
     Stop, Retire, world, counters, request
<1>5. CASE Retry
  BY <1>0, <1>5 DEF Retry, Settle, Retire, Full, world, counters, request
<1>6. CASE StartRetry \/ EndStep \/ AfterStep \/ EndTurn
  BY <1>0, <1>6 DEF StartRetry, EndStep, AfterStep, EndTurn, Settle, Full, Close, Stop,
     world, counters, request
<1>7. CASE CallerCancels \/ DeadlinePasses \/ ObserverLeaves \/ StorageFails
  BY <1>0, <1>7 DEF CallerCancels, DeadlinePasses, ObserverLeaves, StorageFails, NoteStop,
     world, counters, request, verdict
<1> QED BY <1>1, <1>2, <1>3, <1>4, <1>5, <1>6, <1>7, <1>8 DEF Next, Drive

\* Outcomes and reasons.
LEMMA VerdictTypesStay ==
    ASSUME Inv, Next
    PROVE  VerdictTypes'
<1> USE DEF VerdictTypes, Outcomes, Failures, Reasons
<1>0. VerdictTypes
  BY TypeParts DEF Inv, TypeInv
<1>1. CASE OpenTurn \/ ClaimStep \/ Prepare \/ Decide
  BY <1>0, <1>1 DEF OpenTurn, ClaimStep, Prepare, Decide, Close, Stop, GiveUp, PreStepStop,
     world, counters, request
<1>2. CASE Prune \/ Summarise
  BY <1>0, <1>2 DEF Prune, Summarise, GiveUp, Close, PreStepStop, Stop, SummaryFailed
<1>8. CASE CutSummary \/ FailSummary \/ StoreSummary \/ EndSummary
  BY <1>0, <1>8 DEF CutSummary, FailSummary, StoreSummary, EndSummary, GiveUp, Close, Stop,
     SummaryFailed, verdict
<1>3. CASE EnterStep \/ BeginRequest \/ Dispatch
  BY <1>0, <1>3 DEF EnterStep, BeginRequest, Dispatch, GiveUp, Close, Settle, Stop, world,
     counters, request
<1>4. CASE Stream \/ Interrupt \/ StepBreaks \/ Answer \/ Call \/ RunRound
  BY <1>0, <1>4 DEF Stream, Interrupt, StepBreaks, Answer, Call, RunRound, Settle, Full,
     Stop, Retire, world, counters, request
<1>5. CASE Retry
  BY <1>0, <1>5 DEF Retry, Settle, Retire, Full, world, counters, request
<1>6. CASE StartRetry \/ EndStep \/ AfterStep \/ EndTurn
  BY <1>0, <1>6 DEF StartRetry, EndStep, AfterStep, EndTurn, Settle, Full, Close, Stop,
     world, counters, request
<1>7. CASE CallerCancels \/ DeadlinePasses \/ ObserverLeaves \/ StorageFails
  BY <1>0, <1>7 DEF CallerCancels, DeadlinePasses, ObserverLeaves, StorageFails, NoteStop,
     world, counters, request, verdict
<1> QED BY <1>1, <1>2, <1>3, <1>4, <1>5, <1>6, <1>7, <1>8 DEF Next, Drive

LEMMA TypesStay ==
    ASSUME Inv, Next
    PROVE  TypeInv'
<1>1. (FlagTypes /\ CounterTypes /\ PlaceTypes /\ RequestTypes /\ VerdictTypes)'
  BY FlagsStay, CountersStay, PlaceTypesStay, RequestTypesStay, VerdictTypesStay
<1>2. TypeOK'
  BY <1>1, LogStaysTyped DEF TypeOK, FlagTypes, CounterTypes, PlaceTypes, RequestTypes,
     VerdictTypes
<1> QED BY <1>2, LogStaysTyped DEF TypeInv

\* Where the turn stands.
LEMMA PlacesStay ==
    ASSUME Inv, Next
    PROVE  PlaceInv'
<1> USE DEF PlaceInv, InSummary
<1>0. TypeOK /\ PlaceInv
  BY DEF Inv, TypeInv
<1>a. MaxSteps \in Nat /\ steps \in Nat
  BY <1>0, LimitsAssumption DEF TypeOK
<1>1. CASE OpenTurn \/ ClaimStep \/ Prepare \/ Decide
  BY <1>0, <1>1, <1>a DEF OpenTurn, ClaimStep, Prepare, Decide, GiveUp, Close, world, counters
<1>2. CASE Prune \/ Summarise \/ StoreSummary
  BY <1>0, <1>2, <1>a DEF Prune, Summarise, CountSummary, StoreSummary, SummaryFailed, Full,
     GiveUp, Close, world, counters
<1>10. CASE CutSummary \/ FailSummary
  <2>1. /\ at \in InSummary /\ at' \in {"closing", "rearm"} /\ UNCHANGED <<open, steps, policy>>
        /\ limit' = limit \/ at' = "closing"
    BY <1>10 DEF CutSummary, FailSummary, BreakSummary, SummaryFailed, GiveUp, Close, counters
  <2> QED BY <1>0, <2>1
<1>11. CASE EndSummary
  <2>1. /\ at = "replaced" /\ at' \in {"closing", "prepared"}
        /\ UNCHANGED <<open, limit, steps, policy>>
    BY <1>11 DEF EndSummary, GiveUp, Close, counters
  <2> QED BY <1>0, <2>1
<1>3. CASE EnterStep \/ Dispatch
  BY <1>0, <1>3, <1>a DEF EnterStep, Dispatch, GiveUp, Close, Settle, world, counters
<1>9. CASE BeginRequest
  <2>1. at = "step" /\ UNCHANGED open /\ at' \in {"settle", "dispatch"}
    BY <1>9 DEF BeginRequest, Settle
  <2>2. limit' = limit \/ at' = "settle"
    BY <1>9 DEF BeginRequest, Settle, Full
  <2>3. at' = "dispatch" => policy' \in FirstCalls \cup Policies
    BY <2>1, <1>9 DEF BeginRequest, Settle
  <2> QED BY <1>0, <2>1, <2>2, <2>3, LimitsAssumption
<1>4. CASE Stream \/ Interrupt \/ StepBreaks \/ Answer \/ Call
  BY <1>0, <1>4, <1>a DEF Stream, Interrupt, StepBreaks, Answer, Call, Settle, Retire, Full,
     world, counters
<1>8. CASE RunRound
  <2>1. at' = "settle" /\ UNCHANGED <<open, steps, policy>>
    BY <1>8 DEF RunRound, Settle, counters
  <2> QED BY <2>1
<1>5. CASE Retry
  BY <1>0, <1>5, <1>a DEF Retry, Settle, Retire, Full, world
<1>6. CASE StartRetry \/ EndStep \/ AfterStep \/ EndTurn
  BY <1>0, <1>6, <1>a DEF StartRetry, EndStep, AfterStep, EndTurn, Settle, Close, Full, world,
     counters
<1>7. CASE CallerCancels \/ DeadlinePasses \/ ObserverLeaves \/ StorageFails
  BY <1>0, <1>7 DEF CallerCancels, DeadlinePasses, ObserverLeaves, StorageFails, world, counters
<1> QED BY <1>1, <1>2, <1>3, <1>4, <1>5, <1>6, <1>7, <1>8, <1>9,
  <1>10, <1>11 DEF Next, Drive

\* What is known of a stop and of the last attempt.
LEMMA VerdictsStay ==
    ASSUME Inv, Next
    PROVE  VerdictInv'
<1> USE DEF VerdictInv
<1>0. TypeOK /\ VerdictInv
  BY DEF Inv, TypeInv
<1>a. MaxAttempts \in Nat /\ attempts \in Nat
  BY <1>0, LimitsAssumption DEF TypeOK
<1>1. CASE OpenTurn \/ ClaimStep \/ Prepare \/ Decide
  BY <1>0, <1>1, <1>a DEF OpenTurn, ClaimStep, Prepare, Decide, GiveUp, Close, PreStepStop, Stop,
     world, counters
<1>2. CASE Prune \/ Summarise
  BY <1>0, <1>2, <1>a DEF Prune, Summarise, CountSummary, SummaryFailed, Full, GiveUp, Close,
     PreStepStop, Stop, world, counters
<1>11. CASE CutSummary \/ FailSummary \/ EndSummary
  <2>1. /\ UNCHANGED <<outcome, latched, stopped, cancelled, deadline, steps, attempts, lastCall>>
        /\ at' \in {"closing", "rearm", "prepared"}
        /\ reason' \in {reason, "observer", "failed", "limit", "context", Stop}
    BY <1>11 DEF CutSummary, FailSummary, EndSummary, SummaryFailed, GiveUp, Close, world,
       counters
  <2>2. at' = "closing" => reason' # "attempts"
    BY <1>11 DEF CutSummary, FailSummary, EndSummary, SummaryFailed, GiveUp, Close, Stop
  <2> QED BY <1>0, <2>1, <2>2 DEF Stop
<1>12. CASE StoreSummary
  BY <1>0, <1>12 DEF StoreSummary, world, counters, verdict
<1>3. CASE EnterStep \/ BeginRequest \/ Dispatch
  BY <1>0, <1>3, <1>a DEF EnterStep, BeginRequest, Dispatch, GiveUp, Close, Settle, Stop, world,
     counters
<1>4. CASE Stream \/ Interrupt \/ StepBreaks \/ Answer \/ Call
  BY <1>0, <1>4, <1>a DEF Stream, Interrupt, StepBreaks, Answer, Call, Settle, Retire, Full, Stop,
     world, counters
<1>5. CASE RunRound
  BY <1>0, <1>5, <1>a DEF RunRound, Settle, Stop, world, counters
<1>6. CASE Retry
  BY <1>0, <1>6, <1>a DEF Retry, Settle, Retire, Full, world
<1>7. CASE StartRetry \/ EndTurn
  BY <1>0, <1>7, <1>a DEF StartRetry, EndTurn, Settle, Close, Full, Stop, world, counters
<1>10. CASE AfterStep
  <2>1. /\ at = "stepped" /\ at' \in {"closing", "top"} /\ latched' = "none"
        /\ UNCHANGED <<outcome, cancelled, deadline, stopped, steps, attempts, lastCall>>
    BY <1>10 DEF AfterStep, Close, world, counters
  <2>2. reason' \in {reason, latched, Stop, outcome}
        /\ (at' = "closing" => reason' \in {latched, Stop, outcome})
    BY <1>10 DEF AfterStep, Close
  <2>3. /\ Stop = "aborted" => cancelled
        /\ Stop = "timeout" => deadline
        /\ Stop # "attempts" /\ latched # "attempts"
    BY <1>0 DEF Stop, TypeOK
  <2> QED BY <1>0, <2>1, <2>2, <2>3
<1>9. CASE EndStep
  <2>1. /\ outcome' \in {outcome, "observer", "failed"}
        /\ at' \in {"closing", "stepped"} /\ (at' = "closing" => reason' = "limit")
        /\ UNCHANGED <<latched, cancelled, deadline, stopped, steps, attempts, lastCall>>
        /\ at = "settle" /\ reason' \in {reason, "limit"}
    BY <1>9 DEF EndStep, Close, world, counters
  <2> QED BY <1>0, <2>1
<1>8. CASE CallerCancels \/ DeadlinePasses \/ ObserverLeaves \/ StorageFails
  BY <1>0, <1>8 DEF CallerCancels, DeadlinePasses, ObserverLeaves, StorageFails, NoteStop, world,
     counters, verdict
<1> QED BY <1>1, <1>2, <1>3, <1>4, <1>5, <1>6, <1>7, <1>8, <1>9, <1>10, <1>11, <1>12
  DEF Next, Drive

\* The last rows, when the turn has its answer.
LEMMA AnswersStay ==
    ASSUME Inv, Next
    PROVE  AnswerInv'
<1> USE DEF AnswerInv, Answered
<1>0. /\ TypeInv /\ TypeOK /\ PlaceInv /\ VerdictInv /\ AnswerInv
      /\ steps \in Nat /\ MaxSteps \in Nat
  BY LimitsAssumption DEF Inv, TypeInv, TypeOK
<1>a. log \in Seq(LogRow) /\ Len(log) \in Nat
  BY <1>0 DEF TypeInv
<1>1. CASE OpenTurn
  <2>1. /\ at = "opening" /\ UNCHANGED <<stopped, steps>>
        /\ at' \in {"closing", "top"}
        /\ at' = "closing" =>
             \/ cancelled /\ reason' = "aborted"
             \/ ~cancelled /\ reason' \in {"blocked", "completed"}
    BY <1>1 DEF OpenTurn, Close, world, counters
  <2>2. steps = 0 /\ (~cancelled => ~stopped)
    <3>1. /\ stopped => cancelled \/ deadline
          /\ at = "opening" => ~deadline /\ steps = 0
      BY <1>0 DEF VerdictInv
    <3> QED BY <2>1, <3>1
  <2>3. at' \notin {"round", "settle", "stepped"} /\ at' \notin InsideStep
    BY <2>1 DEF InsideStep
  <2> QED BY <2>1, <2>2, <2>3
<1>2. CASE ClaimStep \/ Prepare \/ Decide
  <2>1. /\ at' \in {"closing", "claimed", "rearm", "prepared"}
        /\ at' = "closing" =>
             reason' \in {"aborted", "timeout", "limit", "steps", "failed", "context"}
    BY <1>2 DEF ClaimStep, Prepare, Decide, GiveUp, Close, PreStepStop, Stop
  <2> QED BY <2>1 DEF InsideStep
<1>3. CASE Prune \/ Summarise
  <2>1. /\ at' \in {"closing", "summary", "rearm", "prepared"}
        /\ at' = "closing" =>
             reason' \in {"aborted", "timeout", "limit", "observer", "failed", "context"}
    <3>1. CASE Prune
      BY <1>0, <3>1 DEF Prune, GiveUp, Close, PreStepStop, Stop
    <3>2. CASE Summarise
      BY <1>0, <3>2 DEF Summarise, SummaryFailed, GiveUp, Close, PreStepStop, Stop
    <3> QED BY <1>3, <3>1, <3>2
  <2> QED BY <2>1 DEF InsideStep
<1>4. CASE CutSummary \/ FailSummary \/ StoreSummary \/ EndSummary
  <2>1. /\ at' \in {"closing", "rearm", "prepared", "summarised", "replaced"}
        /\ at' = "closing" =>
             reason' \in {"aborted", "timeout", "limit", "observer", "failed", "context"}
    BY <1>4 DEF CutSummary, FailSummary, StoreSummary, EndSummary, SummaryFailed, GiveUp, Close,
       Stop
  <2> QED BY <2>1 DEF InsideStep
<1>5. CASE EnterStep
  <2>1. \/ at' = "closing" /\ reason' \in {"aborted", "failed"}
        \/ at' = "top"
        \/ at' = "step" /\ steps' = steps + 1
    BY <1>5 DEF EnterStep, GiveUp, Close
  <2> QED BY <1>0, <2>1 DEF InsideStep
<1>6. CASE BeginRequest \/ Dispatch \/ Interrupt \/ StepBreaks
  <2>1. /\ UNCHANGED steps /\ at \in InsideStep
        /\ at' \in {"settle", "dispatch", "stream"}
        /\ at' = "settle" =>
             outcome' \in {"aborted", "timeout", "limit", "observer", "attempts", "failed"}
    BY <1>6 DEF BeginRequest, Dispatch, Interrupt, StepBreaks, Settle, Stop, counters, InsideStep
  <2> QED BY <1>0, <2>1 DEF InsideStep
<1>7. CASE Stream \/ StartRetry
  <2>1. /\ UNCHANGED steps /\ at \in InsideStep
        /\ at' \in {"settle", "stream", "sealed", "step"}
        /\ at' = "settle" => outcome' = "limit"
    BY <1>7 DEF Stream, StartRetry, Settle, counters, InsideStep
  <2> QED BY <1>0, <2>1 DEF InsideStep
<1>8. CASE Answer
  <2>1. /\ UNCHANGED steps /\ at = "sealed" /\ at' = "settle"
        /\ Publish(AttemptRow("assistant")) \/ outcome' = "limit"
    BY <1>8 DEF Answer, Settle, Retire, counters
  <2>2. CASE Publish(AttemptRow("assistant"))
    <3>1. "assistant" \in RowKinds
      BY DEF RowKinds
    <3>2. AttemptRow("assistant") \in LogRow /\ AttemptRow("assistant").kind = "assistant"
      BY <1>0, <3>1, RowFacts
    <3>3. Len(log') = Len(log) + 1 /\ log'[Len(log')] = AttemptRow("assistant")
      BY <1>0, <2>2, <3>2, Written
    <3>4. EndsWith(Replies)'
      BY <1>a, <3>2, <3>3 DEF EndsWith, Replies
    <3> QED BY <1>0, <2>1, <3>4 DEF InsideStep
  <2>3. CASE outcome' = "limit"
    BY <1>0, <2>1, <2>3 DEF InsideStep
  <2> QED BY <2>1, <2>2, <2>3
<1>9. CASE Call
  <2>1. /\ UNCHANGED steps /\ at = "sealed" /\ at' = "round"
        /\ outcome' \in {"continue", "observer"}
    BY <1>9 DEF Call, counters
  <2> QED BY <1>0, <2>1 DEF InsideStep
<1>10. CASE RunRound
  <2>1. /\ UNCHANGED steps /\ at = "round" /\ at' = "settle" /\ Write(Row("results"))
    BY <1>10 DEF RunRound, Settle, counters
  <2>2. "results" \in RowKinds
    BY DEF RowKinds
  <2>3. Row("results") \in LogRow /\ Row("results").kind = "results"
    BY <1>0, <2>2, RowFacts
  <2>4. Len(log') = Len(log) + 1 /\ log'[Len(log')] = Row("results")
    BY <1>0, <2>1, <2>3, Written
  <2>5. EndsWith(Replies)'
    BY <1>a, <2>3, <2>4 DEF EndsWith, Replies
  <2> QED BY <1>0, <2>1, <2>5 DEF InsideStep
<1>11. CASE Retry
  <2>1. /\ UNCHANGED steps /\ at = "sealed" /\ at' \in {"settle", "delay"}
        /\ at' = "settle" => outcome' \in {"failed", "attempts", "observer", "limit"}
    BY <1>11 DEF Retry, Settle
  <2> QED BY <1>0, <2>1 DEF InsideStep
<1>12. CASE EndStep
  <2>1. /\ UNCHANGED steps /\ at = "settle" /\ at' \in {"closing", "stepped"}
        /\ at' = "closing" => reason' = "limit"
    BY <1>12 DEF EndStep, Close, counters
  <2>2. CASE open = "none"
    <3>1. outcome' = outcome /\ Write(Row("step/end"))
      BY <1>12, <2>2 DEF EndStep
    <3>2. "step/end" \in RowKinds
      BY DEF RowKinds
    <3>3. /\ Len(log') = Len(log) + 1 /\ log'[Len(log')] = Row("step/end")
          /\ \A k \in 1..Len(log) : log'[k] = log[k]
          /\ Row("step/end").kind = "step/end" /\ Row("step/end").attempt = 0
      BY <1>0, <3>1, <3>2, RowFacts, Written
    <3>4. ASSUME EndsWith(Replies) PROVE StepEndsWith(Replies)'
      <4>1. Len(log) > 0 /\ log[Len(log)].kind \in Replies
        BY <3>4 DEF EndsWith
      <4>2. Len(log') - 1 = Len(log) /\ log'[Len(log)] = log[Len(log)]
        BY <1>a, <3>3, <4>1
      <4> QED BY <1>a, <3>3, <4>1, <4>2 DEF StepEndsWith, Replies
    <3> QED BY <1>0, <2>1, <2>2, <3>1, <3>4 DEF InsideStep
  <2>3. CASE open # "none"
    <3>1. outcome' \notin Answered
      BY <1>12, <2>3 DEF EndStep
    <3> QED BY <1>0, <2>1, <3>1 DEF InsideStep
  <2> QED BY <2>2, <2>3
<1>13. CASE AfterStep
  <2>1. /\ at = "stepped" /\ at' \in {"closing", "top"} /\ UNCHANGED <<log, steps, stopped>>
    BY <1>13 DEF AfterStep, Close, world, counters, journal
  <2>2. at' = "closing" => reason' \in {"aborted",
  "timeout"} \/ (Stop = "none" /\ reason' = outcome)
    BY <1>0, <1>13 DEF AfterStep, Close, Stop, TypeOK
  <2>3. Stop = "none" => ~stopped
    BY <1>0 DEF Stop, VerdictInv
  <2>4. StepEndsWith(Replies) => StepEndsWith(Replies)'
    BY <2>1 DEF StepEndsWith, Replies
  <2> QED BY <1>0, <2>1, <2>2, <2>3, <2>4 DEF InsideStep
<1>14. CASE EndTurn \/ StorageFails
  <2>1. at' \in {"closed", "failed"}
    BY <1>14 DEF EndTurn, StorageFails
  <2> QED BY <2>1 DEF InsideStep
<1>15. CASE CallerCancels \/ DeadlinePasses \/ ObserverLeaves
  <2>1. /\ UNCHANGED <<at, log, steps, outcome, reason, open>>
        /\ at = "closing" => stopped' = stopped
    BY <1>0, <1>15 DEF CallerCancels, DeadlinePasses, ObserverLeaves, NoteStop, Over, journal,
       counters, verdict, TypeOK
  <2>2. /\ StepEndsWith(Replies) => StepEndsWith(Replies)'
        /\ EndsWith(Replies) => EndsWith(Replies)'
    BY <2>1 DEF StepEndsWith, EndsWith, Replies
  <2> QED BY <1>0, <2>1, <2>2 DEF InsideStep
<1> QED
  BY <1>1, <1>2, <1>3, <1>4, <1>5, <1>6, <1>7, <1>8, <1>9, <1>10, <1>11, <1>12, <1>13, <1>14,
     <1>15 DEF Next, Drive

\* The reason, when the turn has returned it.
LEMMA ReasonStays ==
    ASSUME Inv, Next
    PROVE  ReasonIsTrue'
<1>0. /\ TypeInv /\ TypeOK /\ PlaceInv /\ VerdictInv /\ AnswerInv
      /\ log \in Seq(LogRow) /\ Len(log) \in Nat
  BY DEF Inv, TypeInv
<1>1. at' = "closed" => EndTurn
  <2>1. at # "closed"
    BY <1>0 DEF Next, Drive, OpenTurn, ClaimStep, Prepare, Prune, Summarise, CutSummary,
       FailSummary,
       StoreSummary, EndSummary, BreakSummary, InSummary, Decide, EnterStep, BeginRequest,
       Dispatch, Stream, Interrupt,
       Answer, Call, RunRound, Retry, StartRetry, StepBreaks, EndStep, AfterStep, EndTurn,
       CallerCancels, DeadlinePasses, ObserverLeaves, StorageFails, Over
  <2>2. CASE OpenTurn \/ ClaimStep \/ Prepare \/ Decide
    BY <2>2 DEF OpenTurn, ClaimStep, Prepare, Decide, GiveUp, Close
  <2>3. CASE Prune \/ Summarise \/ CutSummary \/ FailSummary \/ StoreSummary \/ EndSummary \/ EnterStep
    BY <2>1, <2>3 DEF Prune, Summarise, CutSummary, FailSummary, StoreSummary, EndSummary,
       SummaryFailed, EnterStep, GiveUp,
       Close
  <2>4. CASE \/ BeginRequest \/ Dispatch \/ Stream \/ Interrupt \/ Answer \/ Call \/ RunRound
             \/ StartRetry \/ StepBreaks
    BY <2>1, <2>4 DEF BeginRequest, Dispatch, Stream, Interrupt, Answer, Call, RunRound,
       StartRetry, StepBreaks, Settle
  <2>5. CASE Retry
    BY <2>5 DEF Retry, Settle
  <2>6. CASE EndStep \/ AfterStep
    BY <2>6 DEF EndStep, AfterStep, Close
  <2>7. CASE CallerCancels \/ DeadlinePasses \/ ObserverLeaves \/ StorageFails
    BY <2>1, <2>7 DEF CallerCancels, DeadlinePasses, ObserverLeaves, StorageFails
  <2> QED BY <2>2, <2>3, <2>4, <2>5, <2>6, <2>7 DEF Next, Drive
<1>2. SUFFICES ASSUME at' = "closed" PROVE ReasonIsTrue'
  BY DEF ReasonIsTrue
<1>3. /\ at = "closing" /\ Publish(Row("turn/end")) /\ claims' = {} /\ reason' = reason
      /\ UNCHANGED <<open, stopped, cancelled, deadline, steps, lastCall>>
  BY <1>1, <1>2 DEF EndTurn, world, counters
<1>4. open' = "none"
  BY <1>0, <1>3 DEF PlaceInv
<1>5. /\ Len(log') = Len(log) + 1 /\ log'[Len(log')] = Row("turn/end")
      /\ \A k \in 1..Len(log) : log'[k] = log[k]
      /\ synced' = Len(log') /\ Row("turn/end").kind = "turn/end"
  <2>1. "turn/end" \in RowKinds
    BY DEF RowKinds
  <2> QED BY <1>0, <1>3, <2>1, RowFacts, Written
<1>6. ASSUME reason \in {"completed", "maxTokens"}
      PROVE  /\ ~stopped
             /\ steps > 0 =>
                  /\ log'[Len(log') - 1].kind = "step/end"
                  /\ log'[Len(log') - 1].attempt = 0
                  /\ log'[Len(log') - 2].kind \in {"assistant", "results"}
  <2>1. ~stopped /\ (steps > 0 => StepEndsWith(Replies))
    BY <1>0, <1>3, <1>6 DEF AnswerInv, Answered
  <2>2. ASSUME StepEndsWith(Replies)
        PROVE  /\ log'[Len(log') - 1] = log[Len(log)]
               /\ log'[Len(log') - 2] = log[Len(log) - 1]
    <3>1. Len(log) > 1
      BY <2>2 DEF StepEndsWith
    <3>2. Len(log') - 1 = Len(log) /\ Len(log') - 2 = Len(log) - 1
      BY <1>0, <1>5
    <3>3. Len(log) \in 1..Len(log) /\ Len(log) - 1 \in 1..Len(log)
      BY <1>0, <3>1
    <3> QED BY <1>5, <3>2, <3>3
  <2> QED BY <2>1, <2>2 DEF StepEndsWith, Replies
<1>7. /\ reason = "aborted" => cancelled
      /\ reason = "timeout" => deadline
      /\ reason = "attempts" => lastCall # "summary"
  BY <1>0, <1>3 DEF VerdictInv
<1> QED BY <1>3, <1>4, <1>5, <1>6, <1>7 DEF ReasonIsTrue

LEMMA StepPreservesInv == Inv /\ [Next]_vars => Inv'
<1>1. ASSUME Inv, Next PROVE Inv'
  BY <1>1, TypesStay, PlacesStay, VerdictsStay, AnswersStay, ReasonStays DEF Inv
<1>2. ASSUME Inv, UNCHANGED vars PROVE Inv'
  <2>1. TypeInv'
    BY <1>2 DEF Inv, TypeInv, TypeOK, vars
  <2>2. PlaceInv' /\ VerdictInv'
    BY <1>2 DEF Inv, PlaceInv, VerdictInv, vars
  <2>3. AnswerInv' /\ ReasonIsTrue'
    BY <1>2 DEF Inv, AnswerInv, ReasonIsTrue, StepEndsWith, EndsWith, vars
  <2> QED BY <2>1, <2>2, <2>3 DEF Inv
<1> QED BY <1>1, <1>2

LEMMA InvHolds == Spec => []Inv
  BY InitEstablishesInv, StepPreservesInv, PTL DEF Spec

-----------------------------------------------------------------------------
(* Theorems *)

\* The values of a turn keep their types: its steps, attempts and retries never pass
\* their limits (run_turn_inner and run_step), for any limits.
THEOREM TypeCorrect == Spec => []TypeOK
<1>1. Inv => TypeOK
  BY DEF Inv, TypeInv
<1> QED BY <1>1, InvHolds, PTL

\* The reason a turn returns is true, its rows are stored and none is owed
\* (run_turn_inner's closing), for any limits and any interleaving of stops.
THEOREM ReasonHolds == Spec => []ReasonIsTrue
<1>1. Inv => ReasonIsTrue
  BY DEF Inv
<1> QED BY <1>1, InvHolds, PTL

\* What asks a provider for something, or retires an attempt, does so with an open
\* journal behind it.
LEMMA StepWaits ==
    ASSUME Inv, Next
    PROVE  LET requested == \/ open = "none" /\ open' # "none"
                            \/ at # "summary" /\ at' = "summary"
               retired == open # "none" /\ open' = "none"
           IN  /\ requested \/ retired => synced' = Len(log')
               /\ requested => open = "none" /\ PreStepStop = "none"
<1> DEFINE requested == \/ open = "none" /\ open' # "none"
                        \/ at # "summary" /\ at' = "summary"
           retired == open # "none" /\ open' = "none"
<1> SUFFICES /\ requested \/ retired => synced' = Len(log')
             /\ requested => open = "none" /\ PreStepStop = "none"
  OBVIOUS
<1>0. PlaceInv /\ log \in Seq(LogRow)
  BY DEF Inv, TypeInv
<1>a. \A row : Publish(row) => synced' = Len(log')
  BY <1>0 DEF Publish
<1>1. CASE Dispatch
  <2>1. synced' = Len(log') /\ at = "dispatch" /\ at' # "summary"
    BY <1>1 DEF Dispatch, Settle
  <2>2. ~limit /\ open = "none"
    BY <1>0, <2>1 DEF PlaceInv
  <2>3. open' # "none" => Stop = "none"
    BY <1>1, <2>2 DEF Dispatch
  <2> QED BY <2>1, <2>2, <2>3 DEF PreStepStop
<1>2. CASE Summarise
  <2>1. open' = open /\ at = "prepared" /\ open = "none"
    BY <1>0, <1>2 DEF Summarise, PlaceInv
  <2>2. at' = "summary" => PreStepStop = "none" /\ Publish(Row("compaction/start"))
    BY <1>2 DEF Summarise, SummaryFailed, GiveUp, Close
  <2> QED BY <1>a, <2>1, <2>2
<1>3. CASE Answer \/ Call
  <2>1. /\ at' # "summary" /\ at = "sealed"
        /\ open' # open => open' = "none" /\ Publish(AttemptRow("assistant"))
    BY <1>3 DEF Answer, Call, Settle, Retire
  <2> QED BY <1>a, <2>1
<1>4. CASE Retry
  <2>1. /\ at' # "summary"
        /\ open' # open => open' = "none" /\ \E row : Publish(row)
    BY <1>4 DEF Retry, Settle, Retire
  <2> QED BY <1>a, <2>1
<1>5. CASE EndStep
  <2>1. /\ at' # "summary" /\ open' = "none"
        /\ open # "none" => Publish(AttemptRow("step/end"))
    BY <1>5 DEF EndStep, Close
  <2> QED BY <1>a, <2>1
<1>6. CASE Stream
  <2>1. at = "stream" /\ at' # "summary" /\ open' \in {open, "sealed"}
    BY <1>6 DEF Stream, Settle
  <2>2. open # "none"
    BY <1>0, <2>1 DEF PlaceInv
  <2> QED BY <2>1, <2>2
<1>7. CASE OpenTurn \/ ClaimStep \/ Prepare \/ Prune \/ Decide \/ EnterStep
  <2>1. open' = open /\ (at' = "summary" => at = "summary")
    BY <1>7 DEF OpenTurn, ClaimStep, Prepare, Prune, Decide, EnterStep, GiveUp, Close
  <2> QED BY <2>1
<1>8. CASE CutSummary \/ FailSummary \/ StoreSummary \/ EndSummary \/ BeginRequest \/ Interrupt \/ RunRound \/ StartRetry
  <2>1. open' = open /\ (at' = "summary" => at = "summary")
    BY <1>8 DEF CutSummary, FailSummary, StoreSummary, EndSummary, BreakSummary, InSummary,
       SummaryFailed, BeginRequest, Interrupt,
       RunRound, StartRetry, GiveUp, Close, Settle
  <2> QED BY <2>1
<1>9. CASE StepBreaks \/ AfterStep \/ EndTurn \/ CallerCancels \/ DeadlinePasses
           \/ ObserverLeaves \/ StorageFails
  <2>1. open' = open /\ (at' = "summary" => at = "summary")
    BY <1>9 DEF StepBreaks, AfterStep, EndTurn, CallerCancels, DeadlinePasses, ObserverLeaves,
       StorageFails, Settle, Close
  <2> QED BY <2>1
<1> QED BY <1>1, <1>2, <1>3, <1>4, <1>5, <1>6, <1>7, <1>8, <1>9 DEF Next, Drive

\* A provider is asked only behind a barrier, with no attempt open and before a stop,
\* and an attempt is retired only behind its stored closure (run_step, compact_once).
THEOREM RequestsWait == Spec => RequestBehindBarrier
<1>1. Inv /\ [Next]_vars =>
        [LET requested == \/ open = "none" /\ open' # "none"
                          \/ at # "summary" /\ at' = "summary"
             retired == open # "none" /\ open' = "none"
         IN  /\ requested \/ retired => synced' = Len(log')
             /\ requested => open = "none" /\ PreStepStop = "none"]_vars
  BY StepWaits
<1> QED BY <1>1, InvHolds, PTL DEF Spec, RequestBehindBarrier
=============================================================================
