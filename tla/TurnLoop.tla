------------------------------ MODULE TurnLoop ------------------------------
(***************************************************************************)
(* One turn of the agent: run_turn_inner, run_entered_turn, run_step,      *)
(* consume_stream and commit_successful_attempt of src/agent/mod.rs, with  *)
(* the automatic summary of src/agent/compaction.rs, in a durable session. *)
(*                                                                         *)
(* A turn is a loop of steps, a step a loop of provider attempts.  Before  *)
(* a step its rows are claimed, the request is prepared and, when it does  *)
(* not fit, pruned and summarised.  The tools of a step are one action     *)
(* here (see ToolRound), the session below is a log with a durable prefix  *)
(* (see DurableSession) which TurnReplay reads back, notices are left to   *)
(* JobNotices.  The header's row stands for the context's as well; rows of *)
(* titles, pruning and plan mode are left out.                             *)
(***************************************************************************)
EXTENDS TurnReplay

CONSTANTS MaxSteps,     \* max_steps_per_turn
          MaxAttempts,  \* max_attempts_per_turn, summaries included
          MaxRetries,   \* max_retries_per_step
          Policies,     \* calls: a provider with its retry policy
          PolicyMax,    \* maxRetries of a policy
          FirstCalls,   \* bound: calls a turn may begin with
          Wordy,        \* bound: attempts whose stream has content
          MaxChunks     \* bound: rows of content in a turn

ASSUME LimitsAssumption ==
    /\ {MaxSteps, MaxAttempts, MaxRetries, PolicyMax, MaxChunks} \subseteq Nat
    /\ MaxSteps > 0 /\ MaxAttempts > 0
    /\ "none" \notin Policies /\ FirstCalls \subseteq Policies

VARIABLES
    at,          \* where the turn's future waits, or "closed" (Ok), "failed" (Err)
    log, synced, \* the rows of the turn, and how many are durable
    claims,      \* rows the turn has room reserved for: "step/end", "turn/end", ...
    open,        \* the attempt token: none, streaming, sealed
    cancelled, deadline, observer, \* the caller, the clock, whoever watches
    limit,       \* driver.durable_limit
    steps, attempts, retries, \* Counters of the turn, and retries_in_step
    chain,       \* retry_chains: retries made of each policy in this step
    policy,      \* the call of the attempt under way
    prep,        \* AttemptPreparation of the step's first attempt
    tried,       \* triggers for which pruning was tried in this round of the loop
    summarised,  \* summary_attempted
    outcome, latched, \* StepResolution
    reason,      \* TurnEndReason
    stopped,     \* ghost: a stop came before the turn began to close
    lastCall     \* ghost: what the last counted attempt was for

world    == <<cancelled, deadline, observer, stopped>>
journal  == <<log, synced>>
counters == <<steps, attempts, retries, chain, policy, lastCall>>
request  == <<prep, tried, summarised>>
verdict  == <<outcome, latched, reason>>
vars == <<at, log, synced, claims, open, cancelled, deadline, observer, limit, steps, attempts,
          retries, chain, policy, prep, tried, summarised, outcome, latched, reason, stopped,
          lastCall>>

InSummary == {"summary", "summarised", "replaced"}
Places == {"opening", "top", "claimed", "prepared", "rearm", "step", "dispatch", "stream", "sealed",
           "delay", "round", "settle", "stepped", "closing", "closed", "failed"} \cup InSummary
Over == {"closed", "failed"}
Failures == {"aborted", "timeout", "limit", "observer", "attempts", "failed"}
Outcomes == {"continue", "completed", "maxTokens"} \cup Failures
Reasons  == (Outcomes \ {"continue"}) \cup {"none", "blocked", "steps", "context"}

Row(kind) == [kind |-> kind, step |-> steps, attempt |-> 0, of |-> "none", n |-> 0]
AttemptRow(kind) == [Row(kind) EXCEPT !.attempt = attempts]
RetryRow(kind, p, n) ==
    [kind |-> kind, step |-> steps, attempt |-> attempts, of |-> p, n |-> n]
HeaderRow(p)    == [Row("request/header") EXCEPT !.of = p]
ChunkRow(part)  == [AttemptRow("chunk") EXCEPT !.of = part]
BrokenSummary   == [Row("compaction/end") EXCEPT !.of = "error"]

Init ==
    /\ at = "opening" /\ log = <<>> /\ synced = 0 /\ claims = {} /\ open = "none"
    /\ cancelled = FALSE /\ deadline = FALSE /\ observer = TRUE /\ limit = FALSE
    /\ steps = 0 /\ attempts = 0 /\ retries = 0
    /\ chain = [p \in Policies |-> 0] /\ policy = "none"
    /\ prep = "none" /\ tried = {} /\ summarised = FALSE
    /\ outcome = "continue" /\ latched = "none" /\ reason = "none"
    /\ stopped = FALSE /\ lastCall = "none"

-----------------------------------------------------------------------------
(* What several steps share *)

\* An append, and an append followed by dispatch_barrier.
Write(row)   == log' = Append(log, row) /\ UNCHANGED synced
Publish(row) == log' = Append(log, row) /\ synced' = Len(log) + 1

\* failure_for_budget: the session has no room; the turn will say so.
Full == limit' = TRUE /\ UNCHANGED journal

Close(why)  == at' = "closing" /\ reason' = why
GiveUp(why) == claims' = {"turn/end"} /\ Close(why)
Settle(how) == at' = "settle" /\ outcome' = how

\* The caller's stop is looked at before the clock's.
Stop == IF cancelled THEN "aborted" ELSE IF deadline THEN "timeout" ELSE "none"

\* pre_step_stop
PreStepStop == IF limit THEN "limit" ELSE Stop

Preparations == {"ready", "pressure", "hard", "failure"}

-----------------------------------------------------------------------------
(* The turn *)

\* run_turn_inner up to the first step: a proposal is refused, empty or entered.
OpenTurn ==
    /\ at = "opening"
    /\ claims' = {"turn/end"}
    /\ Write(Row("turn/start"))
    /\ IF cancelled THEN Close("aborted")
       ELSE \/ \E why \in {"blocked", "completed"} : Close(why)
            \/ at' = "top" /\ UNCHANGED reason
    /\ UNCHANGED <<open, limit, outcome, latched, world, counters, request>>

\* The head of the loop: stops and limits, then context and claims of the step.
ClaimStep ==
    /\ at = "top"
    /\ IF Stop # "none" THEN Close(Stop) /\ UNCHANGED <<claims, limit, tried>>
       ELSE IF steps >= MaxSteps THEN Close("steps") /\ UNCHANGED <<claims, limit, tried>>
       ELSE \/ Close("failed") /\ UNCHANGED <<claims, limit, tried>>
            \/ Close("limit") /\ limit' = TRUE /\ UNCHANGED <<claims, tried>>
            \/ /\ claims' = claims \cup {"step/start", "step/end"}
               /\ tried' = {}
               /\ at' = "claimed"
               /\ UNCHANGED <<limit, reason>>
    /\ UNCHANGED <<open, outcome, latched, prep, summarised, journal, world, counters>>

\* The first request of the step is prepared, if an attempt is left for it.
Prepare ==
    /\ at = "claimed"
    /\ IF PreStepStop # "none" THEN GiveUp(PreStepStop) /\ UNCHANGED prep
       ELSE /\ IF attempts >= MaxAttempts THEN at' = "rearm" /\ prep' = "none"
               ELSE at' = "prepared" /\ prep' \in Preparations
            /\ UNCHANGED <<claims, reason>>
    /\ UNCHANGED <<open, limit, outcome, latched, tried, summarised, journal, world, counters>>

NeedsPrune == \/ prep = "hard" /\ tried = {}
              \/ prep = "pressure" /\ ~summarised /\ "pressure" \notin tried

\* prune_hard_limited_request, and the request prepared again if that changed it.
Prune ==
    /\ at = "prepared" /\ NeedsPrune
    /\ tried' = tried \cup {prep}
    /\ IF PreStepStop # "none" THEN GiveUp(PreStepStop) /\ UNCHANGED <<prep, limit>>
       ELSE \/ /\ prep' \in Preparations
               /\ UNCHANGED <<at, claims, reason, limit>>
            \/ ~observer /\ GiveUp("observer") /\ UNCHANGED <<prep, limit>>
            \/ GiveUp("limit") /\ limit' = TRUE /\ UNCHANGED prep
    /\ UNCHANGED <<open, outcome, latched, summarised, journal, world, counters>>

\* No summary: fatal for a request that does not fit, else the step goes on.
SummaryFailed == IF prep = "hard" THEN GiveUp("context")
                 ELSE at' = "rearm" /\ UNCHANGED <<claims, reason>>

CountSummary == attempts' = attempts + 1 /\ lastCall' = "summary" /\ summarised' = TRUE

\* compact_once up to the stream: it leaves an attempt for the step, and is made
\* at most once in a turn.
Summarise ==
    /\ at = "prepared" /\ ~NeedsPrune /\ prep \in {"hard", "pressure"} /\ ~summarised
    /\ \/ /\ PreStepStop # "none" /\ GiveUp(PreStepStop)
          /\ UNCHANGED <<limit, attempts, lastCall, summarised, journal>>
       \/ /\ PreStepStop = "none" /\ SummaryFailed
          /\ UNCHANGED <<limit, attempts, lastCall, summarised, journal>>
       \/ /\ PreStepStop = "none" /\ attempts + 1 < MaxAttempts
          /\ CountSummary
          /\ \/ SummaryFailed /\ UNCHANGED <<limit, journal>>
             \/ GiveUp("limit") /\ Full
             \/ /\ Publish(Row("compaction/start"))
                /\ at' = "summary" /\ UNCHANGED <<claims, reason, limit>>
    /\ UNCHANGED <<open, outcome, latched, prep, tried, world, steps, retries, chain, policy>>

\* The summary is stored, then the message that replaces what it stands for.
StoreSummary ==
    /\ Stop = "none"
    /\ \/ /\ at = "summary" /\ at' = "summarised"
          /\ Write(Row("compaction/summary"))
       \/ /\ at = "summarised" /\ at' = "replaced"
          /\ Write(Row("compaction/checkpoint"))
    /\ UNCHANGED <<claims, open, limit, request, world, counters, verdict>>

\* close_failed_bracket
BreakSummary == at \in {"summary", "summarised"} /\ Publish(BrokenSummary)

\* A stop closes the summary, without waiting for it.
CutSummary ==
    /\ BreakSummary /\ Stop # "none"
    /\ GiveUp(IF observer THEN Stop ELSE "observer")
    /\ UNCHANGED <<open, limit, outcome, latched, request, world, counters>>

\* It failed, reported too many tokens, or met the limit.
FailSummary ==
    /\ BreakSummary /\ Stop = "none"
    /\ IF ~observer THEN GiveUp("observer") /\ limit' \in {limit, TRUE}
       ELSE \/ SummaryFailed /\ UNCHANGED limit
            \/ GiveUp("failed") /\ UNCHANGED limit
            \/ GiveUp("limit") /\ limit' = TRUE
    /\ UNCHANGED <<open, outcome, latched, request, world, counters>>

\* The rest of compact_once: the request is rebuilt, also when there was no room left
\* to say that the summary succeeded.
EndSummary ==
    /\ at = "replaced"
    /\ \E row \in {Row("compaction/end"), BrokenSummary} : Publish(row)
    /\ IF observer
       THEN prep' \in Preparations /\ at' = "prepared" /\ UNCHANGED <<claims, reason>>
       ELSE GiveUp("observer") /\ UNCHANGED prep
    /\ UNCHANGED <<open, limit, tried, summarised, world, counters, outcome, latched>>

\* A request that fits, or one that was summarised already.
Decide ==
    /\ at = "prepared" /\ ~NeedsPrune
    /\ prep \in {"ready", "failure"} \/ summarised
    /\ IF PreStepStop # "none" THEN GiveUp(PreStepStop)
       ELSE IF prep = "hard" THEN GiveUp("context")
       ELSE at' = "rearm" /\ UNCHANGED <<claims, reason>>
    /\ UNCHANGED <<open, limit, outcome, latched, request, journal, world, counters>>

\* The second look at the context: what is new goes through the loop again, else
\* the step is entered.
EnterStep ==
    /\ at = "rearm"
    /\ \/ /\ GiveUp(IF cancelled THEN "aborted" ELSE "failed")
          /\ UNCHANGED <<journal, steps, retries, chain, outcome>>
       \/ /\ ~cancelled
          /\ claims' = {"turn/end"} /\ at' = "top"
          /\ UNCHANGED <<journal, steps, retries, chain, outcome, reason>>
       \/ /\ ~cancelled
          /\ claims' = claims \ {"step/start"}
          /\ steps' = steps + 1
          /\ Write([Row("step/start") EXCEPT !.step = steps + 1])
          /\ retries' = 0 /\ chain' = [p \in Policies |-> 0]
          /\ outcome' = "continue" /\ at' = "step"
          /\ UNCHANGED reason
    /\ UNCHANGED <<open, limit, latched, request, world, attempts, policy, lastCall>>

-----------------------------------------------------------------------------
(* A step: one attempt after the other *)

\* The agent's first header, or one that differs from the session's.
NewHeader(p) == Replay(log).header # p

\* The head of run_step's loop: stops, the limit of attempts, the request and its header.
BeginRequest ==
    /\ at = "step"
    /\ prep' = "none"
    /\ IF Stop # "none"
       THEN Settle(Stop) /\ UNCHANGED <<attempts, lastCall, limit, policy, journal>>
       ELSE IF attempts >= MaxAttempts
       THEN Settle("attempts") /\ UNCHANGED <<attempts, lastCall, limit, policy, journal>>
       ELSE /\ attempts' = attempts + 1 /\ lastCall' = "step"
            /\ \/ Settle("failed") /\ UNCHANGED <<limit, policy, journal>>
               \/ Settle("limit") /\ Full /\ UNCHANGED policy
               \/ \E p \in IF policy = "none" THEN FirstCalls ELSE Policies :
                    /\ policy' = p
                    /\ IF NewHeader(p) THEN Write(HeaderRow(p)) ELSE UNCHANGED journal
                    /\ \/ Settle("failed") /\ UNCHANGED limit
                       \/ Settle("limit") /\ limit' = TRUE
                       \/ prep # "failure" /\ at' = "dispatch" /\ UNCHANGED <<outcome, limit>>
    /\ UNCHANGED <<claims, open, latched, reason, tried, summarised, world, steps, retries, chain>>

\* Mutant: the request goes out although what precedes it is not durable
DispatchUnsynced ==
    /\ at = "dispatch"
    /\ open' = "streaming" /\ at' = "stream"
    /\ UNCHANGED <<claims, limit, reason, outcome, latched, journal, request, world, counters>>

\* The barrier before a request, the stops after it, and the attempt's token.
Dispatch ==
    /\ at = "dispatch"
    /\ synced' = Len(log) /\ UNCHANGED log
    /\ IF ~observer THEN Settle("observer") /\ UNCHANGED open
       ELSE IF Stop # "none" THEN Settle(Stop) /\ UNCHANGED open
       ELSE open' = "streaming" /\ at' = "stream" /\ UNCHANGED outcome
    /\ UNCHANGED <<claims, limit, reason, latched, request, world, counters>>

Content == {k \in DOMAIN log : log[k].of = "content"}
Ended(how) == Len(log) > 0 /\ log[Len(log)] = ChunkRow(how)

\* consume_stream: what comes from the provider is stored until it ends, as it must, with
\* its result; a provider that goes on after it or stops before it breaks the step.
Stream ==
    /\ at = "stream" /\ Stop = "none"
    /\ \/ /\ ~Ended("finish") /\ ~Ended("failure")
          /\ \/ /\ \E part \in {"content", "finish", "failure"} :
                    /\ part = "content" =>
                         attempts \in Wordy /\ Cardinality(Content) < MaxChunks
                    /\ Write(ChunkRow(part))
                /\ UNCHANGED <<at, outcome, limit>>
             \/ Settle("limit") /\ Full
          /\ UNCHANGED open
       \/ /\ Ended("finish") \/ Ended("failure")
          /\ open' = "sealed" /\ at' = "sealed"
          /\ UNCHANGED <<outcome, limit, journal>>
    /\ UNCHANGED <<claims, latched, reason, request, world, counters>>

\* Mutant: the wait for the provider is not bounded by the turn's deadline
InterruptOnCancelOnly ==
    /\ at = "stream" /\ cancelled
    /\ Settle("aborted")
    /\ UNCHANGED <<claims, open, limit, latched, reason, journal, request, world, counters>>

\* A wait for the provider or for a retry is cut by the caller or the deadline.
Interrupt ==
    /\ at \in {"stream", "sealed", "delay"} /\ Stop # "none"
    /\ Settle(Stop)
    /\ UNCHANGED <<claims, open, limit, latched, reason, journal, request, world, counters>>

\* The closure of an attempt, behind a barrier; then the attempt is retired.
Retire(row) == Publish(row) /\ open' = "none"

\* commit_successful_attempt without calls, or when there is no room left.
Answer ==
    /\ at = "sealed" /\ Stop = "none" /\ Ended("finish")
    /\ \/ /\ Retire(AttemptRow("assistant"))
          /\ \E how \in {"completed", "maxTokens"} :
               Settle(IF observer THEN how ELSE "observer")
          /\ UNCHANGED limit
       \/ Settle("limit") /\ Full /\ UNCHANGED open
    /\ UNCHANGED <<claims, latched, reason, request, world, counters>>

\* The assistant message of a round of tools, whose rows have been claimed.
Call ==
    /\ at = "sealed" /\ Stop = "none" /\ Ended("finish")
    /\ Retire(AttemptRow("assistant"))
    /\ at' = "round"
    /\ outcome' = IF observer THEN "continue" ELSE "observer"
    /\ UNCHANGED <<claims, limit, latched, reason, request, world, counters>>

\* commit_tool_round: the calls are answered, and the first stop is latched.
RunRound ==
    /\ at = "round"
    /\ Write(Row("results"))
    /\ limit' \in {limit, TRUE}
    /\ latched' \in (IF cancelled THEN {"aborted"} ELSE {})
                      \cup (IF deadline THEN {"timeout"} ELSE {})
                      \cup (IF Stop = "none" THEN {"none"} ELSE {})
    /\ IF limit' THEN Settle("limit")
       ELSE IF outcome = "observer" THEN Settle("observer")
       ELSE \E how \in {"failed"}
                     \cup (IF observer THEN {} ELSE {"observer"})
                     \cup (IF latched' = "none" THEN {"continue", "completed"} ELSE {latched'}) :
              Settle(how)
    /\ UNCHANGED <<claims, open, reason, request, world, counters>>

\* Mutant: retries are numbered through the step, not through their chain
RetryAcross ==
    /\ at = "sealed" /\ Stop = "none" /\ Ended("failure")
    /\ retries < MaxRetries /\ attempts < MaxAttempts
    /\ Retire(RetryRow("retry", policy, retries + 1))
    /\ chain' = [chain EXCEPT ![policy] = retries + 1]
    /\ retries' = retries + 1
    /\ at' = "delay"
    /\ UNCHANGED <<outcome, limit, claims, latched, reason, request, world, steps, attempts,
                   policy, lastCall>>

\* The provider failed: another attempt, if its policy and the limits allow one.
Retry ==
    /\ at = "sealed" /\ Stop = "none" /\ Ended("failure")
    /\ IF chain[policy] + 1 > PolicyMax \/ retries >= MaxRetries
       THEN Settle("failed") /\ UNCHANGED <<open, limit, journal, chain, retries>>
       ELSE IF attempts >= MaxAttempts
       THEN Settle("attempts") /\ UNCHANGED <<open, limit, journal, chain, retries>>
       ELSE \/ /\ Retire(RetryRow("retry", policy, chain[policy] + 1))
               /\ IF observer
                  THEN /\ chain' = [chain EXCEPT ![policy] = @ + 1]
                       /\ retries' = retries + 1
                       /\ at' = "delay" /\ UNCHANGED outcome
                  ELSE Settle("observer") /\ UNCHANGED <<chain, retries>>
               /\ UNCHANGED limit
            \/ Settle("limit") /\ Full /\ UNCHANGED <<open, chain, retries>>
    /\ UNCHANGED <<claims, latched, reason, request, world, steps, attempts, policy, lastCall>>

\* The delay is over: the retry is announced and the loop starts again.
StartRetry ==
    /\ at = "delay" /\ Stop = "none"
    /\ \/ /\ Write([RetryRow("retry/started", policy, chain[policy]) EXCEPT !.attempt = 0])
          /\ at' = "step" /\ UNCHANGED <<outcome, limit>>
       \/ Settle("limit") /\ Full
    /\ UNCHANGED <<claims, open, latched, reason, request, world, counters>>

\* The provider or its stream fails, calls are not valid, or run_step itself errs or
\* panics: the step still ends, and closes the attempt it left open.
StepBreaks ==
    /\ at \in {"step", "dispatch", "stream", "sealed", "delay", "round"}
    /\ Settle("failed")
    /\ UNCHANGED <<claims, open, limit, latched, reason, journal, request, world, counters>>

-----------------------------------------------------------------------------
(* The end of a step and of the turn *)

\* The step's end is the closure of an attempt that has none, and is claimed, so
\* there is room for it whatever happened.
EndStep ==
    /\ at = "settle"
    /\ claims' = claims \ {"step/end"}
    /\ open' = "none"
    /\ LET answered == outcome \in {"continue", "completed", "maxTokens"}
           row == IF open = "none" THEN Row("step/end") ELSE AttemptRow("step/end")
           how == IF open = "none" THEN outcome
                  ELSE IF ~observer THEN "observer"
                  ELSE IF answered THEN "failed" ELSE outcome
       IN  /\ IF open = "none" THEN Write(row) ELSE Publish(row)
           /\ outcome' = how
           /\ IF limit THEN Close("limit") ELSE at' = "stepped" /\ UNCHANGED reason
    /\ UNCHANGED <<limit, latched, request, world, counters>>

\* Mutant: the stop is not looked at again after the step's end
AfterStepUnstopped ==
    /\ at = "stepped"
    /\ latched' = "none"
    /\ IF latched # "none" THEN Close(latched)
       ELSE IF outcome = "continue" THEN at' = "top" /\ UNCHANGED reason
       ELSE Close(outcome)
    /\ UNCHANGED <<claims, open, limit, outcome, journal, request, world, counters>>

\* After a yield: a stop comes before whatever the step resulted in.  A completed
\* turn goes on if a notice came meanwhile.
AfterStep ==
    /\ at = "stepped"
    /\ latched' = "none"
    /\ LET stop == IF latched # "none" THEN latched ELSE Stop
       IN  IF stop # "none" THEN Close(stop)
           ELSE \/ outcome # "continue" /\ Close(outcome)
                \/ /\ outcome = "continue" \/ (outcome = "completed" /\ steps < MaxSteps)
                   /\ at' = "top" /\ UNCHANGED reason
    /\ UNCHANGED <<claims, open, limit, outcome, journal, request, world, counters>>

\* turn/end with its reason or, without room for it, with the claimed one, and the
\* last barrier; the limit and a watcher that left are errors of the turn.
EndTurn ==
    /\ at = "closing"
    /\ Publish(Row("turn/end"))
    /\ claims' = {}
    /\ reason' \in {reason, "limit"}
    /\ limit' = (limit \/ reason' = "limit")
    /\ at' = IF limit' \/ ~observer THEN "failed" ELSE "closed"
    /\ UNCHANGED <<open, outcome, latched, request, world, counters>>

-----------------------------------------------------------------------------
(* What happens around the turn *)

\* stopped says that the turn had yet to decide its end.
NoteStop == stopped' = (stopped \/ at \notin {"closing"} \cup Over)

CallerCancels ==
    /\ ~cancelled /\ at \notin Over
    /\ cancelled' = TRUE /\ NoteStop
    /\ UNCHANGED <<at, claims, open, limit, deadline, observer, journal, counters, request, verdict>>

DeadlinePasses ==
    /\ ~deadline /\ at \notin Over \cup {"opening"}
    /\ deadline' = TRUE /\ NoteStop
    /\ UNCHANGED <<at, claims, open, limit, cancelled, observer, journal, counters, request, verdict>>

ObserverLeaves ==
    /\ observer /\ at \notin Over
    /\ observer' = FALSE
    /\ UNCHANGED <<at, claims, open, limit, cancelled, deadline, stopped, journal, counters,
                   request, verdict>>

\* The session fails below the turn: run_turn returns the error as it is.
StorageFails ==
    /\ at \notin Over
    /\ at' = "failed"
    /\ UNCHANGED <<claims, open, limit, world, journal, counters, request, verdict>>

Drive ==
    \/ OpenTurn \/ ClaimStep \/ Prepare \/ Prune \/ Summarise \/ CutSummary \/ EndSummary \/ Decide
    \/ EnterStep \/ BeginRequest \/ Dispatch \/ Interrupt \/ Answer \/ Call \/ RunRound
    \/ Retry \/ StartRetry \/ EndStep \/ AfterStep \/ EndTurn

Next ==
    \/ Drive \/ Stream \/ StoreSummary \/ FailSummary
    \/ StepBreaks \/ CallerCancels \/ DeadlinePasses \/ ObserverLeaves \/ StorageFails

Spec == Init /\ [][Next]_vars

\* The turn's future is polled when it can go on and its deadline comes; a provider
\* may be silent for ever, the tools of a round are bounded by the deadline.
FairSpec == Spec /\ WF_vars(Drive) /\ WF_vars(DeadlinePasses)

-----------------------------------------------------------------------------
(* What a turn guarantees *)

TypeOK ==
    /\ at \in Places /\ open \in {"none", "streaming", "sealed"}
    /\ synced \in 0..Len(log)
    /\ claims \subseteq {"step/start", "step/end", "turn/end"}
    /\ cancelled \in BOOLEAN /\ deadline \in BOOLEAN /\ observer \in BOOLEAN
    /\ limit \in BOOLEAN /\ summarised \in BOOLEAN /\ stopped \in BOOLEAN
    /\ steps \in 0..MaxSteps /\ attempts \in 0..MaxAttempts /\ retries \in 0..MaxRetries
    /\ chain \in [Policies -> 0..PolicyMax] /\ policy \in Policies \cup {"none"}
    /\ prep \in Preparations \cup {"none"} /\ tried \subseteq {"hard", "pressure"}
    /\ outcome \in Outcomes /\ latched \in {"none", "aborted", "timeout"} /\ reason \in Reasons
    /\ lastCall \in {"none", "step", "summary"}

\* However a turn is cut, what it has written replays, so every prefix that a crash may
\* leave does: steps and summaries nest, what an attempt leaves is in its step and closed
\* once by the row that fits its end, a retry names the header in force and its number and
\* is announced once.  Recovery closes it, and reads the attempt as the session holds it.
LogReplays ==
    LET p == Replay(log)
    IN  /\ TypeOK
        /\ p.ok
        /\ Recovered(p).ok /\ Quiescent(Recovered(p))
        /\ open = "none" => ~HasOpenAttempt(p)
        /\ open = "streaming" => HasOpenAttempt(p) \/ p.attempt = "ready"
        /\ open = "sealed" => p.attempt \in {"finished", "failed"}

\* Nothing is sent to a provider, for a step or a summary, before all rows so far are
\* durable, while another attempt is open, or after a stop; and an attempt is retired
\* only behind its durable closure.
RequestBehindBarrier ==
    [][LET requested == \/ open = "none" /\ open' # "none"
                        \/ at # "summary" /\ at' = "summary"
           retired == open # "none" /\ open' = "none"
       IN  /\ requested \/ retired => synced' = Len(log')
           /\ requested => open = "none" /\ PreStepStop = "none"]_vars

\* A turn that returns a reason has written and stored it, owes no row, and the reason
\* is what happened: a stop that came before the turn began to close is never hidden
\* behind an answer, an answer was stored by the last step, nobody is said to have
\* stopped a turn who did not, and a summary never used up the last attempt.
ReasonIsTrue ==
    at = "closed" =>
      /\ log[Len(log)].kind = "turn/end" /\ synced = Len(log)
      /\ claims = {} /\ open = "none"
      /\ reason \in {"completed", "maxTokens"} =>
           /\ ~stopped
           /\ steps > 0 => /\ log[Len(log) - 1].kind = "step/end"
                           /\ log[Len(log) - 1].attempt = 0
                           /\ log[Len(log) - 2].kind \in {"assistant", "results"}
      /\ reason = "aborted" => cancelled
      /\ reason = "timeout" => deadline
      /\ reason = "attempts" => lastCall # "summary"

\* A turn ends although the provider may be silent: every wait ends by the deadline.
TurnEnds == <>(at \in Over)
=============================================================================
