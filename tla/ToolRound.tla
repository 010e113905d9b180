------------------------------ MODULE ToolRound ------------------------------
(***************************************************************************)
(* One round of tool calls: the calls an assistant message asks for run    *)
(* alone or, where their tools allow it, in a rolling pool; every call is  *)
(* announced behind a barrier before it starts, asked about where policy   *)
(* says so, and answered in the order of the message whatever stops it.    *)
(*                                                                         *)
(* One future drives the round.  Between two of its awaits the caller may  *)
(* cancel, the turn's deadline may pass and the live observer may go away. *)
(* Contents and sizes of results, the conclusion of the turn and repeated- *)
(* call reminders are left out; a result that does not fit its budget is   *)
(* one of the outcomes of settling it.                                     *)
(***************************************************************************)
EXTENDS Naturals, Sequences, FiniteSets

CONSTANTS
    Rounds,      \* rounds that may come: the calls' modes, the session, the policy
    MaxParallel  \* max_parallel_tool_calls

ASSUME PoolAssumption == MaxParallel \in Nat \ {0}

\* "parallel" and "plain" calls do their work while they are prepared; "state"
\* changes a goal or the to-do list, "exit" leaves plan mode, "mutation" changes
\* files and "action" runs a shell command, the same one in every call.
Modes == {"parallel", "plain", "state", "exit", "mutation", "action"}

Policies == {"allow", "ask", "deny"}

ASSUME RoundAssumption ==
    Rounds \subseteq [modes : Seq(Modes), durable : BOOLEAN, policy : Policies]

VARIABLES
    round,       \* modes, whether the session is durable, the approval policy
    token, deadline, observerUp,  \* the caller cancelled, the turn's time is up,
                                  \* someone still watches the session
    at, index,   \* where the driving future stands, and at which call
    pool,        \* locals of a parallel group
    body,        \* what is under way for each call
    slot,        \* what a call came to, until it is settled
    answer,      \* the approval's outcome and the stop seen meanwhile
    driver,      \* limit, observer_unavailable and the stops latched so far
    grant,       \* the exact-command grant: held, and the candidate of this call
    log, seen,   \* rows committed, and how many of them a barrier covered
    released,    \* claims given back
    ran,         \* calls whose work started
    scoped       \* history: approvals that also asked for the exact command

vars == <<round, token, deadline, observerUp, at, index, pool, body, slot, answer,
          driver, grant, log, seen, released, ran, scoped>>

environment == <<token, deadline, observerUp>>
config      == <<round, released>>
history     == <<ran, scoped>>

-----------------------------------------------------------------------------
Calls   == DOMAIN round.modes
Mode(i) == round.modes[i]

\* A call whose profile is owned by the agent: its failures are results of the
\* action's own shape.
Owned(i) == Mode(i) = "action"

Stops    == {"none", "cancelled", "timeout"}
Outcomes == {"AllowedOnce", "Rejected", "Cancelled", "Unavailable"}

\* latch_tool_stop
Latch(current, observed) == IF current = "none" THEN observed ELSE current

\* sample_tool_stop
Sample == IF token THEN "cancelled" ELSE IF deadline THEN "timeout" ELSE "none"

Run(code, stop, required) == [code |-> code, stop |-> stop, required |-> required]
NoRun == Run("none", "none", FALSE)

\* prestart_failure
Prestart(i, code, stop) ==
    CASE Owned(i) \/ stop = "none"           -> Run(code, stop, FALSE)
      [] ~Owned(i) /\ stop = "cancelled"     -> Run("ABORTED", stop, FALSE)
      [] ~Owned(i) /\ stop = "timeout"       -> Run("TURN_TIMEOUT", stop, FALSE)

NotStarted == {"ABORTED_BEFORE_DISPATCH", "SESSION_LIMIT", "DECLINED", "NOT_STARTED",
               "INVALID"}

Row(kind, i, code) == [kind |-> kind, call |-> i, code |-> code]
Rows(kind, i)      == {k \in DOMAIN log : log[k].kind = kind /\ log[k].call = i}
Results(i)         == {log[k].code : k \in Rows("tool/result", i)}

\* dispatch_barrier, when it is not fatal.
Covered(rows) == seen' = IF observerUp THEN Len(rows) ELSE seen

NoAnswer == [outcome |-> "Unavailable", stop |-> "none"]
NoPool == [end |-> 0, start |-> 0, commit |-> 0, stop |-> FALSE, unresolved |-> 0]
InFlight  == {i \in Calls : body[i] \in {"queued", "on", "cleanup"}}

TypeOK ==
    /\ round \in Rounds
    /\ at \in {"next", "barrier", "running", "settling", "setup", "resolving", "asking",
               "answering", "deciding", "acting", "working", "filling", "starting",
               "committing", "awaiting", "resting", "done", "fatal"}
    /\ index \in 1..Len(round.modes) + 1
    /\ \A i \in Calls : body[i] \in {"off", "queued", "on", "cleanup", "work"}
    /\ \A i \in Calls : slot[i].stop \in Stops /\ slot[i].required \in BOOLEAN
    /\ answer.outcome \in Outcomes /\ answer.stop \in Stops
    /\ driver.latched \in Stops /\ driver.infra \in {"none", "timeout", "executor"}
    /\ seen \in 0..Len(log)

Init ==
    /\ round \in Rounds
    /\ token = FALSE /\ deadline = FALSE /\ observerUp \in BOOLEAN
    /\ at = "next" /\ index = 1 /\ pool = NoPool
    /\ body = [i \in Calls |-> "off"] /\ slot = [i \in Calls |-> NoRun]
    /\ answer = NoAnswer
    /\ driver = [limit |-> FALSE, unseen |-> ~observerUp, cancelled |-> FALSE,
                 infra |-> "none", latched |-> "none"]
    /\ grant = [held |-> FALSE, candidate |-> FALSE, pending |-> FALSE]
    /\ log = <<>> /\ seen = 0 /\ released = {} /\ ran = {} /\ scoped = {}

-----------------------------------------------------------------------------
(* The environment *)

CallerCancels ==
    /\ ~token /\ at \notin {"done", "fatal"}
    /\ token' = TRUE
    /\ UNCHANGED <<deadline, observerUp, config, history, at, index, pool, body, slot,
                   answer, driver, grant, log, seen>>

DeadlinePasses ==
    /\ ~deadline /\ at \notin {"done", "fatal"}
    /\ deadline' = TRUE
    /\ UNCHANGED <<token, observerUp, config, history, at, index, pool, body, slot,
                   answer, driver, grant, log, seen>>

ObserverLeaves ==
    /\ observerUp /\ at \notin {"done", "fatal"}
    /\ observerUp' = FALSE
    /\ UNCHANGED <<token, deadline, config, history, at, index, pool, body, slot,
                   answer, driver, grant, log, seen>>

\* An append or a barrier fails for good: the round returns the error, and what
\* was in flight is dropped.
StorageFails ==
    /\ at \in {"next", "barrier", "settling", "asking", "deciding", "filling",
               "starting", "committing", "resting"}
    /\ at' = "fatal"
    /\ body' = [i \in Calls |-> "off"]
    /\ UNCHANGED <<environment, config, history, index, pool, slot, answer, driver,
                   grant, log, seen>>

-----------------------------------------------------------------------------
(* One call alone *)

Stopping == driver.infra # "none" \/ driver.unseen \/ driver.cancelled \/ token

StartsPool(i) ==
    Mode(i) = "parallel" /\ ~Stopping /\ ~driver.limit

\* The call's row is committed; then it is refused, or waits for the barrier.
WriteIntent ==
    /\ at = "next" /\ index \in Calls /\ ~StartsPool(index)
    /\ log' = Append(log, Row("tool/call", index, "none"))
    /\ IF driver.limit
       THEN /\ slot' = [slot EXCEPT ![index] = Prestart(index, "SESSION_LIMIT", "none")]
            /\ at' = "settling" /\ UNCHANGED driver
       ELSE IF Stopping
       THEN /\ slot' = [slot EXCEPT ![index] =
                  Run("ABORTED_BEFORE_DISPATCH",
                      IF Owned(index) /\ token THEN "cancelled" ELSE "none", FALSE)]
            /\ driver' = [driver EXCEPT !.cancelled = @ \/ token]
            /\ at' = "settling"
       ELSE at' = "barrier" /\ UNCHANGED <<slot, driver>>
    /\ answer' = NoAnswer
    /\ UNCHANGED <<environment, config, history, index, pool, body, grant, seen>>

Dispatch ==
    /\ at = "barrier"
    /\ Covered(log)
    /\ IF observerUp
       THEN body' = [body EXCEPT ![index] = "queued"] /\ at' = "running"
            /\ UNCHANGED <<slot, driver>>
       ELSE /\ driver' = [driver EXCEPT !.unseen = TRUE]
            /\ slot' = [slot EXCEPT ![index] =
                          Prestart(index, "ABORTED_BEFORE_DISPATCH", "none")]
            /\ at' = "settling" /\ UNCHANGED body
    /\ UNCHANGED <<environment, config, history, index, pool, answer, grant, log>>

-----------------------------------------------------------------------------
(* run_one_tool, polled by the call's turn or by the pool *)

Polled(i) == at = "awaiting" \/ (at = "running" /\ i = index)

StopsPool(run) == run.code \in {"ABORTED", "TURN_TIMEOUT", "unknown"}

\* The run's result reaches the driving future.
Deliver(i, run) ==
    /\ body' = [body EXCEPT ![i] = "off"]
    /\ slot' = [slot EXCEPT ![i] = run]
    /\ IF at = "awaiting"
       THEN /\ at' = "filling"
            /\ pool' = [pool EXCEPT !.stop = @ \/ StopsPool(run)]
       ELSE /\ pool' = pool
            /\ at' = IF run.code # "prepared" THEN "settling"
                     ELSE CASE Mode(i) = "action"           -> "setup"
                            [] Mode(i) = "mutation"         -> "resolving"
                            [] Mode(i) \in {"state", "exit"} -> "settling"
    /\ UNCHANGED <<environment, config, ran, scoped, index, answer, driver, grant, log,
                   seen>>

\* The request is refused before any work: undeclared, malformed, stopped; or the
\* executor fails at once.
BodyRefused(i) ==
    /\ body[i] = "queued" /\ Polled(i)
    /\ \/ Deliver(i, Prestart(i, "INVALID", "none"))
       \/ Sample # "none" /\ Deliver(i, Prestart(i, "ABORTED_BEFORE_DISPATCH", Sample))
       \/ Sample = "none" /\ Deliver(i, Run("unknown", "none", FALSE))

BodyStarts(i) ==
    /\ body[i] = "queued" /\ Polled(i) /\ Sample = "none"
    /\ body' = [body EXCEPT ![i] = "on"]
    /\ ran' = IF Mode(i) \in {"parallel", "plain"} THEN ran \cup {i} ELSE ran
    /\ UNCHANGED <<environment, config, scoped, at, index, pool, slot, answer,
                   driver, grant, log, seen>>

\* A stop, even one that comes with the result, wins over the result.
BodyEnds(i) ==
    /\ body[i] = "on" /\ Polled(i) /\ Sample = "none"
    /\ \/ Deliver(i, Run(IF Mode(i) \in {"parallel", "plain"} THEN "ok" ELSE "prepared",
                         "none", FALSE))
       \/ Deliver(i, Run("refused", "none", FALSE))
       \/ Deliver(i, Run("unknown", "none", FALSE))

\* The caller, the turn's deadline or the tool's own ends the run; the body has
\* a grace period to clean up.  slot holds what the run will be reported as.
BodyInterrupted(i) ==
    /\ body[i] = "on" /\ Polled(i)
    /\ body' = [body EXCEPT ![i] = "cleanup"]
    /\ slot' = [slot EXCEPT ![i] =
                  IF Sample # "none"
                  THEN Prestart(i, "ABORTED_BEFORE_DISPATCH", Sample)
                  ELSE Prestart(i, "TOOL_TIMEOUT", "none")]
    /\ UNCHANGED <<environment, config, ran, scoped, at, index, pool, answer, driver,
                   grant, log, seen>>

CleanupEnds(i) ==
    /\ body[i] = "cleanup" /\ Polled(i)
    /\ Deliver(i, slot[i])

-----------------------------------------------------------------------------
(* Settling a call alone *)

\* The flags after a call that reported this stop; a stop that became ready
\* meanwhile is sampled as well.
AfterStop(stop, sampled) ==
    LET latched == Latch(Latch(driver.latched, stop), sampled)
    IN  [driver EXCEPT
           !.latched = latched,
           !.cancelled = @ \/ stop = "cancelled" \/ latched = "cancelled",
           !.infra = IF stop = "timeout" \/ (@ = "none" /\ latched = "timeout")
                     THEN "timeout" ELSE @]

\* Mutant: a required result may also be replaced by its fallback.
SettledAsAnyFallback(i, run) == {run.code, "OVER_BUDGET"}

\* The room a call has from the start holds only a short result, which replaces
\* one that does not fit; files and commands were given room for theirs.
SettledAs(i, run) ==
    IF run.required \/ (i \in ran /\ Mode(i) \notin {"parallel", "plain"})
    THEN {run.code} ELSE {run.code, "OVER_BUDGET"}

\* Goal and to-do changes: the change is a row of its own, installed with it.
WriteState ==
    /\ at = "settling" /\ Mode(index) = "state" /\ slot[index].code = "prepared"
    /\ IF Sample # "none"
       THEN /\ slot' = [slot EXCEPT ![index] =
                  Run(IF token THEN "ABORTED" ELSE "AGENT_TURN_TIMEOUT", Sample, FALSE)]
            /\ UNCHANGED <<log, ran>>
       ELSE /\ log' = Append(log, Row("state", index, "none"))
            /\ ran' = ran \cup {index}
            /\ slot' = [slot EXCEPT ![index] = Run("ok", "none", TRUE)]
    /\ UNCHANGED <<environment, config, scoped, at, index, pool, body, answer,
                   driver, grant, seen>>

\* A change that came too late is reported with the stop seen after its result.
Reported(run) == IF run.code = "AGENT_TURN_TIMEOUT" THEN Sample ELSE run.stop

\* The exact command may be repeated without asking once its result is kept.
AfterGrant(stop) ==
    [held      |-> grant.held \/ (grant.pending /\ stop = "none"),
     candidate |-> FALSE, pending |-> FALSE]

Settle ==
    /\ at = "settling" /\ slot[index].code # "unknown"
    /\ slot[index].code = "prepared" => Mode(index) = "exit"
    /\ \E code \in SettledAs(index, IF slot[index].code = "prepared"
                                    THEN Run("ok", "none", TRUE) ELSE slot[index]) :
         /\ log' = Append(log, Row("tool/result", index, code))
         /\ LET stop == Latch(Reported(slot[index]), Sample)
            IN  grant' = IF Mode(index) = "action" /\ code = slot[index].code
                         THEN AfterGrant(stop) ELSE [grant EXCEPT !.pending = FALSE]
    /\ driver' = AfterStop(Reported(slot[index]), Sample)
    /\ ran' = IF slot[index].code = "prepared" THEN ran \cup {index} ELSE ran
    /\ slot' = [slot EXCEPT ![index] = NoRun]
    /\ index' = index + 1 /\ at' = "next"
    /\ UNCHANGED <<environment, config, scoped, pool, body, answer, seen>>

ClaimsFrom(i) ==
    {<<"tool/call", j>> : j \in {k \in i..Len(round.modes) : Rows("tool/call", k) = {}}}
    \cup {<<"tool/result", j>> : j \in i..Len(round.modes)}

\* Mutant: the calls behind the failed one keep their claims.
SettleUnknownLeaking ==
    /\ at = "settling" /\ slot[index].code = "unknown"
    /\ driver' = [driver EXCEPT !.infra = "executor",
                                !.latched = Latch(@, slot[index].stop)]
    /\ slot' = [slot EXCEPT ![index] = NoRun]
    /\ IF round.durable
       THEN /\ \E code \in SettledAs(index, slot[index]) :
                 log' = Append(log, Row("tool/result", index, code))
            /\ index' = index + 1 /\ at' = "next" /\ UNCHANGED released
       ELSE /\ released' = {<<"tool/result", index>>}
            /\ at' = "done" /\ UNCHANGED <<log, index>>
    /\ UNCHANGED <<environment, round, history, pool, body, answer, grant, seen>>

\* The executor failed without a definite outcome: a durable session says so, a
\* session in memory keeps the call open and gives its claims back.
SettleUnknown ==
    /\ at = "settling" /\ slot[index].code = "unknown"
    /\ driver' = [driver EXCEPT !.infra = "executor",
                                !.latched = Latch(@, slot[index].stop)]
    /\ slot' = [slot EXCEPT ![index] = NoRun]
    /\ IF round.durable
       THEN /\ \E code \in SettledAs(index, slot[index]) :
                 log' = Append(log, Row("tool/result", index, code))
            /\ index' = index + 1 /\ at' = "next" /\ UNCHANGED released
       ELSE /\ released' = ClaimsFrom(index)
            /\ at' = "done" /\ UNCHANGED <<log, index>>
    /\ UNCHANGED <<environment, round, history, pool, body, answer, grant, seen>>

-----------------------------------------------------------------------------
(* Changes of files, commands and plugins: policy, budget, approval, work *)

ToSettle(run) == slot' = [slot EXCEPT ![index] = run] /\ at' = "settling"

\* decline_action, decline_mutation: giving the prepared work up may itself fail.
Decline(code, stop) == \E said \in {code, "unknown"} : ToSettle(Run(said, stop, FALSE))

\* While a setup or the work goes on, the first stop is remembered.
StopNoticed ==
    /\ at \in {"setup", "working"} /\ answer.stop = "none" /\ Sample # "none"
    /\ answer' = [answer EXCEPT !.stop = Sample]
    /\ UNCHANGED <<environment, config, ran, scoped, at, index, pool, body, slot, driver,
                   grant, log, seen>>

SetUp ==
    /\ at = "setup"
    /\ LET stop == Latch(answer.stop, Sample)
       IN  \/ ToSettle(Run("NOT_STARTED", stop, FALSE))
           \/ ToSettle(Run("unknown", stop, FALSE))
           \/ stop # "none" /\ Decline("ABORTED_BEFORE_DISPATCH", stop)
           \/ stop = "none" /\ at' = "resolving" /\ UNCHANGED slot
    /\ UNCHANGED <<environment, config, ran, scoped, index, pool, body, answer, driver,
                   grant, log, seen>>

\* Policy, the result's budget and the room in the session come before the user.
Refuse ==
    /\ at = "resolving"
    /\ \/ Decline("DECLINED", "none") /\ UNCHANGED driver
       \/ /\ round.durable /\ round.policy # "deny"
          /\ driver' = [driver EXCEPT !.limit = TRUE]
          /\ ToSettle(Prestart(index, "SESSION_LIMIT", "none"))
    /\ UNCHANGED <<environment, config, history, index, pool, body, answer, grant, log,
                   seen>>

\* Mutant: a command allowed once stays allowed.
ProceedKeepingGrant ==
    /\ at = "resolving" /\ round.policy # "deny"
    /\ LET hit == round.policy = "ask" /\ Mode(index) = "action" /\ grant.held
       IN  /\ at' = IF round.policy = "ask" /\ ~hit THEN "asking" ELSE "acting"
           /\ grant' = [grant EXCEPT !.candidate = hit]
    /\ UNCHANGED <<environment, config, history, index, pool, body, slot, answer, driver,
                   log, seen>>

\* An exact command that was granted is not asked about again; its grant is used up.
Proceed ==
    /\ at = "resolving" /\ round.policy # "deny"
    /\ LET hit == round.policy = "ask" /\ Mode(index) = "action" /\ grant.held
       IN  /\ at' = IF round.policy = "ask" /\ ~hit THEN "asking" ELSE "acting"
           /\ grant' = [held |-> grant.held /\ ~hit, candidate |-> hit,
                        pending |-> FALSE]
    /\ UNCHANGED <<environment, config, history, index, pool, body, slot, answer, driver,
                   log, seen>>

Ask ==
    /\ at = "asking"
    /\ log' = Append(log, Row("approval/asked", index, "none"))
    /\ Covered(log')
    /\ driver' = [driver EXCEPT !.unseen = @ \/ ~observerUp]
    /\ answer' = NoAnswer
    /\ at' = IF observerUp THEN "answering" ELSE "deciding"
    /\ UNCHANGED <<environment, config, history, index, pool, body, slot, grant>>

\* request_approval
Answer ==
    /\ at = "answering" /\ at' = "deciding"
    /\ \E outcome \in Outcomes, scope \in BOOLEAN :
         /\ Sample # "none" => outcome = "Cancelled"
         /\ scope => outcome = "AllowedOnce" /\ Mode(index) = "action"
         /\ answer' = [outcome |-> outcome, stop |-> Sample]
         /\ grant' = [grant EXCEPT !.candidate = scope]
         /\ scoped' = IF scope THEN scoped \cup {index} ELSE scoped
    /\ UNCHANGED <<environment, config, ran, index, pool, body, slot, driver, log, seen>>

Decide ==
    /\ at = "deciding"
    /\ log' = Append(log, Row("approval/decided", index, answer.outcome))
    /\ Covered(log')
    /\ driver' = [driver EXCEPT !.unseen = @ \/ ~observerUp]
    /\ IF answer.outcome = "AllowedOnce" /\ answer.stop = "none" /\ observerUp
       THEN at' = "acting" /\ UNCHANGED slot
       ELSE Decline(IF answer.outcome = "AllowedOnce"
                    THEN "ABORTED_BEFORE_DISPATCH" ELSE "DECLINED", answer.stop)
    /\ UNCHANGED <<environment, config, history, index, pool, body, answer, grant>>

Act ==
    /\ at = "acting"
    /\ IF Sample # "none"
       THEN Decline("ABORTED_BEFORE_DISPATCH", Sample) /\ UNCHANGED body
       ELSE /\ body' = [body EXCEPT ![index] = "work"]
            /\ at' = "working" /\ UNCHANGED slot
    /\ UNCHANGED <<environment, config, ran, scoped, index, pool, answer, driver, grant,
                   log, seen>>

WorkTakesEffect ==
    /\ at = "working" /\ index \notin ran
    /\ ran' = ran \cup {index}
    /\ UNCHANGED <<environment, config, scoped, at, index, pool, body, slot, answer,
                   driver, grant, log, seen>>

\* The work is waited for even after a stop; it says whether it took effect, or
\* its outcome is lost.
WorkEnds ==
    /\ at = "working"
    /\ body' = [body EXCEPT ![index] = "off"]
    /\ LET stop == Latch(answer.stop, Sample)
       IN  \/ /\ index \in ran
              /\ \E code \in {"ok", "failed"} :
                   /\ ToSettle(Run(code, stop, TRUE))
                   /\ grant' = [grant EXCEPT !.pending = /\ code = "ok"
                                                         /\ stop = "none"
                                                         /\ grant.candidate]
           \/ /\ index \notin ran
              /\ ToSettle(Run("NOT_STARTED", stop, FALSE)) /\ UNCHANGED grant
           \/ ToSettle(Run("unknown", stop, FALSE)) /\ UNCHANGED grant
    /\ UNCHANGED <<environment, config, ran, scoped, index, pool, answer, driver, log,
                   seen>>

-----------------------------------------------------------------------------
(* The rolling pool of a parallel group *)

StartPool ==
    /\ at = "next" /\ index \in Calls /\ StartsPool(index)
    /\ pool' = [NoPool EXCEPT
                  !.start = index, !.commit = index,
                  !.end = CHOOSE e \in index..Len(round.modes) :
                            /\ \A i \in index..e : Mode(i) = "parallel"
                            /\ e = Len(round.modes) \/ Mode(e + 1) # "parallel"]
    /\ at' = "filling"
    /\ UNCHANGED <<environment, config, history, index, body, slot, answer, driver, grant,
                   log, seen>>

Room ==
    ~pool.stop /\ pool.start <= pool.end /\ Cardinality(InFlight) < MaxParallel

\* The next call is announced, unless something already stops the turn.
Fill ==
    /\ at = "filling"
    /\ IF Room /\ ~driver.limit /\ ~driver.unseen /\ Sample = "none"
       THEN /\ log' = Append(log, Row("tool/call", pool.start, "none"))
            /\ at' = "starting" /\ UNCHANGED pool
       ELSE /\ pool' = [pool EXCEPT !.stop = @ \/ Room]
            /\ at' = "committing" /\ UNCHANGED log
    /\ UNCHANGED <<environment, config, history, index, body, slot, answer, driver, grant,
                   seen>>

DispatchInPool ==
    /\ at = "starting" /\ at' = "filling"
    /\ Covered(log)
    /\ IF observerUp
       THEN /\ body' = [body EXCEPT ![pool.start] = "queued"]
            /\ pool' = [pool EXCEPT !.start = @ + 1]
            /\ UNCHANGED <<slot, driver>>
       ELSE /\ slot' = [slot EXCEPT ![pool.start] =
                          Prestart(pool.start, "ABORTED_BEFORE_DISPATCH", "none")]
            /\ pool' = [pool EXCEPT !.start = @ + 1, !.stop = TRUE]
            /\ driver' = [driver EXCEPT !.unseen = TRUE]
            /\ UNCHANGED body
    /\ UNCHANGED <<environment, config, history, index, answer, grant, log>>

\* The next slot in the order of the message is filled.
Ready(i) ==
    /\ pool.unresolved = 0 /\ i = pool.commit /\ i <= pool.end
    /\ slot[i] # NoRun /\ body[i] = "off"

\* Mutant: a lost outcome is not reported to the turn.
AfterPoolRunUnnoted(run) ==
    [driver EXCEPT !.latched = Latch(@, run.stop),
                   !.cancelled = @ \/ run.stop = "cancelled",
                   !.infra = IF run.stop = "timeout" THEN "timeout" ELSE @]

AfterPoolRun(run) ==
    [driver EXCEPT
       !.latched = Latch(@, run.stop),
       !.cancelled = @ \/ run.stop = "cancelled",
       !.infra = IF @ # "none" THEN @
                 ELSE IF run.code = "unknown" THEN "executor"
                 ELSE IF run.stop = "timeout" THEN "timeout" ELSE "none"]

CommitInPool(i) ==
    /\ at = "committing" /\ Ready(i)
    /\ IF slot[i].code = "unknown" /\ ~round.durable
       THEN pool' = [pool EXCEPT !.stop = TRUE, !.commit = @ + 1, !.unresolved = i]
            /\ UNCHANGED log
       ELSE /\ \E code \in SettledAs(i, slot[i]) :
                 log' = Append(log, Row("tool/result", i, code))
            /\ pool' = [pool EXCEPT !.commit = @ + 1,
                                    !.stop = @ \/ slot[i].code = "unknown"
                                               \/ slot[i].stop # "none"]
    /\ driver' = AfterPoolRun(slot[i])
    /\ slot' = [slot EXCEPT ![i] = NoRun]
    /\ UNCHANGED <<environment, config, history, at, index, body, answer, grant, seen>>

\* Mutant: a stopped pool goes on filling.
CheckFilling ==
    /\ at = "committing" /\ \A i \in Calls : ~Ready(i)
    /\ pool' = [pool EXCEPT !.stop = @ \/ Sample # "none"]
    /\ at' = IF InFlight # {} THEN "awaiting"
             ELSE IF pool.start > pool.end THEN "resting" ELSE "filling"
    /\ UNCHANGED <<environment, config, history, index, body, slot, answer, driver, grant,
                   log, seen>>

\* Nothing more to commit: a stop ends the starting of calls, then the pool waits
\* for those in flight.
Check ==
    /\ at = "committing" /\ \A i \in Calls : ~Ready(i)
    /\ LET stop == pool.stop \/ Sample # "none"
       IN  /\ pool' = [pool EXCEPT !.stop = stop]
           /\ at' = IF InFlight # {} THEN "awaiting"
                    ELSE IF stop \/ pool.start > pool.end THEN "resting"
                    ELSE "filling"
    /\ driver' = [driver EXCEPT
                    !.latched = Latch(@, Sample),
                    !.cancelled = @ \/ token,
                    !.infra = IF @ = "none" /\ Sample = "timeout" THEN "timeout" ELSE @]
    /\ UNCHANGED <<environment, config, ran, scoped, index, body, slot, answer, grant, log,
                   seen>>

\* Calls that never started are announced and answered at once.
Rest ==
    /\ at = "resting" /\ pool.unresolved = 0 /\ pool.start <= pool.end
    /\ \E code \in SettledAs(pool.start, Run("ABORTED_BEFORE_DISPATCH", "none", FALSE)) :
         log' = log \o <<Row("tool/call", pool.start, "none"),
                         Row("tool/result", pool.start, code)>>
    /\ seen' = IF observerUp THEN Len(log) + 1 ELSE seen
    /\ pool' = [pool EXCEPT !.start = @ + 1]
    /\ UNCHANGED <<environment, config, history, at, index, body, slot, answer, driver,
                   grant>>

EndPool ==
    /\ at = "resting" /\ (pool.unresolved # 0 \/ pool.start > pool.end)
    /\ IF pool.unresolved # 0
       THEN /\ released' = ClaimsFrom(pool.unresolved)
            /\ at' = "done" /\ UNCHANGED index
       ELSE index' = pool.end + 1 /\ at' = "next" /\ UNCHANGED released
    /\ pool' = NoPool
    /\ UNCHANGED <<environment, round, history, body, slot, answer, driver, grant, log,
                   seen>>

-----------------------------------------------------------------------------
EndRound ==
    /\ at = "next" /\ index \notin Calls
    /\ at' = "done"
    /\ UNCHANGED <<environment, config, history, index, pool, body, slot, answer, driver,
                   grant, log, seen>>

\* How the step goes on.
Outcome ==
    CASE driver.limit -> "limit"
      [] ~driver.limit /\ driver.unseen -> "observer"
      [] ~driver.limit /\ ~driver.unseen /\ driver.infra # "none" -> driver.infra
      [] ~driver.limit /\ ~driver.unseen /\ driver.infra = "none" ->
           IF driver.cancelled THEN "cancelled" ELSE "proceed"

Bodies(i) ==
    \/ BodyRefused(i) \/ BodyStarts(i) \/ BodyEnds(i) \/ BodyInterrupted(i)
    \/ CleanupEnds(i)

\* What the driving future does by itself.
Drive ==
    \/ WriteIntent \/ Dispatch \/ WriteState \/ Settle \/ SettleUnknown
    \/ Refuse \/ Proceed \/ Ask \/ Decide \/ Act
    \/ StartPool \/ Fill \/ DispatchInPool \/ Check \/ Rest \/ EndPool \/ EndRound
    \/ \E i \in Calls : CommitInPool(i)

Next ==
    \/ CallerCancels \/ DeadlinePasses \/ ObserverLeaves \/ StorageFails
    \/ Drive \/ StopNoticed \/ SetUp \/ Answer \/ WorkTakesEffect \/ WorkEnds
    \/ \E i \in Calls : Bodies(i)

Spec == Init /\ [][Next]_vars

\* The driving future is polled when it can go on, an interrupted body gets no more
\* than its grace period, and the turn has a deadline, at which setups, approvals
\* and work end; a body may otherwise never come back.
Fairness ==
    /\ WF_vars(Drive) /\ WF_vars(DeadlinePasses)
    /\ WF_vars(deadline /\ (SetUp \/ Answer \/ WorkEnds))
    /\ WF_vars(\E i \in Calls : BodyRefused(i) \/ BodyInterrupted(i) \/ CleanupEnds(i))

FairSpec == Spec /\ Fairness

-----------------------------------------------------------------------------
(* What a round guarantees *)

\* Calls are announced and answered in the order of the message, each at most
\* once; everything written about a call lies between its announcement and its
\* result, however the bodies of a parallel group finish.
RowsInOrder ==
    /\ \A j, k \in DOMAIN log :
         /\ j < k
         /\ log[j].kind = log[k].kind
         /\ log[j].kind \in {"tool/call", "tool/result"}
         => log[j].call < log[k].call
    /\ \A k \in DOMAIN log :
         log[k].kind # "tool/call" =>
           \E j \in 1..k - 1 : log[j] = Row("tool/call", log[k].call, "none")
    /\ \A j, k \in DOMAIN log :
         j < k /\ log[j].kind = "tool/result" => log[k].call # log[j].call

\* When the round is over every row the message laid claim to was written or
\* given back, never both and never neither; a durable round writes them all,
\* whatever stopped it.
EveryClaimUsed ==
    at = "done" =>
      /\ round.durable => released = {}
      /\ \A i \in Calls, kind \in {"tool/call", "tool/result"} :
           (<<kind, i>> \in released) <=> (Rows(kind, i) = {})

\* Every call is answered, in order.
EveryCallAnswered == TypeOK /\ RowsInOrder /\ EveryClaimUsed

\* A result never says that a call was not started when its work was: the change,
\* the command or the mode switch has a result of its own, which is not replaced
\* by the short one; and work is reported only if it was done.
ResultIsHonest ==
    \A i \in Calls :
      /\ i \in ran => Results(i) \cap NotStarted = {}
      /\ i \in ran /\ Mode(i) \notin {"parallel", "plain"} => "OVER_BUDGET" \notin Results(i)
      /\ Results(i) \cap {"ok", "failed"} # {} => i \in ran

\* A command repeated without asking: the user allowed it for good earlier, and
\* every run since ended cleanly.
Earned(i) ==
    \E j \in scoped \cap ran :
      j < i /\ \A k \in ran \cap j..i - 1 : Mode(k) = "action" => Results(k) = {"ok"}

\* Work starts only after its announcement is stored and was seen by whoever watches
\* the session; under the policy that asks, files change and commands run only after
\* the user's yes is stored and seen as well, or on a grant that was earned.
StartsAllowed ==
    [][\A i \in ran' \ ran :
         /\ Rows("tool/call", i) \cap 1..seen # {}
         /\ Mode(i) \in {"mutation", "action"} =>
              \/ round.policy = "allow"
              \/ /\ round.policy = "ask"
                 /\ \/ \E k \in 1..seen : log[k] = Row("approval/decided", i, "AllowedOnce")
                    \/ Mode(i) = "action" /\ Earned(i)]_vars

StopCodes == {"ABORTED", "TURN_TIMEOUT", "AGENT_TURN_TIMEOUT"}

\* A call announced after a result that ends the round is never started.
StoppedRoundStops ==
    \A k \in DOMAIN log, j \in ran :
      /\ log[k].kind = "tool/result"
      /\ log[k].code \in StopCodes \cup {"unknown", "SESSION_LIMIT"}
      => \E h \in Rows("tool/call", j) : h < k

\* Nothing runs on when the round is over, and the turn learns what its results say:
\* after a stopped call it does not go on to the model, after a lost outcome it ends
\* with an error.
TurnLearns ==
    at = "done" =>
      \A i \in Calls :
        /\ body[i] = "off"
        /\ Results(i) \cap StopCodes # {} => Outcome # "proceed" /\ driver.latched # "none"
        /\ \/ Results(i) \cap {"unknown", "SESSION_LIMIT"} # {}
           \/ <<"tool/result", i>> \in released
           => Outcome \notin {"proceed", "cancelled"}

\* A stop of one call stops the round and is told to the turn.
StopIsReported == StoppedRoundStops /\ TurnLearns

\* A round ends: with its results, or with the storage error.
RoundEnds == <>(at \in {"done", "fatal"})

=============================================================================
