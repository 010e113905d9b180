----------------------------- MODULE JobNotices -----------------------------
(***************************************************************************)
(* Background jobs and the notices of their completion.  The registry      *)
(* (tools/jobs.rs) owns the jobs, the inbox (agent/job_notice.rs) owns the  *)
(* notices that no step has taken yet, the agent (agent/mod.rs) takes them *)
(* for a turn, and the terminal (cli/interactive.rs) opens a turn of its   *)
(* own for them while it is idle.                                          *)
(*                                                                         *)
(* The program runs on one thread (cli/entry.rs), so an action here is     *)
(* what a task does between two awaits that can really wait: the critical  *)
(* section of the registry and the call of the inbox that follows it are   *)
(* one action.  Job ids are numbers, in the order in which the jobs start. *)
(***************************************************************************)
EXTENDS Naturals, Sequences, FiniteSets, SequencesExt

CONSTANTS
    NumJobs,        \* how many jobs a run starts
    Bodies,         \* calls of job_output that may wait at the same time
    MaxActive,      \* MAX_ACTIVE_JOBS
    MaxRetained,    \* MAX_RETAINED_JOBS
    MaxPending,     \* MAX_PENDING_JOB_NOTICES
    MaxWakes,       \* MAX_CONSECUTIVE_JOB_WAKES
    MaxSteps        \* max_steps_per_turn

ASSUME LimitsAssumption ==
    {NumJobs, MaxActive, MaxRetained, MaxPending, MaxWakes, MaxSteps} \subseteq Nat \ {0}

Jobs == 1 .. NumJobs
NoJob == 0
Kinds == {"human", "goal", "wake"}
Places == {"idle", "waiting", "woken", "called", "opening", "top", "reserved",
           "step", "closing", "leaving", "left"}

VARIABLES
    job,        \* status of each job; "none" before it starts, "evicted" after it is forgotten
    reported,   \* the flag JobRecord::reported
    tap,        \* output the job has written: nothing yet, or a piece
    cursor,     \* output that reads have consumed
    regClosed,  \* JobState::closed
    body,       \* the job each call of job_output waits for
    pending,    \* JobNoticeState::pending
    omitted,    \* the jobs behind the count JobNoticeState::omitted
    active,     \* JobNoticeState::active_turn
    wakes,      \* JobNoticeState::consecutive_wakes
    closed,     \* JobNoticeState::closed
    permit,     \* the permit that Notify keeps for the terminal
    pc,         \* where the terminal and the agent are
    kind,       \* who opened the turn
    stop,       \* the turn is cancelled or out of time
    steps,      \* Counters::steps
    hands,      \* notices the agent has taken and that are not yet stored
    handsMore,  \* jobs behind an overflow notice the agent has taken
    \* history
    stored,     \* how many notices of each job the session has
    shown,      \* output that stands in a stored result
    known,      \* jobs whose end a stored result has told, or that the model killed
    cut,        \* jobs whose notice or result went down with a turn that was cut short
    autos       \* automatic turns opened since the last direct human message

registry == <<job, reported, regClosed>>
output == <<tap, cursor, shown>>
inbox == <<pending, omitted, active, wakes, closed, permit>>
turn == <<pc, kind, stop, steps>>
taken == <<hands, handsMore>>
vars == <<job, reported, tap, cursor, regClosed, body, pending, omitted, active, wakes, closed,
          permit, pc, kind, stop, steps, hands, handsMore, stored, shown, known, cut, autos>>

Init ==
    /\ job = [j \in Jobs |-> "none"]
    /\ reported = [j \in Jobs |-> FALSE]
    /\ tap = [j \in Jobs |-> 0]
    /\ cursor = [j \in Jobs |-> 0]
    /\ shown = [j \in Jobs |-> 0]
    /\ body = [b \in Bodies |-> NoJob]
    /\ pending = <<>> /\ omitted = {}
    /\ active = FALSE /\ wakes = 0
    /\ regClosed = FALSE /\ closed = FALSE /\ permit = FALSE
    /\ pc = "idle" /\ kind = "human" /\ stop = FALSE /\ steps = 0
    /\ hands = <<>> /\ handsMore = {}
    /\ stored = [j \in Jobs |-> 0]
    /\ known = {} /\ cut = {} /\ autos = 0

-----------------------------------------------------------------------------
(* The inbox.                                                              *)

\* How often a job stands in a queue.
Copies(queue, j) == Cardinality({i \in DOMAIN queue : queue[i] = j})

Some(queue, more) == queue # <<>> \/ more # {}

CanWakeWith(queue, more, busy, spent) ==
    ~closed /\ ~busy /\ Some(queue, more) /\ spent < MaxWakes

CanWake == CanWakeWith(pending, omitted, active, wakes)

\* notify_one, where the call of the inbox leaves something to wake for
NotifyWith(queue, more, busy, spent) ==
    permit' = (permit \/ CanWakeWith(queue, more, busy, spent))

\* Mutant: an enqueue does not notify
EnqueueSilently(j) ==
    IF closed THEN UNCHANGED inbox
    ELSE LET fits == Len(pending) < MaxPending
         IN /\ pending' = IF fits THEN Append(pending, j) ELSE pending
            /\ omitted' = IF fits THEN omitted ELSE omitted \union {j}
            /\ UNCHANGED <<active, wakes, closed, permit>>

Enqueue(j) ==
    IF closed THEN UNCHANGED inbox
    ELSE LET fits == Len(pending) < MaxPending
             queue == IF fits THEN Append(pending, j) ELSE pending
             more == IF fits THEN omitted ELSE omitted \union {j}
         IN /\ pending' = queue /\ omitted' = more
            /\ NotifyWith(queue, more, active, wakes)
            /\ UNCHANGED <<active, wakes, closed>>

\* retain: a job has one notice at most, so the first is all there is to drop.
SuppressJob(j) ==
    /\ pending' = RemoveFirst(pending, j)
    /\ UNCHANGED <<omitted, active, wakes, closed, permit>>

\* Mutant: the queue is not emptied when it is taken
DrainCopies ==
    /\ hands' = hands \o pending
    /\ handsMore' = handsMore \union omitted
    /\ omitted' = {} /\ UNCHANGED pending

\* Take everything there is, behind what is already in hand.
Drain ==
    /\ hands' = hands \o pending
    /\ handsMore' = handsMore \union omitted
    /\ pending' = <<>> /\ omitted' = {}

Restore(refund) ==
    LET queue == hands \o pending
        more == omitted \union handsMore
        spent == IF refund /\ wakes > 0 THEN wakes - 1 ELSE wakes
    IN /\ pending' = queue /\ omitted' = more
       /\ active' = FALSE /\ wakes' = spent
       /\ NotifyWith(queue, more, FALSE, spent)
       /\ hands' = <<>> /\ handsMore' = {}
       /\ UNCHANGED closed

FinishTurn ==
    /\ active' = FALSE
    /\ NotifyWith(pending, omitted, FALSE, wakes)
    /\ UNCHANGED <<pending, omitted, wakes, closed>>

CloseInbox ==
    /\ closed' = TRUE /\ pending' = <<>> /\ omitted' = {} /\ active' = FALSE
    /\ UNCHANGED <<wakes, permit>>

-----------------------------------------------------------------------------
(* The registry.                                                           *)

IsLive(j) == job[j] \in {"running", "stopping"}
IsRetained(j) == IsLive(j) \/ job[j] = "done"
Retained == {j \in Jobs : IsRetained(j)}
Waiters(j) == {b \in Bodies : body[b] = j}
NobodyWaits == \A b \in Bodies : body[b] = NoJob

\* A call of the bash tool, which runs alone, with run_in_background.
StartShell ==
    /\ pc = "step" /\ ~stop /\ NobodyWaits
    /\ ~regClosed
    /\ Cardinality({j \in Jobs : IsLive(j)}) < MaxActive
    /\ \E j \in Jobs :
        /\ job[j] = "none" /\ \A i \in Jobs : job[i] = "none" => j <= i
        /\ LET ended == {i \in Jobs : job[i] = "done"}
               oldest == {i \in ended : \A k \in ended : i <= k}
               full == Cardinality(Retained) >= MaxRetained
           IN /\ full => ended # {}
              /\ job' = [i \in Jobs |-> IF i = j THEN "running"
                                       ELSE IF full /\ i \in oldest THEN "evicted" ELSE job[i]]
    /\ UNCHANGED <<reported, regClosed, output, body, inbox, turn, taken, stored, known, cut, autos>>

Emit(j) ==
    /\ IsLive(j) /\ tap[j] = 0
    /\ tap' = [tap EXCEPT ![j] = 1]
    /\ UNCHANGED <<registry, cursor, shown, body, inbox, turn, taken, stored, known, cut, autos>>

\* The monitor of a job: its process is gone.
Finish(j) ==
    /\ IsLive(j)
    /\ job' = [job EXCEPT ![j] = "done"]
    /\ IF ~regClosed /\ ~reported[j] /\ Waiters(j) = {}
       THEN reported' = [reported EXCEPT ![j] = TRUE] /\ Enqueue(j)
       ELSE UNCHANGED <<reported, inbox>>
    /\ UNCHANGED <<regClosed, output, body, turn, taken, stored, known, cut, autos>>

\* Mutant: read forgets the notice that is already queued
ReadWithoutSuppress(j) ==
    /\ cursor' = [cursor EXCEPT ![j] = tap[j]]
    /\ reported' = IF job[j] = "done" THEN [reported EXCEPT ![j] = TRUE] ELSE reported
    /\ UNCHANGED inbox

\* What a read does to the job; a read of an ended job is its report.
Read(j) ==
    /\ cursor' = [cursor EXCEPT ![j] = tap[j]]
    /\ IF job[j] = "done"
       THEN reported' = [reported EXCEPT ![j] = TRUE] /\ SuppressJob(j)
       ELSE UNCHANGED <<reported, inbox>>

\* The result of the read is stored as the result of the call.
ReadAndShow(j) ==
    /\ Read(j)
    /\ shown' = [shown EXCEPT ![j] = tap[j]]
    /\ known' = IF job[j] = "done" THEN known \union {j} ELSE known

InStep == pc = "step" /\ ~stop

JobOutput(j) ==
    /\ InStep /\ IsRetained(j)
    /\ ReadAndShow(j)
    /\ UNCHANGED <<job, regClosed, tap, body, turn, taken, stored, cut, autos>>

JobOutputWaits(b, j) ==
    /\ InStep /\ body[b] = NoJob /\ IsLive(j)
    /\ body' = [body EXCEPT ![b] = j]
    /\ UNCHANGED <<registry, output, inbox, turn, taken, stored, known, cut, autos>>

\* The job ended, or the time of the wait is over.
WaitEnds(b) ==
    /\ InStep /\ body[b] # NoJob
    /\ body' = [body EXCEPT ![b] = NoJob]
    /\ ReadAndShow(body[b])
    /\ UNCHANGED <<job, regClosed, tap, turn, taken, stored, cut, autos>>

\* Mutant: a wait marks the job reported when it is cut, whether it has ended or not
WaitIsCutReported(b) ==
    /\ pc = "step" /\ stop /\ body[b] # NoJob
    /\ body' = [body EXCEPT ![b] = NoJob]
    /\ reported' = [reported EXCEPT ![body[b]] = TRUE]
    /\ UNCHANGED <<job, regClosed, tap, cursor, shown, inbox, turn, taken, stored, known, cut, autos>>

\* The turn stops: the call is answered as stopped, and the body is polled once
\* more.  It finds its own token cancelled and looks at the job; if that has ended
\* it goes on to read, and nobody takes the result.
WaitIsCut(b) ==
    /\ pc = "step" /\ stop /\ body[b] # NoJob
    /\ body' = [body EXCEPT ![b] = NoJob]
    /\ IF job[body[b]] = "done"
       THEN Read(body[b]) /\ cut' = cut \union {body[b]}
       ELSE UNCHANGED <<reported, inbox, cursor, cut>>
    /\ UNCHANGED <<job, regClosed, tap, shown, turn, taken, stored, known, autos>>

\* job_kill runs alone.
JobKill(j) ==
    /\ InStep /\ NobodyWaits /\ IsRetained(j)
    /\ reported' = [reported EXCEPT ![j] = TRUE]
    /\ job' = [job EXCEPT ![j] = IF @ = "done" THEN @ ELSE "stopping"]
    /\ SuppressJob(j)
    /\ known' = known \union {j}
    /\ UNCHANGED <<regClosed, output, body, turn, taken, stored, cut, autos>>

Shutdown ==
    /\ pc \in {"idle", "waiting", "woken", "leaving"}
    /\ regClosed' = TRUE
    /\ reported' = [j \in Jobs |-> reported[j] \/ IsRetained(j)]
    /\ job' = [j \in Jobs |-> IF IsLive(j) THEN "stopping" ELSE job[j]]
    /\ CloseInbox
    /\ pc' = "left"
    /\ UNCHANGED <<output, body, kind, stop, steps, taken, stored, known, cut, autos>>

-----------------------------------------------------------------------------
(* The terminal.                                                           *)

quiet == <<registry, output, body, stored, known, cut>>

\* The idle select looks at the inbox before it parks, and again when notified.
LookForWake ==
    /\ pc = "idle" \/ (pc = "waiting" /\ permit)
    /\ permit' = (permit /\ pc = "idle" /\ CanWake)
    /\ pc' = IF CanWake THEN "woken" ELSE "waiting"
    /\ UNCHANGED <<quiet, pending, omitted, active, wakes, closed, kind, stop, steps, taken, autos>>

\* A signal that arrives while the terminal yields takes the place of the wake.
SignalAtWake ==
    /\ pc = "woken" /\ pc' = "idle"
    /\ UNCHANGED <<quiet, inbox, kind, stop, steps, taken, autos>>

\* claim_job_notice_wake; without anything to claim the terminal ends with an error
ClaimWake ==
    /\ pc = "woken"
    /\ IF CanWake
       THEN /\ Drain /\ active' = TRUE /\ wakes' = wakes + 1
            /\ pc' = "called" /\ kind' = "wake"
            /\ UNCHANGED <<closed, permit>>
       ELSE pc' = "leaving" /\ UNCHANGED <<inbox, taken, kind>>
    /\ UNCHANGED <<quiet, stop, steps, autos>>

OtherTurn ==
    /\ pc \in {"idle", "waiting"}
    /\ kind' \in {"human", "goal"}
    /\ pc' = "called"
    /\ UNCHANGED <<quiet, inbox, stop, steps, taken, autos>>

\* Ctrl-C, or the deadline of the turn
Stop ==
    /\ pc \in {"called", "opening", "top", "reserved", "step"} /\ ~stop
    /\ stop' = TRUE
    /\ UNCHANGED <<quiet, inbox, pc, kind, steps, taken, autos>>

-----------------------------------------------------------------------------
(* The agent.                                                              *)

InHand == ToSet(hands) \union handsMore

\* The counters and the token of a turn go with it.
ForgetTurn == kind' = "human" /\ stop' = FALSE /\ steps' = 0

\* The turn ends, or fails, with notices in hand that no step has stored.
DropHands ==
    /\ cut' = cut \union InHand
    /\ hands' = <<>> /\ handsMore' = {}

\* run_turn: a prepared wake holds its notices already, another turn takes those there are.
BeginTurn ==
    /\ pc = "called" /\ pc' = "opening"
    /\ IF kind # "wake" /\ ~stop
       THEN Drain /\ active' = TRUE
       ELSE UNCHANGED <<pending, omitted, active, taken>>
    /\ UNCHANGED <<quiet, wakes, closed, permit, kind, stop, steps, autos>>

\* run_turn refuses before the turn opens, when the messages cannot be built, are not
\* valid, or the session has no journal: only a prepared wake has been held meanwhile.
RefuseTurn ==
    /\ pc = "called" /\ pc' = "idle"
    /\ Restore(kind = "wake") /\ ForgetTurn
    /\ UNCHANGED <<quiet, autos>>

\* run_turn fails before it takes the prepared wake.
CatalogFails ==
    /\ pc = "called" /\ ~stop /\ pc' = "leaving"
    /\ UNCHANGED <<quiet, inbox, kind, stop, steps, taken, autos>>

OpenTurn ==
    /\ pc = "opening"
    /\ IF stop
       THEN pc' = "closing" /\ DropHands /\ UNCHANGED wakes
       ELSE /\ pc' = "top"
            /\ wakes' = IF kind = "human" THEN 0 ELSE wakes
            /\ UNCHANGED <<taken, cut>>
    /\ autos' = CASE kind = "wake" -> autos + 1
                  [] kind = "human" /\ ~stop -> 0
                  [] OTHER -> autos
    /\ UNCHANGED <<registry, output, body, stored, known, pending, omitted, active, closed,
                   permit, kind, stop, steps>>

\* claim_for_active_step
ClaimForStep == IF active THEN Drain ELSE UNCHANGED <<pending, omitted, taken>>

\* The head of the loop, up to the claims of the step.
PrepareStep ==
    /\ pc = "top"
    /\ IF stop \/ steps >= MaxSteps
       THEN pc' = "closing" /\ DropHands /\ UNCHANGED <<pending, omitted>>
       ELSE pc' = "reserved" /\ ClaimForStep /\ UNCHANGED cut
    /\ UNCHANGED <<registry, output, body, stored, known, active, wakes, closed, permit,
                   kind, stop, steps, autos>>

\* Before the step enters, the agent looks once more: new notices need new claims.
Reconcile ==
    /\ pc = "reserved" /\ ~stop
    /\ active /\ Some(pending, omitted)
    /\ Drain /\ pc' = "top"
    /\ UNCHANGED <<quiet, active, wakes, closed, permit, kind, stop, steps, autos>>

EnterStep ==
    /\ pc = "reserved" /\ ~stop
    /\ ~(active /\ Some(pending, omitted))
    /\ pc' = "step" /\ steps' = steps + 1
    /\ stored' = [j \in Jobs |-> stored[j] + Copies(hands, j)]
    /\ hands' = <<>> /\ handsMore' = {}
    /\ known' = known \union handsMore
    /\ UNCHANGED <<registry, output, body, cut, inbox, kind, stop, autos>>

\* The step is not entered: the turn was stopped or the request does not fit.
GiveUpStep ==
    /\ pc = "reserved" /\ pc' = "closing"
    /\ DropHands
    /\ UNCHANGED <<registry, output, body, stored, known, inbox, kind, stop, steps, autos>>

\* The model answered without asking for tools.
StepCompletes ==
    /\ InStep /\ NobodyWaits
    /\ IF steps < MaxSteps /\ Some(pending, omitted)
       THEN pc' = "top" /\ UNCHANGED inbox
       ELSE /\ pc' = "closing" /\ active' = FALSE
            /\ IF steps >= MaxSteps THEN NotifyWith(pending, omitted, FALSE, wakes)
               ELSE UNCHANGED permit
            /\ UNCHANGED <<pending, omitted, wakes, closed>>
    /\ UNCHANGED <<quiet, kind, stop, steps, taken, autos>>

\* The model has asked for tools, and they are answered.
StepContinues ==
    /\ InStep /\ NobodyWaits /\ pc' = "top"
    /\ UNCHANGED <<quiet, inbox, kind, stop, steps, taken, autos>>

\* The step was stopped, failed, or ran out of tokens.
StepStops ==
    /\ pc = "step" /\ NobodyWaits /\ pc' = "closing"
    /\ UNCHANGED <<quiet, inbox, kind, stop, steps, taken, autos>>

CloseTurn ==
    /\ pc = "closing" /\ pc' = "idle"
    /\ FinishTurn /\ ForgetTurn
    /\ UNCHANGED <<quiet, taken, autos>>

\* The session cannot take a row of the turn: the agent is poisoned and the program ends.
TurnFails ==
    /\ pc \in {"opening", "top", "reserved", "step", "closing"} /\ NobodyWaits
    /\ pc' = "leaving"
    /\ FinishTurn /\ DropHands
    /\ UNCHANGED <<registry, output, body, stored, known, kind, stop, steps, autos>>

-----------------------------------------------------------------------------
BodyStep(b) == (\E j \in Jobs : JobOutputWaits(b, j)) \/ WaitEnds(b) \/ WaitIsCut(b)
JobStep(j) == Emit(j) \/ Finish(j) \/ JobOutput(j) \/ JobKill(j)

Next ==
    \/ StartShell \/ (\E j \in Jobs : JobStep(j)) \/ (\E b \in Bodies : BodyStep(b)) \/ Shutdown
    \/ LookForWake \/ SignalAtWake \/ ClaimWake \/ OtherTurn \/ Stop
    \/ BeginTurn \/ RefuseTurn \/ CatalogFails \/ OpenTurn \/ PrepareStep \/ Reconcile \/ EnterStep \/ GiveUpStep
    \/ StepCompletes \/ StepContinues \/ StepStops \/ CloseTurn \/ TurnFails

Spec == Init /\ [][Next]_vars

-----------------------------------------------------------------------------
(* Properties.                                                             *)

TypeOK ==
    /\ job \in [Jobs -> {"none", "running", "stopping", "done", "evicted"}]
    /\ reported \in [Jobs -> BOOLEAN]
    /\ tap \in [Jobs -> 0 .. 1] /\ cursor \in [Jobs -> 0 .. 1] /\ shown \in [Jobs -> 0 .. 1]
    /\ body \in [Bodies -> Jobs \union {NoJob}]
    /\ pending \in Seq(Jobs) /\ hands \in Seq(Jobs)
    /\ {omitted, handsMore, known, cut} \subseteq SUBSET Jobs
    /\ {regClosed, active, closed, permit, stop} \subseteq BOOLEAN
    /\ wakes \in 0 .. MaxWakes /\ autos \in Nat /\ steps \in 0 .. MaxSteps
    /\ pc \in Places /\ kind \in Kinds
    /\ stored \in [Jobs -> Nat]

\* The notices of a job, wherever they are.
Notices(j) == stored[j] + Copies(pending, j) + Copies(hands, j)
                + (IF j \in omitted THEN 1 ELSE 0) + (IF j \in handsMore THEN 1 ELSE 0)

\* A job makes one notice at most, and no copy of it is in two places: not after a
\* restore, a re-arm of a step, a wake that was given up, or an eviction.
NoticeOnce ==
    TypeOK /\ \A j \in Jobs : Notices(j) <= 1

\* Nobody is told twice: once a stored result has told the end of a job, or the model
\* has killed it, no step takes a notice of it.
ToldStaysSilent ==
    [][\A j \in known : stored'[j] = stored[j]]_vars

\* A job that has ended is on its way to the model or has arrived, unless the program
\* is on its way out or a turn was cut short with it in hand.  In particular nothing
\* falls between the last look of a step and the end of its turn, and a wait that was
\* cut while the job was alive leaves the notice to the job.  Nor is output passed
\* over: what the cursor has left behind stands in a result, unless the read was cut.
EndIsTold ==
    \A j \in Jobs :
        /\ job[j] = "done" /\ ~regClosed =>
            \/ j \in known \union cut \union omitted \union InHand \union ToSet(pending)
            \/ stored[j] > 0
            \/ Waiters(j) # {}
        /\ cursor[j] > shown[j] => j \in cut

\* At most MAX_CONSECUTIVE_JOB_WAKES automatic turns between two direct messages, with
\* wakes that were refused and given back in between.
WakeBudget == autos <= MaxWakes

\* No lost wake: a terminal that parks beside a notice it may open a turn for has been
\* notified and will look again.
ParkedIsNotified == pc = "waiting" /\ CanWake => permit

\* Neither too many wakes nor one too few.
WakesAreRight == WakeBudget /\ ParkedIsNotified

=============================================================================
