# dsh-rs in TLA+

dsh-rs is a terminal agent: it sends a conversation to a language model, runs the tools
the model asks for, asks the user before anything irreversible, and keeps every fact of
the session in an append-only journal from which a later process can go on. This directory
holds TLA+ models of its core, the TLC runs that check them and the TLAPS proofs about
them. Paths are those of the repository (`src/src/...` is its Rust source).

## The system

### Components

| Component | State it keeps | Operations | Correct when |
|---|---|---|---|
| Journal writer, `session/journal.rs` | pending batch, command in flight, offsets, poison and finish latches; the thread's offsets; the file | stage, barrier, read, export, fork, finish, drop | batches keep their order, acknowledged ones survive, one failure is final |
| Durable session, `session/mod.rs` | pending operation, staged batch, claims, attempt token, first error | append, claim and settle, attempt chunks and closure, barrier, materialise, read, shutdown | no event is lost silently, room that was claimed is there, an attempt is retired behind its closure |
| Recovery and resume, `session/recovery.rs`, `resume.rs`, `projection.rs` | scan state, projection, repair plan | scan, plan, preview, cut, write the plan, go live | a stopped session can be read again, a repair may itself be stopped, no outcome is invented |
| Turn loop, `agent/mod.rs`, `agent/compaction.rs` | step and attempt counters, retry chains, resolution, reason | open, prepare, prune, summarise, request, retry, close | rows replay, requests wait for durable rows, the reason is true, a turn ends |
| Tool round, `agent/mod.rs`, `agent/approval.rs` | calls, pool, latched stop, exact-command grants | announce, dispatch, approve, run, settle | order of announcements and results, honest results, nothing without a yes |
| Background jobs, `tools/jobs.rs`, `agent/job_notice.rs` | job records with cursors, inbox of notices, wake budget | start, read, wait, kill, finish; enqueue, claim, restore, wake | each end is told once and not forgotten, wakes are bounded |
| Attempt fold, `session/attempt_anchor.rs` | state and partial message of an attempt | fold a chunk, seal, check a closure | it follows the live attempt, the closure equals the chunks |
| Titles, `agent/session_title.rs`, `session/title.rs` | a fallback pending, a request that runs | record, ask, collect; rename, refresh | a user's title wins, a title is asked for once |
| Fork, export, search, `session/fork.rs` and others | reserved target file | reserve, copy, commit | a copy is a valid journal |
| Compaction, pruning, budget, `session/compaction.rs`, `tool_result_pruner.rs`, `context_budget.rs` | open bracket, token estimates | choose what to prune, build a summary request | brackets nest, what is kept stays a valid conversation |
| Memory credits, `resident_credit.rs` | one atomic counter, leases | acquire, split, merge, drop | the sum of leases is the counter and within its limit |
| Goal and plan mode, `goal.rs`, `plan_mode.rs` | goal with revision and rounds, armed or not; a two-phase switch | prepare and commit, round and rollback, pause after a failure; set, approved exit, flush | the cache agrees with the log, nothing goes on by itself after a stop, an approved exit is kept |
| User questions, `user_question.rs`, `cli/user_question.rs` | a channel of one request, its response, a form with a draft per page | ask, show, choose, write, turn pages, submit, dismiss | no completed answer is refused, drafts stay, the borrowed composer comes back |
| Subprocesses, `tools/process.rs`, `tools/shell.rs` | phase, primary cause, signals sent, captures | spawn, observe, terminate, reap, scan | one cause, bounded end, nothing signalled after it was reaped |
| Plugins and language servers, `tools/plugin/`, `tools/lsp/` | actor thread, readiness, one call | start, invoke, cancel, shut down | a result belongs to its call, an unknown outcome is said to be unknown |
| Terminal, `cli/interactive.rs`, `live.rs`, `signal.rs`, `approval_join.rs` | prompt queue, stop intents, frames in flight, joined halves of an approval | read input, draw, run a turn, stop, suspend | stops reach the turn they were meant for, an answer meets its question |
| Provider client, file and web tools, TUI, arguments | wire buffers, screens | | data transformations and I/O |

### How they interact

The terminal runs one turn of the agent at a time on a current-thread runtime. The agent
owns the session through `&mut`; the session owns the journal writer, whose blocking thread
is the only writer of the file. Stops travel the other way: the caller's cancellation token
and the turn's deadline are looked at by every wait of the agent, and passed on to
bodies of tools. Whoever watches the session gets each committed event and may leave; the agent
treats that as a stop of its own. Jobs end on their own and speak through the inbox. After a
crash the only thing left is the journal.

    terminal --- turn, stop ---> agent --- events, claims, barriers ---> session
       ^                          |  ^                                     |
       | wake                     |  | results                             | batches
    inbox <--- ends --- jobs <----+--tools                              writer thread
                                                                           |
    next process <------------- scan, plan, repair ------------------- journal file

### What is hard

- *Cancelled futures.* Any await of the session and the writer may be its last; the next
  call finds the operation half done and must settle it (`JournalWriter`, `DurableSession`).
- *Promises and crashes.* A barrier, a retired attempt, a dispatched body and a repaired
  tail all rely on what is on the disk when the machine stops (`JournalWriter`,
  `SessionRecovery`).
- *Stops that race results.* Cancellation, deadline, tool timeout, lost watcher and full
  session meet a result in the same poll (`ToolRound`, `TurnLoop`).
- *Reserved room.* Closing rows must fit whatever came before (`DurableSession`,
  `ToolRound`, `TurnLoop`).
- *Notices.* A job may end at any point of a turn or of an idle wait (`JobNotices`).
- *Processes that are not ours.* A command ignores TERM, forks behind a scan, leaves its group with
  the pipes; its number may be another's once it is reaped (`Subprocess`).
- *Answers that cross a cancel.* A plugin or a language server answers late, wrongly or
  not at all, while its caller gives up (`PluginActor`, `LspActor`).
- *Work that goes on by itself.* A round is counted before its prompt is stored, and the process
  may stop between any two rows (`GoalAndPlan`).
- *An answer that comes late.* The request for a title runs beside the turns, while the user
  renames the session or the process stops (`SessionTitles`).
- *Keys meant for something else.* A question, its envelope, the key and the end of the turn
  come in any order (`TerminalTurn`); a form of several pages borrows the composer and must give
  it back on each of its ways out (`UserQuestions`).

`PROJECT.json` lists these hazards one by one at the lines where they bite, with the
properties that would catch them.

## Plan

The order is that of what the rest relies on.

1. `DurableLog` (abstract) and `JournalWriter`, with proofs. *Done.*
2. `DurableSession`, the second implementation of `DurableLog`. *Done, with proofs.*
3. `SessionRecovery`, with proofs of what does not need induction over rows. *Done.*
4. `ToolRound`, `JobNotices`, `TurnLoop`: the agent above the session, with proofs about the
   turn, the round and the notices. *Done, with proofs.*
5. Byte and row capacity of claims in `DurableSession` (growth, rebinding, the preferred
   variant that fits), and the memory credits below it.
6. `TurnReplay`: the lifecycle checks of `projection.rs` for steps, attempts, retries and
   compactions, checked against what a turn writes. *Done;* usage and digests of an attempt and the
   inspection for a fork are open.
7. `Subprocess`, `OutputCapture`, `PluginActor`, `LspActor`: what a tool's body stands on.
   *Done, with proofs; their agreement with the outcomes that `ToolRound` gives a body is by reading.*
8. `TerminalTurn`: the terminal's loop, stops, frames and approval join; `UserQuestions`: the form and
   its broker. *Done, the first with proofs, the second by proof.*
9. `GoalAndPlan`: autonomous rounds and plan mode over the log, with proofs. *Done.*
10. `SessionTitles`: a request that outlives its turn, against the commands. *Done, by proof.*

Compositions: `DurableSession` is built on the interface that `DurableLog` states and that
`JournalWriter` implements; `TurnLoop` sees `ToolRound` as one action with its outcomes and
`DurableSession` as a log with a durable prefix, and replays that log with `TurnReplay`; `SessionRecovery` starts from what the
other two leave on the disk.

Theorems: every safety and action property that a run checks is a theorem as well, for all values
of the constants, except four that speak of what a fold computes from a whole log
(`LogReplays`, `AlwaysReadable`, `RepairConverges`, `OutcomeIsHonest`). Those and liveness stay with TLC.

Runs stay few and each asks one question of one component; as components are added, weaker
properties give way to stronger ones.

## The models

### Journal writer: `JournalWriter`, `DurableLog`, `JournalProofs`

`src/src/session/journal.rs`. The session's file is written by one blocking
thread (`writer_main`) owned by an asynchronous object (`JournalWriter`), joined
by a bounded command channel, a one-shot acknowledgement per command and a
cancellation token per positional read.

*State.* `pending` is `pending: Option<PendingWrite>`, `flight` folds the four
fields `flight`, `read_flight`, `export_flight` and `fork_flight` into one
function of the slot, `cursor`, `poisoned`, `finished`, `finishError` and
`sender` are the owner's fields; `job`, `worker`, `wcursor` and `wpoisoned` are
the thread's locals; `file`, `torn` and `synced` are the disk: the batches in
the page cache, an incomplete batch after them, and how many survive a crash.
`staged` and `acked` are history. A batch is its number, offsets count batches.

*Actions.* Every async method is the same loop, so a method is its name in
`call` and the loop's steps are actions: `Begin` (up to the first await),
`SettleCursor`/`SettleFailure`/`SettleRead` (an acknowledgement arrives),
`FlushPending`, `Synchronise` (the barrier a reader needs first), `SendOwn`,
and the early returns `Decline`, `NothingToSettle`, `FinishDropsPending` and
`SendRefused`. Between two of them the future waits; `CancelCall` drops it
there. The worker's arms are `WorkerAppend`, `WorkerSync` and `WorkerRead`, each
with its poisoned, successful and failing outcome, and `Rollback` is
`poison_and_rollback`, whose own failure the code ignores. `WorkerDies` is the
thread's death at any point.

*Runs.* `journal_safety` (three batches, a channel of one slot; three batches let
one be durable, one written and one staged or lost) checks that the file holds the batches in the order they were staged (`FileInOrder`), that
what a barrier or a finish acknowledged survives a crash (`AckedSurvives`), that an
export that succeeded holds every batch staged before it was asked for
(`ExportIsWhole`), that a poisoned writer writes nothing (`NoWriteAfterFailure`), and
that the writer implements `DurableLog`: entries accepted in order, a growing stable
prefix, promises only about what survives, one final verdict (`ImplementsDurableLog`). It
also checks that a method that is polled returns, whatever fails (`CallsReturn`).

*Fairness.* `WF(Work)`: the operating system schedules the thread, its system
calls return. `WF(Poll)`: a future that is not dropped is polled when its
acknowledgement or permit is ready. `WF(Join)`: `JoinHandle::join` returns once
the thread ended. No fairness is assumed of callers, cancellation or failure.

*Proofs.* `JournalProofs` proves, for every number of batches and every
channel capacity, that `Inv` is inductive and that type correctness, batch
order, durability, the one-command discipline, the harmlessness of readers, the
clean finish and the silence after a failure follow. `Inv` strengthens the
properties by what they rest on: where the command under way is and that its
flight waits exactly as long (`FlightInv`), how the thread's offsets relate to
the file and to what was synchronised (`WorkerInv`), where each staged batch is
(`BatchInv`), that the owner's offsets equal a healthy thread's whenever no
write is out (`CursorInv`), and what the latches imply (`OwnerInv`). `ExportComplete` adds
where the command of an export stands and what was staged before it. `JournalIsDurableLog`
maps every step to one of `DurableLog` or to none; it needs one fact more, that a finish
which gave its verdict is over (`FinishGivesOneVerdict`), or a later step might change the
error it latched. The two assumptions are that both constants are positive. Only
`CallsReturn`, which is about fairness, is model-checked alone.

### Durable session: `DurableSession`

`src/src/session/mod.rs`. The session owns the journal writer and is used by one
task at a time through `&mut self`, so what interleaves is not two methods but
one method, its cancellation at an await, the next method, and the writer's
thread.

*State.* `storage` is the variant of `DurableStorage` (`"starting"` is
`Deferred` once `materialize_if_needed` started its worker), `lifecycle`,
`firstError` and `barrierError` are the fields of those names (an error is its
presence), `operation` is `pending_operation` with the owner, the claim
operation and the capacity protected when it was created, `batch` is
`pending_batch`, `committed` the number of events the projection holds, `claims`
the state of each `EventClaim`, `attempt` and `epoch` the active attempt and
`barrier_epoch`. `journal`, `synced`, `busy` and `poisoned` are the writer of
`JournalWriter` seen from above. `call` is the method being polled and the await
it stands at. `covered`, `owed` and `paid` are history.

*Actions.* The synchronous methods are single steps (`MakeClaim`, `Release`,
`BeginAttempt`, `RetireAttempt`, `AppendPrunePair`). An async method begins with
its guards (`AppendOrdinary`, `AppendOfAttempt`, `SettleClaim`, `Resume`,
`BeginBarrier`, `BeginReadRow`, `BeginMaterialize`, `BeginShutdown`) and then
goes through the same stretches of code: settle the pending operation (`Commit`,
`NeedsStorageSettle`, `Refused`), put the committed batch out (`StageBatch`,
`Flushed`, `FlushFailed`), and end (`SendCommand`, `BarrierDone`,
`BarrierFailed`, `ReadDone`, `ReadFailed`, `Finished`). `Cancel` drops the
future at whichever await it stands; `DropReservation` is a caller that goes
away with its claims and token.

*Run.* `session_safety` has two claims, three events and two barriers: enough
for a claim's event and an ordinary one to compete for the last row, for a prune
pair to take two at once, and for an attempt to be closed before one barrier and
retired after another. It checks that an event is lost only if an error is kept
(`NoSilentLoss`), that a claim's state agrees with what was committed and with the
operation that is pending, and its capacity is never spent by another event (`ClaimsSound`),
that an attempt is retired only behind the barrier of its closure and the result recorded for
a side effect leaves only by being committed (`NothingLeavesEarly`), and that barriers and shutdown implement the
same `DurableLog` as the writer below (`ImplementsDurableLog`): the session uses the
writer's promises and gives them on to the agent.

*Left out.* The byte limits of rows and batches, which are checked beside the
event limit and fail the same way; the resident-memory leases; the memory-only
session; and the branches that only an internal contradiction reaches
(`DurableAppendAttempt::Failed`).

*Proved.* `DurableSessionProofs` has the four properties for any finite set of claims and any
limits. `SessionInv` is their inductive invariant: where each method may stand and what
it found when it began (`CallInv`), what the storage may hold in each of its states
(`StorageInv`), that committed events leave the batch for the journal in order (`JournalInv`),
that a closure is covered by a barrier that began behind it (`AttemptInv`), and that no
claim is pending but the operation's (`ClaimInv`). `ClaimInv` has the step that makes it inductive:
the room an operation captured when it was created is at least what the *other* claims hold when
it commits, although claims are made, settled and dropped in between. `LossInv` says
that a dropped operation is owed an error in a place that a cancelled wait cannot clear. The refinement
follows step by step from `SessionInv`. `NoClaimAssumption` says that the value for "no
claim" is not a claim.

### Cold scan, repair and resume: `SessionRecovery`, `JournalProofs`

`src/src/session/recovery.rs`, `resume.rs`, `projection.rs` and the two commits
at the end of `journal.rs`. A journal outlives the process that wrote it. The
next process scans it, plans the rows that close whatever was open, shows the
plan, and on consent cuts the bad tail off, writes the plan and goes live.

*State.* `file` is the journal as the file system shows it and `disk` what of it
survives the machine: the rows and the kind of their tail, `"none"`, `"torn"`
(the last line has no end), `"garbage"` (a bad line at the end) or `"interior"`
(a bad line before a readable row). `phase` is `"live"`, `"down"` or where a
resume stands (`PreparingResume`, `PreparedSession` and `CommitState`);
`projection` is the fields of `Projection` that admission and recovery compare;
`suffix` is what a committing resume has still to write. `dispatched` and `goal`
are history: the calls whose body ran, and the rows the first commit of this
repair settled on.

*Actions.* `AppendRow` is one admitted row of the live session, `Barrier` its
`flush_barrier`, `Dispatch` the start of a tool's body. `ProcessDies` leaves the
file as it is, perhaps with a torn end; `PowerFails` leaves any file that keeps
the durable rows (`Images`). `Prepare` is `prepare_locked`: the scan
(`apply_cold_event` is `ColdStep`), the plan (`build_recovery_plan` is `Plan`)
and its rehearsal on a copy of the projection. `Truncate`, `SyncCut`,
`WriteRow`, `WriteFails` and `SyncSuffix` are the steps of
`commit_recovery_suffix`; a stop may come between any two, and the repair is
then repaired.

*Run.* `recovery_safety`: a message declares one or two calls, a live session
appends while the file has fewer than eight rows, and there are two stops. Eight
rows hold a turn with a step, an assistant message, a started, approved and
finished call and the beginning of another; two stops let a repair be
interrupted and continued. It checks that whatever the stops leave can be read
unless the durable part itself is damaged (`AlwaysReadable`), that the projection a scan builds is the one a live session would hold
after the same rows, that an interrupted repair repaired again comes to the rows of the first and that a
resumed session has nothing open (`RepairConverges`), that the outcome written for a call agrees with whether
its body may have run (`OutcomeIsHonest`), and that no durable row ever changes (`DurableRowsStay`).
Deadlock checking is off because a refused journal is the end.

*Left out.* The decoding of a row and the byte limits of a scan (a bad row is a
bad line); provider attempts, surfaces, prune markers and titles, which neither
the plan nor the admission of its rows looks at; and a process that writes the
file without its lock. The commit scans a second time and compares: with the
lock held the second scan equals the first, so the model has one.

*Proofs.* `JournalProofs` proves, for every set of call lists, file
length and number of stops, that no step changes a durable row
(`DurableRowsStay`), that a journal damaged before its last readable row is
never written to (`InteriorIsKept`, `DamagedJournalIsLeft`), that the rows that repaired a live session
are durable (`RepairIsDurable`) and that a body runs only behind a durable
`tool/call` row. `Inv` adds where the tail can be bad: never in a live or
committing session, and `"interior"` only in a file that is entirely durable,
which is why a second power failure leaves it alone. What the scan accepts is a
recursive function over the rows; `AlwaysReadable`, `RepairConverges` and `OutcomeIsHonest` are therefore only
model-checked; `InteriorIsKept` and `RepairIsDurable` are only proved.

### A round of tool calls: `ToolRound`, `ToolRoundProofs`

`src/src/agent/mod.rs` from `commit_tool_round` on (its loop over the calls,
`run_parallel_tool_group`, `run_one_tool`, `resolve_mutation`,
`resolve_action`, `request_approval`, `commit_mutation` and the settling
functions) and the exact-command grants of `agent/approval.rs`. The assistant
message with its calls is committed, and each call holds a claim for its
announcement and one for its result.

*State.* One future drives the round: `at` is where it waits or goes on, `index`
the call it is at, `pool` the locals of a parallel group (`next_to_start`,
`next_to_commit`, `stop_starting`, `memory_unresolved_index`), `driver` the flags
that outlive a call (`durable_limit`, `observer_unavailable`, `cancelled`,
`infrastructure_failure`, `latched_stop`). `body[i]` says what is under way for a
call and `slot[i]` what it came to. `log` and `seen` are the committed rows and
how many of them a barrier covered. `token`, `deadline` and `observerUp` belong
to the caller, the clock and the live observer and change between any two steps.
`ran` and `scoped` are history. A call is a *mode*: `parallel` and
`plain` work while they are prepared, `state` (goal, to-do list) and `exit` (plan
mode) change the session, `mutation` changes files, `action` runs a command.

*Actions.* `WriteIntent` and `Dispatch` announce a call and wait for the barrier;
the `Body...` actions are `run_one_tool` with its race of cancellation, deadline,
tool timeout and result, and its grace period; `WriteState`, `Settle` and
`SettleUnknown` are the arms that write results; `SetUp`, `Refuse`, `Proceed`,
`Ask`, `Answer`, `Decide`, `Act`, `WorkTakesEffect` and `WorkEnds` follow
`resolve_action` and `resolve_mutation`; `StartPool`, `Fill`, `DispatchInPool`,
`CommitInPool`, `Check`, `Rest` and `EndPool` are the rolling pool.

*Run.* `tool_round_safety` takes messages of two and three calls: a group of three with a pool of two, a group
of two behind a call of its own, every policy where a policy
matters, both kinds of session, and three runs of one command under the policy that asks. Three calls in a pool of two are the smallest group in
which one call waits for room while two finish in either order, and three runs of a
command are the fewest that show a grant earned, used and lost. It checks that rows come in order however bodies finish and that every claim is paid or given
back once (`EveryCallAnswered`), that a result never denies work that was done nor
reports work that was not (`ResultIsHonest`), that nothing is started behind a stop and
the step learns of it (`StopIsReported`), that work starts behind its stored and seen announcement and nothing is
changed or run without a stored yes or an earned grant (`StartsAllowed`), and that a round
ends (`RoundEnds`). Deadlock checking is off because a round ends.

*Fairness.* The driving future is polled when it can go on; the deadline passes;
an interrupted body is given no more than its grace period; after the deadline
setups, prompts and commands end, which is what their contract (`turn_stop`) and
`request_approval`'s own grace period ask for. Nothing is assumed of a body that
nobody interrupts, of the caller, of the observer or of the store.


*Proved.* `ToolRoundProofs` has `EveryCallAnswered`, `ResultIsHonest`, `StopIsReported` and
`StartsAllowed` for any set of rounds, with any number of calls of any modes, and any width of the
pool. `RoundInv` is their inductive invariant, kept by each action by a lemma of its own. Its parts
say, for each place the driving future may stand at: how far the log is, as the number of calls
announced and of calls answered (`LogInv`, with `LogOk` as the shape of such a log); which call may
have work under way or a result waiting (`PlaceInv`, and for the pool, whose started calls are
exactly those between `commit` and `start`, `PoolInv`); what a body and its slot say of the work
(`WorkInv`); that nothing worked before its announcement (`RanInv`), nor before somebody saw it
(`SeenInv`); that behind a result which ends the round the turn's flags stand and everything that
ran was announced before it (`StopInv`); that a grant in hand was earned by a run the user allowed for good
and that every run since ended cleanly, even while the result of the next one is still open
(`GrantInv`); what was given back (`ReleaseInv`); and what results may say (`HonestInv`). TLC
found the whole of it invariant on the rounds of the run before it was proved. The step that is easy
to get wrong is the pool's: a group that lost an outcome goes on committing nothing, the calls that
finish behind the lost one stay in their slots, and the claims given back are counted from the
lost one, not from the last committed. `RoundEnds` is liveness and stays with TLC.

*Left out.* Contents and sizes of results, the conclusion of a turn, repeated-call
reminders and the goal's wrap-up message. All commands of a round are the same
command, and one policy stands for the three of files, shell and plugins.

### Background jobs and their notices: `JobNotices`

A shell command may be detached as a background job.  The registry (`tools/jobs.rs`) follows
the job; when the job ends and nobody has been told, it puts a notice into an inbox
(`agent/job_notice.rs`).  A running turn takes the notices before each request and stores
them as messages of the step; an idle terminal (`cli/interactive.rs`) opens a turn of its own
for them, three times at most between two direct messages.

State and code: `job`, `reported`, `tap`/`cursor` are the records of the registry, `body` the
calls of `job_output` that wait; `pending`, `omitted`, `active`, `wakes`, `closed` are
`JobNoticeState` and `permit` the permit of its `Notify`; `hands` are the notices the agent
has taken and not yet stored (`prepared_job_wake`, `claimed_notices`, and those among the
`messages` of `run_entered_turn`); `pc` is where the terminal and the agent stand.  `stored`,
`shown`, `known`, `cut` and `autos` are history.

The program runs on a current-thread runtime (`cli/entry.rs`, `Builder::new_current_thread`),
so what a task does between two awaits that can wait is one action.  In particular the
critical section of the registry in `finish`, `read` and `kill` and the call of the inbox that
follows it are one step here; on a runtime with several threads they would be two, and the
properties below are not claimed for it.

| run | question | bounds |
|---|---|---|
| `job_notices_safety` | is each end told at most once (`NoticeOnce`, `ToldStaysSilent`) and not forgotten (`EndIsTold`); do wakes stay in their budget, and does a terminal that parks beside a notice look again (`WakesAreRight`) | 3 jobs, 2 alive, 2 retained (so one is evicted), an inbox of 1 (so it overflows), 1 wake, 2 steps, 1 waiting call |


`EndIsTold` names the only ways by which an end can get lost: `cut`, a turn that was stopped,
refused room or failed with the notice in hand (`DropHands`), or a wait that was cut after its
job had ended.  The documents promise more than that (below).

A remark that is not a finding: `restore` puts a claim back without looking at the bound, so
the bound of 64 that the document gives can be exceeded by the jobs that were alive when the
claim was taken. This needs a wake that `run_turn` refuses, after which the shipped terminal
ends.

All properties are safety properties; that a notice is eventually shown depends on the user
and the model, about whom nothing is assumed. Deadlock checking is off because the terminal may
end.

*Proved.* `JobNoticesProofs` has all of them for any number of jobs, waiting calls, steps and
wakes and any size of the inbox. `NoticesInv` adds to the properties what keeps them true.
`ReportInv`: only a job that is `reported` has a notice, anywhere; a live job that is
reported was killed; and what the model knows is neither queued nor in hand. Without the
first, a read that suppresses and an end that enqueues could leave two. `PlaceInv`: nothing is
in hand while a step runs, which is why a read in the step may look at the queue alone.
`WakeInv`: every automatic turn that was opened or is about to be has been counted, through
refusals that give a wake back. The lemmas before it count copies of a job in a queue: what concatenation,
an append and the removal of the first one do to them.

### The turn loop: `TurnLoop` and `TurnReplay`

`src/src/agent/mod.rs` from `run_turn_inner` to `retire_attempt`, and `compact_once` of
`agent/compaction.rs`. A turn is a loop of steps, a step a loop of provider attempts;
between two steps the context may be pruned and summarised.

*State.* `at` is the await or the loop head the turn's one future stands at: `"top"`,
`"claimed"`, `"prepared"`, `"summary"` and `"rearm"` are the stretches of
`run_entered_turn` before a step is entered, `"step"`, `"dispatch"`, `"stream"`,
`"sealed"`, `"delay"` and `"round"` those of `run_step`, `"settle"` and `"stepped"` its
end. `log` and `synced` are the turn's rows and how many are durable (`DurableSession`
seen from above), `claims` the rows it has reserved, `open` the attempt token. `steps`,
`attempts` are `Counters`, `retries` and `chain` are `retries_in_step` and
`retry_chains`, `policy` is the call of the attempt under way: a provider with its retry
policy. `prep`, `tried` and `summarised` are the first attempt's
`AttemptPreparation`, the triggers already pruned for, and `summary_attempted`.
`outcome`, `latched` and `reason` are the two fields of `StepResolution` and the
`TurnEndReason`. `stopped` and `lastCall` are history.

*Actions.* `OpenTurn`, `ClaimStep`, `Prepare`, `Prune`, `Summarise`, `StoreSummary`,
`CutSummary`, `FailSummary`, `EndSummary`, `Decide` and `EnterStep` lead to a step; `BeginRequest`, `Dispatch`,
`Stream`, `Interrupt`, `Answer`, `Call`, `RunRound`, `Retry`, `StartRetry` and
`StepBreaks` are the step; `EndStep`, `AfterStep` and `EndTurn` close. Where the code
asks "cancelled, late or over the limit?" the action does, in the same order. A round of
tools is one action with the outcomes `ToolRound` gives it. The caller's cancellation,
the deadline, the observer's leaving and a storage error may come between any two.

*What is read back.* `TurnReplay` is the fold that a cold scan makes of those rows: the
lifecycle of turns and steps (`apply_transition`), of the provider's attempt
(`AttemptProjection`), of retries (`apply_retry`, `apply_retry_started`) and of an open summary
(`advance_open_compaction`), with the closing rows of `build_recovery_plan` and the admission of
each (`apply_recovery_admission`). A projection is a record; `Scanned` refuses a row that the
code refuses and otherwise changes the record as it does. It is written from `projection.rs` and
`attempt_anchor.rs`, `TurnLoop` from `agent/`: that the two agree is what the run checks. Calls
of tools are folded in `SessionRecovery`.

*Runs.* `turn_safety`: two steps, three attempts, two retries, two calls whose policies allow two
retries each. Three attempts let a summary, a failure and an answer fall into one turn; two
policies with two retries each let a chain be left and taken up again; two steps let counters
be reset. `FirstCalls` is one of the two calls, which differ in nothing but their names;
`Wordy` and `MaxChunks` give one row of content to the first attempt, since the content of the
others changes nothing but the length of the log: every stream may still end at once, with a
result or with a failure. 1.26 million states.
Whatever the turn has written must replay, so must what is left of it after a crash, since each
prefix was the log of an earlier state; recovery must close it; and the attempt that the
projection sees must be the one whose token the session holds (`LogReplays`). No request
leaves before all rows are durable and no attempt is retired before its closure is
(`RequestBehindBarrier`), the reason a turn returns is true (`ReasonIsTrue`), and a turn ends
(`TurnEnds`). Deadlock checking is off because a turn ends.

*Fairness.* `WF(Drive)`: the turn's future is polled when it can go on, and the store and
a round of tools answer (`tool_round_safety`, `session_safety`). `WF(DeadlinePasses)`:
the turn timer fires. `Stream`, `StoreSummary` and `FailSummary` are not fair: a provider may be silent
for ever, and what ends such a wait is the deadline.

*Left out.* Title, prune and plan-mode rows; the context's row, which follows the header's and
is read alike; of the attempt's fold the usage, the digests and the route, and the compaction
inside a step, which no caller starts; the length of delays and
token counts (which preparation a request gets is chosen); the memory-only session, which
differs in what a full session is called; a summary the user asks for.

*Proofs* (`TurnLoopProofs`). For any limits, any number of policies and streams of any
length: the type invariant, with the counters' limits (`TypeCorrect`), `ReasonIsTrue`
(`ReasonHolds`) and `RequestBehindBarrier` (`RequestsWait`). The only assumption is
`LimitsAssumption`. `ReasonIsTrue` speaks of a closed turn and is not inductive; what the
turn knows on the way there is. `PlaceInv` says where an attempt may be open, where a
full session is about to end the turn and where another step is still allowed.
`VerdictInv` says that a stop the turn will report was made, and that a summary left an
attempt for its step. `AnswerInv` follows an answer through the log: it is the last row
when the step settles, the last but one behind the step's end, and it becomes the reason
only if no stop came. That `EndStep` turns an answer into a failure when it has to close
an open attempt is what keeps `AnswerInv`. Each part has a lemma with a case per action.
`LogReplays` needs induction over the rows of a log, and `TurnEnds` needs fairness: both are
model-checked only.

### One foreground command: `Subprocess`

`src/src/tools/process.rs`, `process/linux.rs` and the preparation in `tools/shell.rs`. A
command gets a process group of its own, is read through pipes with a limit, and may be
stopped four ways: the caller, the turn, the action's own time, the command's timeout.

*State.* `pc` is where the call is; `due` the stops that have come; `stop` and `worker` the
preparation on a blocking thread (`SetupStop`, `ActionStop`); `drv` the fields of
`RunningProcess` (`primary`, `turnStop`, `natural`, the signals sent, the timers armed, the
streams open and cut short, flags, bytes); `scan` and `reap` the two blocking jobs; `outcome` the
`ProcessOutcome`. What is true is in `os`: the leader, the members of the group by the id
they got, a process that left the group and still holds the pipes, and whether a signal ever
went to an id that was reaped (`stray`).

*Actions.* `WorkerEnds`, `PrepStop`, `PrepJoin`, `RunAction`, `BeforeSpawn`, `SpawnFails` and
`Spawn` lead to a running process. Then each event of `drive_process` with the clean-up that
ends the loop's turn is one action: `StopEvent`, `GraceEvent`, `DrainEvent`, `PipeEvent`,
`TickEvent`, `ScanEvent`, `ReapEvent`. `ScanVisit` and `ScanEnds` walk over the process table
one id at a time while the group forks; `Lose`, `LostStop`, `LostKill` and `LostEnds` are the
way out when the leader cannot be verified; `DropFuture` is the guard. `Detach` hands the
process to a background job.

*Run.* `subprocess_safety`: two member ids, one stream, a limit of one byte and a command that
writes two, one failure of the kernel's interfaces, two stops, one fork behind a scan. Two
ids are what a scan needs to miss one; one byte beyond the limit is the boundary. It checks
that no signal is sent in the name of a reaped leader and that the leader is reaped only
behind the last of its group (`GroupIsOurs`), that the reported cause is what happened
(`CauseIsTrue`) and the first that did (`CauseIsFinal`), and that a call ends
(`CommandEnds`) unless the kernel refuses a signal or no longer tells who the leader is: in
these two the code waits for a process it can do nothing about. With two streams the
properties hold as well; one keeps the run short.

*Fairness.* The call and its jobs are polled; the clocks go on. A timer that fired comes
before pipes, scans and ticks in the code's biased `select!`, hence `WF(GraceEvent)` and
`WF(DrainEvent)`. Nothing is assumed of the command: it may never exit and ignore TERM.

*Proved.* `ChildProcessProofs` has the three safety properties for groups of any size, any
number of streams, bytes, stops and faults. `CauseIsTrue` and `CauseIsFinal` hold without more;
`GroupIsOurs` holds while the group forks behind a scan at most once (`MaxBehind <= 1`), for
two clean passes over the table are all the code asks for (`GroupStaysOurs`). The inductive
invariant (`Inv`) has four parts beside the types: `PlaceInv` says for each place of the call which fields are
still fresh and that everywhere else driver and command agree (`Sound`: a recorded cause has its witness
in the world); `ReapInv` that the leader is reaped only where the driver has disarmed; and `ScanInv`
what a pass over the table is worth: after the first clean pass either nobody is left or the
one fork has been spent, after the second nobody is left. That is what two passes buy, and `GroupIsOurs`
is not inductive without it.

*Left out.* Environment and arguments of the command, the text of results, macOS, the
creation of the spill directory. Deadlock checking is off because a call ends.

### What is kept of its output: `OutputCapture`

`process/capture.rs`, `spill.rs`, `incremental.rs`. Byte number n of a stream is n, so that
pieces of a stream compare exactly. `tail` is what the result shows, `file` the spill,
`window` and `cursor` what a reader of a background job takes from. `Push` is one read of
the pipe, with the success or failure of the file; `CloseStream` and `Finish` end it; `Read`
is `job_output`.

*Proved.* No run is needed: `UserSideProofs` shows for a stream of any length, reads of any
size and any limit (`TailLimit \in Nat`) that the tail is the end of the stream and says when it
is not all of it, that a named file holds every captured byte (`CaptureExact`), and that
reads repeat nothing, keep the order and hide no loss (`ReadsExact`). The invariant behind the first
says that the tail and the window are both the last bytes of the stream, that a capture
without a file has lost nothing yet (so that the file may begin with the tail), and that an open
file has everything. The second adds that a loss which named no file is remembered in
the cursor until the end, where there may be none.

### Tool plugins: `PluginActor`

`tools/plugin/actor.rs` and `action.rs`. A plugin is a process that one thread owns and speaks
a line protocol with. A caller looks at a state word, sends its command into a queue, and
waits for the answer and its own stops.

*State.* `state`, `shutdown` and `queue` are the shared parts; `caller` and `due` the callers
and the stops that came for them; `actor` the thread: where it is, the call and its number,
how much of the record went out (`evidence`), the stop it latched, the fault, the lines read;
`peer` the plugin and whether it ever broke the protocol; `out` and `inn` the two pipes. One
turn of a loop of the thread is one action (`IdleTurn`, `WriteTurn`, `WaitTurn`,
`CancelledTurn`, and those of start and end). A read may end in the middle of a line.

*Run.* `plugin_safety`: two calls, a queue of one (so the second waits, or is refused as
busy), one stop beside the calls' own deadlines, one trouble. It checks that a call reported
as never started is never seen by the plugin, that a settled one has the plugin's answer under its
number, that an unknown outcome leaves no process behind, and that an honest plugin is never
blamed, whatever crosses (`AnswerIsTrue`); and that every accepted call is answered
(`EveryCallAnswered`).

*Proved.* `AnswersAreTrue` in `ChildProcessProofs` is `AnswerIsTrue` for any calls, capacity of the queue, stops and
lies of the plugin. A caller that waits is in the queue or with the thread, and nowhere twice
(`QueueInv`); numbers are used once, and the plugin has seen none that was not sent (`IdInv`); before
the handshake nothing else has happened (`EarlyInv`); with an honest plugin each number
has at most one answer on its way, and none that the thread has judged (`HonestInv`), so that no order of call,
cancel and answer looks like a breach; and what was told follows from what was read
(`AnswerInv`).

*Fairness.* The thread runs, callers are polled and a call's own deadline passes. Nothing is
assumed of the plugin. *Left out.* Schemas, JSON, configuration; the end of the process group is one step, which
`Subprocess` has in detail.

### Language servers: `LspActor`

`tools/lsp/actor.rs`. One thread keeps at most one server, starts it when a query needs it and
tries once more on another when the first fails before the answer. `conn` is the connection
with its request number, `server` the process at its end, `procs` what became of each server,
`caller[q].asked` the server and number a query was sent with. `Open` and `Close` are
`didOpen` and `didClose`, `WaitTurn` one turn of `wait_for_response`, which skips foreign
responses and answers requests of the server's own; `Terminate` and `Lose` are the two ends
of a server, `Farewell` and `Leave` the shutdown.

*Run.* `lsp_safety`: two queries, a queue of one, one cancellation, two troubles (so that the
retry fails too). It checks that a result is the answer to this query's own request on the
connection that is still open, that there is one server at a time and none behind the thread
(`ResultIsOwn`), and that every accepted query is answered (`EveryQueryAnswered`).

*Proved.* `ResultsAreOwn` in `ChildProcessProofs` is `ResultIsOwn` for any queries, capacity, cancellations and
troubles. The invariant says that only the last server may be alive, and only with its connection
(`LiveInv`), and that a response that waits carries a number this server has answered, while the query that is
matched with it was sent to this server under its own number (`LspIdInv`): numbers start again with each
connection, what waits on it does not survive it.

Fairness is
that of `PluginActor`. *Left out.* Framing, the shape of results, rendering, configuration.

### The terminal during a turn: `TerminalTurn`

`cli/interactive.rs` (`run_turn`), with `cli/approval.rs`, `approval_join.rs` and
`approval_selector.rs`. One task polls the future of the agent and, beside it, committed rows,
envelopes of approvals, keys, signals and at most one frame that is being written. The
question of an approval arrives twice: as a committed row, and as an envelope that carries
the way for the answer; the two are joined before anything is shown.

*State.* `agent` is the future with the approvals it asks for; `rows` and `envelope` the two
channels; `reply` the answer on its way; `join` is `ApprovalJoin` (`asked`, `envelope`,
`active`, `awaiting`, `decided`); `ui` the locals of `run_turn`: the stop, the frame with
what follows it (`AfterFrame`), the mode of the dialogue (`ApprovalUiState`), a pending
escape, whether the loop drains. `tty` is what was typed and not read, each key with the
question that was on the screen when it was pressed, `shown` that question, `world` and
`heard` history.

*Actions.* `Top` is what a turn of the loop does before it waits: latch a fault, complete a
frame and act on what follows it, put the question. Then one branch of the `select!`:
`Signalled`, `FrameWritten`, `FrameExpires`, `Armed`, `TakeEnvelope`, `TakeEvent`,
`EventsEnd`, `Read`, `ReadEnd`, `EscapeExpires`, `TurnReady`. The drain behind the turn is the same
loop (`ui.drain`) with `FinalDeadline`; `Finish` is `finish_turn`; `Breaks` and `BrokenEnds`
are the way out through an error. The `Agent...` actions are what the agent publishes and
waits for, `IdleCommits` a command at the prompt.

*Run.* `terminal_safety`: two turns, two approvals, two keys, one signal, of turns, approvals
and keys four together. Two approvals let an answer meet the wrong one, within a turn or
across two; two keys are a key that spoils and one that confirms, or an escape and what
follows it; one signal meets each point of the loop. It checks that an answer counts only if
its key was pressed when the selector of this very question was complete on the screen (`AnswerIsMeant`), that
a turn fails only when the terminal, the observer or the agent did (`OnlyTroubleFails`), that
the result of a turn is true (`ReturnIsTrue`), and that every turn is left (`TurnReturns`).

*Fairness.* One weak fairness over the loop, the polled future and the turn's deadline: as
long as one of them has work, one of them goes on. No key, signal or end of a frame is
assumed: a frame that is not written meets `FRAME_DEADLINE`.

*Proved.* `TerminalTurnProofs` has the three safety properties for any number of turns, approvals,
keys and signals. `AnswersAreMeant` needs no hypothesis and a small invariant
(`DialogueInv`): a selector that accepts has its question on the screen and everything that is
typed was typed there (`SelectorInv`), what is put is the active question of the join (`PutInv`).

The other two hold when the rows between turns are those of a goal (`Foreign \subseteq
{"goal"}`); with a title or a plan they are false, which is the finding below and one of the
disagreements. Their invariant (`OrderInv`) is about the order in which things arrive. Each row
of a turn has a rank (start, prompt, then asked and decided of each question, end). As long as nobody has
stopped the turn and nothing failed (`Smooth`), the rows that wait are in the order of their ranks and none is
beyond what the agent has published, what the join knows was asked and is not decided or
about to be (`JoinInv`), an envelope belongs to the question the agent waits with (`ChannelInv`)
and a frame to the dialogue's mode (`FrameInv`); hence no operation of the join fails
and the drain finds both halves gone. `RowsInv`, `StopInv`, `TroubleInv` and `HeardInv` relate the rest: which turn a row is of,
who may have stopped it, where trouble has left its mark and which stop stands for
what was heard. `ReturnsAreTrue` follows from the same invariant step by step.

*A finding.* `terminal_titles` violates `OnlyTroubleFails`. `/rename` and `/refresh-title` at the
prompt, and a generated title that is ready when a turn returns, are committed while no
turn runs. Their rows wait in the terminal's channel; `process_event` lets rows from before
the turn's `start_seq` pass only if they are `goal/change`, `plan/mode` or
`permission/preset`, and stops the next turn as a failure otherwise. The rows of `/compact`
meet the same check. In `terminal_safety` the rows of that kind are therefore those of a
goal.

*Left out.* The prompt and its commands, the questions that the model asks (`UserQuestions`), the enhanced dock with
composer, suggestions, motion and geometry, images. Of the keys typed ahead only the
confirmation is followed, which is the one that could do harm.
### Goals and plan mode: `GoalAndPlan`

`src/src/goal.rs`, `plan_mode.rs`, their commands at the prompt (`cli/interactive.rs`), their tools
(`tools/registry.rs`) and the agent's part in writing them (`agent/mod.rs`). Both are
runtimes that cache what the session's log says. A change is prepared under a lock, written to
the log by whoever owns the session, and only then installed; dropping it abandons it. While
a goal is armed, the idle prompt starts rounds by itself.

*State.* `log` holds the rows `goal/change` and `plan/mode` and the admitted prompts of rounds,
`synced` how many of them a crash leaves. `goal`, `armed` and `pending` are `GoalState`, `plan` and
`leaving` are `PlanModeState`. `turn` is the turn that runs: who asked for it, whether it
stands before a step, behind the flush of plan mode or among its tools, and the round it is. `born`
stands for fresh ids, `dead` for a session or agent that writes nothing more. `halted` and `exit`
are histories: whether a person has created or resumed the goal since it last stopped, and
whether a step has begun behind an approved exit. A row says by whom it is.

*Actions.* `GoalCommand`, `GoalTool` (behind its authority and its barrier), `DropChange` (a turn
that is cancelled or late), `CommitChange` (taken, refused, or lost in a failing journal);
`StartRound`, `StartTurn`, `FlushPlan`, `StepStart` (which admits the prompt), `StepEnd`, `TurnEnds`
(with the rollback of an uncommitted round and the pause of a failed one); `ApproveExit`, `PlanCommand`;
`Sync`; `Restart`, which may lose every row that is not synced. `Accepts` is the fold of
the log with all its refusals.

*Run.* `goal_safety`: two goals, caps of one and two rounds, five rows, and a threshold of two rounds
in place of three, so that a goal that is blocked by its own round fits. Five rows hold a
goal that is created, runs, pauses, is resumed and runs again, or one that ends and is replaced; two
million states. `WorkIsOwed` says that the runtimes are what a restart would read, but for one round
that is counted and not yet admitted, and that every prepared change will be taken
(`RuntimeFollowsLog`); that goals begin, change and go on by a person's decision only, that every
round is counted once, and that rounds block a goal only behind the threshold (`LogIsHonest`); that
nothing is armed behind a pause, an end, a failed round or a restart (`HaltedIsDisarmed`); and
that a step behind an approved exit runs without plan mode (`ExitIsKept`).

*Proved.* `UserSideProofs` has all of it for all constants (`AutonomousWorkIsOwed`), with the last
two as theorems of their own. For the agreement with the log and its honesty, `OwedInv` adds that ids are made once (`IdInv`: a
goal that is being created has an id that no row has, so that its rounds start at none), where a change may be
prepared (`PlaceInv`), and that a change that waits is as honest as the row it will be (`PendingInv`).
The lemmas behind it say what an appended row and a lost suffix do to the last goal, the last mode
and the count of rounds. `DisarmedInv` adds that a
prepared change arms only by a person's decision, and that the goal of a round that runs is still the
round's, or disarmed: without it, a failed round that finds another revision would not be
paused and could leave an armed goal behind. `ExitInv` adds that the exit waits for exactly the next flush.

*Left out.* Objectives, reasons, times, the text of prompts and wrap-ups, and the review in which the
user approves an exit.

### User questions: `UserQuestions`

`src/src/user_question.rs` (the broker), `cli/user_question.rs` (the form) and what the turn's loop
does with both (`cli/interactive.rs`). The tools `ask_user_question` and `exit_plan_mode` put a form
into a channel of one and wait for its one-shot response. The terminal takes the form, shows
its questions page by page, keeps a draft for each, and answers when all have one.

*State.* `call` is the tool's side of each call, `queue` the channel, `wire` the one-shot
response. `ui` is `UserQuestionUiState` with the page, the phase and the drafts, and the
frame that is being written. `overlay` says that the composer is borrowed for a free answer or a
list of several choices, with the user's own draft put away. `turn` and `stopping` are the
loop's and the agent's sight of the turn.

*Actions.* `Ask`, `AskEnds` (with `TooLate`) and `DeadlinePasses` are the agent's side. `Top` is what the
loop does before it waits, `EventShown`, `FrameWritten`, `Receive`, `Stop` and `Fails` its other
events. Each kind of key is an action, on the enhanced terminal and on the linear one
(`Enhanced`); `Invalid`, `Escape` and `Eof` among them. A form ends by an answer, by Escape, with the turn, or
dropped behind it (`StartTurn`, `TurnReady`, `Drained`, `StopExits`).

*Proved.* No run is needed: `UserSideProofs` shows for any calls, forms and texts, on both
terminals, that a form the terminal submits is refused neither by the envelope nor by the
tool, and that what the tool returns has one valid answer for each question (`AnswersAreTaken`);
that the composer is borrowed exactly while the form needs it (`ComposerComesBack`), although
many places of the loop borrow it or give it back and each fails the turn when it does so out of turn; and
that a step on one page changes the draft of no other (`PagesKeepDrafts`). `Assumed` has what the
parsing of the tools' arguments lets through. The invariant behind them, `QuestionsInv`, says in
addition that a form which is open has one draft per question, that a draft selects only
options that there are, none twice and one at most where one may be chosen, and that no form is
open between turns. Without the first two an answer might be refused, without the third a
turn might begin with the composer borrowed.

*Left out.* The text of arguments, frames and retry marks; approvals beside a question
(`TerminalTurn`); what becomes of an approved exit (`GoalAndPlan`).

### Session titles: `SessionTitles`

`src/src/agent/session_title.rs`, `session/title.rs` and the places of `agent/mod.rs` that call them. The
first prompt gives a fallback, and one request to the provider a better title. The request runs
in a task beside the turn; its answer is taken over only before a turn, behind one, before an export
or a fork, and at shutdown. `/rename` and `/refresh-title` supersede all of it.

*State.* `log` has the prompts, titles and requests in the order of their rows, each with the prompt it
is about and whether the agent or a command wrote it; `synced` how many rows a crash leaves. `state` is
`TitleState` with its prompt `about`, `task` the request, and `agent` says where the agent is: idle, in a
turn, within a refresh, poisoned by a failed turn, or down.

*Actions.* One per function of the runtime: `Open`, `RecordFallback`, `StartRefinement`, `TaskEnds`,
`Collect` at `BeginTurn`, `EndTurn`, `ExportOrFork` and `Shutdown`; `Rename`; `Refresh`, `AskAgain` and
`Answered` for the awaits of a refresh. Any append may be refused. `Crash` leaves any prefix that has the
synced rows, so that it also stands for a stop between two rows, and for a failed writer.

*Proved.* No run is needed: `UserSideProofs` shows for logs of any length, with and without
titles of the provider, that no row of the agent's own follows one of a command
(`TitlesOfCommandsWin`), that fallback, request and answer come at most once each in the life of a log and
in this order (`TitleIsAskedOnce`), and that titles name prompts (`TitleNamesAPrompt`). The invariant
`Path` ties `TitleState` to the log: armed, there are only prompts; pending, at most a fallback besides;
running, the request too. `Shape` passes to every prefix, which is why a crash cannot hurt, and
a restart decides by the rows alone (`Titled`, `Requested`).

*Left out.* The text of titles and prompts, several prompts in one step, the title of a forked
session. What the terminal does with a title's row is in `TerminalTurn`.


### Disagreements noted without a run

Where a document promises more than the code does, and no run of its own says so:

- *First stop.* "If the outer turn deadline wins, the first observed turn stop remains
  authoritative even if another sibling later settles"
  (`docs/design/parallel-tool-scheduling.md:114`). The group latches a stop when it commits a
  result, in message order, or when its loop samples one (`agent/mod.rs:4571`): a later call's
  deadline waits in its slot, and a cancellation that arrives meanwhile is latched first.
- *Output of a job behind a cancelled wait.* "Cancelling a wait cancels only that tool call;
  unread output remains." (`docs/design/background-job-incremental-output.md:49`). The wait is
  cut after the registry moved the cursor (`tools/jobs.rs:391`, `agent/mod.rs:5100`); `cut` in
  `JobNotices.EndIsTold` has this case.
- *A queued notice.* "A concurrently queued notice remains eligible for a later idle wake
  rather than changing that stop reason." (`docs/design/background-job-notices.md:57`).
  `refresh_dynamic_context` (`agent/mod.rs:2164`) claims the notices and does not give them
  back when it is stopped; the job counts as reported. Again `cut`.
- *Full output of a command.* a stop that comes while the pipes drain closes them
  (`tools/process.rs:865`), and none of the facts that decide between "full" and "captured"
  (`tools/shell.rs:1329`) tells of it, so the notice calls the file the full output
  (`docs/design/shell-output-spill.md:59` reserves that word).
- *Dispatched or not.* `docs/design/subprocess-tool-plugins.md:364` has `dispatched` say that
  the host dispatched the call or may have. A call still in the queue when the thread's end
  drops it gets `dispatched: true` (`tools/plugin/actor.rs:451`), though nothing of it was sent;
  this errs on the safe side.
- *Retry of a language server.* `docs/design/lsp-navigation.md:101` retries a transport failure
  only; `tools/lsp/actor.rs:285` retries protocol failures too. Beside it: `run_query` drops a
  lost ownership, a failed `didClose` leaves a torn message on a kept connection, and an answer
  to a server's request that stalls ends the query as a timeout before its own deadline.
- *Stopping right after `/plan`.* `discard_ready_updates_after_stop`
  (`cli/interactive.rs:8033`) lets `goal/change` and `permission/preset` pass but not `plan/mode`:
  a stop before the turn's loop saw that row ends the terminal as a failure, where
  `docs/design/interactive-cli.md:538` says an interrupted turn returns to the prompt.
- *The end of a turn under a selector.* When the turn's future ends (by its deadline) while the
  selector's frame is being written, the dialogue is reset and the frame's follower then fails
  the drain (`cli/interactive.rs:5690`, `accept_rendered`): the terminal exits as a failure.
  `torn` in `TerminalTurn.OnlyTroubleFails`.
- *An escape after an arrow.* An escape that comes in one read with an arrow gets no deadline
  (`cli/interactive.rs:4031`): it refuses nothing until the next key. The refusal of a decided
  question in `receive_envelope` and its look at a closed envelope are each enough alone.
- *Three reports.* "blocking succeeds only after reports from three distinct consecutive
  autonomous rounds" (`docs/design/goal-automation.md:49`). The tool counts rounds that were
  started, and only when a round calls it (`tools/registry.rs:1664`);
  `docs/design/goal-tool-authority.md:51` says so. `LogIsHonest` has what the code does.
- *Edits.* "Edit changes only objective" (`docs/design/goal-persistence.md:103`); an edit may also
  change the cap of rounds (`goal.rs:830`).
- *`Ctrl+C` and goals.* "`Ctrl+C`, a failed turn, or the round cap pauses/disarms automatic work"
  (`docs/design/goal-automation.md:63`). Only a round does this (`cli/interactive.rs:6314`): a
  person's turn whose tool armed a goal may be stopped, and the goal's first round follows.
- *A clock that goes back.* Updates take the later of the clock and the last change
  (`goal.rs:868`); `prepare_clear` takes the clock (`goal.rs:894`), and the fold refuses a clearing
  before the last change (`goal.rs:384`): `/goal clear` then fails until the clock has caught up.
- *An exit at the end of a turn.* When the turn ends between an approved exit and its next step,
  the switch stays pending: `/plan` and `/plan off` answer that plan mode changed before the
  transition was committed (`plan_mode.rs:107`) until the next turn, and a restart before it
  forgets the exit, although the tool's result, which is in the log, said that the mode was left.
- *A late answer.* "A sealed `UserQuestion` claim lets the human wait use the already bounded turn
  deadline rather than the ordinary 30-second tool deadline" (`docs/design/user-question.md:93`).
  The wait does so (`agent/mod.rs:4980`), but behind it the tool's deadline is looked at once more
  without that exception (`agent/mod.rs:5007`): an answer, or an approved plan, that took longer
  than 30 seconds is thrown away, and the model is told `TOOL_TIMEOUT`. This is a defect; `TooLate` has it.
- *A question left in the channel.* `finish_turn` (`cli/interactive.rs:6303`) empties the channel of
  approvals, and nothing empties that of questions. A form that a stop or the deadline overtook
  is shown in the next turn, where its answer reaches nobody and another question is
  `unavailable`; if the drain meets it, the terminal exits as a failure (`interactive.rs:6028`).
- *Fence of a question.* "Input is fenced after the complete question frame is displayed"
  (`docs/design/user-question.md:124`); the loop flushes before the frame is enqueued
  (`cli/interactive.rs:4715`) and not when it begins to accept.
- *Two quick lines.* On the linear terminal a toggle, a custom request or an invalid line enqueues
  a frame, and `enqueue_frame` fails while another is written (`cli/interactive.rs:7063`): two lines
  in quick succession end the turn and the terminal.
- *A stored text.* "returning restores that text for editing" (`docs/design/user-question-pager.md:29`). A
  list of several choices has borrowed an empty composer, and a custom request keeps it
  (`cli/interactive.rs:5397`): the stored text is not shown, and what is typed replaces it.
- *Next on the last page.* "Previous/Next changes the page and emits no tool result"
  (`docs/design/user-question-pager.md:17`); on the last page, next submits (`cli/user_question.rs:396`).
- *A title of a later prompt.* "The first non-empty text message whose source is exactly `user` is
  eligible" (`docs/design/session-titles.md:27`). A process titles the first prompt of its own that it
  sees (`agent/session_title.rs:98`): when the session has older prompts and no title, because a crash came
  between the two rows, the fallback was refused or the provider had no titles then, the title is of a later
  prompt, while `/refresh-title` takes the first. `TitlesAreOfPrompts` says of which titles this holds.
- *A title asked for twice.* "A resumed log containing a title request is not automatically retried,
  so a result-unknown auxiliary call is never replayed" (`docs/design/session-titles.md:60`). The
  row of the request is appended and its task spawned (`agent/session_title.rs:173`) before
  the barrier that makes the row durable (`agent/mod.rs:3100`): a crash between the two forgets a request
  that was made, and the next process makes it again.

## What is proved and what is only checked

| | proved for all constants (TLAPS) | checked on small instances (TLC) |
|---|---|---|
| `JournalWriter` | types, order, durability, one command at a time, harmless readers, clean finish, silence after failure, whole exports, refinement of `DurableLog` | the same where a run has them, liveness |
| `DurableSession` | everything, with the refinement of `DurableLog` | the same |
| `SessionRecovery` | durable rows never change, damage is left alone, repairs are durable, bodies behind durable announcements | durable rows, and everything that depends on what a scan computes |
| `TurnLoop` | types and limits, a true reason, requests behind barriers | the same, replay and recovery of its rows, liveness |
| `JobNotices` | everything | the same |
| `ToolRound` | everything but that a round ends | the same, liveness |
| `Subprocess`, `PluginActor`, `LspActor` | everything but that calls end; the group with at most one fork behind a scan | the same, liveness |
| `TerminalTurn` | everything but that turns end; two of three with goals as the rows between turns | the same, liveness, the finding |
| `OutputCapture` | everything | |
| `UserQuestions` | everything | |
| `SessionTitles` | everything | |
| `GoalAndPlan` | everything | the same |

Liveness, fairness and `ENABLED` are out of the prover's reach. So is induction with a theorem
that takes a predicate, and with it what a fold computes from a sequence of any length, which
is why `AlwaysReadable`, `RepairConverges` and `OutcomeIsHonest` of `SessionRecovery` and `LogReplays`
of `TurnLoop`, which speak of a replayed projection, stay with TLC. (The last element of a finite set of numbers, which several proofs need, comes
from well-foundedness instead.)

The proofs take nothing on trust: the only assumptions are those on the constants, named
in the modules that declare the constants and evaluated by TLC in each run, or stated in the
theorems. A theorem states one where its module is used by instance, so that what that module assumes of
its constants becomes a hypothesis (`UserSideProofs`, `ChildProcessProofs`), and in two places more:
`MaxBehind <= 1` for the scan of a process group, and `Foreign \subseteq {"goal"}` for the
terminal. TLC finds the counterexample to the second without it (`terminal_titles`), and the first
says how often a group can outrun two passes.

## Running

    tlc -workers 2 -config JournalSafety.cfg JournalWriter.tla
    tlc -workers 2 -config SessionRecoverySafety.cfg MCSessionRecovery.tla
    tlc -workers 2 -config TerminalTurnSafety.cfg TerminalTurn.tla
    tlc -workers 2 -config GoalAndPlanSafety.cfg GoalAndPlan.tla
    tlapm JournalProofs.tla
    tlapm JobNoticesProofs.tla
    tlapm TerminalTurnProofs.tla

`PROJECT.json` lists every run with its module and configuration, the mutations of the
model each property must refute, and the source lines each definition stands for. A
definition whose comment begins with *Mutant* is such a mutation and is not part of any
specification.

## Not modelled

The map covers a small share of the repository's lines, and most of the rest is out of a
model's reach: of some 140 000 lines the larger part is tests inside the source files, the
drawing of the terminal, the text of prompts and results, decoding and size limits of rows,
wire formats, file tools and configuration. A row, a message, a chunk or a frame is an
abstract value here, and that a decoder inverts its encoder is a matter for unit tests.

What has state of its own and is still open:

- the byte sizes of claims and the memory credits behind them: `DurableSession` has the
  event limit, which is checked beside the byte limits and fails the same way;
- usage, digests and text in the fold of an attempt's chunks (its states are in `TurnReplay`), and
  the inspection of a journal for a fork: pure functions over rows;
- the prompt of the terminal with its commands, and the enhanced dock;
- creation, lock and listing of sessions, and search: calls of the file system.
