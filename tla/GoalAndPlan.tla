---------------------------- MODULE GoalAndPlan ----------------------------
(***************************************************************************)
(* The goal that works on by itself and plan mode: two runtimes that cache *)
(* what the session's log says (goal.rs, plan_mode.rs), the commands of    *)
(* the prompt and the tools of a turn that change them, the rounds that    *)
(* the prompt starts while a goal is armed (cli/interactive.rs), and the   *)
(* agent, which writes every change first (agent/mod.rs).  The process may *)
(* stop at any step and read back a log without its last rows.             *)
(*                                                                         *)
(* Objectives, reasons and times are left out.  The history of a row says  *)
(* by whom it is: a person, at the prompt or by a turn that a person asked *)
(* for, a round of the goal, or the prompt after a round that failed.      *)
(***************************************************************************)
EXTENDS Naturals, Sequences, FiniteSets, SequencesExt

CONSTANTS
    Caps,            \* values of max_goal_rounds
    BlockThreshold,  \* MIN_BLOCKED_ROUNDS
    MaxGoals,        \* bound: goals ever created
    MaxRows          \* bound: rows of the log

ASSUME CapsAssumption == Caps \subseteq Nat

VARIABLES
    log,      \* the rows goal/change, plan/mode and the prompts of rounds
    synced,   \* rows that survive a crash
    goal,     \* GoalState::current
    armed,    \* GoalState::armed
    pending,  \* GoalState::pending with its PreparedGoalMutation
    plan,     \* PlanModeState::active
    leaving,  \* PlanModeState::pending is Some(false)
    turn,     \* the turn that runs, or NoTurn
    born,     \* ids made so far
    dead,     \* the session or the agent has failed: nothing more is written
    halted,   \* history: nobody has created or resumed the goal since it stopped
    exit      \* history: an approved exit, and whether a step has begun since

vars == <<log, synced, goal, armed, pending, plan, leaving, turn, born, dead, halted, exit>>
goalState == <<goal, armed, pending, born, halted>>
planState == <<plan, leaving, exit>>

-----------------------------------------------------------------------------
Phases == {"active", "paused", "blocked", "complete"}
Goal(id, revision, phase, max, rounds) ==
    [id |-> id, revision |-> revision, phase |-> phase, max |-> max, rounds |-> rounds]
NoGoal == Goal(0, 0, "complete", 0, 0)
GoalOps == {"create", "edit", "pause", "resume", "complete", "block", "clear"}
Row(op, g, by) == [op |-> op, goal |-> g, on |-> FALSE, by |-> by]
PlanRow(on) == [op |-> "plan", goal |-> NoGoal, on |-> on, by |-> "none"]

\* at: before a step, behind the flush of plan mode, or among the step's tools.
Turn(by, at, prompted, round) == [by |-> by, at |-> at, prompted |-> prompted, round |-> round]
NewTurn(by, round) == Turn(by, "boundary", FALSE, round)
NoTurn == NewTurn("none", NoGoal)
TurnAt(where) == Turn(turn.by, where, turn.prompted \/ where = "tools", turn.round)
NoChange == [row |-> PlanRow(FALSE), armed |-> FALSE, site |-> "none"]

-----------------------------------------------------------------------------
(* The fold of the log: GoalReplayState.                                   *)

SameGoal(g, next) ==
    /\ g # NoGoal
    /\ next.id = g.id /\ next.revision = g.revision + 1 /\ next.rounds = g.rounds

\* apply_change and apply_goal_message: whether a row may follow the state g.
Accepts(g, used, row) ==
    LET next == row.goal
        op == row.op IN
    \/ op = "plan"
    \/ /\ op = "create"
       /\ g.phase = "complete"
       /\ next.revision = 1 /\ next.phase = "active" /\ next.rounds = 0
       /\ next.id \notin used
    \/ /\ op = "clear" /\ g # NoGoal
       /\ next.id = g.id /\ next.revision = g.revision + 1
    \/ /\ op = "round" /\ g.phase = "active"
       /\ next = [g EXCEPT !.rounds = @ + 1]
       /\ next.rounds <= g.max
    \/ /\ op \in {"edit", "pause", "resume", "complete", "block"}
       /\ SameGoal(g, next)
       /\ next.rounds <= next.max
       /\ op # "edit" => next.max = g.max
       /\ \/ op = "edit" /\ next.phase = g.phase
          \/ op = "pause" /\ g.phase = "active" /\ next.phase = "paused"
          \/ /\ op = "resume" /\ g.phase # "complete" /\ next.phase = "active"
             /\ next.rounds < next.max
          \/ op = "complete" /\ g.phase # "complete" /\ next.phase = "complete"
          \/ op = "block" /\ g.phase = "active" /\ next.phase = "blocked"

\* Every row holds the whole state that follows it, so the last one of its kind is
\* what the fold leaves.
Folded(row) == IF row.op = "clear" THEN NoGoal ELSE row.goal
GoalRows(rows) == {i \in DOMAIN rows : rows[i].op # "plan"}
PlanRows(rows) == {i \in DOMAIN rows : rows[i].op = "plan"}
LoggedGoal(rows) == IF GoalRows(rows) = {} THEN NoGoal ELSE Folded(rows[Max(GoalRows(rows))])
LoggedPlan(rows) == PlanRows(rows) # {} /\ rows[Max(PlanRows(rows))].on
UsedIds(rows) == {row.goal.id : row \in {r \in ToSet(rows) : r.op = "create"}}
Valid(row) == Accepts(LoggedGoal(log), UsedIds(log), row)

\* append_settled: the row is taken; it is refused, by the fold or by a limit of
\* the session; or the journal fails and nobody knows what reached the file.
Taken(row) == Valid(row) /\ Len(log) < MaxRows /\ log' = Append(log, row)
Refused == UNCHANGED log
Lost(row) ==
    /\ dead' = TRUE
    /\ \/ UNCHANGED log
       \/ Taken(row)

-----------------------------------------------------------------------------
Init ==
    /\ log = <<>> /\ synced = 0
    /\ goal = NoGoal /\ armed = FALSE /\ pending = NoChange /\ born = 0
    /\ plan = FALSE /\ leaving = FALSE
    /\ turn = NoTurn
    /\ dead = FALSE /\ halted = TRUE /\ exit = "none"

AtPrompt == turn = NoTurn /\ pending = NoChange /\ ~dead
AmongTools == turn.at = "tools" /\ pending = NoChange /\ ~dead

-----------------------------------------------------------------------------
(* GoalRuntime: a change is prepared, written and only then installed.     *)

\* prepare_create_with_max.
Created(cap) == Goal(born + 1, 1, "active", cap, 0)
PrepareCreate(cap, by, site) ==
    /\ goal.phase = "complete"
    /\ born < MaxGoals
    /\ born' = born + 1
    /\ pending' = [row |-> Row("create", Created(cap), by), armed |-> TRUE, site |-> site]

\* prepare_update_exact, whose revision is the current one.
PhaseAfter(op) ==
    CASE op = "edit"     -> goal.phase
      [] op = "pause"    -> "paused"
      [] op = "resume"   -> "active"
      [] op = "complete" -> "complete"
      [] op = "block"    -> "blocked"
Updated(op, cap) ==
    Goal(goal.id, goal.revision + 1, PhaseAfter(op), IF op = "edit" THEN cap ELSE goal.max,
         goal.rounds)
MayUpdate(op) ==
    \/ op = "edit"
    \/ op \in {"pause", "block"} /\ goal.phase = "active"
    \/ op = "resume" /\ goal.phase # "complete" /\ goal.rounds < goal.max
    \/ op = "complete" /\ goal.phase # "complete"
Arms(op) == (op = "edit" /\ armed) \/ op = "resume"
PrepareUpdate(op, cap, by, site) ==
    /\ goal # NoGoal
    /\ MayUpdate(op)
    /\ op = "edit" => goal.rounds <= cap
    /\ pending' = [row |-> Row(op, Updated(op, cap), by), armed |-> Arms(op), site |-> site]
    /\ UNCHANGED born

\* prepare_clear.
PrepareClear ==
    /\ goal # NoGoal
    /\ pending' = [row |-> Row("clear", [goal EXCEPT !.revision = @ + 1], "person"),
                   armed |-> FALSE, site |-> "command"]
    /\ UNCHANGED born

\* PreparedGoalMutation::install.
Install ==
    /\ goal' = IF pending.row.op = "clear" THEN NoGoal ELSE pending.row.goal
    /\ armed' = pending.armed
    /\ pending' = NoChange
    /\ halted' = CASE pending.row.op \in {"create", "resume"} -> FALSE
                   [] pending.row.op = "edit" -> halted
                   [] OTHER -> TRUE

\* PreparedGoalMutation is dropped.
Abandon == pending' = NoChange /\ UNCHANGED <<goal, armed, halted>>

\* /goal at the prompt: apply_goal_command up to the append.
GoalCommand ==
    /\ AtPrompt
    /\ \/ \E cap \in Caps : PrepareCreate(cap, "person", "command")
       \/ \E op \in {"edit", "pause", "resume"} : PrepareUpdate(op, goal.max, "person", "command")
       \/ PrepareClear
    /\ UNCHANGED <<log, synced, goal, armed, planState, turn, dead, halted>>

\* require_goal_authority.
MayCall(op) ==
    \/ turn.by = "human"
    \/ op \in {"complete", "block"} /\ turn.by = "round"

Caller == IF turn.by = "human" THEN "person" ELSE turn.by

\* prepare_goal, behind dispatch_barrier.
GoalTool ==
    /\ AmongTools
    /\ \/ /\ MayCall("create")
          /\ \E cap \in Caps : PrepareCreate(cap, Caller, "tool")
       \/ \E op \in {"edit", "pause", "resume", "complete", "block"}, cap \in Caps :
             /\ MayCall(op)
             /\ op = "block" /\ turn.by = "round" => goal.rounds >= BlockThreshold
             /\ op # "edit" => cap = (CHOOSE c \in Caps : TRUE)
             /\ PrepareUpdate(op, cap, Caller, "tool")
    /\ synced' = Len(log)
    /\ UNCHANGED <<log, goal, armed, planState, turn, dead, halted>>

\* A tool's change is dropped when the turn is cancelled or late before the append.
DropChange ==
    /\ pending.site = "tool" /\ ~dead
    /\ Abandon
    /\ UNCHANGED <<log, synced, born, planState, turn, dead>>

\* commit_goal_mutation and the append of a tool's change.  Only a command's
\* refusal leaves the session usable for the next.
CommitChange ==
    /\ pending # NoChange /\ ~dead
    /\ \/ Taken(pending.row) /\ Install /\ UNCHANGED dead
       \/ Refused /\ Abandon /\ dead' = (pending.site # "command")
       \/ Lost(pending.row) /\ Abandon
    /\ UNCHANGED <<synced, born, planState, turn>>

-----------------------------------------------------------------------------
(* Rounds and turns.                                                       *)

\* next_round: the count goes up in memory only.
Counted(n) == Goal(goal.id, goal.revision, goal.phase, goal.max, n)
MayRound == goal.phase = "active" /\ goal.rounds < goal.max
StartRound ==
    /\ AtPrompt
    /\ armed /\ goal.phase = "active"
    /\ armed' = MayRound
    /\ IF MayRound
       THEN /\ goal' = Counted(goal.rounds + 1)
            /\ turn' = NewTurn("round", goal')
       ELSE UNCHANGED <<goal, turn>>
    /\ UNCHANGED <<log, synced, pending, born, planState, dead, halted>>

\* A prompt of the user, or a wake by a job's notice.
StartTurn(by) ==
    /\ AtPrompt
    /\ turn' = NewTurn(by, NoGoal)
    /\ UNCHANGED <<log, synced, goalState, planState, dead>>

\* flush_pending_plan_mode, before every step.
FlushPlan ==
    /\ turn # NoTurn /\ turn.at = "boundary" /\ ~dead
    /\ \/ /\ ~leaving
          /\ turn' = TurnAt("flushed")
          /\ UNCHANGED <<log, planState, dead>>
       \/ /\ leaving /\ Taken(PlanRow(FALSE))
          /\ plan' = FALSE /\ leaving' = FALSE
          /\ turn' = TurnAt("flushed")
          /\ UNCHANGED <<exit, dead>>
       \/ /\ leaving
          /\ (Refused /\ dead' = TRUE) \/ Lost(PlanRow(FALSE))
          /\ UNCHANGED <<planState, turn>>
    /\ UNCHANGED <<synced, goalState>>

\* The step begins; the first one admits the prompt.  What it asks the provider is
\* behind a barrier.
StepStart ==
    /\ turn.at = "flushed" /\ ~dead
    /\ turn' = TurnAt("tools")
    /\ IF turn.by = "round" /\ ~turn.prompted
       THEN \/ Taken(Row("round", turn.round, "prompt")) /\ synced' = Len(log') /\ UNCHANGED dead
            \/ Lost(Row("round", turn.round, "prompt")) /\ UNCHANGED synced
       ELSE synced' = Len(log) /\ UNCHANGED <<log, dead>>
    /\ exit' = IF exit = "approved" THEN "stepped" ELSE exit
    /\ UNCHANGED <<goalState, plan, leaving>>

StepEnd ==
    /\ AmongTools /\ turn # NoTurn
    /\ turn' = TurnAt("boundary")
    /\ UNCHANGED <<log, synced, goalState, planState, dead>>

\* An exit of plan mode that the user approved: prepare_approved_exit, the result
\* and commit.
ApproveExit ==
    /\ AmongTools /\ turn # NoTurn
    /\ plan /\ ~leaving
    /\ leaving' = TRUE
    /\ exit' = "approved"
    /\ UNCHANGED <<log, synced, goalState, plan, turn, dead>>

\* Mutant: a round whose prompt was not admitted stays counted.
KeptCount == goal

\* rollback_uncommitted_round.
RolledBack ==
    IF turn.prompted \/ goal.rounds # turn.round.rounds THEN goal ELSE Counted(goal.rounds - 1)

\* The turn ends; a round that was stopped or failed pauses its goal:
\* pause_goal_after_round_failure.
TurnEnds(completed) ==
    /\ turn # NoTurn /\ pending = NoChange /\ ~dead
    /\ completed => turn.at = "tools"
    /\ turn' = NoTurn
    /\ LET failed == turn.by = "round" /\ ~completed
           same == goal # NoGoal /\ goal.revision = turn.round.revision IN
       /\ halted' = (halted \/ failed)
       /\ goal' = IF failed /\ same THEN RolledBack ELSE goal
       /\ pending' = IF failed /\ same /\ goal.phase = "active"
                     THEN [row |-> Row("pause", Goal(goal.id, goal.revision + 1, "paused", goal.max,
                                                     goal'.rounds), "failure"),
                           armed |-> FALSE, site |-> "pause"]
                     ELSE NoChange
    /\ UNCHANGED <<log, synced, armed, born, planState, dead>>

\* /plan and /plan off at the prompt: prepare_set and commit_plan_mode_mutation.
PlanCommand(on) ==
    /\ AtPrompt
    /\ ~leaving /\ plan # on
    /\ \/ Taken(PlanRow(on)) /\ plan' = on /\ exit' = "none" /\ UNCHANGED dead
       \/ Lost(PlanRow(on)) /\ UNCHANGED <<plan, exit>>
    /\ UNCHANGED <<synced, goalState, leaving, turn>>

\* A barrier of the session: the end of a turn, or the journal's own.
Sync ==
    /\ ~dead /\ synced # Len(log)
    /\ synced' = Len(log)
    /\ UNCHANGED <<log, goalState, planState, turn, dead>>

\* The process stops, in order or not, and another one resumes what is left:
\* GoalRuntime::from_replay.
Restart ==
    /\ \E n \in synced .. Len(log) : log' = SubSeq(log, 1, n) /\ synced' = n
    /\ goal' = LoggedGoal(log') /\ armed' = FALSE /\ pending' = NoChange
    /\ plan' = LoggedPlan(log') /\ leaving' = FALSE
    /\ turn' = NoTurn /\ dead' = FALSE
    /\ halted' = TRUE /\ exit' = "none"
    /\ UNCHANGED born

Next ==
    \/ GoalCommand \/ GoalTool \/ DropChange \/ CommitChange
    \/ StartRound \/ StartTurn("human") \/ StartTurn("wake")
    \/ FlushPlan \/ StepStart \/ StepEnd \/ ApproveExit
    \/ TurnEnds(TRUE) \/ TurnEnds(FALSE)
    \/ \E on \in BOOLEAN : PlanCommand(on)
    \/ Sync \/ Restart

Spec == Init /\ [][Next]_vars

-----------------------------------------------------------------------------
TypeOK ==
    /\ synced \in 0 .. Len(log)
    /\ goal.phase \in Phases /\ goal.rounds <= goal.max
    /\ pending.site \in {"none", "command", "tool", "pause"}
    /\ turn.by \in {"none", "human", "round", "wake"}
    /\ exit \in {"none", "approved", "stepped"}
    /\ \A b \in {armed, plan, leaving, dead, halted} : b \in BOOLEAN

Rounds(rows, id) == {i \in DOMAIN rows : rows[i].op = "round" /\ rows[i].goal.id = id}

\* What the runtimes say is what a restart would read, but for the one round
\* whose prompt is not admitted yet; a change that is prepared is one that the
\* fold of the log will take.
RuntimeFollowsLog ==
    ~dead =>
      /\ goal = IF turn.by = "round" /\ ~turn.prompted
                THEN [LoggedGoal(log) EXCEPT !.rounds = @ + 1] ELSE LoggedGoal(log)
      /\ plan = LoggedPlan(log)
      /\ pending # NoChange => Valid(pending.row)
      /\ turn.by = "round" /\ ~turn.prompted => Valid(Row("round", turn.round, "prompt"))

\* A goal starts, changes or goes on only by a person's decision, counts every
\* round once, and is blocked by its own rounds only after enough of them.
LogIsHonest ==
    \A i \in DOMAIN log :
       /\ log[i].op \in {"create", "edit", "resume", "clear"} => log[i].by = "person"
       /\ log[i].op \in GoalOps \cup {"round"}
             => log[i].goal.rounds = Cardinality(Rounds(SubSeq(log, 1, i), log[i].goal.id))
       /\ log[i].op = "block" /\ log[i].by = "round" => log[i].goal.rounds >= BlockThreshold

\* After a pause, an end, a failed round or a restart, no round begins before a
\* person creates or resumes a goal.
HaltedIsDisarmed == armed /\ pending.site # "pause" /\ ~dead => ~halted

\* No step begins in plan mode once its exit was approved.
ExitIsKept == exit = "stepped" => ~plan

\* Autonomous work and plan mode are what people decided and what the log says.
WorkIsOwed == TypeOK /\ RuntimeFollowsLog /\ LogIsHonest /\ HaltedIsDisarmed /\ ExitIsKept
=============================================================================
