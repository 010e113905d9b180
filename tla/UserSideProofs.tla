--------------------------- MODULE UserSideProofs ---------------------------
(***************************************************************************)
(* Proofs about what a person has to do with besides the turn itself, for  *)
(* every value of the constants: goals and plan mode, the questions that   *)
(* the model asks, the output of a command, and the title of a session.    *)
(* Streams and logs have any length, batches any number of questions.      *)
(***************************************************************************)
EXTENDS GoalAndPlan, FiniteSetTheorems, SequenceTheorems, WellFoundedInduction, TLAPS

CONSTANTS
    Calls, Forms, Texts, Enhanced, None,            \* of UserQuestions
    TailLimit,                                      \* of OutputCapture
    Enabled, Refines                                \* of SessionTitles

VARIABLES
    call, queue, wire, ui, overlay, formTurn, stopping,     \* of UserQuestions
    total, tail, truncated, spill, noDirectory, file, path, window, state, incomplete, cursor,
    returned, missed, shown,                                \* of OutputCapture
    titleLog, titleSynced, titleState, about, task, agent   \* of SessionTitles

Form == INSTANCE UserQuestions WITH turn <- formTurn
Out == INSTANCE OutputCapture
Titles == INSTANCE SessionTitles WITH log <- titleLog, synced <- titleSynced, state <- titleState

-----------------------------------------------------------------------------
(* Goals that go on by themselves, and plan mode. *)

\* A prepared change arms the goal by a person's decision, or keeps armed what is;
\* a round's own changes disarm it, and until then the goal is the round's.
PreparedRight ==
    /\ pending.armed => \/ pending.row.op \in {"create", "resume"}
                        \/ pending.row.op = "edit" /\ (~halted \/ dead)
    /\ pending.site = "pause" => ~pending.armed /\ turn = NoTurn
RoundRight ==
    turn.by = "round" =>
       /\ ~pending.armed
       /\ armed => /\ goal.phase = "active"
                   /\ goal.id = turn.round.id /\ goal.revision = turn.round.revision
DisarmedInv == HaltedIsDisarmed /\ PreparedRight /\ RoundRight

\* The exit waits for the next flush, and a step begins only behind one.
ExitInv ==
    /\ exit = "approved" => (leaving <=> plan)
    /\ exit = "approved" /\ turn.at = "flushed" => ~leaving
    /\ exit = "stepped" => ~leaving /\ ~plan

-----------------------------------------------------------------------------
LEMMA DisarmedInit == Init => DisarmedInv
  BY DEF Init, DisarmedInv, HaltedIsDisarmed, PreparedRight, RoundRight, NoChange, NoTurn,
         NewTurn, Turn

\* What a prepared change says of itself.
LEMMA PreparedCreate ==
    ASSUME NEW cap, NEW by, NEW site, PrepareCreate(cap, by, site)
    PROVE  pending'.armed /\ pending'.row.op = "create" /\ pending'.site = site
  BY DEF PrepareCreate, Row

LEMMA PreparedUpdate ==
    ASSUME NEW op, NEW cap, NEW by, NEW site, PrepareUpdate(op, cap, by, site)
    PROVE  (pending'.armed <=> Arms(op)) /\ pending'.row.op = op /\ pending'.site = site
  BY DEF PrepareUpdate, Row, Arms

LEMMA DisarmedStep == DisarmedInv /\ [Next]_vars => DisarmedInv'
<1> SUFFICES ASSUME DisarmedInv, [Next]_vars PROVE DisarmedInv'
  OBVIOUS
<1> USE DEF DisarmedInv, HaltedIsDisarmed, PreparedRight, RoundRight
<1>1. CASE GoalCommand
  <2>1. /\ UNCHANGED <<goal, armed, turn, dead, halted>>
        /\ turn = NoTurn /\ turn.by = "none" /\ pending.site = "none" /\ ~dead
    BY <1>1 DEF GoalCommand, AtPrompt, NoTurn, NewTurn, Turn, NoChange
  <2>2. ASSUME NEW cap \in Caps, PrepareCreate(cap, "person", "command") PROVE DisarmedInv'
    BY <2>1, <2>2, PreparedCreate
  <2>3. ASSUME NEW op \in {"edit", "pause", "resume"}, PrepareUpdate(op, goal.max, "person",
        "command")
        PROVE  DisarmedInv'
    BY <2>1, <2>3, PreparedUpdate DEF Arms
  <2>4. CASE PrepareClear
    BY <2>1, <2>4 DEF PrepareClear
  <2> QED
    BY <1>1, <2>2, <2>3, <2>4 DEF GoalCommand
<1>2. CASE GoalTool
  <2>1. /\ UNCHANGED <<goal, armed, turn, dead, halted>>
        /\ pending.site = "none" /\ ~dead
    BY <1>2 DEF GoalTool, AmongTools, NoChange
  <2>2. ASSUME NEW cap \in Caps, MayCall("create"), PrepareCreate(cap, Caller, "tool")
        PROVE  DisarmedInv'
    BY <2>1, <2>2, PreparedCreate DEF MayCall
  <2>3. ASSUME NEW op \in {"edit", "pause", "resume", "complete", "block"}, NEW cap \in Caps,
               MayCall(op), PrepareUpdate(op, cap, Caller, "tool")
        PROVE  DisarmedInv'
    BY <2>1, <2>3, PreparedUpdate DEF Arms, MayCall
  <2> QED
    BY <1>2, <2>2, <2>3 DEF GoalTool
<1>3. CASE DropChange
  BY <1>3 DEF DropChange, Abandon, NoChange, planState
<1>4. CASE CommitChange
  <2>1. CASE Install /\ UNCHANGED dead
    BY <2>1, <1>4 DEF Install, CommitChange, NoChange
  <2>2. CASE Abandon /\ dead' = (pending.site # "command")
    BY <2>2, <1>4 DEF Abandon, CommitChange, NoChange
  <2>3. CASE Abandon /\ dead' = TRUE
    BY <2>3, <1>4 DEF Abandon, CommitChange, NoChange
  <2> QED
    BY <1>4, <2>1, <2>2, <2>3 DEF CommitChange, Lost
<1>5. CASE StartRound
  <2>1. CASE MayRound
    BY <1>5, <2>1 DEF StartRound, Counted, MayRound, Goal, NewTurn, Turn, AtPrompt, NoChange
  <2>2. CASE ~MayRound
    BY <1>5, <2>2 DEF StartRound, AtPrompt, NoTurn, NewTurn, Turn, NoChange
  <2> QED
    BY <2>1, <2>2
<1>6. ASSUME NEW by \in {"human", "wake"}, StartTurn(by) PROVE DisarmedInv'
  BY <1>6 DEF StartTurn, NewTurn, Turn, AtPrompt, NoChange, goalState
<1>7. CASE FlushPlan
  <2>1. turn'.by = turn.by /\ turn'.round = turn.round /\ turn # NoTurn
    <3>1. turn' = turn \/ turn' = TurnAt("flushed")
      BY <1>7 DEF FlushPlan
    <3> QED
      BY <1>7, <3>1 DEF FlushPlan, TurnAt, Turn
  <2> QED
    BY <1>7, <2>1 DEF FlushPlan, Lost, goalState
<1>8. CASE StepStart
  <2>1. turn'.by = turn.by /\ turn'.round = turn.round /\ turn # NoTurn
    BY <1>8 DEF StepStart, TurnAt, Turn, NoTurn, NewTurn
  <2> QED
    BY <1>8, <2>1 DEF StepStart, Lost, goalState
<1>9. CASE StepEnd
  <2>1. turn'.by = turn.by /\ turn'.round = turn.round /\ turn # NoTurn
    BY <1>9 DEF StepEnd, TurnAt, Turn
  <2> QED
    BY <1>9, <2>1 DEF StepEnd, goalState
<1>10. CASE ApproveExit
  BY <1>10 DEF ApproveExit, goalState
<1>11. ASSUME NEW c \in BOOLEAN, TurnEnds(c) PROVE DisarmedInv'
  <2>1. /\ turn' = NoTurn /\ turn'.by = "none"
        /\ pending.site = "none" /\ ~dead /\ UNCHANGED <<armed, dead>>
    BY <1>11 DEF TurnEnds, NoTurn, NewTurn, Turn, NoChange
  <2>2. goal.phase = "active" => goal # NoGoal
    BY DEF NoGoal, Goal
  <2>3. CASE pending' = NoChange
    <3>1. armed => ~(turn.by = "round" /\ ~c)
      <4> SUFFICES ASSUME armed, turn.by = "round", ~c PROVE FALSE
        OBVIOUS
      <4>1. pending'.site = "pause"
        BY <1>11, <2>2 DEF TurnEnds
      <4> QED
        BY <2>3, <4>1 DEF NoChange
    <3>2. armed => ~halted'
      BY <1>11, <2>1, <3>1 DEF TurnEnds
    <3> QED
      BY <2>1, <2>3, <3>2 DEF NoChange
  <2>4. CASE pending' # NoChange
    BY <1>11, <2>1, <2>4 DEF TurnEnds
  <2> QED
    BY <2>3, <2>4
<1>12. CASE \E on \in BOOLEAN : PlanCommand(on)
  BY <1>12 DEF PlanCommand, Lost, goalState
<1>13. CASE Sync
  BY <1>13 DEF Sync, goalState, planState
<1>14. CASE Restart
  BY <1>14 DEF Restart, NoChange, NoTurn, NewTurn, Turn
<1>15. CASE UNCHANGED vars
  BY <1>15 DEF vars
<1> QED
  BY <1>1, <1>2, <1>3, <1>4, <1>5, <1>6, <1>7, <1>8, <1>9, <1>10, <1>11, <1>12, <1>13, <1>14,
     <1>15 DEF Next

\* After a pause, an end, a failed round or a restart the prompt starts no round
\* (StartRound needs armed) before a person creates or resumes a goal.
THEOREM HaltedStaysDisarmed == Spec => []HaltedIsDisarmed
<1>1. DisarmedInv => HaltedIsDisarmed
  BY DEF DisarmedInv
<1> QED
  BY <1>1, DisarmedInit, DisarmedStep, PTL DEF Spec

-----------------------------------------------------------------------------
LEMMA ExitInit == Init => ExitInv
  BY DEF Init, ExitInv

LEMMA ExitStep == ExitInv /\ [Next]_vars => ExitInv'
<1> SUFFICES ASSUME ExitInv, [Next]_vars PROVE ExitInv'
  OBVIOUS
<1> USE DEF ExitInv
<1>1. CASE GoalCommand \/ GoalTool \/ DropChange \/ CommitChange
  BY <1>1 DEF GoalCommand, GoalTool, DropChange, CommitChange, planState
<1>2. CASE StartRound
  BY <1>2 DEF StartRound, AtPrompt, NewTurn, Turn, NoTurn, planState
<1>3. ASSUME NEW by, StartTurn(by) PROVE ExitInv'
  BY <1>3 DEF StartTurn, AtPrompt, NewTurn, Turn, NoTurn, planState
<1>4. CASE FlushPlan
  <2>1. CASE UNCHANGED planState /\ UNCHANGED turn
    BY <2>1 DEF planState
  <2>2. CASE ~leaving /\ UNCHANGED planState /\ turn' = TurnAt("flushed")
    BY <2>2 DEF planState
  <2>3. CASE plan' = FALSE /\ leaving' = FALSE /\ UNCHANGED exit
    BY <2>3
  <2> QED
    BY <1>4, <2>1, <2>2, <2>3 DEF FlushPlan
<1>5. CASE StepStart
  BY <1>5 DEF StepStart, TurnAt, Turn
<1>6. CASE StepEnd
  BY <1>6 DEF StepEnd, TurnAt, Turn, planState
<1>7. CASE ApproveExit
  BY <1>7 DEF ApproveExit, AmongTools
<1>8. ASSUME NEW c \in BOOLEAN, TurnEnds(c) PROVE ExitInv'
  BY <1>8 DEF TurnEnds, NoTurn, NewTurn, Turn, planState
<1>9. CASE \E on \in BOOLEAN : PlanCommand(on)
  BY <1>9 DEF PlanCommand, AtPrompt, NoTurn, NewTurn, Turn
<1>10. CASE Sync
  BY <1>10 DEF Sync, planState
<1>11. CASE Restart
  BY <1>11 DEF Restart, NoTurn, NewTurn, Turn
<1>12. CASE UNCHANGED vars
  BY <1>12 DEF vars
<1> QED
  BY <1>1, <1>2, <1>3, <1>4, <1>5, <1>6, <1>7, <1>8, <1>9, <1>10, <1>11, <1>12 DEF Next

\* Once the user has approved the plan, every later step runs without plan mode,
\* until a person turns it on again.
THEOREM ApprovedExitIsKept == Spec => []ExitIsKept
<1>1. ExitInv => ExitIsKept
  BY DEF ExitInv, ExitIsKept
<1> QED
  BY <1>1, ExitInit, ExitStep, PTL DEF Spec

-----------------------------------------------------------------------------
(* The caches and the log.  The types behind TypeOK first.                *)

Callers  == {"person", "round", "wake", "prompt", "failure", "none"}
GoalType == [id : Nat, revision : Nat, phase : Phases, max : Nat, rounds : Nat]
RowType  == [op : GoalOps \cup {"plan", "round"}, goal : GoalType, on : BOOLEAN, by : Callers]
Sites    == {"none", "command", "tool", "pause"}
Changes  == [row : RowType, armed : BOOLEAN, site : Sites]
Turns    == [by : {"none", "human", "round", "wake"}, at : {"boundary", "flushed", "tools"},
             prompted : BOOLEAN, round : GoalType]
Bounded(g) == g.rounds <= g.max

TypeInv ==
    /\ log \in Seq(RowType) /\ synced \in 0 .. Len(log)
    /\ goal \in GoalType /\ pending \in Changes /\ turn \in Turns /\ born \in Nat
    /\ armed \in BOOLEAN /\ plan \in BOOLEAN /\ leaving \in BOOLEAN
    /\ dead \in BOOLEAN /\ halted \in BOOLEAN
    /\ exit \in {"none", "approved", "stepped"}
    /\ Bounded(goal)
    /\ \A i \in DOMAIN log : log[i].op # "clear" => Bounded(log[i].goal)

\* Ids are made once: a goal that is being created has an id no row has.
IdInv ==
    /\ goal.id <= born /\ turn.round.id <= born /\ pending.row.goal.id <= born
    /\ \A i \in DOMAIN log : log[i].goal.id <= born
    /\ pending.row.op = "create" => \A i \in DOMAIN log : log[i].goal.id < pending.row.goal.id

\* A change is prepared at the prompt or among the tools of a step, and a step's
\* tools run behind its prompt.
PlaceInv ==
    /\ pending # NoChange => turn = NoTurn \/ turn.at = "tools"
    /\ pending = NoChange <=> pending.site = "none"
    /\ turn.at = "tools" => turn.prompted
    /\ turn = NoTurn <=> turn.by = "none"

\* A change that waits to be written is as honest as the row it will be.
PendingInv ==
    pending # NoChange =>
      /\ pending.row.op \in GoalOps
      /\ pending.row.op \in {"create", "edit", "resume", "clear"} => pending.row.by = "person"
      /\ pending.row.op = "clear" => pending.row.goal.rounds = goal.rounds
      /\ pending.row.op = "block" /\ pending.row.by = "round" =>
           pending.row.goal.rounds >= BlockThreshold

\* A row that counts its goal's rounds, in the log it is the i-th row of.
HonestRow(rows, i) ==
    /\ rows[i].op \in {"create", "edit", "resume", "clear"} => rows[i].by = "person"
    /\ rows[i].op \in GoalOps \cup {"round"}
         => rows[i].goal.rounds = Cardinality(Rounds(SubSeq(rows, 1, i), rows[i].goal.id))
    /\ rows[i].op = "block" /\ rows[i].by = "round" => rows[i].goal.rounds >= BlockThreshold
HonestLog == \A i \in DOMAIN log : HonestRow(log, i)

OwedInv == TypeInv /\ IdInv /\ PlaceInv /\ PendingInv /\ RuntimeFollowsLog /\ HonestLog


-----------------------------------------------------------------------------
(* What a log says, and what one more row changes. *)

LEMMA MinExists ==
    ASSUME NEW T, T \subseteq Nat, T # {}
    PROVE  \E x \in T : \A y \in T : x <= y
<1>1. PICK x \in T : \A y \in T : ~(<<y, x>> \in OpToRel(<, Nat))
  BY NatLessThanWellFounded, WFMin
<1>2. ASSUME NEW y \in T PROVE x <= y
  <2>1. ~(y < x)
    BY <1>1 DEF OpToRel
  <2> QED
    BY <2>1
<1> QED
  BY <1>2

LEMMA MaxFacts ==
    ASSUME NEW n \in Nat, NEW S, S \subseteq 1 .. n, S # {}
    PROVE  Max(S) \in S /\ \A y \in S : y <= Max(S)
<1>1. PICK d \in {n - y : y \in S} : \A e \in {n - y : y \in S} : d <= e
  <2>1. {n - y : y \in S} \subseteq Nat
    OBVIOUS
  <2> QED
    BY <2>1, MinExists
<1>2. PICK x \in S : d = n - x
  BY <1>1
<1>3. ASSUME NEW y \in S PROVE y <= x
  <2>1. n - x <= n - y
    BY <1>1, <1>2
  <2>2. x \in 1 .. n /\ y \in 1 .. n
    OBVIOUS
  <2> QED
    BY <2>1, <2>2
<1>4. \A y \in S : y \in Nat
  OBVIOUS
<1>5. \E z \in S : \A y \in S : z >= y
  BY <1>3, <1>4
<1>6. Max(S) \in S /\ \A y \in S : Max(S) >= y
  BY <1>5 DEF Max
<1> QED
  BY <1>4, <1>6

LEMMA AppendedRow ==
    ASSUME NEW rows \in Seq(RowType), NEW row \in RowType
    PROVE  /\ Append(rows, row) \in Seq(RowType)
           /\ Len(Append(rows, row)) = Len(rows) + 1
           /\ DOMAIN Append(rows, row) = DOMAIN rows \cup {Len(rows) + 1}
           /\ Append(rows, row)[Len(rows) + 1] = row
           /\ \A i \in DOMAIN rows : Append(rows, row)[i] = rows[i]
           /\ DOMAIN rows = 1 .. Len(rows) /\ Len(rows) \in Nat
  OBVIOUS

LEMMA NoGoalType == NoGoal \in GoalType /\ Bounded(NoGoal) /\ NoGoal.phase = "complete"
      /\ NoGoal.id = 0
  BY DEF NoGoal, GoalType, Goal, Phases, Bounded

LEMMA LoggedFacts ==
    ASSUME NEW rows \in Seq(RowType)
    PROVE  /\ LoggedGoal(rows) \in GoalType /\ LoggedPlan(rows) \in BOOLEAN
           /\ \/ LoggedGoal(rows) = NoGoal
              \/ \E i \in DOMAIN rows :
                   /\ rows[i].op \notin {"plan", "clear"} /\ LoggedGoal(rows) = rows[i].goal
                   /\ \A j \in DOMAIN rows : rows[j].op # "plan" => j <= i
<1>1. ASSUME GoalRows(rows) = {} PROVE LoggedGoal(rows) = NoGoal
  BY <1>1 DEF LoggedGoal
<1>2. ASSUME GoalRows(rows) # {}
      PROVE  \/ LoggedGoal(rows) = NoGoal
             \/ \E i \in DOMAIN rows :
                  /\ rows[i].op \notin {"plan", "clear"} /\ LoggedGoal(rows) = rows[i].goal
                  /\ \A j \in DOMAIN rows : rows[j].op # "plan" => j <= i
  <2> DEFINE m == Max(GoalRows(rows))
  <2>1. GoalRows(rows) \subseteq 1 .. Len(rows) /\ Len(rows) \in Nat
    BY DEF GoalRows
  <2>2. m \in GoalRows(rows) /\ \A j \in GoalRows(rows) : j <= m
    BY <1>2, <2>1, MaxFacts
  <2>3. m \in DOMAIN rows /\ rows[m].op # "plan" /\ rows[m] \in RowType
    BY <2>2 DEF GoalRows
  <2>4. LoggedGoal(rows) = Folded(rows[m])
    BY <1>2 DEF LoggedGoal
  <2> HIDE DEF m
  <2>5. rows[m].goal \in GoalType
    BY <2>3 DEF RowType
  <2> QED
    BY <2>2, <2>3, <2>4, <2>5, NoGoalType DEF Folded, GoalRows
<1>3. LoggedPlan(rows) \in BOOLEAN
  BY DEF LoggedPlan
<1>4. LoggedGoal(rows) \in GoalType
  <2>1. ASSUME NEW i \in DOMAIN rows PROVE rows[i].goal \in GoalType
    <3>1. rows[i] \in RowType
      OBVIOUS
    <3> QED
      BY <3>1 DEF RowType
  <2> QED
    BY <1>1, <1>2, <2>1, NoGoalType
<1> QED
  BY <1>1, <1>2, <1>3, <1>4

LEMMA LoggedAppend ==
    ASSUME NEW rows \in Seq(RowType), NEW row \in RowType
    PROVE  /\ LoggedGoal(Append(rows, row)) =
                IF row.op = "plan" THEN LoggedGoal(rows) ELSE Folded(row)
           /\ LoggedPlan(Append(rows, row)) =
                IF row.op = "plan" THEN row.on ELSE LoggedPlan(rows)
<1> DEFINE next == Append(rows, row)
           n == Len(rows)
<1>1. /\ DOMAIN next = DOMAIN rows \cup {n + 1} /\ next[n + 1] = row
      /\ \A i \in DOMAIN rows : next[i] = rows[i]
      /\ DOMAIN rows = 1 .. n /\ n \in Nat
  BY AppendedRow
<1> HIDE DEF next, n
<1>2. GoalRows(next) = GoalRows(rows) \cup (IF row.op = "plan" THEN {} ELSE {n + 1})
  BY <1>1 DEF GoalRows
<1>3. PlanRows(next) = PlanRows(rows) \cup (IF row.op = "plan" THEN {n + 1} ELSE {})
  BY <1>1 DEF PlanRows
<1>4. GoalRows(rows) \subseteq 1 .. n /\ PlanRows(rows) \subseteq 1 .. n
  BY <1>1 DEF GoalRows, PlanRows
<1>5. ASSUME NEW S, S \subseteq 1 .. n
      PROVE  Max(S \cup {n + 1}) = n + 1
  <2>1. S \cup {n + 1} \subseteq 1 .. n + 1 /\ n + 1 \in Nat /\ S \cup {n + 1} # {}
    BY <1>1, <1>5
  <2>2. /\ Max(S \cup {n + 1}) \in S \cup {n + 1}
        /\ \A y \in S \cup {n + 1} : y <= Max(S \cup {n + 1})
    BY <2>1, MaxFacts
  <2>3. n + 1 <= Max(S \cup {n + 1}) /\ Max(S \cup {n + 1}) \in 1 .. n + 1
    BY <2>1, <2>2
  <2> QED
    BY <1>1, <2>3
<1>6. ASSUME NEW S, S \subseteq 1 .. n, S # {}
      PROVE  next[Max(S)] = rows[Max(S)]
  BY <1>1, <1>6, MaxFacts
<1>7. LoggedGoal(next) = IF row.op = "plan" THEN LoggedGoal(rows) ELSE Folded(row)
  BY <1>1, <1>2, <1>4, <1>5, <1>6 DEF LoggedGoal
<1>8. LoggedPlan(next) = IF row.op = "plan" THEN row.on ELSE LoggedPlan(rows)
  <2>1. row.op = "plan" => row.on \in BOOLEAN
    BY DEF RowType
  <2> QED
    BY <1>1, <1>3, <1>4, <1>5, <1>6, <2>1 DEF LoggedPlan
<1> QED
  BY <1>7, <1>8 DEF next

\* The rounds of a goal in a log, one more row of it, and a prefix of it.
LEMMA RoundsFacts ==
    ASSUME NEW rows \in Seq(RowType), NEW id \in Nat
    PROVE  /\ IsFiniteSet(Rounds(rows, id)) /\ Cardinality(Rounds(rows, id)) \in Nat
           /\ Rounds(rows, id) \subseteq 1 .. Len(rows)
           /\ \A n \in 0 .. Len(rows) :
                /\ SubSeq(rows, 1, n) \in Seq(RowType) /\ Len(SubSeq(rows, 1, n)) = n
                /\ \A i \in 1 .. n : SubSeq(rows, 1, n)[i] = rows[i]
                /\ Rounds(SubSeq(rows, 1, n), id) = {i \in Rounds(rows, id) : i <= n}
<1>1. Rounds(rows, id) \subseteq 1 .. Len(rows) /\ Len(rows) \in Nat
  BY DEF Rounds
<1>2. IsFiniteSet(Rounds(rows, id)) /\ Cardinality(Rounds(rows, id)) \in Nat
  <2>1. IsFiniteSet(1 .. Len(rows))
    BY <1>1, FS_Interval
  <2>2. IsFiniteSet(Rounds(rows, id))
    BY <1>1, <2>1, FS_Subset
  <2> QED
    BY <2>2, FS_CardinalityType
<1>3. ASSUME NEW n \in 0 .. Len(rows)
      PROVE  /\ SubSeq(rows, 1, n) \in Seq(RowType) /\ Len(SubSeq(rows, 1, n)) = n
             /\ \A i \in 1 .. n : SubSeq(rows, 1, n)[i] = rows[i]
             /\ Rounds(SubSeq(rows, 1, n), id) = {i \in Rounds(rows, id) : i <= n}
  <2>1. \A i \in 1 .. n : rows[i] \in RowType
    OBVIOUS
  <2>2. /\ SubSeq(rows, 1, n) \in Seq(RowType) /\ Len(SubSeq(rows, 1, n)) = n
        /\ \A i \in 1 .. n : SubSeq(rows, 1, n)[i] = rows[i]
    BY <2>1
  <2>3. DOMAIN SubSeq(rows, 1, n) = 1 .. n
    BY <2>2
  <2> QED
    BY <2>2, <2>3 DEF Rounds
<1> QED
  BY <1>1, <1>2, <1>3

LEMMA RoundsAppend ==
    ASSUME NEW rows \in Seq(RowType), NEW row \in RowType, NEW id \in Nat
    PROVE  Cardinality(Rounds(Append(rows, row), id)) =
             Cardinality(Rounds(rows, id))
               + (IF row.op = "round" /\ row.goal.id = id THEN 1 ELSE 0)
<1> DEFINE next == Append(rows, row)
           n == Len(rows)
<1>1. /\ DOMAIN next = DOMAIN rows \cup {n + 1} /\ next[n + 1] = row
      /\ \A i \in DOMAIN rows : next[i] = rows[i]
      /\ DOMAIN rows = 1 .. n /\ n \in Nat
  BY AppendedRow
<1> HIDE DEF next, n
<1>2. /\ IsFiniteSet(Rounds(rows, id)) /\ Cardinality(Rounds(rows, id)) \in Nat
      /\ n + 1 \notin Rounds(rows, id)
  <2>1. IsFiniteSet(Rounds(rows, id)) /\ Cardinality(Rounds(rows, id)) \in Nat
    BY RoundsFacts
  <2>2. n + 1 \notin DOMAIN rows
    BY <1>1
  <2>3. n + 1 \notin Rounds(rows, id)
    BY <2>2 DEF Rounds
  <2> QED
    BY <2>1, <2>3
<1>3. CASE row.op = "round" /\ row.goal.id = id
  <2>1. Rounds(next, id) = Rounds(rows, id) \cup {n + 1}
    BY <1>1, <1>3 DEF Rounds
  <2> QED
    BY <1>2, <1>3, <2>1, FS_AddElement DEF next
<1>4. CASE ~(row.op = "round" /\ row.goal.id = id)
  <2>1. Rounds(next, id) = Rounds(rows, id)
    BY <1>1, <1>4 DEF Rounds
  <2> QED
    BY <1>2, <1>4, <2>1 DEF next
<1> QED
  BY <1>3, <1>4

\* The goal that an honest log leaves has counted its rounds.
LEMMA LoggedCount ==
    ASSUME NEW rows \in Seq(RowType), \A i \in DOMAIN rows : HonestRow(rows, i),
           LoggedGoal(rows) # NoGoal
    PROVE  LoggedGoal(rows).rounds = Cardinality(Rounds(rows, LoggedGoal(rows).id))
<1>1. PICK m \in DOMAIN rows :
        /\ rows[m].op \notin {"plan", "clear"} /\ LoggedGoal(rows) = rows[m].goal
        /\ \A j \in DOMAIN rows : rows[j].op # "plan" => j <= m
  BY LoggedFacts
<1>2. rows[m].op \in GoalOps \cup {"round"} /\ rows[m].goal.id \in Nat
  <2>1. rows[m] \in RowType
    OBVIOUS
  <2> QED
    BY <1>1, <2>1 DEF RowType, GoalType
<1>3. rows[m].goal.rounds = Cardinality(Rounds(SubSeq(rows, 1, m), rows[m].goal.id))
  BY <1>2 DEF HonestRow
<1>4. Rounds(SubSeq(rows, 1, m), rows[m].goal.id) = Rounds(rows, rows[m].goal.id)
  <2>1. m \in 0 .. Len(rows) /\ \A i \in Rounds(rows, rows[m].goal.id) : i <= m
    BY <1>1 DEF Rounds
  <2>2. /\ Rounds(SubSeq(rows, 1, m), rows[m].goal.id) =
             {i \in Rounds(rows, rows[m].goal.id) : i <= m}
    BY <1>2, <2>1, RoundsFacts
  <2> QED
    BY <2>1, <2>2
<1> QED
  BY <1>1, <1>3, <1>4

\* A row is as honest in a longer log, or in a shorter one that still holds it.
LEMMA HonestElsewhere ==
    ASSUME NEW rows \in Seq(RowType), NEW other \in Seq(RowType), NEW i \in Nat,
           i \in DOMAIN rows, i \in DOMAIN other, HonestRow(rows, i),
           \A j \in 1 .. i : other[j] = rows[j]
    PROVE  HonestRow(other, i)
<1>1. SubSeq(other, 1, i) = SubSeq(rows, 1, i)
  OBVIOUS
<1>2. other[i] = rows[i]
  OBVIOUS
<1> QED
  BY <1>1, <1>2 DEF HonestRow


-----------------------------------------------------------------------------
(* Rows that are taken. *)

LEMMA UsedBelow ==
    ASSUME log \in Seq(RowType), NEW id, id \in UsedIds(log)
    PROVE  \E i \in DOMAIN log : log[i].goal.id = id
  BY DEF UsedIds, ToSet

LEMMA ValidBounds ==
    ASSUME TypeInv, NEW row \in RowType, Valid(row), row.op \notin {"plan", "clear"}
    PROVE  Bounded(row.goal)
<1>1. LoggedGoal(log) \in GoalType /\ row.goal \in GoalType
  BY LoggedFacts DEF TypeInv, RowType
<1> QED
  BY <1>1 DEF Valid, Accepts, Bounded, GoalType, SameGoal

\* A row that the fold takes counts the rounds of its goal right.
LEMMA ValidCount ==
    ASSUME TypeInv, HonestLog, NEW row \in RowType, Valid(row), row.op # "plan",
           row.op = "create" => \A i \in DOMAIN log : log[i].goal.id < row.goal.id,
           row.op = "clear" => row.goal.rounds = LoggedGoal(log).rounds
    PROVE  row.goal.rounds = Cardinality(Rounds(Append(log, row), row.goal.id))
<1> DEFINE g == LoggedGoal(log)
<1>1. /\ g \in GoalType /\ row.goal \in GoalType /\ log \in Seq(RowType)
      /\ row.goal.id \in Nat /\ row.goal.rounds \in Nat
  BY LoggedFacts DEF TypeInv, RowType, GoalType
<1>2. Cardinality(Rounds(Append(log, row), row.goal.id)) =
        Cardinality(Rounds(log, row.goal.id)) + (IF row.op = "round" THEN 1 ELSE 0)
  BY <1>1, RoundsAppend
<1>3. g # NoGoal => g.rounds = Cardinality(Rounds(log, g.id))
  BY <1>1, LoggedCount DEF HonestLog
<1>4. Cardinality(Rounds(log, row.goal.id)) \in Nat
  BY <1>1, RoundsFacts
<1>5. CASE row.op = "create"
  <2>1. Rounds(log, row.goal.id) = {}
    <3>1. ASSUME NEW i \in DOMAIN log PROVE log[i].goal.id # row.goal.id
      <4>1. log[i] \in RowType
        BY <1>1
      <4>2. log[i].goal.id \in Nat
        BY <4>1 DEF RowType, GoalType
      <4> QED
        BY <1>1, <1>5, <4>2
    <3> QED
      BY <3>1 DEF Rounds
  <2>2. row.goal.rounds = 0
    BY <1>5 DEF Valid, Accepts
  <2> QED
    BY <1>2, <1>5, <2>1, <2>2, FS_EmptySet
<1>6. CASE row.op = "round"
  <2>1. g.phase = "active" /\ row.goal = [g EXCEPT !.rounds = @ + 1]
    BY <1>6 DEF Valid, Accepts
  <2>2. g # NoGoal /\ row.goal.id = g.id /\ row.goal.rounds = g.rounds + 1
    BY <1>1, <2>1, NoGoalType DEF GoalType
  <2> QED
    BY <1>2, <1>3, <1>6, <2>2
<1>7. CASE row.op \notin {"create", "round"}
  <2>1. g # NoGoal /\ row.goal.id = g.id /\ row.goal.rounds = g.rounds
    BY <1>7 DEF Valid, Accepts, SameGoal
  <2> QED
    BY <1>2, <1>3, <1>4, <1>7, <2>1
<1> QED
  BY <1>5, <1>6, <1>7

\* What may be taken: a row whose author and whose id are right.
Fit(row) ==
    /\ row \in RowType /\ row.goal.id <= born
    /\ row.op = "create" => \A i \in DOMAIN log : log[i].goal.id < row.goal.id
    /\ row.op = "clear" => row.goal.rounds = LoggedGoal(log).rounds
    /\ row.op = "plan" => row.goal = NoGoal
    /\ row.op \in {"create", "edit", "resume", "clear"} => row.by = "person"
    /\ row.op = "block" /\ row.by = "round" => row.goal.rounds >= BlockThreshold

LEMMA TakenRow ==
    ASSUME TypeInv, IdInv, HonestLog, NEW row, Fit(row), Taken(row)
    PROVE  /\ log' \in Seq(RowType) /\ Len(log') = Len(log) + 1
           /\ \A i \in DOMAIN log' : /\ log'[i].op # "clear" => Bounded(log'[i].goal)
                                     /\ log'[i].goal.id <= born
           /\ HonestLog'
           /\ LoggedGoal(log') = IF row.op = "plan" THEN LoggedGoal(log) ELSE Folded(row)
           /\ LoggedPlan(log') = IF row.op = "plan" THEN row.on ELSE LoggedPlan(log)
<1>1. log \in Seq(RowType) /\ row \in RowType /\ log' = Append(log, row) /\ Valid(row)
  BY DEF TypeInv, Fit, Taken
<1> DEFINE n == Len(log)
<1>2. /\ log' \in Seq(RowType) /\ Len(log') = n + 1 /\ n \in Nat
      /\ DOMAIN log' = DOMAIN log \cup {n + 1} /\ DOMAIN log = 1 .. n
      /\ log'[n + 1] = row /\ \A i \in DOMAIN log : log'[i] = log[i]
  BY <1>1, AppendedRow
<1> HIDE DEF n
<1>3. row.op # "clear" => Bounded(row.goal)
  BY <1>1, ValidBounds, NoGoalType DEF Fit
<1>4. \A i \in DOMAIN log' : /\ log'[i].op # "clear" => Bounded(log'[i].goal)
                             /\ log'[i].goal.id <= born
  BY <1>2, <1>3 DEF TypeInv, IdInv, Fit
<1>5. ASSUME NEW i \in DOMAIN log' PROVE HonestRow(log', i)
  <2>1. CASE i \in DOMAIN log
    <3>1. \A j \in 1 .. i : j \in DOMAIN log /\ log'[j] = log[j]
      BY <1>2, <2>1
    <3>2. HonestRow(log, i) /\ i \in Nat
      BY <1>2, <2>1 DEF HonestLog
    <3> QED
      BY <1>1, <1>2, <2>1, <3>1, <3>2, HonestElsewhere
  <2>2. CASE i = n + 1
    <3>1. SubSeq(log', 1, n + 1) = log'
      BY <1>2
    <3>2. row.op # "plan" =>
            row.goal.rounds = Cardinality(Rounds(log', row.goal.id))
      BY <1>1, ValidCount DEF Fit
    <3>3. row.op \in GoalOps \cup {"round"} => row.op # "plan"
      BY DEF GoalOps
    <3> QED
      BY <1>2, <2>2, <3>1, <3>2, <3>3 DEF HonestRow, Fit
  <2> QED
    BY <1>2, <2>1, <2>2
<1> QED
  BY <1>1, <1>2, <1>4, <1>5, LoggedAppend DEF HonestLog, n

\* Nothing of the log has changed.
LEMMA SameLog ==
    ASSUME UNCHANGED log, HonestLog
    PROVE  HonestLog'
  BY DEF HonestLog

LEMMA NoChangeFacts ==
    /\ NoChange \in Changes /\ NoTurn \in Turns
    /\ NoChange.site = "none" /\ NoChange.row.op = "plan" /\ NoChange.row.goal = NoGoal
    /\ NoTurn.by = "none" /\ NoTurn.at = "boundary" /\ NoTurn.round = NoGoal
    /\ ~NoTurn.prompted
  BY NoGoalType
     DEF NoChange, NoTurn, NewTurn, Turn, Changes, Turns, RowType, PlanRow, Callers, Sites

LEMMA OwedInit == Init => OwedInv
<1> SUFFICES ASSUME Init PROVE OwedInv
  OBVIOUS
<1>1. log \in Seq(RowType) /\ Len(log) = 0 /\ DOMAIN log = {}
  BY DEF Init
<1>3. LoggedGoal(log) = NoGoal /\ LoggedPlan(log) = FALSE
  BY <1>1 DEF LoggedGoal, LoggedPlan, GoalRows, PlanRows
<1>4. TypeInv
  <2>1. synced \in 0 .. Len(log)
    BY <1>1 DEF Init
  <2>2. goal \in GoalType /\ pending \in Changes /\ turn \in Turns /\ Bounded(goal)
    BY NoGoalType, NoChangeFacts DEF Init
  <2>3. /\ armed \in BOOLEAN /\ plan \in BOOLEAN /\ leaving \in BOOLEAN /\ dead \in BOOLEAN
        /\ halted \in BOOLEAN /\ exit \in {"none", "approved", "stepped"} /\ born \in Nat
    BY DEF Init
  <2>4. \A i \in DOMAIN log : log[i].op # "clear" => Bounded(log[i].goal)
    BY <1>1
  <2> QED
    BY <1>1, <2>1, <2>2, <2>3, <2>4 DEF TypeInv
<1>5. IdInv
  BY <1>1, NoGoalType, NoChangeFacts DEF Init, IdInv
<1>6. PlaceInv /\ PendingInv
  BY NoChangeFacts DEF Init, PlaceInv, PendingInv
<1>7. RuntimeFollowsLog
  BY NoChangeFacts, <1>3 DEF Init, RuntimeFollowsLog
<1>8. HonestLog
  BY <1>1 DEF HonestLog
<1> QED
  BY <1>4, <1>5, <1>6, <1>7, <1>8 DEF OwedInv


-----------------------------------------------------------------------------
(* The changes that are prepared. *)

\* Outside a round whose prompt is not admitted, the runtime has the log's goal.
LEMMA GoalIsLogged ==
    ASSUME OwedInv, ~dead, turn = NoTurn \/ turn.at = "tools"
    PROVE  goal = LoggedGoal(log) /\ ~(turn.by = "round" /\ ~turn.prompted)
  BY DEF OwedInv, RuntimeFollowsLog, PlaceInv

\* A change is as it must be to be written next.
ReadyChange ==
    /\ pending' \in Changes /\ pending'.site # "none" /\ pending' # NoChange
    /\ born' \in Nat /\ born <= born'
    /\ pending'.row.goal.id <= born'
    /\ pending'.row.op = "create" => \A i \in DOMAIN log : log[i].goal.id < pending'.row.goal.id
    /\ pending'.row.op \in GoalOps
    /\ pending'.row.op \in {"create", "edit", "resume", "clear"} => pending'.row.by = "person"
    /\ pending'.row.op = "clear" => pending'.row.goal.rounds = goal.rounds
    /\ pending'.row.op = "block" /\ pending'.row.by = "round" =>
         pending'.row.goal.rounds >= BlockThreshold
    /\ Valid(pending'.row)

LEMMA CreateIsReady ==
    ASSUME OwedInv, ~dead, turn = NoTurn \/ turn.at = "tools", NEW cap \in Caps,
           NEW site \in {"command", "tool"}, PrepareCreate(cap, "person", site)
    PROVE  ReadyChange
<1>1. goal = LoggedGoal(log) /\ log \in Seq(RowType) /\ born \in Nat
  BY GoalIsLogged DEF OwedInv, TypeInv
<1>2. /\ pending' = [row |-> Row("create", Created(cap), "person"), armed |-> TRUE, site |-> site]
      /\ born' = born + 1 /\ goal.phase = "complete"
  BY DEF PrepareCreate
<1>3. Created(cap) \in GoalType /\ Created(cap).id = born + 1
  BY <1>1, CapsAssumption DEF Created, Goal, GoalType, Phases
<1>4. Row("create", Created(cap), "person") \in RowType
  BY <1>3 DEF Row, RowType, GoalOps, Callers
<1>5. pending' \in Changes /\ pending'.row = Row("create", Created(cap), "person")
      /\ pending'.site = site
  BY <1>2, <1>4 DEF Changes, Sites
<1>6. pending'.row.op = "create" /\ pending'.row.by = "person"
      /\ pending'.row.goal = Created(cap)
  BY <1>5 DEF Row
<1>7. \A i \in DOMAIN log : log[i].goal.id < born + 1
  <2>1. ASSUME NEW i \in DOMAIN log PROVE log[i].goal.id \in Nat
    <3>1. log[i] \in RowType
      BY <1>1
    <3> QED
      BY <3>1 DEF RowType, GoalType
  <2> QED
    BY <1>1, <2>1 DEF OwedInv, IdInv
<1>8. born + 1 \notin UsedIds(log)
  <2>1. \A i \in DOMAIN log : log[i].goal.id # born + 1
    BY <1>1, <1>7
  <2> QED
    BY <1>1, <2>1, UsedBelow
<1>9. Valid(pending'.row)
  BY <1>1, <1>2, <1>3, <1>6, <1>8 DEF Valid, Accepts, Created, Goal
<1>10. pending'.site # "none" /\ pending' # NoChange
  BY <1>5, NoChangeFacts
<1> QED
  BY <1>1, <1>2, <1>3, <1>5, <1>6, <1>7, <1>9, <1>10 DEF ReadyChange, GoalOps

LEMMA UpdateIsReady ==
    ASSUME OwedInv, ~dead, turn = NoTurn \/ turn.at = "tools",
           NEW op \in {"edit", "pause", "resume", "complete", "block"}, NEW cap \in Nat,
           NEW by \in Callers, NEW site \in {"command", "tool"},
           op \in {"edit", "resume"} => by = "person",
           op = "block" /\ by = "round" => goal.rounds >= BlockThreshold,
           PrepareUpdate(op, cap, by, site)
    PROVE  ReadyChange
<1>1. /\ goal = LoggedGoal(log) /\ goal \in GoalType /\ born \in Nat /\ Bounded(goal)
      /\ goal.id <= born
  BY GoalIsLogged DEF OwedInv, TypeInv, IdInv
<1> DEFINE next == Updated(op, cap)
<1>2. /\ pending' = [row |-> Row(op, next, by), armed |-> Arms(op), site |-> site]
      /\ UNCHANGED born /\ goal # NoGoal /\ MayUpdate(op)
      /\ op = "edit" => goal.rounds <= cap
  BY DEF PrepareUpdate
<1>3. /\ next.id = goal.id /\ next.revision = goal.revision + 1 /\ next.phase = PhaseAfter(op)
      /\ next.max = (IF op = "edit" THEN cap ELSE goal.max) /\ next.rounds = goal.rounds
  BY DEF Updated, Goal
<1>4. PhaseAfter(op) \in Phases
  BY <1>1 DEF PhaseAfter, Phases, GoalType
<1>5. next \in GoalType
  BY <1>1, <1>4 DEF Updated, Goal, GoalType
<1> HIDE DEF next
<1>6. Row(op, next, by) \in RowType
  BY <1>5 DEF Row, RowType, GoalOps
<1>7. Arms(op) \in BOOLEAN
  BY DEF Arms, OwedInv, TypeInv
<1>8. pending' \in Changes /\ pending'.row = Row(op, next, by) /\ pending'.site = site
  BY <1>2, <1>6, <1>7 DEF Changes, Sites
<1>9. pending'.row.op = op /\ pending'.row.by = by /\ pending'.row.goal = next
  BY <1>8 DEF Row
<1>10. SameGoal(goal, next) /\ next.rounds <= next.max
  BY <1>1, <1>2, <1>3 DEF SameGoal, Bounded, GoalType
<1>11. Valid(pending'.row)
  BY <1>1, <1>2, <1>3, <1>9, <1>10 DEF Valid, Accepts, MayUpdate, PhaseAfter
<1>12. pending'.site # "none" /\ pending' # NoChange
  BY <1>8, NoChangeFacts
<1> QED
  BY <1>1, <1>2, <1>3, <1>8, <1>9, <1>11, <1>12 DEF ReadyChange, GoalOps

LEMMA ClearIsReady ==
    ASSUME OwedInv, ~dead, turn = NoTurn, PrepareClear
    PROVE  ReadyChange
<1>1. goal = LoggedGoal(log) /\ goal \in GoalType /\ born \in Nat /\ goal.id <= born
  BY GoalIsLogged DEF OwedInv, TypeInv, IdInv
<1> DEFINE next == [goal EXCEPT !.revision = @ + 1]
<1>2. /\ pending' = [row |-> Row("clear", next, "person"), armed |-> FALSE, site |-> "command"]
      /\ UNCHANGED born /\ goal # NoGoal
  BY DEF PrepareClear
<1>3. /\ next \in GoalType /\ next.id = goal.id /\ next.revision = goal.revision + 1
      /\ next.rounds = goal.rounds
  BY <1>1 DEF GoalType
<1> HIDE DEF next
<1>4. Row("clear", next, "person") \in RowType
  BY <1>3 DEF Row, RowType, GoalOps, Callers
<1>5. /\ pending' \in Changes /\ pending'.row = Row("clear", next, "person")
      /\ pending'.site = "command"
  BY <1>2, <1>4 DEF Changes, Sites
<1>6. pending'.row.op = "clear" /\ pending'.row.by = "person" /\ pending'.row.goal = next
  BY <1>5 DEF Row
<1>7. Valid(pending'.row) /\ pending' # NoChange
  BY <1>1, <1>2, <1>3, <1>5, <1>6 DEF Valid, Accepts, NoChange
<1> QED
  BY <1>1, <1>2, <1>3, <1>5, <1>6, <1>7 DEF ReadyChange, GoalOps

\* A change that is ready keeps the invariant.
LEMMA ReadyKeeps ==
    ASSUME OwedInv, ~dead, turn = NoTurn \/ turn.at = "tools", ReadyChange,
           UNCHANGED <<log, goal, armed, planState, turn, dead, halted>>,
           synced' \in 0 .. Len(log)
    PROVE  OwedInv'
<1> USE DEF OwedInv, ReadyChange
<1>1. TypeInv'
  BY DEF TypeInv, planState
<1>2. IdInv'
  <2>1. /\ goal.id \in Nat /\ turn.round.id \in Nat /\ born \in Nat /\ born' \in Nat
    BY DEF TypeInv, GoalType, Turns
  <2>2. ASSUME NEW i \in DOMAIN log PROVE log[i].goal.id \in Nat
    <3>1. log[i] \in RowType
      BY DEF TypeInv
    <3> QED
      BY <3>1 DEF RowType, GoalType
  <2> QED
    BY <2>1, <2>2 DEF IdInv
<1>3. PlaceInv' /\ PendingInv'
  BY DEF PlaceInv, PendingInv
<1>4. RuntimeFollowsLog'
  BY GoalIsLogged DEF RuntimeFollowsLog, planState, Valid
<1>5. HonestLog'
  BY SameLog
<1> QED
  BY <1>1, <1>2, <1>3, <1>4, <1>5


LEMMA GoalCommandOwed ==
    ASSUME OwedInv, GoalCommand
    PROVE  OwedInv'
<1>1. /\ UNCHANGED <<log, synced, goal, armed, planState, turn, dead, halted>>
      /\ turn = NoTurn /\ ~dead /\ synced' \in 0 .. Len(log)
  BY DEF GoalCommand, AtPrompt, OwedInv, TypeInv
<1>2. goal.max \in Nat
  BY DEF OwedInv, TypeInv, GoalType
<1>3. ASSUME NEW cap \in Caps, PrepareCreate(cap, "person", "command") PROVE ReadyChange
  BY <1>1, <1>3, CreateIsReady
<1>4. ASSUME NEW op \in {"edit", "pause", "resume"},
             PrepareUpdate(op, goal.max, "person", "command")
      PROVE  ReadyChange
  BY <1>1, <1>2, <1>4, UpdateIsReady DEF Callers
<1>5. CASE PrepareClear
  BY <1>1, <1>5, ClearIsReady, ReadyKeeps
<1>6. ReadyChange => OwedInv'
  BY <1>1, ReadyKeeps
<1> QED
  BY <1>3, <1>4, <1>5, <1>6 DEF GoalCommand

LEMMA GoalToolOwed ==
    ASSUME OwedInv, GoalTool
    PROVE  OwedInv'
<1>1. /\ UNCHANGED <<log, goal, armed, planState, turn, dead, halted>>
      /\ turn.at = "tools" /\ ~dead /\ synced' \in 0 .. Len(log)
      /\ turn.by \in {"none", "human", "round", "wake"}
  BY DEF GoalTool, AmongTools, OwedInv, TypeInv, Turns
<1>2. /\ Caller \in Callers
      /\ Caller = "round" => turn.by = "round"
      /\ turn.by = "human" => Caller = "person"
  BY <1>1 DEF Caller, Callers
<1>3. ASSUME NEW cap \in Caps, MayCall("create"), PrepareCreate(cap, Caller, "tool")
      PROVE  ReadyChange
  <2>1. Caller = "person"
    BY <1>2, <1>3 DEF MayCall
  <2>2. PrepareCreate(cap, "person", "tool")
    BY <1>3, <2>1
  <2> QED
    BY <1>1, <2>2, CreateIsReady
<1>4. ASSUME NEW op \in {"edit", "pause", "resume", "complete", "block"}, NEW cap \in Caps,
             MayCall(op), op = "block" /\ turn.by = "round" => goal.rounds >= BlockThreshold,
             PrepareUpdate(op, cap, Caller, "tool")
      PROVE  ReadyChange
  <2>1. op \in {"edit", "resume"} => Caller = "person"
    BY <1>2, <1>4 DEF MayCall
  <2>2. cap \in Nat
    BY CapsAssumption
  <2> QED
    BY <1>1, <1>2, <1>4, <2>1, <2>2, UpdateIsReady
<1>5. ReadyChange => OwedInv'
  BY <1>1, ReadyKeeps
<1> QED
  BY <1>3, <1>4, <1>5 DEF GoalTool

LEMMA CommitChangeOwed ==
    ASSUME OwedInv, CommitChange
    PROVE  OwedInv'
<1>1. /\ pending # NoChange /\ ~dead /\ UNCHANGED <<synced, born, plan, leaving, exit, turn>>
      /\ turn = NoTurn \/ turn.at = "tools"
  BY DEF CommitChange, planState, OwedInv, PlaceInv
<1>2. goal = LoggedGoal(log) /\ ~(turn.by = "round" /\ ~turn.prompted)
  BY <1>1, GoalIsLogged
<1>3. Fit(pending.row) /\ pending.row.op \in GoalOps
  BY <1>1, <1>2
     DEF OwedInv, TypeInv, Changes, IdInv, PendingInv, RuntimeFollowsLog, Fit, GoalOps
<1>4. TypeInv /\ IdInv /\ HonestLog
  BY DEF OwedInv
<1>5. Taken(pending.row) =>
        /\ log' \in Seq(RowType) /\ Len(log') = Len(log) + 1
        /\ \A i \in DOMAIN log' : /\ log'[i].op # "clear" => Bounded(log'[i].goal)
                                  /\ log'[i].goal.id <= born
        /\ HonestLog'
        /\ LoggedGoal(log') = Folded(pending.row)
        /\ LoggedPlan(log') = LoggedPlan(log)
  BY <1>3, <1>4, TakenRow DEF GoalOps
<1>6. /\ log \in Seq(RowType) /\ synced \in 0 .. Len(log) /\ Len(log) \in Nat
      /\ \A i \in DOMAIN log : /\ log[i].op # "clear" => Bounded(log[i].goal)
                               /\ log[i].goal.id <= born
      /\ HonestLog
  BY <1>4 DEF TypeInv, IdInv
<1>7. \/ Taken(pending.row) /\ Install /\ UNCHANGED dead
      \/ UNCHANGED log /\ Abandon /\ dead' \in BOOLEAN /\ (~dead' => UNCHANGED <<goal, log>>)
      \/ dead' = TRUE /\ Abandon /\ Taken(pending.row)
  BY DEF CommitChange, Refused, Lost, Abandon
<1>8. /\ log' \in Seq(RowType) /\ synced' \in 0 .. Len(log')
      /\ \A i \in DOMAIN log' : /\ log'[i].op # "clear" => Bounded(log'[i].goal)
                                /\ log'[i].goal.id <= born'
      /\ HonestLog'
      /\ pending' = NoChange
      /\ dead' \in BOOLEAN
  <2>1. CASE Taken(pending.row) /\ pending' = NoChange /\ dead' \in BOOLEAN
    BY <1>1, <1>5, <1>6, <2>1
  <2>2. CASE UNCHANGED log /\ pending' = NoChange /\ dead' \in BOOLEAN
    BY <1>1, <1>6, <2>2, SameLog
  <2>3. dead \in BOOLEAN
    BY <1>4 DEF TypeInv
  <2> QED
    BY <1>7, <2>1, <2>2, <2>3 DEF Install, Abandon
<1>9. /\ goal' \in GoalType /\ Bounded(goal') /\ goal'.id <= born
      /\ armed' \in BOOLEAN /\ halted' \in BOOLEAN
  <2>1. CASE Install /\ Taken(pending.row)
    <3>1. goal' = Folded(pending.row) /\ armed' = pending.armed /\ halted' \in BOOLEAN
      BY <2>1, <1>4 DEF Install, Folded, TypeInv
    <3>2. pending.row \in RowType /\ pending.row.goal \in GoalType /\ pending.armed \in BOOLEAN
      BY <1>4 DEF TypeInv, Changes, RowType
    <3>3. pending.row.op # "clear" => Bounded(pending.row.goal)
      <4>1. Valid(pending.row) /\ pending.row.op # "plan"
        BY <2>1, <1>3 DEF Taken, GoalOps
      <4> QED
        BY <1>4, <3>2, <4>1, ValidBounds
    <3>4. pending.row.goal.id <= born /\ 0 <= born
      BY <1>4 DEF IdInv, TypeInv
    <3> QED
      BY <3>1, <3>2, <3>3, <3>4, NoGoalType DEF Folded
  <2>2. CASE Abandon
    BY <2>2, <1>4 DEF Abandon, TypeInv, IdInv
  <2> QED
    BY <1>7, <2>1, <2>2
<1>10. RuntimeFollowsLog'
  <2>1. CASE Taken(pending.row) /\ Install
    <3>1. goal' = LoggedGoal(log') /\ plan' = LoggedPlan(log')
      BY <1>1, <1>5, <2>1 DEF Install, Folded, OwedInv, RuntimeFollowsLog
    <3> QED
      BY <1>1, <1>2, <1>8, <3>1 DEF RuntimeFollowsLog
  <2>2. CASE UNCHANGED <<goal, log>>
    BY <1>1, <1>2, <1>8, <2>2 DEF OwedInv, RuntimeFollowsLog
  <2> QED
    BY <1>7, <2>1, <2>2 DEF RuntimeFollowsLog
<1>11. TypeInv'
  BY <1>1, <1>4, <1>8, <1>9, NoChangeFacts DEF TypeInv
<1>12. IdInv'
  BY <1>1, <1>4, <1>8, <1>9, NoChangeFacts, NoGoalType DEF IdInv, TypeInv
<1>13. PlaceInv' /\ PendingInv'
  BY <1>1, <1>8, NoChangeFacts DEF OwedInv, PlaceInv, PendingInv
<1> QED
  BY <1>8, <1>10, <1>11, <1>12, <1>13 DEF OwedInv

LEMMA DropChangeOwed ==
    ASSUME OwedInv, DropChange
    PROVE  OwedInv'
<1>1. /\ pending' = NoChange /\ ~dead
      /\ UNCHANGED <<log, synced, goal, armed, halted, born, plan, leaving, exit, turn, dead>>
  BY DEF DropChange, Abandon, planState
<1>2. TypeInv' /\ IdInv' /\ PlaceInv' /\ PendingInv' /\ HonestLog'
  BY <1>1, NoChangeFacts, NoGoalType, SameLog
     DEF OwedInv, TypeInv, IdInv, PlaceInv, PendingInv
<1>3. RuntimeFollowsLog'
  BY <1>1 DEF OwedInv, RuntimeFollowsLog, Valid
<1> QED
  BY <1>2, <1>3 DEF OwedInv


-----------------------------------------------------------------------------
(* Rounds and turns. *)

\* A row that is not "create" is judged by the goal of the log alone.
LEMMA RoundValid ==
    ASSUME NEW round, LoggedGoal(log') = LoggedGoal(log), Valid(Row("round", round, "prompt"))
    PROVE  Valid(Row("round", round, "prompt"))'
  BY DEF Valid, Accepts, Row

LEMMA StartRoundOwed ==
    ASSUME OwedInv, StartRound
    PROVE  OwedInv'
<1>1. /\ turn = NoTurn /\ ~dead /\ pending = NoChange
      /\ UNCHANGED <<log, synced, pending, born, plan, leaving, exit, dead, halted>>
      /\ armed' = MayRound
  BY DEF StartRound, AtPrompt, planState
<1>2. /\ goal = LoggedGoal(log) /\ goal \in GoalType /\ goal.id <= born /\ MayRound \in BOOLEAN
  BY <1>1, GoalIsLogged DEF OwedInv, TypeInv, IdInv, MayRound
<1>3. CASE MayRound
  <2>1. /\ goal' = [goal EXCEPT !.rounds = @ + 1]
        /\ goal.phase = "active" /\ goal.rounds < goal.max
    BY <1>2, <1>3 DEF StartRound, Counted, Goal, GoalType, MayRound
  <2>2. goal' \in GoalType /\ Bounded(goal') /\ goal'.id = goal.id
    BY <1>2, <2>1 DEF GoalType, Bounded
  <2>3. turn' = [by |-> "round", at |-> "boundary", prompted |-> FALSE, round |-> goal']
    BY <1>3 DEF StartRound, NewTurn, Turn
  <2>4. turn' \in Turns /\ turn' # NoTurn /\ turn'.by = "round" /\ turn'.at = "boundary"
        /\ ~turn'.prompted /\ turn'.round = goal'
    BY <2>2, <2>3, NoChangeFacts DEF Turns
  <2>5. Valid(Row("round", goal', "prompt"))
    BY <1>2, <2>1, <2>2 DEF Valid, Accepts, Row, Bounded, GoalType
  <2>6. RuntimeFollowsLog'
    BY <1>1, <1>2, <2>1, <2>4, <2>5, RoundValid DEF OwedInv, RuntimeFollowsLog
  <2>7. TypeInv' /\ IdInv' /\ PlaceInv' /\ PendingInv' /\ HonestLog'
    BY <1>1, <1>2, <2>2, <2>4, NoChangeFacts, NoGoalType, SameLog
       DEF OwedInv, TypeInv, IdInv, PlaceInv, PendingInv
  <2> QED
    BY <2>6, <2>7 DEF OwedInv
<1>4. CASE ~MayRound
  <2>1. UNCHANGED <<goal, turn>>
    BY <1>4 DEF StartRound
  <2>2. TypeInv' /\ IdInv' /\ PlaceInv' /\ PendingInv' /\ HonestLog'
    BY <1>1, <1>2, <2>1, SameLog DEF OwedInv, TypeInv, IdInv, PlaceInv, PendingInv
  <2>3. RuntimeFollowsLog'
    BY <1>1, <2>1 DEF OwedInv, RuntimeFollowsLog, Valid
  <2> QED
    BY <2>2, <2>3 DEF OwedInv
<1> QED
  BY <1>3, <1>4

LEMMA StartTurnOwed ==
    ASSUME OwedInv, NEW by \in {"human", "wake"}, StartTurn(by)
    PROVE  OwedInv'
<1>1. /\ turn = NoTurn /\ ~dead /\ pending = NoChange
      /\ UNCHANGED <<log, synced, goal, armed, pending, born, halted, plan, leaving, exit, dead>>
  BY DEF StartTurn, AtPrompt, planState, goalState
<1>2. /\ turn' \in Turns /\ turn'.by = by /\ turn'.at = "boundary" /\ turn'.round = NoGoal
      /\ turn' # NoTurn
  BY NoGoalType, NoChangeFacts DEF StartTurn, NewTurn, Turn, Turns
<1>3. goal = LoggedGoal(log)
  BY <1>1, GoalIsLogged
<1>4. TypeInv' /\ IdInv' /\ PlaceInv' /\ PendingInv' /\ HonestLog'
  BY <1>1, <1>2, NoGoalType, SameLog DEF OwedInv, TypeInv, IdInv, PlaceInv, PendingInv
<1>5. RuntimeFollowsLog'
  BY <1>1, <1>2, <1>3 DEF OwedInv, RuntimeFollowsLog
<1> QED
  BY <1>4, <1>5 DEF OwedInv

\* The turn stands elsewhere, behind its prompt once it has been among tools.
LEMMA TurnAtFacts ==
    ASSUME OwedInv, NEW where \in {"boundary", "flushed", "tools"}, turn # NoTurn,
           turn' = TurnAt(where)
    PROVE  /\ turn' \in Turns /\ turn'.by = turn.by /\ turn'.at = where
           /\ turn'.prompted = (turn.prompted \/ where = "tools")
           /\ turn'.round = turn.round /\ turn' # NoTurn
<1>1. turn \in Turns /\ turn.by # "none"
  BY DEF OwedInv, TypeInv, PlaceInv
<1> QED
  BY <1>1, NoChangeFacts DEF TurnAt, Turn, Turns

\* A plan row says nothing of a goal.
LEMMA PlanRowFacts ==
    ASSUME OwedInv, NEW on \in BOOLEAN
    PROVE  /\ Fit(PlanRow(on)) /\ PlanRow(on).op = "plan" /\ PlanRow(on).on = on
  BY NoGoalType DEF OwedInv, TypeInv, PlanRow, Fit, RowType, Callers, IdInv

\* The log with a plan row more, or as it was.
LEMMA PlanRowTaken ==
    ASSUME OwedInv, NEW on \in BOOLEAN, UNCHANGED log \/ Taken(PlanRow(on))
    PROVE  /\ log' \in Seq(RowType) /\ Len(log) \in Nat /\ Len(log) <= Len(log')
           /\ \A i \in DOMAIN log' : /\ log'[i].op # "clear" => Bounded(log'[i].goal)
                                     /\ log'[i].goal.id <= born
           /\ HonestLog' /\ LoggedGoal(log') = LoggedGoal(log)
           /\ Taken(PlanRow(on)) => LoggedPlan(log') = on
<1>1. TypeInv /\ IdInv /\ HonestLog /\ log \in Seq(RowType) /\ Len(log) \in Nat
  BY DEF OwedInv, TypeInv
<1>2. CASE Taken(PlanRow(on))
  BY <1>1, <1>2, PlanRowFacts, TakenRow
<1>3. CASE UNCHANGED log /\ ~Taken(PlanRow(on))
  BY <1>1, <1>3, SameLog DEF TypeInv, IdInv
<1> QED
  BY <1>2, <1>3

LEMMA FlushPlanOwed ==
    ASSUME OwedInv, FlushPlan
    PROVE  OwedInv'
<1>1. /\ turn # NoTurn /\ turn.at = "boundary" /\ ~dead
      /\ UNCHANGED <<synced, goal, armed, pending, born, halted>>
  BY DEF FlushPlan, goalState
<1>2. pending = NoChange
  BY <1>1 DEF OwedInv, PlaceInv
<1>3. UNCHANGED log \/ Taken(PlanRow(FALSE))
  BY DEF FlushPlan, Refused, Lost
<1>4. turn' = turn \/ turn' = TurnAt("flushed")
  BY DEF FlushPlan
<1>5. /\ turn' \in Turns /\ turn'.by = turn.by /\ turn'.at \in {"boundary", "flushed"}
      /\ turn'.prompted = turn.prompted /\ turn'.round = turn.round /\ turn' # NoTurn
  BY <1>1, <1>4, TurnAtFacts DEF OwedInv, TypeInv, Turns
<1>6. /\ plan' \in BOOLEAN /\ leaving' \in BOOLEAN /\ dead' \in BOOLEAN /\ UNCHANGED exit
  BY DEF FlushPlan, planState, OwedInv, TypeInv, Lost
<1>7. /\ log' \in Seq(RowType) /\ Len(log) \in Nat /\ Len(log) <= Len(log')
      /\ \A i \in DOMAIN log' : /\ log'[i].op # "clear" => Bounded(log'[i].goal)
                                /\ log'[i].goal.id <= born
      /\ HonestLog' /\ LoggedGoal(log') = LoggedGoal(log)
      /\ Taken(PlanRow(FALSE)) => LoggedPlan(log') = FALSE
  BY <1>3, PlanRowTaken
<1>8. TypeInv'
  BY <1>1, <1>5, <1>6, <1>7 DEF OwedInv, TypeInv
<1>9. IdInv' /\ PlaceInv' /\ PendingInv'
  BY <1>1, <1>2, <1>5, <1>7, NoChangeFacts DEF OwedInv, IdInv, PlaceInv, PendingInv
<1>10. RuntimeFollowsLog'
  <2> SUFFICES ASSUME ~dead' PROVE RuntimeFollowsLog'
    BY DEF RuntimeFollowsLog
  <2>1. plan' = LoggedPlan(log')
    <3>1. CASE UNCHANGED log /\ UNCHANGED planState
      BY <1>1, <3>1 DEF planState, OwedInv, RuntimeFollowsLog
    <3>2. CASE Taken(PlanRow(FALSE)) /\ plan' = FALSE
      BY <1>7, <3>2
    <3> QED
      BY <3>1, <3>2 DEF FlushPlan, Lost
  <2> QED
    BY <1>1, <1>2, <1>5, <1>7, <2>1, RoundValid DEF OwedInv, RuntimeFollowsLog
<1> QED
  BY <1>7, <1>8, <1>9, <1>10 DEF OwedInv

LEMMA StepStartOwed ==
    ASSUME OwedInv, StepStart
    PROVE  OwedInv'
<1>1. /\ turn # NoTurn /\ turn.at = "flushed" /\ ~dead
      /\ UNCHANGED <<goal, armed, pending, born, halted, plan, leaving>>
      /\ exit' \in {exit, "stepped"}
  BY NoChangeFacts DEF StepStart, goalState
<1>2. pending = NoChange
  BY <1>1 DEF OwedInv, PlaceInv
<1>3. /\ turn' \in Turns /\ turn'.by = turn.by /\ turn'.at = "tools" /\ turn'.prompted
      /\ turn'.round = turn.round /\ turn' # NoTurn
  BY <1>1, TurnAtFacts DEF StepStart
<1> DEFINE row == Row("round", turn.round, "prompt")
<1>4. \/ UNCHANGED <<log, dead>> /\ synced' = Len(log) /\ ~(turn.by = "round" /\ ~turn.prompted)
      \/ /\ turn.by = "round" /\ ~turn.prompted
         /\ Taken(row) /\ synced' = Len(log') /\ UNCHANGED dead
      \/ dead' = TRUE /\ UNCHANGED <<log, synced>>
      \/ dead' = TRUE /\ Taken(row) /\ UNCHANGED synced
  BY DEF StepStart, Lost
<1>5. /\ Fit(row) /\ row.op = "round" /\ row.goal = turn.round
      /\ Folded(row) = turn.round
  BY DEF OwedInv, TypeInv, IdInv, Turns, Row, Fit, RowType, Callers, Folded
<1> HIDE DEF row
<1>6. /\ TypeInv /\ IdInv /\ HonestLog /\ log \in Seq(RowType) /\ synced \in 0 .. Len(log)
      /\ dead \in BOOLEAN /\ Len(log) \in Nat
      /\ \A i \in DOMAIN log : /\ log[i].op # "clear" => Bounded(log[i].goal)
                               /\ log[i].goal.id <= born
  BY DEF OwedInv, TypeInv, IdInv
<1>7. Taken(row) =>
        /\ log' \in Seq(RowType) /\ Len(log') = Len(log) + 1
        /\ \A i \in DOMAIN log' : /\ log'[i].op # "clear" => Bounded(log'[i].goal)
                                  /\ log'[i].goal.id <= born
        /\ HonestLog'
        /\ LoggedGoal(log') = turn.round
        /\ LoggedPlan(log') = LoggedPlan(log)
  BY <1>5, <1>6, TakenRow
<1>8. /\ log' \in Seq(RowType) /\ synced' \in 0 .. Len(log') /\ dead' \in BOOLEAN
      /\ \A i \in DOMAIN log' : /\ log'[i].op # "clear" => Bounded(log'[i].goal)
                                /\ log'[i].goal.id <= born
      /\ HonestLog'
  <2>1. dead' \in BOOLEAN
    BY <1>4, <1>6
  <2>2. UNCHANGED log \/ Taken(row)
    BY <1>4
  <2>3. synced' = synced \/ synced' = Len(log) \/ synced' = Len(log')
    BY <1>4
  <2>4. CASE UNCHANGED log
    <3>1. synced' \in 0 .. Len(log')
      BY <1>6, <2>3, <2>4
    <3> QED
      BY <1>6, <2>1, <2>4, <3>1, SameLog
  <2>5. CASE Taken(row)
    <3>1. Len(log') = Len(log) + 1
      BY <1>7, <2>5
    <3>2. synced' \in 0 .. Len(log')
      BY <1>6, <2>3, <3>1
    <3> QED
      BY <1>7, <2>1, <2>5, <3>2
  <2> QED
    BY <2>2, <2>4, <2>5
<1>9. TypeInv'
  BY <1>1, <1>3, <1>6, <1>8 DEF TypeInv
<1>10. IdInv' /\ PlaceInv' /\ PendingInv'
  BY <1>1, <1>2, <1>3, <1>6, <1>8, NoChangeFacts DEF OwedInv, IdInv, PlaceInv, PendingInv
<1>11. RuntimeFollowsLog'
  <2> SUFFICES ASSUME ~dead' PROVE goal' = LoggedGoal(log') /\ plan' = LoggedPlan(log')
    BY <1>1, <1>2, <1>3 DEF RuntimeFollowsLog
  <2>1. CASE UNCHANGED log /\ ~(turn.by = "round" /\ ~turn.prompted)
    BY <1>1, <2>1 DEF OwedInv, RuntimeFollowsLog
  <2>2. CASE turn.by = "round" /\ ~turn.prompted /\ Taken(row)
    <3>1. goal = [LoggedGoal(log) EXCEPT !.rounds = @ + 1] /\ plan = LoggedPlan(log)
      BY <1>1, <2>2 DEF OwedInv, RuntimeFollowsLog
    <3>2. turn.round = [LoggedGoal(log) EXCEPT !.rounds = @ + 1]
      BY <1>5, <2>2 DEF Taken, Valid, Accepts
    <3> QED
      BY <1>1, <1>7, <2>2, <3>1, <3>2
  <2> QED
    BY <1>4, <2>1, <2>2
<1> QED
  BY <1>8, <1>9, <1>10, <1>11 DEF OwedInv


LEMMA StepEndOwed ==
    ASSUME OwedInv, StepEnd \/ ApproveExit \/ Sync
    PROVE  OwedInv'
<1>1. /\ ~dead /\ UNCHANGED <<log, goal, armed, pending, born, halted, plan, dead>>
      /\ synced' \in {synced, Len(log)} /\ leaving' \in {leaving, TRUE}
      /\ exit' \in {exit, "approved"}
  BY DEF StepEnd, ApproveExit, Sync, goalState, planState, AmongTools
<1>2. /\ turn' = turn \/ (StepEnd /\ turn' = TurnAt("boundary") /\ turn # NoTurn
                          /\ pending = NoChange /\ turn.at = "tools")
  BY DEF StepEnd, ApproveExit, Sync, goalState, planState, AmongTools
<1>3. /\ turn' \in Turns /\ turn'.by = turn.by /\ turn'.prompted = turn.prompted
      /\ turn'.round = turn.round
      /\ turn' = turn \/ (turn # NoTurn /\ turn' # NoTurn /\ pending = NoChange
                          /\ turn'.at = "boundary")
  BY <1>2, TurnAtFacts DEF OwedInv, TypeInv, Turns
<1>4. TypeInv'
  <2>1. TypeInv
    BY DEF OwedInv
  <2>2. synced' \in 0 .. Len(log')
    BY <1>1, <2>1 DEF TypeInv
  <2>3. leaving' \in BOOLEAN /\ exit' \in {"none", "approved", "stepped"}
    BY <1>1, <2>1 DEF TypeInv
  <2>4. Bounded(goal')
    BY <1>1, <2>1 DEF TypeInv
  <2> QED
    BY <1>1, <1>3, <2>1, <2>2, <2>3, <2>4 DEF TypeInv
<1>5. IdInv' /\ PlaceInv' /\ PendingInv' /\ HonestLog'
  BY <1>1, <1>3, SameLog, NoChangeFacts DEF OwedInv, IdInv, PlaceInv, PendingInv
<1>6. RuntimeFollowsLog'
  BY <1>1, <1>3 DEF OwedInv, RuntimeFollowsLog, Valid
<1> QED
  BY <1>4, <1>5, <1>6 DEF OwedInv

LEMMA TurnEndsOwed ==
    ASSUME OwedInv, NEW completed \in BOOLEAN, TurnEnds(completed)
    PROVE  OwedInv'
<1> DEFINE failed == turn.by = "round" /\ ~completed
           same   == goal # NoGoal /\ goal.revision = turn.round.revision
           paused == failed /\ same /\ goal.phase = "active"
<1>1. /\ turn # NoTurn /\ pending = NoChange /\ ~dead
      /\ turn' = NoTurn
      /\ UNCHANGED <<log, synced, armed, born, plan, leaving, exit, dead>>
      /\ completed => turn.prompted
      /\ halted' \in BOOLEAN
  BY DEF TurnEnds, planState, OwedInv, PlaceInv, TypeInv
<1>2. /\ goal' = (IF failed /\ same THEN RolledBack ELSE goal)
      /\ pending' = (IF paused
                     THEN [row |-> Row("pause", Goal(goal.id, goal.revision + 1, "paused",
                                                     goal.max, goal'.rounds), "failure"),
                           armed |-> FALSE, site |-> "pause"]
                     ELSE NoChange)
  BY DEF TurnEnds
<1>3. /\ goal \in GoalType /\ Bounded(goal) /\ goal.id <= born /\ born \in Nat
      /\ LoggedGoal(log) \in GoalType /\ turn.round \in GoalType
  BY LoggedFacts DEF OwedInv, TypeInv, IdInv, Turns
<1>4. goal' = LoggedGoal(log)
  <2>1. CASE turn.by = "round" /\ ~turn.prompted
    <3>1. goal = [LoggedGoal(log) EXCEPT !.rounds = @ + 1]
          /\ Valid(Row("round", turn.round, "prompt"))
      BY <1>1, <2>1 DEF OwedInv, RuntimeFollowsLog
    <3>2. turn.round = goal /\ LoggedGoal(log).phase = "active"
      BY <3>1 DEF Valid, Accepts, Row
    <3>3. goal.phase = "active" /\ goal.rounds = LoggedGoal(log).rounds + 1
      BY <1>3, <3>1, <3>2 DEF GoalType
    <3>4. failed /\ same
      BY <1>1, <2>1, <3>2, <3>3, NoGoalType
    <3>5. goal' = Counted(goal.rounds - 1)
      BY <1>2, <2>1, <3>2, <3>4 DEF RolledBack
    <3> QED
      BY <1>3, <3>1, <3>3, <3>5 DEF Counted, Goal, GoalType
  <2>2. CASE ~(turn.by = "round" /\ ~turn.prompted)
    <3>1. goal = LoggedGoal(log)
      BY <1>1, <2>2 DEF OwedInv, RuntimeFollowsLog
    <3>2. failed => turn.prompted
      BY <2>2 DEF OwedInv, TypeInv, Turns
    <3>3. goal' = goal
      BY <1>2, <3>2 DEF RolledBack
    <3> QED
      BY <3>1, <3>3
  <2> QED
    BY <2>1, <2>2
<1>5. goal' \in GoalType /\ Bounded(goal') /\ goal'.id <= born
  <2>1. CASE goal' = goal
    BY <1>3, <2>1
  <2>2. CASE goal' = Counted(goal.rounds - 1)
    BY <1>3, <1>4, <2>2 DEF Counted, Goal, Bounded, GoalType
  <2> QED
    BY <1>2, <2>1, <2>2 DEF RolledBack
<1>6. paused => goal'.phase = "active"
  BY <1>2, <1>3 DEF RolledBack, Counted, Goal
<1> DEFINE next == Goal(goal.id, goal.revision + 1, "paused", goal.max, goal'.rounds)
<1>7. /\ next \in GoalType /\ next.id = goal'.id /\ next.revision = goal'.revision + 1
      /\ next.rounds = goal'.rounds /\ next.max = goal'.max /\ next.phase = "paused"
  <2>1. goal'.id = goal.id /\ goal'.revision = goal.revision /\ goal'.max = goal.max
    BY <1>2, <1>3 DEF RolledBack, Counted, Goal
  <2> QED
    BY <1>3, <1>5, <2>1 DEF Goal, GoalType, Phases
<1>8. \/ pending' = NoChange
      \/ /\ paused
         /\ pending' = [row |-> Row("pause", next, "failure"), armed |-> FALSE, site |-> "pause"]
  BY <1>2
<1> HIDE DEF next, failed, same, paused
<1>9. CASE pending' = NoChange
  <2>1. TypeInv' /\ IdInv' /\ PlaceInv' /\ PendingInv' /\ HonestLog'
    BY <1>1, <1>5, <1>9, NoChangeFacts, NoGoalType, SameLog
       DEF OwedInv, TypeInv, IdInv, PlaceInv, PendingInv
  <2>2. RuntimeFollowsLog'
    BY <1>1, <1>4, <1>9, NoChangeFacts DEF OwedInv, RuntimeFollowsLog
  <2> QED
    BY <2>1, <2>2 DEF OwedInv
<1>10. CASE paused /\ pending' = [row |-> Row("pause", next, "failure"), armed |-> FALSE,
                                 site |-> "pause"]
  <2>1. Row("pause", next, "failure") \in RowType
    BY <1>7 DEF Row, RowType, GoalOps, Callers
  <2>2. /\ pending' \in Changes /\ pending'.site = "pause" /\ pending' # NoChange
        /\ pending'.row.op = "pause" /\ pending'.row.by = "failure" /\ pending'.row.goal = next
    BY <1>10, <2>1, NoChangeFacts DEF Changes, Sites, Row
  <2>3. goal' # NoGoal
    BY <1>6, <1>10, NoGoalType
  <2>4. Valid(pending'.row)
    BY <1>4, <1>5, <1>6, <1>7, <1>10, <2>2, <2>3
       DEF Valid, Accepts, SameGoal, Bounded
  <2>5. TypeInv' /\ HonestLog'
    BY <1>1, <1>5, <2>2, NoChangeFacts, SameLog DEF OwedInv, TypeInv
  <2>6. IdInv'
    BY <1>1, <1>5, <1>7, <2>2, NoChangeFacts, NoGoalType DEF OwedInv, IdInv, TypeInv
  <2>7. PlaceInv' /\ PendingInv'
    BY <1>1, <2>2, NoChangeFacts DEF PlaceInv, PendingInv, GoalOps
  <2>8. RuntimeFollowsLog'
    BY <1>1, <1>4, <2>4, NoChangeFacts DEF OwedInv, RuntimeFollowsLog, Valid
  <2> QED
    BY <2>5, <2>6, <2>7, <2>8 DEF OwedInv
<1> QED
  BY <1>8, <1>9, <1>10

LEMMA PlanCommandOwed ==
    ASSUME OwedInv, NEW on \in BOOLEAN, PlanCommand(on)
    PROVE  OwedInv'
<1>1. /\ turn = NoTurn /\ pending = NoChange /\ ~dead
      /\ UNCHANGED <<synced, goal, armed, pending, born, halted, leaving, turn>>
      /\ \/ Taken(PlanRow(on)) /\ plan' = on /\ exit' = "none" /\ UNCHANGED dead
         \/ dead' = TRUE /\ UNCHANGED <<plan, exit>>
      /\ UNCHANGED log \/ Taken(PlanRow(on))
  BY DEF PlanCommand, AtPrompt, goalState, Lost
<1>2. /\ log' \in Seq(RowType) /\ Len(log) \in Nat /\ Len(log) <= Len(log')
      /\ \A i \in DOMAIN log' : /\ log'[i].op # "clear" => Bounded(log'[i].goal)
                                /\ log'[i].goal.id <= born
      /\ HonestLog' /\ LoggedGoal(log') = LoggedGoal(log)
      /\ Taken(PlanRow(on)) => LoggedPlan(log') = on
  BY <1>1, PlanRowTaken
<1>3. goal = LoggedGoal(log)
  BY <1>1, GoalIsLogged
<1>4. TypeInv'
  <2>1. TypeInv
    BY DEF OwedInv
  <2>2. synced' \in 0 .. Len(log')
    BY <1>1, <1>2, <2>1 DEF TypeInv
  <2>3. /\ plan' \in BOOLEAN /\ exit' \in {"none", "approved", "stepped"}
        /\ dead' \in BOOLEAN
    BY <1>1, <2>1 DEF TypeInv
  <2>4. Bounded(goal')
    BY <1>1, <2>1 DEF TypeInv
  <2> QED
    BY <1>1, <1>2, <2>1, <2>2, <2>3, <2>4 DEF TypeInv
<1>5. IdInv' /\ PlaceInv' /\ PendingInv'
  BY <1>1, <1>2, NoChangeFacts DEF OwedInv, IdInv, PlaceInv, PendingInv
<1>6. RuntimeFollowsLog'
  BY <1>1, <1>2, <1>3, NoChangeFacts DEF RuntimeFollowsLog
<1> QED
  BY <1>2, <1>4, <1>5, <1>6 DEF OwedInv

LEMMA RestartOwed ==
    ASSUME OwedInv, Restart
    PROVE  OwedInv'
<1>1. PICK n \in synced .. Len(log) : log' = SubSeq(log, 1, n) /\ synced' = n
  BY DEF Restart
<1>2. log \in Seq(RowType) /\ n \in 0 .. Len(log) /\ born \in Nat
  BY DEF OwedInv, TypeInv
<1>3. /\ log' \in Seq(RowType) /\ Len(log') = n
      /\ \A i \in 1 .. n : log'[i] = log[i]
      /\ DOMAIN log' = 1 .. n /\ DOMAIN log = 1 .. Len(log)
  BY <1>1, <1>2, RoundsFacts
<1>4. /\ goal' = LoggedGoal(log') /\ armed' = FALSE /\ pending' = NoChange
      /\ plan' = LoggedPlan(log') /\ leaving' = FALSE
      /\ turn' = NoTurn /\ dead' = FALSE
      /\ halted' = TRUE /\ exit' = "none" /\ UNCHANGED born
  BY DEF Restart
<1>5. \A i \in DOMAIN log' : /\ log'[i].op # "clear" => Bounded(log'[i].goal)
                             /\ log'[i].goal.id <= born
  BY <1>2, <1>3 DEF OwedInv, TypeInv, IdInv
<1>6. HonestLog'
  <2>1. ASSUME NEW i \in DOMAIN log' PROVE HonestRow(log', i)
    <3>1. i \in Nat /\ i \in DOMAIN log /\ \A j \in 1 .. i : log'[j] = log[j]
      BY <1>2, <1>3
    <3>2. HonestRow(log, i)
      BY <3>1 DEF OwedInv, HonestLog
    <3> QED
      BY <1>2, <1>3, <3>1, <3>2, HonestElsewhere
  <2> QED
    BY <2>1 DEF HonestLog
<1>7. /\ goal' \in GoalType /\ plan' \in BOOLEAN /\ Bounded(goal') /\ goal'.id <= born
  BY <1>2, <1>3, <1>4, <1>5, LoggedFacts, NoGoalType
<1>8. TypeInv'
  <2>1. synced' \in 0 .. Len(log')
    BY <1>1, <1>2, <1>3
  <2>2. /\ armed' \in BOOLEAN /\ leaving' \in BOOLEAN /\ dead' \in BOOLEAN
        /\ halted' \in BOOLEAN /\ exit' \in {"none", "approved", "stepped"}
    BY <1>4
  <2>3. pending' \in Changes /\ turn' \in Turns /\ born' \in Nat
    BY <1>2, <1>4, NoChangeFacts
  <2> QED
    BY <1>3, <1>5, <1>7, <2>1, <2>2, <2>3 DEF TypeInv
<1>9. IdInv' /\ PlaceInv' /\ PendingInv'
  BY <1>2, <1>4, <1>5, <1>7, NoChangeFacts, NoGoalType DEF IdInv, PlaceInv, PendingInv
<1>10. RuntimeFollowsLog'
  BY <1>4, NoChangeFacts DEF RuntimeFollowsLog
<1> QED
  BY <1>6, <1>8, <1>9, <1>10 DEF OwedInv

-----------------------------------------------------------------------------
LEMMA OwedStep == OwedInv /\ [Next]_vars => OwedInv'
<1> SUFFICES ASSUME OwedInv, [Next]_vars PROVE OwedInv'
  OBVIOUS
<1>1. CASE UNCHANGED vars
  <2>1. TypeInv' /\ IdInv' /\ PlaceInv' /\ PendingInv' /\ HonestLog'
    BY <1>1, SameLog DEF vars, OwedInv, TypeInv, IdInv, PlaceInv, PendingInv
  <2>2. RuntimeFollowsLog'
    BY <1>1 DEF vars, OwedInv, RuntimeFollowsLog, Valid
  <2> QED
    BY <2>1, <2>2 DEF OwedInv
<1> QED
  BY <1>1, GoalCommandOwed, GoalToolOwed, DropChangeOwed, CommitChangeOwed, StartRoundOwed,
     StartTurnOwed, FlushPlanOwed, StepStartOwed, StepEndOwed, TurnEndsOwed, PlanCommandOwed,
     RestartOwed
     DEF Next

\* What the runtimes of the goal and of plan mode say is what the log says, and
\* the log is honest, whichever rows fail, are lost or are cut off by a restart.
THEOREM OwedAlways == Spec => []OwedInv
<1> QED
  BY OwedInit, OwedStep, PTL DEF Spec

\* Autonomous work and plan mode are what people decided and what the log says, for
\* every cap, threshold, number of goals and length of the log.
THEOREM AutonomousWorkIsOwed == Spec => []WorkIsOwed
<1>1. OwedInv => TypeOK /\ RuntimeFollowsLog /\ LogIsHonest
  <2> SUFFICES ASSUME OwedInv PROVE TypeOK /\ RuntimeFollowsLog /\ LogIsHonest
    OBVIOUS
  <2>1. TypeInv /\ RuntimeFollowsLog /\ HonestLog
    BY DEF OwedInv
  <2>2. TypeOK
    BY <2>1 DEF TypeInv, TypeOK, GoalType, Changes, Sites, Turns, Bounded
  <2>3. LogIsHonest
    BY <2>1 DEF HonestLog, HonestRow, LogIsHonest
  <2> QED
    BY <2>1, <2>2, <2>3
<1>2. OwedInv /\ HaltedIsDisarmed /\ ExitIsKept => WorkIsOwed
  BY <1>1 DEF WorkIsOwed
<1> QED
  BY <1>2, OwedAlways, HaltedStaysDisarmed, ApprovedExitIsKept, PTL

-----------------------------------------------------------------------------
(* The output of a command.                                               *)

\* What is before the tail and before the window.
StreamStart == IF total <= TailLimit THEN 0 ELSE total - TailLimit

StreamTypes == total \in Nat /\ cursor.offset \in 0 .. total

\* The tail and the window end with the stream.  A file is open from its first
\* byte on, and only closed files are named.
CaptureInv ==
    /\ tail = Out!Bytes(StreamStart + 1, total)
    /\ window = Out!Bytes(StreamStart + 1, total)
    /\ total > TailLimit \/ incomplete => truncated
    /\ spill = "dormant" => total <= TailLimit
    /\ spill = "active" \/ path => file = Out!Bytes(1, total)
    /\ path => Out!Done

\* Everything that was returned lies before the cursor; a loss that named no file
\* is remembered until the end, where there may be none.
ReadInv ==
    /\ returned \in Seq(Nat)
    /\ \A i, j \in DOMAIN returned : i < j => returned[i] < returned[j]
    /\ Out!ToSet(returned) \cup missed = 1 .. cursor.offset
    /\ Out!ToSet(returned) \cap missed = {}
    /\ ~shown => cursor.pendingSpill \/ (Out!Done /\ ~path)

-----------------------------------------------------------------------------
\* A stretch that ends where the stream ended, and the next n bytes.
LEMMA BytesConcat ==
    ASSUME total \in Nat, NEW n \in Nat, NEW a \in 1 .. total + 1
    PROVE  Out!Bytes(a, total) \o Out!Bytes(total + 1, total + n) = Out!Bytes(a, total + n)
<1>1. /\ Out!Bytes(a, total) \in Seq(Nat) /\ Len(Out!Bytes(a, total)) = total + 1 - a
      /\ Out!Bytes(total + 1, total + n) \in Seq(Nat) /\ Len(Out!Bytes(total + 1, total + n)) = n
  BY DEF Out!Bytes
<1> QED
  BY <1>1 DEF Out!Bytes

\* The last n bytes of a stretch.
LEMMA BytesSuffix ==
    ASSUME NEW a \in Nat, NEW b \in Nat, NEW n \in Nat, 1 <= a, a <= b + 1
    PROVE  Out!Suffix(Out!Bytes(a, b), n)
             = IF b + 1 - a <= n THEN Out!Bytes(a, b) ELSE Out!Bytes(b - n + 1, b)
<1>1. Out!Bytes(a, b) \in Seq(Nat) /\ Len(Out!Bytes(a, b)) = b + 1 - a
  BY DEF Out!Bytes
<1>2. CASE b + 1 - a <= n
  BY <1>1, <1>2 DEF Out!Suffix
<1>3. CASE ~(b + 1 - a <= n)
  <2> DEFINE s == Out!Bytes(a, b)
  <2>1. Out!Suffix(s, n) = SubSeq(s, (b + 1 - a) - n + 1, b + 1 - a)
    BY <1>1, <1>3 DEF Out!Suffix
  <2>2. /\ (b + 1 - a) - n + 1 \in 1 .. Len(s) + 1 /\ b + 1 - a \in 0 .. Len(s)
        /\ \A i \in 1 .. Len(s) : s[i] = a + i - 1
    BY <1>1, <1>3 DEF Out!Bytes
  <2> HIDE DEF s
  <2>3. SubSeq(s, (b + 1 - a) - n + 1, b + 1 - a) = [i \in 1 .. n |-> s[i + (b + 1 - a) - n]]
    BY <1>1, <1>3, <2>2
  <2>4. [i \in 1 .. n |-> s[i + (b + 1 - a) - n]] = [i \in 1 .. n |-> b - n + i]
    BY <1>1, <1>3, <2>2 DEF s
  <2>5. [i \in 1 .. n |-> b - n + i] = Out!Bytes(b - n + 1, b)
    BY <1>3 DEF Out!Bytes
  <2>6. Out!Suffix(s, n) = Out!Bytes(b - n + 1, b)
    BY <2>1, <2>3, <2>4, <2>5
  <2> QED
    BY <1>3, <2>6 DEF s
<1> QED
  BY <1>2, <1>3

\* One more read of the pipe, for a tail or a window that ends with the stream.
LEMMA Pushed ==
    ASSUME TailLimit \in Nat, total \in Nat, NEW n \in Nat \ {0}
    PROVE  Out!Suffix(Out!Bytes(StreamStart + 1, total) \o Out!Bytes(total + 1, total + n),
          TailLimit)
              = Out!Bytes((IF total + n <= TailLimit THEN 0 ELSE total + n - TailLimit) + 1,
                    total + n)
<1>1. StreamStart \in 0 .. total
  BY DEF StreamStart
<1>2. Out!Bytes(StreamStart + 1, total) \o Out!Bytes(total + 1, total + n)
        = Out!Bytes(StreamStart + 1, total + n)
  <2> DEFINE a == StreamStart + 1
  <2>1. a \in 1 .. total + 1
    BY <1>1
  <2> HIDE DEF a
  <2>2. Out!Bytes(a, total) \o Out!Bytes(total + 1, total + n) = Out!Bytes(a, total + n)
    BY <2>1, BytesConcat
  <2> QED
    BY <2>2 DEF a
<1>3. Out!Suffix(Out!Bytes(StreamStart + 1, total + n), TailLimit)
        = IF total + n + 1 - (StreamStart + 1) <= TailLimit
          THEN Out!Bytes(StreamStart + 1, total + n)
          ELSE Out!Bytes(total + n - TailLimit + 1, total + n)
  BY <1>1, BytesSuffix
<1>4. CASE total + n <= TailLimit
  <2>1. StreamStart = 0
    BY <1>4 DEF StreamStart
  <2>2. total + n + 1 - (StreamStart + 1) <= TailLimit
    BY <1>4, <2>1
  <2>3. Out!Bytes((IF total + n <= TailLimit THEN 0 ELSE total + n - TailLimit) + 1, total + n)
          = Out!Bytes(StreamStart + 1, total + n)
    BY <1>4, <2>1
  <2> QED
    BY <1>2, <1>3, <2>2, <2>3
<1>5. CASE ~(total + n <= TailLimit)
  <2>1. ~(total + n + 1 - (StreamStart + 1) <= TailLimit)
    BY <1>5 DEF StreamStart
  <2> QED
    BY <1>2, <1>3, <1>5, <2>1
<1> QED
  BY <1>4, <1>5

-----------------------------------------------------------------------------
LEMMA CaptureInit == TailLimit \in Nat /\ Out!Init => StreamTypes /\ CaptureInv
<1> SUFFICES ASSUME TailLimit \in Nat, Out!Init PROVE StreamTypes /\ CaptureInv
  OBVIOUS
<1>1. total = 0 /\ total \in Nat /\ cursor.offset = 0 /\ tail = <<>> /\ window = <<>>
  BY DEF Out!Init
<1>2. Out!Bytes(1, 0) = <<>>
  BY DEF Out!Bytes
<1>3. StreamStart = 0
  BY <1>1 DEF StreamStart
<1> QED
  BY <1>1, <1>2, <1>3 DEF Out!Init, StreamTypes, CaptureInv

LEMMA StreamTypesStep ==
    ASSUME TailLimit \in Nat
    PROVE  StreamTypes /\ CaptureInv /\ [Out!Next]_Out!vars => StreamTypes'
<1> SUFFICES ASSUME StreamTypes, CaptureInv, [Out!Next]_Out!vars PROVE StreamTypes'
  OBVIOUS
<1> USE DEF StreamTypes
<1>1. ASSUME NEW n \in Nat \ {0}, NEW ok \in BOOLEAN, Out!Push(n, ok) PROVE StreamTypes'
  BY <1>1 DEF Out!Push
<1>2. CASE Out!DirectoryFails
  BY <1>2 DEF Out!DirectoryFails
<1>3. ASSUME NEW b \in BOOLEAN, Out!CloseStream(b) PROVE StreamTypes'
  BY <1>3 DEF Out!CloseStream
<1>4. ASSUME NEW b \in BOOLEAN, Out!Finish(b) PROVE StreamTypes'
  BY <1>4 DEF Out!Finish
<1>5. CASE Out!Read
  BY <1>5 DEF Out!Read, Out!NextCursor
<1>6. CASE UNCHANGED Out!vars
  BY <1>6 DEF Out!vars
<1> QED
  BY <1>1, <1>2, <1>3, <1>4, <1>5, <1>6 DEF Out!Next

LEMMA CaptureStep ==
    ASSUME TailLimit \in Nat
    PROVE  StreamTypes /\ CaptureInv /\ [Out!Next]_Out!vars => CaptureInv'
<1> SUFFICES ASSUME StreamTypes, CaptureInv, [Out!Next]_Out!vars PROVE CaptureInv'
  OBVIOUS
<1> USE DEF CaptureInv, Out!Done
<1>1. ASSUME NEW n \in Nat \ {0}, NEW ok \in BOOLEAN, Out!Push(n, ok) PROVE CaptureInv'
  <2> DEFINE chunk == Out!Bytes(total + 1, total + n)
  <2>1. total \in Nat /\ total' = total + n /\ state = "open" /\ state' = state /\ ~path /\ ~path'
    BY <1>1 DEF Out!Push, StreamTypes
  <2>2. tail' = Out!Bytes(StreamStart' + 1, total') /\ window' = Out!Bytes(StreamStart' + 1, total')
    <3>1. /\ tail' = Out!Suffix(tail \o chunk, TailLimit)
          /\ window' = Out!Suffix(window \o chunk, TailLimit)
      BY <1>1 DEF Out!Push, Out!PushTail, Out!PushWindow
    <3>2. StreamStart' = IF total + n <= TailLimit THEN 0 ELSE total + n - TailLimit
      BY <2>1 DEF StreamStart
    <3> QED
      BY <2>1, <3>1, <3>2, Pushed
  <2>3. total' > TailLimit \/ incomplete' => truncated'
    <3>1. StreamStart \in 0 .. total /\ Len(tail) = total - StreamStart /\ Len(chunk) = n
      BY <2>1 DEF StreamStart, Out!Bytes
    <3>2. /\ incomplete' = incomplete
          /\ truncated' = (truncated \/ Len(tail) + Len(chunk) > TailLimit)
      BY <1>1 DEF Out!Push, Out!TailCuts
    <3>3. total' > TailLimit => truncated \/ Len(tail) + Len(chunk) > TailLimit
      <4>1. CASE total > TailLimit
        BY <4>1
      <4>2. CASE total <= TailLimit
        <5>1. Len(tail) = total
          BY <2>1, <3>1, <4>2 DEF StreamStart
        <5> QED
          BY <2>1, <3>1, <5>1
      <4> QED
        BY <2>1, <4>1, <4>2
    <3> QED
      BY <3>2, <3>3
  <2>4. spill' = "dormant" => total' <= TailLimit
    BY <1>1, <2>1 DEF Out!Push, Out!OpensSpill
  <2>5. spill' = "active" => file' = Out!Bytes(1, total')
    <3> SUFFICES ASSUME spill' = "active" PROVE file' = Out!Bytes(1, total')
      OBVIOUS
    <3>1. Out!Bytes(1, total) \o chunk = Out!Bytes(1, total')
      <4>1. Out!Bytes(1, total) \o Out!Bytes(total + 1, total + n) = Out!Bytes(1, total + n)
        <5>1. 1 \in 1 .. total + 1
          BY <2>1
        <5> QED
          BY <2>1, <5>1, BytesConcat
      <4> QED
        BY <2>1, <4>1
    <3>2. CASE spill = "active"
      BY <1>1, <2>1, <3>1, <3>2 DEF Out!Push, Out!Written
    <3>3. CASE spill # "active"
      <4>1. spill = "dormant" /\ file' = tail \o chunk
        BY <1>1, <3>3 DEF Out!Push, Out!Written, Out!OpensSpill
      <4>2. tail = Out!Bytes(1, total)
        BY <2>1, <4>1 DEF StreamStart
      <4> QED
        BY <3>1, <4>1, <4>2
    <3> QED
      BY <3>2, <3>3
  <2> QED
    BY <2>1, <2>2, <2>3, <2>4, <2>5
<1>2. CASE Out!DirectoryFails
  BY <1>2 DEF Out!DirectoryFails, StreamStart
<1>3. ASSUME NEW b \in BOOLEAN, Out!CloseStream(b) PROVE CaptureInv'
  BY <1>3 DEF Out!CloseStream, StreamStart
<1>4. ASSUME NEW b \in BOOLEAN, Out!Finish(b) PROVE CaptureInv'
  BY <1>4 DEF Out!Finish, StreamStart
<1>5. CASE Out!Read
  BY <1>5 DEF Out!Read, StreamStart
<1>6. CASE UNCHANGED Out!vars
  BY <1>6 DEF Out!vars, StreamStart
<1> QED
  BY <1>1, <1>2, <1>3, <1>4, <1>5, <1>6 DEF Out!Next

\* For every stream, every size of a read and every limit, the tail is the end of
\* the stream and says so when something is missing, and a file that is named
\* holds every byte (TailCapture::push, SpillCapture::push and finish).
THEOREM CaptureExact ==
    ASSUME TailLimit \in Nat
    PROVE  Out!Spec => []Out!CaptureIsExact
<1>1. StreamTypes /\ CaptureInv => Out!CaptureIsExact
  <2> SUFFICES ASSUME StreamTypes, CaptureInv
        PROVE tail = Out!Suffix(Out!Bytes(1, total), TailLimit)
    BY DEF CaptureInv, Out!CaptureIsExact
  <2>1. total \in Nat
    BY DEF StreamTypes
  <2> QED
    BY <2>1, BytesSuffix DEF CaptureInv, StreamStart
<1> QED
  BY <1>1, CaptureInit, StreamTypesStep, CaptureStep, PTL DEF Out!Spec

-----------------------------------------------------------------------------
LEMMA ReadInit == Out!Init => ReadInv
  BY DEF Out!Init, ReadInv, Out!Done, Out!ToSet

\* A sequence without its first k members.
LEMMA SuffixFrom ==
    ASSUME NEW w \in Seq(Nat), NEW k \in 0 .. Len(w)
    PROVE  /\ SubSeq(w, k + 1, Len(w)) \in Seq(Nat)
           /\ Len(SubSeq(w, k + 1, Len(w))) = Len(w) - k
           /\ \A i \in 1 .. Len(w) - k : SubSeq(w, k + 1, Len(w))[i] = w[i + k]
<1> DEFINE n == Len(w)
<1>1. n \in Nat /\ k \in 0 .. n /\ k + 1 \in 1 .. n + 1 /\ \A i \in 1 .. n : w[i] \in Nat
  OBVIOUS
<1>2. SubSeq(w, k + 1, n) = [i \in 1 .. n - k |-> w[i + k]]
  <2>1. SubSeq(w, k + 1, n) = [i \in 1 .. (1 + n - (k + 1)) |-> w[i + (k + 1) - 1]]
    BY <1>1
  <2>2. 1 + n - (k + 1) = n - k
    BY <1>1
  <2>3. \A i \in 1 .. n - k : i + (k + 1) - 1 = i + k
    BY <1>1
  <2> QED
    BY <2>1, <2>2, <2>3
<1>3. n - k \in Nat /\ \A i \in 1 .. n - k : i + k \in 1 .. n
  BY <1>1
<1> HIDE DEF n
<1>4. [i \in 1 .. n - k |-> w[i + k]] \in Seq(Nat)
  BY <1>1, <1>3
<1>5. Len([i \in 1 .. n - k |-> w[i + k]]) = n - k
  BY <1>3
<1> QED
  BY <1>2, <1>4, <1>5 DEF n

\* Numbers that grow, none above c, and the numbers from f + 1 on.
LEMMA Appended ==
    ASSUME NEW r \in Seq(Nat), NEW d \in Seq(Nat), NEW c \in Nat, NEW f \in Nat, c <= f,
           \A i \in 1 .. Len(r) : r[i] <= c,
           \A i, j \in 1 .. Len(r) : i < j => r[i] < r[j],
           \A i \in 1 .. Len(d) : d[i] = f + i
    PROVE  /\ r \o d \in Seq(Nat)
           /\ \A i, j \in DOMAIN (r \o d) : i < j => (r \o d)[i] < (r \o d)[j]
           /\ Out!ToSet(r \o d) = Out!ToSet(r) \cup (f + 1 .. f + Len(d))
<1> DEFINE s == r \o d  m == Len(r)  n == Len(d)
<1>1. /\ s \in Seq(Nat) /\ m \in Nat /\ n \in Nat /\ DOMAIN s = 1 .. m + n
      /\ DOMAIN r = 1 .. m
      /\ \A i \in 1 .. m : r[i] \in Nat
  OBVIOUS
<1>2. \A i \in 1 .. m : s[i] = r[i]
  OBVIOUS
<1>3. \A i \in m + 1 .. m + n : s[i] = f + (i - m)
  OBVIOUS
<1> HIDE DEF s, m, n
<1>4. \A i, j \in 1 .. m : i < j => r[i] < r[j]
  BY DEF m
<1>5. \A i \in 1 .. m : r[i] <= c
  BY DEF m
<1>6. ASSUME NEW i \in DOMAIN s, NEW j \in DOMAIN s, i < j PROVE s[i] < s[j]
  <2>1. CASE j <= m
    BY <1>1, <1>2, <1>4, <1>6, <2>1
  <2>2. CASE i > m
    <3>1. i \in m + 1 .. m + n /\ j \in m + 1 .. m + n
      BY <1>1, <1>6, <2>2
    <3>2. s[i] = f + (i - m) /\ s[j] = f + (j - m)
      BY <1>3, <3>1
    <3> QED
      BY <1>1, <1>6, <3>1, <3>2
  <2>3. CASE i <= m /\ j > m
    <3>1. s[i] <= c /\ s[i] \in Nat
      BY <1>1, <1>2, <1>5, <2>3
    <3>2. s[j] = f + (j - m)
      BY <1>1, <1>3, <2>3
    <3> QED
      BY <1>1, <2>3, <3>1, <3>2
  <2> QED
    BY <1>1, <2>1, <2>2, <2>3
<1>7. Out!ToSet(s) = Out!ToSet(r) \cup (f + 1 .. f + n)
  <2>1. ASSUME NEW i \in DOMAIN s PROVE s[i] \in Out!ToSet(r) \cup (f + 1 .. f + n)
    <3>1. CASE i <= m
      BY <1>1, <1>2, <3>1 DEF Out!ToSet
    <3>2. CASE i > m
      BY <1>1, <1>3, <3>2
    <3> QED
      BY <1>1, <3>1, <3>2
  <2>2. ASSUME NEW i \in DOMAIN r PROVE r[i] \in Out!ToSet(s)
    <3>1. i \in DOMAIN s /\ s[i] = r[i]
      BY <1>1, <1>2
    <3> QED
      BY <3>1 DEF Out!ToSet
  <2>3. ASSUME NEW b \in f + 1 .. f + n PROVE b \in Out!ToSet(s)
    <3>1. m + (b - f) \in DOMAIN s /\ s[m + (b - f)] = b
      BY <1>1, <1>3
    <3> QED
      BY <3>1 DEF Out!ToSet
  <2> QED
    BY <2>1, <2>2, <2>3 DEF Out!ToSet
<1> QED
  BY <1>1, <1>6, <1>7 DEF s, n

\* The first byte that a read returns is the one behind the cursor or, after a
\* loss, the first of the window.
FirstNew == IF cursor.offset < StreamStart THEN StreamStart ELSE cursor.offset

LEMMA DeltaIsNew ==
    ASSUME TailLimit \in Nat, StreamTypes, CaptureInv
    PROVE  /\ FirstNew \in cursor.offset .. total
           /\ Out!Delta \in Seq(Nat) /\ Len(Out!Delta) = total - FirstNew
           /\ \A i \in 1 .. total - FirstNew : Out!Delta[i] = FirstNew + i
           /\ (IF Out!Announces /\ Out!Lossy THEN cursor.offset + 1 .. Out!WindowStart ELSE {})
                = cursor.offset + 1 .. FirstNew
<1>1. /\ total \in Nat /\ cursor.offset \in 0 .. total /\ StreamStart \in 0 .. total
  BY DEF StreamTypes, StreamStart
<1>2. /\ window \in Seq(Nat) /\ Len(window) = total - StreamStart
      /\ \A i \in 1 .. total - StreamStart : window[i] = StreamStart + i
  <2>1. window = [i \in 1 .. total + 1 - (StreamStart + 1) |-> StreamStart + 1 + i - 1]
    BY DEF CaptureInv, Out!Bytes
  <2> QED
    BY <1>1, <2>1
<1>3. Out!WindowStart = StreamStart /\ (Out!Lossy <=> cursor.offset < StreamStart)
  BY <1>1, <1>2 DEF Out!WindowStart, Out!Lossy
<1>4. CASE Out!Lossy
  BY <1>1, <1>2, <1>3, <1>4 DEF FirstNew, Out!Delta, Out!Announces
<1>5. CASE ~Out!Lossy
  <2>1. FirstNew = cursor.offset /\ StreamStart <= cursor.offset
    BY <1>1, <1>3, <1>5 DEF FirstNew
  <2>2. Out!Delta = SubSeq(window, cursor.offset - StreamStart + 1, Len(window))
    BY <1>3, <1>5 DEF Out!Delta
  <2> DEFINE k == cursor.offset - StreamStart
  <2>3. k \in 0 .. Len(window) /\ total - cursor.offset = Len(window) - k
        /\ k + StreamStart = cursor.offset
    BY <1>1, <1>2, <2>1
  <2> HIDE DEF k
  <2>4. Out!Delta = SubSeq(window, k + 1, Len(window))
    BY <2>2 DEF k
  <2>5. /\ Out!Delta \in Seq(Nat) /\ Len(Out!Delta) = Len(window) - k
        /\ \A i \in 1 .. Len(window) - k : Out!Delta[i] = window[i + k]
    BY <1>2, <2>3, <2>4, SuffixFrom
  <2>6. \A i \in 1 .. total - cursor.offset : Out!Delta[i] = cursor.offset + i
    BY <1>1, <1>2, <2>1, <2>3, <2>5
  <2>7. cursor.offset + 1 .. FirstNew = {}
    BY <1>1, <2>1
  <2> QED
    BY <1>1, <1>5, <2>1, <2>3, <2>5, <2>6, <2>7
<1> QED
  BY <1>4, <1>5

LEMMA ReadStep ==
    ASSUME TailLimit \in Nat
    PROVE  StreamTypes /\ CaptureInv /\ ReadInv /\ [Out!Next]_Out!vars => ReadInv'
<1> SUFFICES ASSUME StreamTypes, CaptureInv, ReadInv, [Out!Next]_Out!vars PROVE ReadInv'
  OBVIOUS
<1> USE DEF ReadInv, Out!Done
<1>1. ASSUME NEW n \in Nat \ {0}, NEW ok \in BOOLEAN, Out!Push(n, ok) PROVE ReadInv'
  BY <1>1 DEF Out!Push
<1>2. CASE Out!DirectoryFails
  BY <1>2 DEF Out!DirectoryFails
<1>3. ASSUME NEW b \in BOOLEAN, Out!CloseStream(b) PROVE ReadInv'
  BY <1>3 DEF Out!CloseStream, CaptureInv
<1>4. ASSUME NEW b \in BOOLEAN, Out!Finish(b) PROVE ReadInv'
  BY <1>4 DEF Out!Finish
<1>5. CASE Out!Read
  <2>1. /\ returned' = returned \o Out!Delta /\ missed' = missed
             \cup (cursor.offset + 1 .. FirstNew)
        /\ cursor'.offset = total
    BY <1>5, DeltaIsNew DEF Out!Read, Out!NextCursor
  <2>2. /\ total \in Nat /\ FirstNew \in cursor.offset .. total /\ cursor.offset \in 0 .. total
        /\ Out!Delta \in Seq(Nat) /\ Len(Out!Delta) = total - FirstNew
        /\ \A i \in 1 .. total - FirstNew : Out!Delta[i] = FirstNew + i
    BY DeltaIsNew DEF StreamTypes
  <2>3. \A i \in 1 .. Len(returned) : returned[i] \in 1 .. cursor.offset
    BY DEF Out!ToSet
  <2>4. cursor.offset <= FirstNew /\ FirstNew \in Nat /\ FirstNew + Len(Out!Delta) = total
    BY <2>2
  <2>5. \A i, j \in 1 .. Len(returned) : i < j => returned[i] < returned[j]
    OBVIOUS
  <2>6. /\ returned' \in Seq(Nat)
        /\ \A i, j \in DOMAIN returned' : i < j => returned'[i] < returned'[j]
        /\ Out!ToSet(returned') = Out!ToSet(returned) \cup (FirstNew + 1 .. total)
    <3> DEFINE c == cursor.offset  f == FirstNew  d == Out!Delta
    <3>1. /\ c \in Nat /\ f \in Nat /\ c <= f /\ d \in Seq(Nat) /\ returned \in Seq(Nat)
          /\ \A i \in 1 .. Len(returned) : returned[i] <= c
          /\ \A i \in 1 .. Len(d) : d[i] = f + i
          /\ f + Len(d) = total /\ returned' = returned \o d
      BY <2>1, <2>2, <2>3, <2>4
    <3> HIDE DEF c, f, d
    <3>2. /\ returned \o d \in Seq(Nat)
          /\ \A i, j \in DOMAIN (returned \o d) : i < j => (returned \o d)[i] < (returned \o d)[j]
          /\ Out!ToSet(returned \o d) = Out!ToSet(returned) \cup (f + 1 .. f + Len(d))
      BY <2>5, <3>1, Appended
    <3> QED
      BY <3>1, <3>2 DEF f
  <2>7. Out!ToSet(returned') \cup missed' = 1 .. cursor'.offset
    BY <2>1, <2>2, <2>6
  <2>8. Out!ToSet(returned') \cap missed' = {}
    BY <2>1, <2>2, <2>6
  <2>9. ~shown' => cursor'.pendingSpill \/ (Out!Done' /\ ~path')
    BY <1>5 DEF Out!Read, Out!NextCursor, Out!Announces, Out!NewSpill, CaptureInv
  <2> QED
    BY <2>6, <2>7, <2>8, <2>9
<1>6. CASE UNCHANGED Out!vars
  BY <1>6 DEF Out!vars
<1> QED
  BY <1>1, <1>2, <1>3, <1>4, <1>5, <1>6 DEF Out!Next

\* Reads of a background job return every byte up to the cursor once and in order,
\* or skip it and say so; a reader that has seen the end after a loss was told of
\* the file (ProcessOutputTap::read).
THEOREM ReadsExact ==
    ASSUME TailLimit \in Nat
    PROVE  Out!Spec => []Out!ReadsAreExact
<1>1. ReadInv => Out!ReadsAreExact
  BY DEF ReadInv, Out!ReadsAreExact
<1> QED
  BY <1>1, CaptureInit, StreamTypesStep, CaptureStep, ReadInit, ReadStep, PTL DEF Out!Spec

-----------------------------------------------------------------------------
(* The title of a session.                                                 *)

TitleRows == [kind : Titles!Kinds, of : Nat, by : {"user", "auto", "command"}]
PromptRow == Titles!Row("prompt", 0, "user")

LogTypes ==
    /\ titleLog \in Seq(TitleRows)
    /\ titleSynced \in 0 .. Len(titleLog)
    /\ \A i \in DOMAIN titleLog : titleLog[i].kind = "prompt" => titleLog[i] = PromptRow
    /\ agent = "entered" => Titles!IsPrompt(Len(titleLog))

\* How far the automatic path has come, seen in the log.
TitlePath ==
    /\ titleState = "armed" => \A i \in DOMAIN titleLog : titleLog[i] = PromptRow
    /\ titleState = "pending" =>
          /\ Titles!IsPrompt(about)
          /\ \A i \in DOMAIN titleLog : titleLog[i] \in {PromptRow, Titles!Row("fallback", about,
               "auto")}
    /\ titleState = "running" =>
          /\ Titles!IsPrompt(about)
          /\ \A i \in DOMAIN titleLog : titleLog[i] \in {PromptRow, Titles!Row("fallback", about,
               "auto"),
                                               Titles!Row("request", about, "auto")}
          /\ \E i \in DOMAIN titleLog : titleLog[i] = Titles!Row("request", about, "auto")
    /\ agent \in {"refresh", "asking"} => titleState = "done"

TitleShape == Titles!CommandsWin /\ Titles!AskedOnce /\ Titles!TitlesAreOfPrompts

\* What a row that is appended to the log must satisfy.
MayFollow(r) ==
    /\ r.kind = "prompt" => r = PromptRow
    /\ r.by = "auto" => \A i \in DOMAIN titleLog :
          /\ titleLog[i].by # "command"
          /\ titleLog[i].by = "auto" =>
                /\ titleLog[i].of = r.of
                /\ <<titleLog[i].kind, r.kind>> \in {<<"fallback", "request">>,
                       <<"fallback", "title">>, <<"request", "title">>}
    /\ r.by = "auto" /\ r.kind = "title" =>
          \E i \in DOMAIN titleLog : titleLog[i] = Titles!Row("request", r.of, "auto")
    /\ r.kind \in {"fallback", "request", "title"} =>
          /\ Titles!IsPrompt(r.of)
          /\ r.by = "command" => Titles!IsFirstPrompt(r.of)

-----------------------------------------------------------------------------
\* What Append and a prefix do to the rows.
LEMMA AppendRows ==
    ASSUME LogTypes, NEW r \in TitleRows, titleLog' = Append(titleLog, r)
    PROVE  /\ titleLog' \in Seq(TitleRows) /\ Len(titleLog') = Len(titleLog) + 1
           /\ DOMAIN titleLog = 1 .. Len(titleLog) /\ DOMAIN titleLog' = 1 .. Len(titleLog) + 1
           /\ Len(titleLog) \in Nat
           /\ \A i \in DOMAIN titleLog : titleLog'[i] = titleLog[i]
           /\ titleLog'[Len(titleLog) + 1] = r
BY DEF LogTypes

LEMMA PrefixRows ==
    ASSUME LogTypes, NEW n \in 0 .. Len(titleLog), titleLog' = SubSeq(titleLog, 1, n)
    PROVE  /\ titleLog' \in Seq(TitleRows) /\ Len(titleLog') = n
           /\ DOMAIN titleLog = 1 .. Len(titleLog) /\ DOMAIN titleLog' = 1 .. n
           /\ Len(titleLog) \in Nat
           /\ \A i \in DOMAIN titleLog' : i \in DOMAIN titleLog /\ titleLog'[i] = titleLog[i]
<1>1. titleLog \in Seq(TitleRows) /\ Len(titleLog) \in Nat /\ DOMAIN titleLog = 1 .. Len(titleLog)
  BY DEF LogTypes
<1>2. SubSeq(titleLog, 1, n) = [i \in 1 .. n |-> titleLog[i]]
  BY <1>1
<1>3. titleLog' \in Seq(TitleRows) /\ Len(titleLog') = n
  BY <1>1
<1> QED
  BY <1>1, <1>2, <1>3

\* The properties pass to every prefix of the log.
LEMMA PrefixKeeps ==
    ASSUME LogTypes, TitleShape, NEW n \in 0 .. Len(titleLog), titleLog' = SubSeq(titleLog, 1, n)
    PROVE  TitleShape'
<1>1. \A i \in DOMAIN titleLog' : i \in DOMAIN titleLog /\ titleLog'[i] = titleLog[i]
  BY PrefixRows
<1>2. DOMAIN titleLog' = 1 .. n /\ DOMAIN titleLog = 1 .. Len(titleLog) /\ Len(titleLog) \in Nat
  BY PrefixRows
<1>3. Titles!CommandsWin'
  BY <1>1 DEF TitleShape, Titles!CommandsWin
<1>4. Titles!AskedOnce'
  <2>1. ASSUME NEW i \in DOMAIN titleLog', NEW j \in DOMAIN titleLog', i < j,
               titleLog'[i].by = "auto", titleLog'[j].by = "auto"
        PROVE  /\ titleLog'[i].of = titleLog'[j].of
               /\ <<titleLog'[i].kind, titleLog'[j].kind>> \in {<<"fallback", "request">>,
                      <<"fallback", "title">>, <<"request", "title">>}
    BY <1>1, <2>1 DEF TitleShape, Titles!AskedOnce
  <2>2. ASSUME NEW j \in DOMAIN titleLog', titleLog'[j].by = "auto", titleLog'[j].kind = "title"
        PROVE  \E i \in 1 .. j - 1 : titleLog'[i] = Titles!Row("request", titleLog'[j].of, "auto")
    <3>1. PICK i \in 1 .. j - 1 : titleLog[i] = Titles!Row("request", titleLog[j].of, "auto")
      BY <1>1, <2>2 DEF TitleShape, Titles!AskedOnce
    <3>2. i \in DOMAIN titleLog'
      BY <1>2
    <3> QED
      BY <1>1, <3>1, <3>2
  <2> QED
    BY <2>1, <2>2 DEF Titles!AskedOnce
<1>5. Titles!TitlesAreOfPrompts'
  <2> SUFFICES ASSUME NEW j \in DOMAIN titleLog', titleLog'[j].kind \in {"fallback", "request",
        "title"}
               PROVE  /\ titleLog'[j].of \in 1 .. j - 1
                           /\ titleLog'[titleLog'[j].of].kind = "prompt"
                      /\ titleLog'[j].by = "command" =>
                            \A i \in 1 .. titleLog'[j].of - 1 : titleLog'[i].kind # "prompt"
    BY DEF Titles!TitlesAreOfPrompts
  <2>1. /\ titleLog[j].of \in 1 .. j - 1 /\ titleLog[titleLog[j].of].kind = "prompt"
        /\ titleLog[j].by = "command"
             => \A i \in 1 .. titleLog[j].of - 1 : titleLog[i].kind # "prompt"
    BY <1>1 DEF TitleShape, Titles!TitlesAreOfPrompts
  <2>2. \A i \in 1 .. j - 1 : i \in DOMAIN titleLog'
    BY <1>2
  <2>3. \A i \in 1 .. titleLog[j].of - 1 : i \in 1 .. j - 1
    BY <1>2, <2>1
  <2> QED
    BY <1>1, <2>1, <2>2, <2>3
<1> QED
  BY <1>3, <1>4, <1>5 DEF TitleShape

\* They pass to a log that is extended by a row that may follow.
LEMMA AppendKeeps ==
    ASSUME LogTypes, TitleShape, NEW r \in TitleRows, MayFollow(r), titleLog' = Append(titleLog, r)
    PROVE  TitleShape'
<1> DEFINE last == Len(titleLog) + 1
<1>1. /\ \A i \in DOMAIN titleLog : titleLog'[i] = titleLog[i]
      /\ titleLog'[last] = r
      /\ DOMAIN titleLog = 1 .. Len(titleLog) /\ DOMAIN titleLog' = 1 .. last
           /\ Len(titleLog) \in Nat
  BY AppendRows
<1>2. \A i \in DOMAIN titleLog' : i \in DOMAIN titleLog \/ i = last
  BY <1>1
<1>3. \A i \in DOMAIN titleLog', j \in DOMAIN titleLog' : i < j => i \in DOMAIN titleLog
  BY <1>1
<1>4. Titles!CommandsWin'
  BY <1>1, <1>2, <1>3 DEF TitleShape, Titles!CommandsWin, MayFollow
<1>5. Titles!AskedOnce'
  <2>1. ASSUME NEW i \in DOMAIN titleLog', NEW j \in DOMAIN titleLog', i < j,
               titleLog'[i].by = "auto", titleLog'[j].by = "auto"
        PROVE  /\ titleLog'[i].of = titleLog'[j].of
               /\ <<titleLog'[i].kind, titleLog'[j].kind>> \in {<<"fallback", "request">>,
                      <<"fallback", "title">>, <<"request", "title">>}
    <3>1. i \in DOMAIN titleLog /\ titleLog'[i] = titleLog[i]
      BY <1>1, <1>3, <2>1
    <3>2. CASE j \in DOMAIN titleLog
      BY <1>1, <2>1, <3>1, <3>2 DEF TitleShape, Titles!AskedOnce
    <3>3. CASE j = last
      BY <1>1, <2>1, <3>1, <3>3 DEF MayFollow
    <3> QED
      BY <1>2, <3>2, <3>3
  <2>2. ASSUME NEW j \in DOMAIN titleLog', titleLog'[j].by = "auto", titleLog'[j].kind = "title"
        PROVE  \E i \in 1 .. j - 1 : titleLog'[i] = Titles!Row("request", titleLog'[j].of, "auto")
    <3>1. CASE j \in DOMAIN titleLog
      <4>1. PICK i \in 1 .. j - 1 : titleLog[i] = Titles!Row("request", titleLog[j].of, "auto")
        BY <1>1, <2>2, <3>1 DEF TitleShape, Titles!AskedOnce
      <4>2. i \in DOMAIN titleLog
        BY <1>1, <3>1
      <4> QED
        BY <1>1, <3>1, <4>1, <4>2
    <3>2. CASE j = last
      <4>1. PICK i \in DOMAIN titleLog : titleLog[i] = Titles!Row("request", r.of, "auto")
        BY <1>1, <2>2, <3>2 DEF MayFollow
      <4>2. i \in 1 .. j - 1
        BY <1>1, <3>2
      <4> QED
        BY <1>1, <3>2, <4>1, <4>2
    <3> QED
      BY <1>2, <3>1, <3>2
  <2> QED
    BY <2>1, <2>2 DEF Titles!AskedOnce
<1>6. Titles!TitlesAreOfPrompts'
  <2> SUFFICES ASSUME NEW j \in DOMAIN titleLog', titleLog'[j].kind \in {"fallback", "request",
        "title"}
               PROVE  /\ titleLog'[j].of \in 1 .. j - 1
                           /\ titleLog'[titleLog'[j].of].kind = "prompt"
                      /\ titleLog'[j].by = "command" =>
                            \A i \in 1 .. titleLog'[j].of - 1 : titleLog'[i].kind # "prompt"
    BY DEF Titles!TitlesAreOfPrompts
  <2>1. CASE j \in DOMAIN titleLog
    <3>1. /\ titleLog[j].of \in 1 .. j - 1 /\ titleLog[titleLog[j].of].kind = "prompt"
          /\ titleLog[j].by = "command"
               => \A i \in 1 .. titleLog[j].of - 1 : titleLog[i].kind # "prompt"
      BY <1>1, <2>1 DEF TitleShape, Titles!TitlesAreOfPrompts
    <3>2. \A i \in 1 .. j - 1 : i \in DOMAIN titleLog
      BY <1>1, <2>1
    <3>3. \A i \in 1 .. titleLog[j].of - 1 : i \in 1 .. j - 1
      BY <1>1, <3>1
    <3> QED
      BY <1>1, <2>1, <3>1, <3>2, <3>3
  <2>2. CASE j = last
    <3>1. /\ r.of \in DOMAIN titleLog /\ titleLog[r.of].kind = "prompt"
          /\ r.by = "command" => \A i \in 1 .. r.of - 1 : ~Titles!IsPrompt(i)
      BY <1>1, <2>2 DEF MayFollow, Titles!IsPrompt, Titles!IsFirstPrompt
    <3>2. r.of \in 1 .. j - 1 /\ \A i \in 1 .. r.of - 1 : i \in DOMAIN titleLog
      BY <1>1, <2>2, <3>1
    <3> QED
      BY <1>1, <2>2, <3>1, <3>2 DEF Titles!IsPrompt
  <2> QED
    BY <1>2, <2>1, <2>2
<1> QED
  BY <1>4, <1>5, <1>6 DEF TitleShape

-----------------------------------------------------------------------------
\* A task that is collected leaves a row that may follow, or none.
LEMMA CollectStep ==
    ASSUME LogTypes, TitlePath, Titles!Collect
    PROVE  titleLog' = titleLog \/ \E r \in TitleRows : MayFollow(r)
          /\ titleLog' = Append(titleLog, r)
<1>1. CASE Titles!Refused
  BY <1>1 DEF Titles!Refused
<1>2. CASE Titles!Appends(Titles!Row("title", about, "auto"))
  <2> DEFINE r == Titles!Row("title", about, "auto")
  <2>1. Titles!IsPrompt(about)
    BY DEF Titles!Collect, TitlePath
  <2>2. about \in Nat
    BY <2>1 DEF Titles!IsPrompt, LogTypes
  <2>3. r \in TitleRows
    BY <2>2 DEF Titles!Row, TitleRows, Titles!Kinds
  <2>4. MayFollow(r)
    BY <2>1 DEF Titles!Collect, TitlePath, MayFollow, Titles!Row, PromptRow
  <2> QED
    BY <1>2, <2>3, <2>4 DEF Titles!Appends
<1> QED
  BY <1>1, <1>2 DEF Titles!Collect

\* Every step but a crash leaves the log alone or appends a row that may follow.
LEMMA LogKeeps ==
    ASSUME LogTypes, TitlePath, [Titles!Next]_Titles!vars, ~Titles!Crash
    PROVE  titleLog' = titleLog \/ \E r \in TitleRows : MayFollow(r)
          /\ titleLog' = Append(titleLog, r)
<1>1. titleLog \in Seq(TitleRows) /\ Len(titleLog) \in Nat /\ DOMAIN titleLog = 1 .. Len(titleLog)
  BY DEF LogTypes
<1>2. ASSUME Titles!Collect \/ Titles!NothingReady
      PROVE  titleLog' = titleLog \/ \E r \in TitleRows : MayFollow(r)
            /\ titleLog' = Append(titleLog, r)
  BY <1>2, CollectStep DEF Titles!NothingReady
<1>3. CASE Titles!BeginTurn \/ Titles!EndTurn \/ Titles!ExportOrFork
  BY <1>2, <1>3 DEF Titles!BeginTurn, Titles!EndTurn, Titles!ExportOrFork
<1>4. CASE Titles!Shutdown
  BY <1>2, <1>4 DEF Titles!Shutdown, Titles!Refused
<1>5. CASE Titles!EnterStep
  <2>1. PromptRow \in TitleRows /\ MayFollow(PromptRow)
    BY DEF PromptRow, Titles!Row, TitleRows, Titles!Kinds, MayFollow
  <2> QED
    BY <1>5, <2>1 DEF Titles!EnterStep, Titles!Appends, PromptRow
<1>6. CASE Titles!RecordFallback
  <2>1. CASE titleState = "armed" /\ Titles!Appends(Titles!Row("fallback", Len(titleLog), "auto"))
    <3> DEFINE r == Titles!Row("fallback", Len(titleLog), "auto")
    <3>1. r \in TitleRows
      BY <1>1 DEF Titles!Row, TitleRows, Titles!Kinds
    <3>2. Titles!IsPrompt(Len(titleLog))
      BY <1>6 DEF Titles!RecordFallback, LogTypes
    <3>3. MayFollow(r)
      BY <2>1, <3>2 DEF TitlePath, MayFollow, Titles!Row, PromptRow
    <3> QED
      BY <2>1, <3>1, <3>3 DEF Titles!Appends
  <2> QED
    BY <1>6, <2>1 DEF Titles!RecordFallback, Titles!Refused
<1>7. CASE Titles!StartRefinement
  <2>1. CASE Titles!Appends(Titles!Row("request", about, "auto"))
    <3> DEFINE r == Titles!Row("request", about, "auto")
    <3>1. Titles!IsPrompt(about)
      BY <1>7 DEF Titles!StartRefinement, TitlePath
    <3>2. r \in TitleRows
      BY <1>1, <3>1 DEF Titles!IsPrompt, Titles!Row, TitleRows, Titles!Kinds
    <3>3. MayFollow(r)
      BY <1>7, <3>1 DEF Titles!StartRefinement, TitlePath, MayFollow, Titles!Row, PromptRow
    <3> QED
      BY <2>1, <3>2, <3>3 DEF Titles!Appends
  <2> QED
    BY <1>7, <2>1 DEF Titles!StartRefinement, Titles!Refused
<1>8. CASE Titles!Rename
  <2>1. Titles!Row("user", 0, "command") \in TitleRows /\ MayFollow(Titles!Row("user", 0,
        "command"))
    BY DEF Titles!Row, TitleRows, Titles!Kinds, MayFollow
  <2> QED
    BY <1>8, <2>1 DEF Titles!Rename, Titles!Appends, Titles!Refused
<1>9. ASSUME NEW kind \in {"fallback", "request", "title"}, NEW first \in DOMAIN titleLog,
             Titles!IsFirstPrompt(first)
      PROVE  /\ Titles!Row(kind, first, "command") \in TitleRows
             /\ MayFollow(Titles!Row(kind, first, "command"))
  <2>1. Titles!IsPrompt(first) /\ first \in Nat
    BY <1>1, <1>9 DEF Titles!IsFirstPrompt
  <2> QED
    BY <1>9, <2>1 DEF Titles!Row, TitleRows, Titles!Kinds, MayFollow
<1>10. CASE Titles!Refresh
  BY <1>9, <1>10 DEF Titles!Refresh, Titles!Appends, Titles!Refused
<1>11. CASE Titles!AskAgain
  BY <1>9, <1>11 DEF Titles!AskAgain, Titles!Appends, Titles!Refused
<1>12. CASE Titles!Answered
  BY <1>9, <1>12 DEF Titles!Answered, Titles!Appends, Titles!Refused
<1>13. CASE Titles!Open \/ Titles!TaskEnds \/ Titles!Sync \/ UNCHANGED Titles!vars
  BY <1>13 DEF Titles!Open, Titles!TaskEnds, Titles!Sync, Titles!vars
<1> QED
  BY <1>3, <1>4, <1>5, <1>6, <1>7, <1>8, <1>10, <1>11, <1>12, <1>13 DEF Titles!Next

\* A crash cuts it.
LEMMA LogStep ==
    ASSUME LogTypes, TitlePath, [Titles!Next]_Titles!vars
    PROVE  \/ titleLog' = titleLog
           \/ \E r \in TitleRows : MayFollow(r) /\ titleLog' = Append(titleLog, r)
           \/ \E n \in 0 .. Len(titleLog) : titleLog' = SubSeq(titleLog, 1, n)
<1>1. CASE Titles!Crash
  <2>1. PICK n \in titleSynced .. Len(titleLog) : titleLog' = SubSeq(titleLog, 1, n)
    BY <1>1 DEF Titles!Crash
  <2>2. n \in 0 .. Len(titleLog)
    BY DEF LogTypes
  <2> QED
    BY <2>1, <2>2
<1> QED
  BY <1>1, LogKeeps

LEMMA TitleShapeStep ==
    ASSUME LogTypes, TitlePath, TitleShape, [Titles!Next]_Titles!vars
    PROVE  TitleShape'
<1>1. CASE titleLog' = titleLog
  BY <1>1 DEF TitleShape, Titles!CommandsWin, Titles!AskedOnce, Titles!TitlesAreOfPrompts
<1>2. ASSUME NEW r \in TitleRows, MayFollow(r), titleLog' = Append(titleLog, r)
      PROVE  TitleShape'
  BY <1>2, AppendKeeps
<1>3. ASSUME NEW n \in 0 .. Len(titleLog), titleLog' = SubSeq(titleLog, 1, n)
      PROVE  TitleShape'
  BY <1>3, PrefixKeeps
<1> QED
  BY <1>1, <1>2, <1>3, LogStep

-----------------------------------------------------------------------------
LEMMA LogTypesStep ==
    ASSUME LogTypes, TitlePath, [Titles!Next]_Titles!vars
    PROVE  LogTypes'
<1>1. titleLog \in Seq(TitleRows) /\ Len(titleLog) \in Nat /\ DOMAIN titleLog = 1 .. Len(titleLog)
      /\ titleSynced \in 0 .. Len(titleLog)
  BY DEF LogTypes
<1>2. titleLog' \in Seq(TitleRows)
  <2>1. CASE titleLog' = titleLog
    BY <1>1, <2>1
  <2>2. ASSUME NEW r \in TitleRows, titleLog' = Append(titleLog, r)
        PROVE titleLog' \in Seq(TitleRows)
    BY <2>2, AppendRows
  <2>3. ASSUME NEW n \in 0 .. Len(titleLog), titleLog' = SubSeq(titleLog, 1, n)
        PROVE titleLog' \in Seq(TitleRows)
    BY <2>3, PrefixRows
  <2> QED
    BY <2>1, <2>2, <2>3, LogStep
<1>3. \A i \in DOMAIN titleLog' : titleLog'[i].kind = "prompt" => titleLog'[i] = PromptRow
  <2>1. CASE titleLog' = titleLog
    BY <2>1 DEF LogTypes
  <2>2. ASSUME NEW r \in TitleRows, MayFollow(r), titleLog' = Append(titleLog, r)
        PROVE  \A i \in DOMAIN titleLog' : titleLog'[i].kind = "prompt" => titleLog'[i] = PromptRow
    <3>1. \A i \in DOMAIN titleLog' : i \in DOMAIN titleLog \/ i = Len(titleLog) + 1
      BY <2>2, AppendRows
    <3> QED
      BY <2>2, <3>1, AppendRows DEF LogTypes, MayFollow
  <2>3. ASSUME NEW n \in 0 .. Len(titleLog), titleLog' = SubSeq(titleLog, 1, n)
        PROVE  \A i \in DOMAIN titleLog' : titleLog'[i].kind = "prompt" => titleLog'[i] = PromptRow
    BY <2>3, PrefixRows DEF LogTypes
  <2> QED
    BY <2>1, <2>2, <2>3, LogStep
<1>4. titleSynced' \in 0 .. Len(titleLog')
  <2>1. CASE Titles!Crash
    <3>1. PICK n \in titleSynced .. Len(titleLog) : titleLog' = SubSeq(titleLog, 1, n)
      BY <2>1 DEF Titles!Crash
    <3>2. n \in 0 .. Len(titleLog)
      BY <1>1
    <3>3. Len(titleLog') = n
      BY <3>1, <3>2, PrefixRows
    <3> QED
      BY <1>1, <2>1, <3>3 DEF Titles!Crash
  <2>2. CASE Titles!Sync \/ Titles!Shutdown
    <3>1. Len(titleLog') \in Nat
      BY <1>2
    <3> QED
      BY <2>2, <3>1 DEF Titles!Sync, Titles!Shutdown
  <2>3. CASE ~Titles!Crash /\ ~Titles!Sync /\ ~Titles!Shutdown
    <3>1. titleSynced' = titleSynced
      BY <2>3 DEF Titles!Next, Titles!vars, Titles!Open, Titles!BeginTurn, Titles!EndTurn,
                  Titles!ExportOrFork, Titles!EnterStep, Titles!RecordFallback,
                  Titles!StartRefinement, Titles!TaskEnds, Titles!Rename, Titles!Refresh,
                  Titles!AskAgain, Titles!Answered
    <3>2. titleLog' = titleLog \/ \E r \in TitleRows : titleLog' = Append(titleLog, r)
      BY <2>3, LogKeeps
    <3>3. Len(titleLog') >= Len(titleLog) /\ Len(titleLog') \in Nat
      BY <1>1, <3>2, AppendRows
    <3> QED
      BY <1>1, <3>1, <3>3
  <2> QED
    BY <2>1, <2>2, <2>3
<1>5. agent' = "entered" => Titles!IsPrompt(Len(titleLog))'
  <2>1. CASE Titles!EnterStep
    <3>1. PromptRow \in TitleRows /\ titleLog' = Append(titleLog, PromptRow)
      BY <2>1 DEF Titles!EnterStep, Titles!Appends, PromptRow, Titles!Row, TitleRows, Titles!Kinds
    <3>2. Len(titleLog') = Len(titleLog) + 1 /\ titleLog'[Len(titleLog) + 1] = PromptRow
          /\ DOMAIN titleLog' = 1 .. Len(titleLog) + 1
      BY <3>1, AppendRows
    <3> QED
      BY <1>1, <3>2 DEF Titles!IsPrompt, PromptRow, Titles!Row
  <2>2. CASE Titles!TaskEnds \/ Titles!Sync \/ UNCHANGED Titles!vars
    BY <2>2 DEF Titles!TaskEnds, Titles!Sync, Titles!vars, LogTypes, Titles!IsPrompt
  <2>3. CASE ~Titles!EnterStep /\ ~Titles!TaskEnds /\ ~Titles!Sync /\ ~UNCHANGED Titles!vars
    BY <2>3 DEF Titles!Next, Titles!Open, Titles!BeginTurn, Titles!EndTurn, Titles!ExportOrFork,
                Titles!RecordFallback, Titles!StartRefinement, Titles!Rename, Titles!Refresh,
                Titles!AskAgain, Titles!Answered, Titles!Shutdown, Titles!Crash
  <2> QED
    BY <2>1, <2>2, <2>3
<1> QED
  BY <1>2, <1>3, <1>4, <1>5 DEF LogTypes

\* Where the automatic path is over, there is nothing to show.
LEMMA TitlePathOver ==
    ASSUME titleState' = "done"
    PROVE  TitlePath'
BY DEF TitlePath

LEMMA TitlePathStep ==
    ASSUME LogTypes, TitlePath, [Titles!Next]_Titles!vars
    PROVE  TitlePath'
<1>1. titleLog \in Seq(TitleRows) /\ Len(titleLog) \in Nat /\ DOMAIN titleLog = 1 .. Len(titleLog)
  BY DEF LogTypes
<1>2. ASSUME titleLog' = titleLog, titleState' = titleState, about' = about,
             agent' \in {"refresh", "asking"} => agent' = agent
      PROVE  TitlePath'
  BY <1>2 DEF TitlePath, Titles!IsPrompt
<1>3. ASSUME Titles!Collect, about' = about PROVE TitlePath'
  BY <1>3, TitlePathOver DEF Titles!Collect
<1>4. CASE Titles!Open
  <2>1. CASE Enabled /\ ~Titles!Titled /\ ~Titles!Requested
    <3>1. \A i \in DOMAIN titleLog : titleLog[i].kind = "prompt"
      <4>1. \A i \in DOMAIN titleLog : titleLog[i] \in TitleRows
        BY <1>1
      <4>2. \A i \in DOMAIN titleLog : titleLog[i].kind \in Titles!Kinds
        BY <4>1 DEF TitleRows
      <4> QED
        BY <2>1, <4>2 DEF Titles!Titled, Titles!Requested, Titles!TitleKinds, Titles!Kinds
    <3>2. \A i \in DOMAIN titleLog : titleLog[i] = PromptRow
      BY <3>1 DEF LogTypes
    <3> QED
      BY <1>4, <2>1, <3>2 DEF Titles!Open, TitlePath
  <2>2. CASE ~(Enabled /\ ~Titles!Titled /\ ~Titles!Requested)
    BY <1>4, <2>2, TitlePathOver DEF Titles!Open
  <2> QED
    BY <2>1, <2>2
<1>5. CASE Titles!BeginTurn \/ Titles!EndTurn \/ Titles!ExportOrFork
  BY <1>2, <1>3, <1>5 DEF Titles!BeginTurn, Titles!EndTurn, Titles!ExportOrFork, Titles!NothingReady
<1>6. CASE Titles!EnterStep
  <2>1. PromptRow \in TitleRows /\ titleLog' = Append(titleLog, PromptRow)
    BY <1>6 DEF Titles!EnterStep, Titles!Appends, PromptRow, Titles!Row, TitleRows, Titles!Kinds
  <2>2. /\ DOMAIN titleLog' = 1 .. Len(titleLog) + 1
             /\ \A i \in DOMAIN titleLog : titleLog'[i] = titleLog[i]
        /\ titleLog'[Len(titleLog) + 1] = PromptRow
    BY <2>1, AppendRows
  <2>3. \A i \in DOMAIN titleLog' : i \in DOMAIN titleLog \/ titleLog'[i] = PromptRow
    BY <1>1, <2>2
  <2>4. DOMAIN titleLog \subseteq DOMAIN titleLog'
    BY <1>1, <2>2
  <2>5. titleState' = titleState /\ about' = about /\ agent' = "entered"
    BY <1>6 DEF Titles!EnterStep
  <2> QED
    BY <2>2, <2>3, <2>4, <2>5 DEF TitlePath, Titles!IsPrompt
<1>7. CASE Titles!RecordFallback
  <2>1. CASE Titles!Refused /\ UNCHANGED <<titleState, about>>
    BY <1>2, <1>7, <2>1 DEF Titles!Refused, Titles!RecordFallback
  <2>2. CASE /\ titleState = "armed"
             /\ Titles!Appends(Titles!Row("fallback", Len(titleLog), "auto"))
             /\ titleState' = "pending" /\ about' = Len(titleLog)
    <3> DEFINE r == Titles!Row("fallback", Len(titleLog), "auto")
    <3>1. r \in TitleRows /\ titleLog' = Append(titleLog, r)
      BY <1>1, <2>2 DEF Titles!Appends, Titles!Row, TitleRows, Titles!Kinds
    <3>2. /\ DOMAIN titleLog' = 1 .. Len(titleLog) + 1
               /\ \A i \in DOMAIN titleLog : titleLog'[i] = titleLog[i]
          /\ titleLog'[Len(titleLog) + 1] = r
      BY <3>1, AppendRows
    <3>3. \A i \in DOMAIN titleLog' : i \in DOMAIN titleLog \/ titleLog'[i] = r
      BY <1>1, <3>2
    <3>4. Titles!IsPrompt(about)'
      BY <1>1, <1>7, <2>2, <3>2 DEF Titles!RecordFallback, LogTypes, Titles!IsPrompt
    <3>5. \A i \in DOMAIN titleLog' : titleLog'[i] \in {PromptRow, Titles!Row("fallback", about',
          "auto")}
      BY <2>2, <3>2, <3>3 DEF TitlePath
    <3> QED
      BY <1>7, <2>2, <3>4, <3>5 DEF TitlePath, Titles!RecordFallback
  <2> QED
    BY <1>7, <2>1, <2>2 DEF Titles!RecordFallback
<1>8. CASE Titles!StartRefinement
  <2>1. CASE titleState' = "done"
    BY <2>1, TitlePathOver
  <2>2. CASE titleState' # "done"
    <3> DEFINE r == Titles!Row("request", about, "auto")
    <3>1. titleState = "pending" /\ titleLog' = Append(titleLog, r) /\ titleState' = "running"
          /\ about' = about
      BY <1>8, <2>2 DEF Titles!StartRefinement, Titles!Appends
    <3>2. Titles!IsPrompt(about) /\ r \in TitleRows
      BY <1>1, <3>1 DEF TitlePath, Titles!IsPrompt, Titles!Row, TitleRows, Titles!Kinds
    <3>3. /\ DOMAIN titleLog' = 1 .. Len(titleLog) + 1
               /\ \A i \in DOMAIN titleLog : titleLog'[i] = titleLog[i]
          /\ titleLog'[Len(titleLog) + 1] = r
      BY <3>1, <3>2, AppendRows
    <3>4. \A i \in DOMAIN titleLog' : i \in DOMAIN titleLog \/ titleLog'[i] = r
      BY <1>1, <3>3
    <3>5. DOMAIN titleLog \subseteq DOMAIN titleLog' /\ Len(titleLog) + 1 \in DOMAIN titleLog'
      BY <1>1, <3>3
    <3>6. Titles!IsPrompt(about)'
      BY <3>1, <3>2, <3>3, <3>5 DEF Titles!IsPrompt
    <3>7. \A i \in DOMAIN titleLog' : titleLog'[i] \in {PromptRow, Titles!Row("fallback", about,
          "auto"), r}
      BY <3>1, <3>3, <3>4 DEF TitlePath
    <3> QED
      BY <1>8, <3>1, <3>3, <3>5, <3>6, <3>7 DEF TitlePath, Titles!StartRefinement
  <2> QED
    BY <2>1, <2>2
<1>9. CASE Titles!TaskEnds \/ Titles!Sync \/ UNCHANGED Titles!vars
  BY <1>2, <1>9 DEF Titles!TaskEnds, Titles!Sync, Titles!vars
<1>10. CASE Titles!Rename \/ Titles!Refresh \/ Titles!Crash
  BY <1>10, TitlePathOver DEF Titles!Rename, Titles!Refresh, Titles!Crash, Titles!Supersede
<1>11. CASE Titles!AskAgain \/ Titles!Answered
  BY <1>11, TitlePathOver DEF Titles!AskAgain, Titles!Answered, TitlePath
<1>12. CASE Titles!Shutdown
  BY <1>2, <1>3, <1>12, TitlePathOver DEF Titles!Shutdown, Titles!NothingReady, Titles!Supersede
<1> QED
  BY <1>4, <1>5, <1>6, <1>7, <1>8, <1>9, <1>10, <1>11, <1>12 DEF Titles!Next

-----------------------------------------------------------------------------
LEMMA TitlesInit == Titles!Init => LogTypes /\ TitlePath /\ TitleShape
<1> SUFFICES ASSUME Titles!Init PROVE LogTypes /\ TitlePath /\ TitleShape
  OBVIOUS
<1>1. titleLog = <<>> /\ titleLog \in Seq(TitleRows) /\ Len(titleLog) = 0 /\ DOMAIN titleLog = {}
  BY DEF Titles!Init
<1>2. LogTypes /\ TitlePath
  BY <1>1 DEF Titles!Init, LogTypes, TitlePath
<1>3. TitleShape
  BY <1>1 DEF TitleShape, Titles!CommandsWin, Titles!AskedOnce, Titles!TitlesAreOfPrompts
<1> QED
  BY <1>2, <1>3

LEMMA TitlesInvariant == Titles!Spec => [](LogTypes /\ TitlePath /\ TitleShape)
<1>1. LogTypes /\ TitlePath /\ TitleShape /\ [Titles!Next]_Titles!vars => (LogTypes /\ TitlePath
      /\ TitleShape)'
  BY LogTypesStep, TitlePathStep, TitleShapeStep
<1> QED
  BY <1>1, TitlesInit, PTL DEF Titles!Spec

\* A title that the user has set, or has asked for, is never replaced by one that
\* the agent has asked for by itself, however late its answer comes, and also not
\* after a crash at any row or a restart (supersede, SessionTitleRuntime::new).
THEOREM TitlesOfCommandsWin == Titles!Spec => []Titles!CommandsWin
<1>1. TitleShape => Titles!CommandsWin
  BY DEF TitleShape
<1> QED
  BY <1>1, TitlesInvariant, PTL

\* The agent asks for a title by itself at most once in the life of a log, and
\* records an answer only behind the row of its request (start_refinement, collect).
THEOREM TitleIsAskedOnce == Titles!Spec => []Titles!AskedOnce
<1>1. TitleShape => Titles!AskedOnce
  BY DEF TitleShape
<1> QED
  BY <1>1, TitlesInvariant, PTL

\* A title that is not the user's own names a prompt that precedes it, a refreshed
\* one the first of the session (record_fallback, refresh_session_title).
THEOREM TitleNamesAPrompt == Titles!Spec => []Titles!TitlesAreOfPrompts
<1>1. TitleShape => Titles!TitlesAreOfPrompts
  BY DEF TitleShape
<1> QED
  BY <1>1, TitlesInvariant, PTL

-----------------------------------------------------------------------------
(* The questions of the model.                                             *)

QuestionType == [options : Nat, multi : BOOLEAN]

\* What the two tools let through: at least one question.
Assumed ==
    /\ Forms \subseteq [questions : Seq(QuestionType), sound : BOOLEAN]
    /\ \A f \in Forms : f.questions # <<>>
    /\ None \notin Calls
    /\ Form!Blank \notin Texts /\ Form!Bad \notin Texts
    /\ Enhanced \in BOOLEAN

DraftType == [selected : Seq(Nat), custom : Form!Written, skipped : BOOLEAN]
ItemType == [kind : {"skipped", "selected", "multi", "custom", "multi_custom"},
             selected : Seq(Nat), custom : Form!Written]
CallType == [pc : {"idle", "asking", "done"}, form : Forms \cup {None},
             result : {"none", "ok", "cancelled", "dismissed", "unavailable", "invalid",
                       "timeout"},
             answers : Seq(ItemType)]
WireType == [kind : {"open", "answered", "dismissed", "dropped", "refused"},
             answers : Seq(ItemType)]
UiType == [pc : {"top", "select"}, frame : BOOLEAN, active : Calls \cup {None},
           phase : {"inactive", "received", "rendering", "selecting", "custom"},
           current : Nat \ {0}, drafts : Seq(DraftType)]

\* A draft selects options that there are, none twice, and of one choice at most one.
DraftOk(q, d) ==
    Form!InRange(d.selected, q) /\ Form!Distinct(d.selected) /\ (~q.multi => Len(d.selected) <= 1)

\* A form is open for a call that has asked, with one draft for each question.
UiOk(u) ==
    /\ u \in UiType
    /\ u.active = None => u.phase = "inactive"
    /\ u.active # None =>
         /\ u.phase # "inactive"
         /\ call[u.active].pc # "idle"
         /\ Len(u.drafts) = Len(Form!Questions(u.active))
         /\ u.current \in 1 .. Len(u.drafts)
         /\ \A k \in 1 .. Len(u.drafts) : DraftOk(Form!Questions(u.active)[k], u.drafts[k])

CallsOk ==
    /\ call \in [Calls -> CallType]
    /\ queue \in Calls \cup {None}
    /\ queue # None => call[queue].pc # "idle"
    /\ \A c \in Calls :
         /\ call[c].pc # "idle" => call[c].form \in Forms
         /\ call[c].pc = "idle" => wire[c] = Form!Open
         /\ call[c].pc # "done" => call[c].result = "none"
         /\ call[c].result = "invalid" => ~call[c].form.sound /\ wire[c] = Form!Open
         /\ call[c].result = "ok" => Form!AreValid(call[c].answers, Form!Questions(c))

WiresOk ==
    /\ wire \in [Calls -> WireType]
    /\ \A c \in Calls :
         /\ wire[c].kind # "refused"
         /\ wire[c].kind = "answered" => Form!AreValid(wire[c].answers, Form!Questions(c))

QuestionsInv ==
    /\ CallsOk /\ WiresOk /\ UiOk(ui)
    /\ overlay \in BOOLEAN /\ stopping \in BOOLEAN
    /\ Form!ComposerIsOwed
    /\ formTurn \in {"off", "drain"} => ui.active = None

-----------------------------------------------------------------------------
(* Drafts and answers.                                                     *)

\* What an answering draft says is a valid answer.
LEMMA ResponseIsValid ==
    ASSUME NEW q \in QuestionType, NEW d \in DraftType, DraftOk(q, d), Form!Answers(q, d),
           Form!Blank \notin Texts
    PROVE  Form!Response(q, d) \in ItemType /\ Form!IsValid(Form!Response(q, d), q)
<1> DEFINE item(k, s, t) == [kind |-> k, selected |-> s, custom |-> t]
<1>1. /\ d.selected \in Seq(Nat) /\ d.custom \in Form!Written /\ d.skipped \in BOOLEAN
      /\ Form!Blank \in Form!Written /\ q.multi \in BOOLEAN /\ q.options \in Nat
  BY DEF DraftType, QuestionType, Form!Written
<1>2. CASE d.skipped
  <2>1. Form!Response(q, d) = item("skipped", <<>>, Form!Blank)
    BY <1>2 DEF Form!Response
  <2> QED
    BY <1>1, <2>1 DEF ItemType, Form!IsValid
<1>3. CASE ~d.skipped /\ d.custom \in Texts
  <2>1. CASE d.selected # <<>> /\ q.multi
    <3>1. Form!Response(q, d) = item("multi_custom", d.selected, d.custom)
      BY <1>3, <2>1 DEF Form!Response
    <3> QED
      BY <1>1, <1>3, <2>1, <3>1 DEF ItemType, Form!IsValid, DraftOk
  <2>2. CASE ~(d.selected # <<>> /\ q.multi)
    <3>1. Form!Response(q, d) = item("custom", <<>>, d.custom)
      BY <1>1, <1>3, <2>2 DEF Form!Response
    <3> QED
      BY <1>1, <1>3, <3>1 DEF ItemType, Form!IsValid
  <2> QED
    BY <2>1, <2>2
<1>4. CASE ~d.skipped /\ d.custom \notin Texts /\ q.multi
  <2>1. d.selected # <<>>
    BY <1>4 DEF Form!Answers
  <2>2. Form!Response(q, d) = item("multi", d.selected, Form!Blank)
    BY <1>1, <1>4, <2>1 DEF Form!Response
  <2> QED
    BY <1>1, <1>4, <2>1, <2>2 DEF ItemType, Form!IsValid, DraftOk
<1>5. CASE ~d.skipped /\ d.custom \notin Texts /\ ~q.multi
  <2>1. d.selected # <<>> /\ 1 \in DOMAIN d.selected /\ d.selected[1] \in Nat
    BY <1>1, <1>5 DEF Form!Answers
  <2>2. Form!Response(q, d) = item("selected", <<d.selected[1]>>, Form!Blank)
    BY <1>1, <1>5, <2>1 DEF Form!Response
  <2>3. d.selected[1] \in 1 .. q.options
    BY <2>1 DEF DraftOk, Form!InRange
  <2>4. Form!InRange(<<d.selected[1]>>, q) /\ <<d.selected[1]>> \in Seq(Nat)
    BY <2>1, <2>3 DEF Form!InRange
  <2> QED
    BY <1>1, <1>5, <2>2, <2>4 DEF ItemType, Form!IsValid
<1> QED
  BY <1>1, <1>2, <1>3, <1>4, <1>5

\* What the envelope takes the tool can read.
LEMMA ValidIsReadable ==
    ASSUME NEW as, NEW qs, Form!AreValid(as, qs)
    PROVE  Form!Readable(as, qs)
BY DEF Form!AreValid, Form!Readable, Form!IsValid

\* What is left of a selection without its n-th option.
LEMMA WithoutIsSound ==
    ASSUME NEW s \in Seq(Nat), NEW n \in 1 .. Len(s)
    PROVE  /\ Form!Without(s, n) \in Seq(Nat)
           /\ Len(Form!Without(s, n)) = Len(s) - 1
           /\ \A k \in 1 .. Len(s) - 1 :
                Form!Without(s, n)[k] = IF k < n THEN s[k] ELSE s[k + 1]
<1> DEFINE front == SubSeq(s, 1, n - 1)
           rest == SubSeq(s, n + 1, Len(s))
<1>1. Len(s) \in Nat /\ n \in Nat
  OBVIOUS
<1>2. /\ front \in Seq(Nat) /\ Len(front) = n - 1
      /\ \A k \in 1 .. n - 1 : front[k] = s[k]
  BY <1>1
<1>3. /\ rest \in Seq(Nat) /\ Len(rest) = Len(s) - n
      /\ \A k \in 1 .. Len(s) - n : rest[k] = s[n + k]
  BY <1>1
<1>4. Form!Without(s, n) = front \o rest
  BY DEF Form!Without
<1> HIDE DEF front, rest
<1>5. /\ front \o rest \in Seq(Nat)
      /\ Len(front \o rest) = Len(front) + Len(rest)
      /\ \A k \in 1 .. Len(front) + Len(rest) :
           (front \o rest)[k] = IF k <= Len(front) THEN front[k] ELSE rest[k - Len(front)]
  BY <1>2, <1>3, ConcatProperties
<1>6. ASSUME NEW k \in 1 .. Len(s) - 1
      PROVE  Form!Without(s, n)[k] = IF k < n THEN s[k] ELSE s[k + 1]
  <2>1. /\ k \in 1 .. Len(front) + Len(rest) /\ (k <= Len(front) <=> k < n)
        /\ k >= n => k - Len(front) \in 1 .. Len(s) - n /\ n + (k - Len(front)) = k + 1
    BY <1>1, <1>2, <1>3
  <2>2. CASE k < n
    BY <1>1, <1>2, <1>4, <1>5, <2>1, <2>2
  <2>3. CASE k >= n
    <3>1. Form!Without(s, n)[k] = rest[k - Len(front)]
      BY <1>1, <1>2, <1>4, <1>5, <2>1, <2>3
    <3>2. rest[k - Len(front)] = s[n + (k - Len(front))]
      BY <1>3, <2>1, <2>3
    <3>3. n + (k - Len(front)) = k + 1 /\ ~(k < n)
      BY <1>1, <2>1, <2>3
    <3> QED
      BY <3>1, <3>2, <3>3
  <2> QED
    BY <1>1, <2>2, <2>3
<1>7. Form!Without(s, n) \in Seq(Nat)
  BY <1>4, <1>5
<1>8. Len(Form!Without(s, n)) = Len(s) - 1
  BY <1>1, <1>2, <1>3, <1>4, <1>5
<1> QED
  BY <1>6, <1>7, <1>8

\* Toggling keeps a selection in range and without repetition.
LEMMA ToggledIsSound ==
    ASSUME NEW s \in Seq(Nat), NEW q \in QuestionType, Form!InRange(s, q), Form!Distinct(s),
           NEW i \in 1 .. q.options
    PROVE  Form!Toggled(s, i) \in Seq(Nat) /\ Form!InRange(Form!Toggled(s, i), q)
          /\ Form!Distinct(Form!Toggled(s, i))
<1>0. q.options \in Nat
  BY DEF QuestionType
<1>1. CASE \E n \in DOMAIN s : s[n] = i
  <2> DEFINE n == Form!Place(s, i)
             t == Form!Without(s, n)
  <2>1. n \in 1 .. Len(s) /\ Form!Toggled(s, i) = t
    BY <1>1 DEF Form!Toggled, Form!Place
  <2> HIDE DEF n
  <2>2. /\ t \in Seq(Nat) /\ Len(t) = Len(s) - 1
        /\ \A k \in 1 .. Len(s) - 1 : t[k] = IF k < n THEN s[k] ELSE s[k + 1]
    BY <2>1, WithoutIsSound
  <2> HIDE DEF t
  <2>3. /\ DOMAIN t = 1 .. Len(s) - 1 /\ DOMAIN s = 1 .. Len(s) /\ Len(s) \in Nat
        /\ n \in Nat
    BY <2>1, <2>2
  <2> DEFINE from(k) == IF k < n THEN k ELSE k + 1
  <2>4. /\ \A k \in DOMAIN t : from(k) \in DOMAIN s /\ t[k] = s[from(k)]
        /\ \A j, k \in DOMAIN t : from(j) = from(k) => j = k
    <3>1. \A k \in DOMAIN t : from(k) \in DOMAIN s
      BY <2>3
    <3>2. \A j, k \in DOMAIN t : from(j) = from(k) => j = k
      BY <2>3
    <3>3. ASSUME NEW k \in DOMAIN t
          PROVE  t[k] = s[from(k)]
      <4>1. CASE k < n
        BY <2>2, <2>3, <4>1
      <4>2. CASE ~(k < n)
        BY <2>2, <2>3, <4>2
      <4> QED
        BY <4>1, <4>2
    <3> QED
      BY <3>1, <3>2, <3>3
  <2> HIDE DEF from
  <2>5. Form!InRange(t, q)
    BY <2>4 DEF Form!InRange
  <2>6. Form!Distinct(t)
    BY <2>4 DEF Form!Distinct
  <2> QED
    BY <2>1, <2>2, <2>5, <2>6
<1>2. CASE ~\E n \in DOMAIN s : s[n] = i
  <2>1. Form!Toggled(s, i) = Append(s, i)
    BY <1>2 DEF Form!Toggled
  <2>2. /\ Append(s, i) \in Seq(Nat) /\ Len(Append(s, i)) = Len(s) + 1
        /\ \A k \in 1 .. Len(s) : Append(s, i)[k] = s[k] /\ s[k] # i
        /\ Append(s, i)[Len(s) + 1] = i
    BY <1>0, <1>2
  <2> QED
    BY <1>0, <2>1, <2>2 DEF Form!InRange, Form!Distinct
<1> QED
  BY <1>1, <1>2

-----------------------------------------------------------------------------
(* The form: what a step of the loop may make of it.                       *)

\* The composer is owed to the form u.
Owed(u) ==
    /\ Enhanced /\ u.active # None
    /\ \/ u.phase = "custom"
       \/ u.phase = "selecting" /\ Form!Questions(u.active)[u.current].multi

\* From the form u to the form v only the draft shown in u changes.
SameOthers(u, v) ==
    u.active # None /\ v.active = u.active =>
      /\ DOMAIN v.drafts = DOMAIN u.drafts
      /\ \A k \in DOMAIN u.drafts : k # u.current => v.drafts[k] = u.drafts[k]

\* No response, or one that is sound.
RepliesSoundly ==
    \/ wire' = wire
    \/ \E c \in Calls : \E r \in WireType :
         /\ Form!Reply(c, r) /\ r.kind # "refused"
         /\ r.kind = "answered" => Form!AreValid(r.answers, Form!Questions(c))

GoodStep ==
    /\ RepliesSoundly /\ UiOk(ui')
    /\ overlay' \in BOOLEAN /\ (overlay' <=> Owed(ui'))
    /\ stopping' \in BOOLEAN
    /\ SameOthers(ui, ui')

\* A good step of the loop keeps the invariant and the other drafts.
LEMMA GoodStepKeeps ==
    ASSUME Assumed, QuestionsInv, call' = call, queue' \in {queue, None}, GoodStep,
           formTurn' \in {"off", "drain"} => ui'.active = None
    PROVE  QuestionsInv' /\ Form!OthersStay
<1>1. CallsOk /\ WiresOk /\ RepliesSoundly
  BY DEF QuestionsInv, GoodStep
<1>2. \A c \in Calls : Form!Questions(c)' = Form!Questions(c)
  BY DEF Form!Questions
<1>3. ASSUME wire' = wire
      PROVE  CallsOk' /\ WiresOk'
  <2>1. CallsOk'
    BY <1>1, <1>2, <1>3 DEF CallsOk
  <2>2. WiresOk'
    BY <1>1, <1>2, <1>3 DEF WiresOk
  <2> QED
    BY <2>1, <2>2
<1>4. ASSUME NEW c \in Calls, NEW r \in WireType, Form!Reply(c, r), r.kind # "refused",
             r.kind = "answered" => Form!AreValid(r.answers, Form!Questions(c))
      PROVE  CallsOk' /\ WiresOk'
  <2>1. wire \in [Calls -> WireType]
    BY <1>1 DEF WiresOk
  <2>2. /\ wire' \in [Calls -> WireType]
        /\ \A d \in Calls : d # c => wire'[d] = wire[d]
        /\ wire'[c] = IF Form!Waits(c) THEN r ELSE wire[c]
    BY <1>4, <2>1 DEF Form!Reply
  <2>3. WiresOk'
    BY <1>1, <1>2, <1>4, <2>2 DEF WiresOk
  <2>4. ASSUME NEW d \in Calls
        PROVE  /\ call[d].pc = "idle" => wire'[d] = Form!Open
               /\ call[d].result = "invalid" => wire'[d] = Form!Open
    BY <1>1, <2>2 DEF CallsOk, Form!Waits
  <2>5. CallsOk'
    BY <1>1, <1>2, <2>4 DEF CallsOk
  <2> QED
    BY <2>3, <2>5
<1>5. CallsOk' /\ WiresOk'
  BY <1>1, <1>3, <1>4 DEF RepliesSoundly
<1>6. UiOk(ui)'
  BY DEF GoodStep, UiOk, Form!Questions
<1>7. Form!ComposerIsOwed'
  BY DEF GoodStep, Owed, Form!ComposerIsOwed, Form!Question, Form!Questions
<1>8. Form!OthersStay
  BY DEF GoodStep, SameOthers, Form!OthersStay
<1> QED
  BY <1>5, <1>6, <1>7, <1>8 DEF GoodStep, QuestionsInv

\* The same form, shown otherwise.
LEMMA SameFormIsOk ==
    ASSUME NEW u, UiOk(u), NEW v \in UiType, v.active = u.active, v.drafts = u.drafts,
           v.current = u.current \/ v.current \in 1 .. Len(u.drafts),
           v.phase = "inactive" <=> u.phase = "inactive"
    PROVE  UiOk(v) /\ SameOthers(u, v)
BY DEF UiOk, SameOthers

LEMMA HereIsOk ==
    ASSUME UiOk(ui)
    PROVE  /\ UiOk(Form!Here) /\ SameOthers(ui, Form!Here) /\ Form!Here.active = ui.active
           /\ Form!Here.current = ui.current /\ Form!Here.drafts = ui.drafts
                /\ Form!Here.phase = ui.phase
           /\ Form!Here.frame = ui.frame
<1>1. Form!Here \in UiType
  BY DEF UiOk, UiType, Form!Here
<1>2. /\ Form!Here.active = ui.active /\ Form!Here.current = ui.current
           /\ Form!Here.drafts = ui.drafts
      /\ Form!Here.phase = ui.phase /\ Form!Here.frame = ui.frame
  BY DEF UiOk, UiType, Form!Here
<1> QED
  BY <1>1, <1>2, SameFormIsOk

\* A form that is closed is owed nothing and changes no draft.
LEMMA ClosedIsOk ==
    ASSUME Assumed, NEW u, UiOk(u)
    PROVE  /\ UiOk(Form!Closed(u)) /\ ~Owed(Form!Closed(u)) /\ SameOthers(ui, Form!Closed(u))
           /\ Form!Closed(u).active = None
<1>1. Form!NoUi \in UiType
  BY DEF Form!NoUi, UiType
<1>2. u.pc \in {"top", "select"} /\ u.frame \in BOOLEAN
  BY DEF UiOk, UiType
<1>3. Form!Closed(u) \in UiType
  BY <1>1, <1>2 DEF Form!Closed, UiType
<1>4. Form!Closed(u).active = None /\ Form!Closed(u).phase = "inactive"
  BY <1>1 DEF Form!Closed, Form!NoUi, UiType
<1> QED
  BY <1>3, <1>4 DEF UiOk, Owed, SameOthers

LEMMA ShowIsOk ==
    ASSUME NEW u, UiOk(u), u.active # None, NEW k \in 1 .. Len(u.drafts)
    PROVE  UiOk(Form!Show(u, k)) /\ ~Owed(Form!Show(u, k)) /\ SameOthers(u, Form!Show(u, k))
<1>1. /\ Form!Show(u, k).active = u.active /\ Form!Show(u, k).phase = "received"
      /\ Form!Show(u, k).current = k /\ Form!Show(u, k).drafts = u.drafts
  BY DEF Form!Show, UiOk, UiType
<1>0. u \in UiType /\ k \in Nat \ {0}
  BY DEF UiOk, UiType
<1>2. Form!Show(u, k) \in UiType
  BY <1>0 DEF Form!Show, UiType
<1>3. u.phase # "inactive"
  BY DEF UiOk
<1>4. UiOk(Form!Show(u, k)) /\ SameOthers(u, Form!Show(u, k))
  BY <1>1, <1>2, <1>3, SameFormIsOk
<1> QED
  BY <1>1, <1>4 DEF Owed

\* A sound draft in place of the one that is shown.
LEMMA WithIsOk ==
    ASSUME Assumed, CallsOk, UiOk(ui), ui.active # None, NEW d \in DraftType,
           DraftOk(Form!Question, d)
    PROVE  /\ UiOk(Form!With(d)) /\ SameOthers(ui, Form!With(d)) /\ Form!With(d).active = ui.active
           /\ Form!With(d).current = ui.current /\ Form!With(d).phase = ui.phase
           /\ Form!With(d).frame = ui.frame /\ Form!With(d).pc = "top"
<1>1. /\ Form!With(d).pc = "top" /\ Form!With(d).frame = ui.frame /\ Form!With(d).active = ui.active
      /\ Form!With(d).phase = ui.phase /\ Form!With(d).current = ui.current
      /\ Form!With(d).drafts = [ui.drafts EXCEPT ![ui.current] = d]
  BY DEF Form!With, UiOk, UiType
<1>2. /\ ui.drafts \in Seq(DraftType) /\ ui.current \in 1 .. Len(ui.drafts)
      /\ ui \in UiType
  BY DEF UiOk, UiType
<1> DEFINE e == [ui.drafts EXCEPT ![ui.current] = d]
<1>3. /\ e \in Seq(DraftType) /\ Len(e) = Len(ui.drafts)
      /\ DOMAIN e = DOMAIN ui.drafts /\ DOMAIN e = 1 .. Len(ui.drafts)
      /\ e[ui.current] = d
      /\ \A k \in 1 .. Len(ui.drafts) : k # ui.current => e[k] = ui.drafts[k]
  BY <1>2
<1> HIDE DEF e
<1>4. Form!With(d) \in UiType
  BY <1>2, <1>3 DEF Form!With, UiType, e
<1>5. UiOk(Form!With(d))
  BY <1>1, <1>2, <1>3, <1>4 DEF UiOk, Form!Question, e
<1>6. SameOthers(ui, Form!With(d))
  BY <1>1, <1>2, <1>3 DEF SameOthers, e
<1> QED
  BY <1>1, <1>5, <1>6

\* What the terminal submits is valid.
LEMMA ResponsesAreValid ==
    ASSUME Assumed, CallsOk, NEW u, UiOk(u), u.active # None, Form!Missing(u) = {}
    PROVE  Form!Responses(u) \in Seq(ItemType) /\ Form!AreValid(Form!Responses(u),
          Form!Questions(u.active))
<1> DEFINE qs == Form!Questions(u.active)
<1>1. /\ u.drafts \in Seq(DraftType) /\ u.active \in Calls /\ Len(u.drafts) = Len(qs)
      /\ \A k \in 1 .. Len(u.drafts) : DraftOk(qs[k], u.drafts[k])
  BY DEF UiOk, UiType
<1>2. qs \in Seq(QuestionType)
  BY <1>1 DEF UiOk, CallsOk, Assumed, Form!Questions
<1>3. Form!Responses(u) = [k \in 1 .. Len(u.drafts) |-> Form!Response(qs[k], u.drafts[k])]
  BY <1>1 DEF Form!Responses
<1>4. \A k \in 1 .. Len(u.drafts) : Form!Answers(qs[k], u.drafts[k])
  BY <1>1 DEF Form!Missing
<1> HIDE DEF qs
<1>5. ASSUME NEW k \in 1 .. Len(u.drafts)
      PROVE  /\ Form!Response(qs[k], u.drafts[k]) \in ItemType
             /\ Form!IsValid(Form!Response(qs[k], u.drafts[k]), qs[k])
  <2>1. qs[k] \in QuestionType /\ u.drafts[k] \in DraftType
    BY <1>1, <1>2
  <2> QED
    BY <1>1, <1>4, <2>1, ResponseIsValid DEF Assumed
<1>6. /\ Form!Responses(u) \in Seq(ItemType) /\ Len(Form!Responses(u)) = Len(qs)
      /\ DOMAIN qs = 1 .. Len(u.drafts)
      /\ \A k \in 1 .. Len(u.drafts) : Form!Responses(u)[k] = Form!Response(qs[k], u.drafts[k])
  BY <1>1, <1>2, <1>3, <1>5
<1> QED
  BY <1>5, <1>6 DEF Form!AreValid, qs

\* A dismissal and a valid answer are sound.
LEMMA DismissIsSound ==
    ASSUME NEW c \in Calls, Form!Dismiss(c)
    PROVE  RepliesSoundly
<1>1. [kind |-> "dismissed", answers |-> <<>>] \in WireType
  BY DEF WireType
<1> QED
  BY <1>1 DEF Form!Dismiss, RepliesSoundly

LEMMA AnswerIsSound ==
    ASSUME NEW c \in Calls, NEW as \in Seq(ItemType), Form!AreValid(as, Form!Questions(c)),
           Form!AnswerWith(c, as)
    PROVE  RepliesSoundly
<1>1. [kind |-> "answered", answers |-> as] \in WireType
  BY DEF WireType
<1> QED
  BY <1>1 DEF Form!AnswerWith, RepliesSoundly

\* An answer that leads on: another question is shown, or the form is submitted.
LEMMA AdvanceIsSound ==
    ASSUME Assumed, CallsOk, NEW u, UiOk(u), u.active # None, Form!Advance(u)
    PROVE  RepliesSoundly /\ UiOk(ui') /\ ~Owed(ui') /\ SameOthers(u, ui')
<1>1. /\ u.drafts \in Seq(DraftType) /\ u.active \in Calls
      /\ u.current \in 1 .. Len(u.drafts)
  BY DEF UiOk, UiType
<1>2. ASSUME NEW k \in 1 .. Len(u.drafts), ui' = Form!Show(u, k), UNCHANGED wire
      PROVE  RepliesSoundly /\ UiOk(ui') /\ ~Owed(ui') /\ SameOthers(u, ui')
  BY <1>2, ShowIsOk DEF RepliesSoundly
<1>3. CASE u.current < Len(u.drafts) /\ ui' = Form!Show(u, u.current + 1) /\ UNCHANGED wire
  <2>1. u.current + 1 \in 1 .. Len(u.drafts)
    BY <1>1, <1>3
  <2> QED
    BY <1>2, <1>3, <2>1
<1>4. ASSUME NEW k \in Form!Missing(u), ui' = Form!Show(u, k), UNCHANGED wire
      PROVE  RepliesSoundly /\ UiOk(ui') /\ ~Owed(ui') /\ SameOthers(u, ui')
  <2>1. k \in 1 .. Len(u.drafts)
    BY <1>1 DEF Form!Missing
  <2> QED
    BY <1>2, <1>4, <2>1
<1>5. CASE Form!Missing(u) = {} /\ ui' = Form!Closed(u) /\ Form!AnswerWith(u.active,
      Form!Responses(u))
  <2>1. RepliesSoundly
    BY <1>1, <1>5, ResponsesAreValid, AnswerIsSound
  <2>2. UiOk(ui') /\ ~Owed(ui') /\ ui'.active = None
    BY <1>5, ClosedIsOk
  <2> QED
    BY <2>1, <2>2 DEF SameOthers
<1> QED
  BY <1>3, <1>4, <1>5 DEF Form!Advance, Form!FinishOrFocus

\* The same question keeps the others through two steps.
LEMMA SameOthersTwice ==
    ASSUME NEW u, NEW v, NEW w, SameOthers(u, v), v.active = u.active,
           v.current = u.current, SameOthers(v, w)
    PROVE  SameOthers(u, w)
BY DEF SameOthers

LEMMA OwedIsComposer ==
    ASSUME QuestionsInv
    PROVE  overlay \in BOOLEAN /\ stopping \in BOOLEAN /\ (overlay <=> Owed(ui))
BY DEF QuestionsInv, Form!ComposerIsOwed, Owed, Form!Question

\* An answer that leads on, with the composer given back.
LEMMA AdvanceIsGood ==
    ASSUME Assumed, QuestionsInv, NEW u, UiOk(u), SameOthers(ui, u), u.active # None,
           u.active = ui.active, u.current = ui.current, Form!Advance(u),
           overlay' = FALSE, stopping' = stopping
    PROVE  GoodStep
<1>1. RepliesSoundly /\ UiOk(ui') /\ ~Owed(ui') /\ SameOthers(u, ui')
  BY AdvanceIsSound DEF QuestionsInv
<1>2. SameOthers(ui, ui')
  BY <1>1, SameOthersTwice
<1> QED
  BY <1>1, <1>2 DEF GoodStep, QuestionsInv

\* The loop is left by an error.
LEMMA BreaksIsGood ==
    ASSUME Assumed, NEW u, UiOk(u), Form!Breaks(u)
    PROVE  GoodStep
<1>1. UiOk(Form!Closed(u)) /\ Form!Closed(u).active = None
  BY ClosedIsOk
<1>2. /\ ui' \in UiType /\ ui'.active = None /\ ui'.phase = "inactive"
  BY <1>1 DEF Form!Breaks, UiOk, UiType
<1>3. UiOk(ui') /\ ~Owed(ui') /\ SameOthers(ui, ui')
  BY <1>2 DEF UiOk, Owed, SameOthers
<1>4. RepliesSoundly
  <2>1. CASE u.active = None
    BY <2>1 DEF Form!Breaks, RepliesSoundly
  <2>2. CASE u.active # None
    <3>1. u.active \in Calls /\ Form!Dismiss(u.active)
      BY <2>2 DEF Form!Breaks, UiOk, UiType
    <3> QED
      BY <3>1, DismissIsSound
  <2> QED
    BY <2>1, <2>2
<1> QED
  BY <1>3, <1>4 DEF GoodStep, Form!Breaks

\* The same page with nothing said: whether the composer is owed does not change.
LEMMA StayIsGood ==
    ASSUME QuestionsInv, UiOk(ui'), SameOthers(ui, ui'), wire' = wire,
           overlay' \in BOOLEAN, overlay' <=> Owed(ui'), stopping' \in BOOLEAN
    PROVE  GoodStep
BY DEF GoodStep, RepliesSoundly

\* A status frame is enqueued over a form that is owed as much as the one before.
LEMMA EnqueueIsGood ==
    ASSUME Assumed, QuestionsInv, NEW u, UiOk(u), SameOthers(ui, u), Owed(u) <=> overlay,
           u.active = ui.active, u.current = ui.current, Form!Enqueue(u)
    PROVE  GoodStep
<1>1. CASE u.frame
  BY <1>1, BreaksIsGood DEF Form!Enqueue
<1>2. CASE ~u.frame
  <2> DEFINE v == [u EXCEPT !.frame = TRUE]
  <2>1. /\ v \in UiType /\ v.active = u.active /\ v.drafts = u.drafts
        /\ v.current = u.current /\ v.phase = u.phase
    BY DEF UiOk, UiType
  <2>2. /\ ui' = v /\ wire' = wire /\ overlay' = overlay /\ stopping' = stopping
    BY <1>2 DEF Form!Enqueue, Form!NoStop
  <2> HIDE DEF v
  <2>3. UiOk(v) /\ SameOthers(u, v)
    BY <2>1, SameFormIsOk
  <2>4. SameOthers(ui, v)
    BY <2>3, SameOthersTwice
  <2>5. Owed(v) <=> Owed(u)
    BY <2>1 DEF Owed
  <2> QED
    BY <2>2, <2>3, <2>4, <2>5, StayIsGood, OwedIsComposer
<1> QED
  BY <1>1, <1>2

\* The composer is borrowed for a form to which it is owed.
LEMMA BorrowIsGood ==
    ASSUME Assumed, QuestionsInv, NEW u, UiOk(u), SameOthers(ui, u), Owed(u), Form!Borrow(u)
    PROVE  GoodStep
<1>1. CASE overlay
  BY <1>1, BreaksIsGood DEF Form!Borrow
<1>2. CASE ~overlay
  BY <1>2, StayIsGood, OwedIsComposer DEF Form!Borrow, Form!NoStop
<1> QED
  BY <1>1, <1>2

-----------------------------------------------------------------------------
(* The loop and the keyboard.                                              *)

\* While a form is open there is a question to show and a sound draft of it.
LEMMA FormIsShown ==
    ASSUME Assumed, QuestionsInv, ui.phase # "inactive"
    PROVE  /\ UiOk(ui) /\ ui.active # None /\ ui.active \in Calls
           /\ Form!Question \in QuestionType /\ Form!Draft \in DraftType /\ DraftOk(Form!Question,
                Form!Draft)
           /\ ui.current \in 1 .. Len(ui.drafts) /\ Len(ui.drafts) \in Nat
           /\ Owed(ui) <=> /\ Enhanced
                          /\ \/ ui.phase = "custom"
                             \/ ui.phase = "selecting" /\ Form!Question.multi
<1>1. UiOk(ui) /\ CallsOk
  BY DEF QuestionsInv
<1>2. ui.active # None /\ ui.active \in Calls
  BY <1>1 DEF UiOk, UiType
<1>3. /\ ui.drafts \in Seq(DraftType) /\ ui.current \in 1 .. Len(ui.drafts)
      /\ Len(ui.drafts) = Len(Form!Questions(ui.active))
  BY <1>1, <1>2 DEF UiOk, UiType
<1>4. Form!Questions(ui.active) \in Seq(QuestionType)
  BY <1>1, <1>2 DEF UiOk, CallsOk, Assumed, Form!Questions
<1>5. Form!Question \in QuestionType /\ Form!Draft \in DraftType
  BY <1>3, <1>4 DEF Form!Question, Form!Draft
<1>6. DraftOk(Form!Question, Form!Draft)
  BY <1>1, <1>2, <1>3 DEF UiOk, Form!Question, Form!Draft
<1> QED
  BY <1>1, <1>2, <1>3, <1>5, <1>6 DEF Owed, Form!Question

LEMMA NewDraftIsOk ==
    ASSUME NEW q
    PROVE  Form!NewDraft \in DraftType /\ DraftOk(q, Form!NewDraft)
BY DEF Form!NewDraft, DraftType, DraftOk, Form!Written, Form!InRange, Form!Distinct

\* A draft that keeps its selection, or drops it, is as sound as it was.
LEMMA EditedDraftIsOk ==
    ASSUME NEW q, NEW d \in DraftType, DraftOk(q, d), NEW e \in DraftType,
           e.selected = d.selected \/ e.selected = <<>>
    PROVE  DraftOk(q, e)
BY DEF DraftOk, Form!InRange, Form!Distinct

\* Before a step of the keyboard: the draft put in place of the one shown leads on.
LEMMA WithLeadsOn ==
    ASSUME Assumed, QuestionsInv, ui.phase # "inactive", NEW d \in DraftType,
           DraftOk(Form!Question, d), Form!Advance(Form!With(d)), overlay' = FALSE,
                 stopping' = stopping
    PROVE  GoodStep
<1>1. CallsOk /\ UiOk(ui) /\ ui.active # None
  BY FormIsShown DEF QuestionsInv
<1>2. /\ UiOk(Form!With(d)) /\ SameOthers(ui, Form!With(d)) /\ Form!With(d).active = ui.active
      /\ Form!With(d).current = ui.current
  BY <1>1, WithIsOk
<1> QED
  BY <1>1, <1>2, AdvanceIsGood

\* The same, when the page stays.
LEMMA WithStays ==
    ASSUME Assumed, QuestionsInv, ui.phase # "inactive", NEW d \in DraftType,
           DraftOk(Form!Question, d), ui' = Form!With(d), wire' = wire,
           overlay' = overlay, stopping' = stopping
    PROVE  GoodStep
<1>1. CallsOk /\ UiOk(ui) /\ ui.active # None
  BY FormIsShown DEF QuestionsInv
<1>2. /\ UiOk(Form!With(d)) /\ SameOthers(ui, Form!With(d)) /\ Form!With(d).active = ui.active
      /\ Form!With(d).current = ui.current /\ Form!With(d).phase = ui.phase
  BY <1>1, WithIsOk
<1>3. Owed(Form!With(d)) <=> Owed(ui)
  BY <1>2 DEF Owed
<1> QED
  BY <1>2, <1>3, StayIsGood, OwedIsComposer

LEMMA HereStays ==
    ASSUME Assumed, QuestionsInv, ui' = Form!Here, wire' = wire, overlay' = overlay,
           stopping' = stopping
    PROVE  GoodStep
<1>1. /\ UiOk(Form!Here) /\ SameOthers(ui, Form!Here) /\ Form!Here.active = ui.active
      /\ Form!Here.current = ui.current /\ Form!Here.phase = ui.phase
  BY HereIsOk DEF QuestionsInv
<1>2. Owed(Form!Here) <=> Owed(ui)
  BY <1>1 DEF Owed
<1> QED
  BY <1>1, <1>2, StayIsGood, OwedIsComposer

LEMMA HereLeadsOn ==
    ASSUME Assumed, QuestionsInv, ui.phase # "inactive", Form!Advance(Form!Here), overlay' = FALSE,
           stopping' = stopping
    PROVE  GoodStep
<1>1. /\ UiOk(Form!Here) /\ SameOthers(ui, Form!Here) /\ Form!Here.active = ui.active
      /\ Form!Here.current = ui.current
  BY HereIsOk DEF QuestionsInv
<1> QED
  BY <1>1, FormIsShown, AdvanceIsGood

\* Back to the page before.
LEMMA BackIsGood ==
    ASSUME Assumed, QuestionsInv, ui.phase # "inactive", ui.current > 1,
           NEW u, UiOk(u), SameOthers(ui, u), u.active = ui.active, u.current = ui.current,
           ui' = Form!Show(u, ui.current - 1), wire' = wire, overlay' = FALSE, stopping' = stopping
    PROVE  GoodStep
<1>1. u.active # None /\ UiOk(ui)
  BY FormIsShown
<1>2. u.current \in 1 .. Len(u.drafts) /\ Len(u.drafts) \in Nat
  BY <1>1 DEF UiOk, UiType
<1>3. ui.current - 1 \in 1 .. Len(u.drafts)
  BY <1>2
<1>4. UiOk(ui') /\ ~Owed(ui') /\ SameOthers(u, ui')
  BY <1>1, <1>3, ShowIsOk
<1>5. SameOthers(ui, ui')
  BY <1>4, SameOthersTwice
<1> QED
  BY <1>4, <1>5, StayIsGood, OwedIsComposer

\* What a key makes of the draft that is shown.
LEMMA KeyDraftsAreOk ==
    ASSUME Assumed, QuestionsInv, ui.phase # "inactive"
    PROVE  /\ \A i \in 1 .. Form!Question.options :
                LET d == [Form!NewDraft EXCEPT !.selected = <<i>>]
                IN  d \in DraftType /\ DraftOk(Form!Question, d)
           /\ LET d == [Form!NewDraft EXCEPT !.skipped = TRUE]
              IN  d \in DraftType /\ DraftOk(Form!Question, d)
           /\ Form!Question.multi => \A i \in 1 .. Form!Question.options :
                LET d == [Form!Draft EXCEPT !.skipped = FALSE, !.selected = Form!Toggled(@, i)]
                IN  d \in DraftType /\ DraftOk(Form!Question, d)
           /\ LET d == [Form!Draft EXCEPT !.skipped = FALSE,
                                     !.selected = IF Form!Question.multi THEN @ ELSE <<>>]
              IN  d \in DraftType /\ DraftOk(Form!Question, d)
           /\ \A text \in Form!Written :
                Form!AfterSubmit(text) \in DraftType /\ DraftOk(Form!Question,
                      Form!AfterSubmit(text))
           /\ \A text \in Form!Written :
                LET d == [Form!Draft EXCEPT !.custom = text, !.skipped = FALSE]
                IN  d \in DraftType /\ DraftOk(Form!Question, d)
<1> DEFINE q == Form!Question
           e == Form!Draft
<1>1. q \in QuestionType /\ e \in DraftType /\ DraftOk(q, e)
  BY FormIsShown
<1>2. /\ e.selected \in Seq(Nat) /\ e.custom \in Form!Written /\ e.skipped \in BOOLEAN
      /\ q.multi \in BOOLEAN /\ q.options \in Nat
      /\ Form!InRange(e.selected, q) /\ Form!Distinct(e.selected)
  BY <1>1 DEF DraftType, QuestionType, DraftOk
<1> HIDE DEF q, e
<1>3. ASSUME NEW i \in 1 .. q.options
      PROVE  LET d == [Form!NewDraft EXCEPT !.selected = <<i>>]
             IN  d \in DraftType /\ DraftOk(q, d)
  <2>1. <<i>> \in Seq(Nat) /\ Form!InRange(<<i>>, q) /\ Form!Distinct(<<i>>) /\ Len(<<i>>) = 1
    BY <1>2 DEF Form!InRange, Form!Distinct
  <2>2. Form!NewDraft \in DraftType
    BY NewDraftIsOk
  <2> DEFINE d == [Form!NewDraft EXCEPT !.selected = <<i>>]
  <2>3. d \in DraftType /\ d.selected = <<i>>
    BY <2>1, <2>2 DEF DraftType
  <2> QED
    BY <2>1, <2>3 DEF DraftOk
<1>4. LET d == [Form!NewDraft EXCEPT !.skipped = TRUE]
      IN  d \in DraftType /\ DraftOk(q, d)
  <2>1. Form!NewDraft \in DraftType /\ DraftOk(q, Form!NewDraft)
    BY NewDraftIsOk
  <2> DEFINE d == [Form!NewDraft EXCEPT !.skipped = TRUE]
  <2>2. d \in DraftType /\ d.selected = Form!NewDraft.selected
    BY <2>1 DEF DraftType
  <2> QED
    BY <2>1, <2>2, EditedDraftIsOk
<1>5. ASSUME q.multi, NEW i \in 1 .. q.options
      PROVE  LET d == [e EXCEPT !.skipped = FALSE, !.selected = Form!Toggled(@, i)]
             IN  d \in DraftType /\ DraftOk(q, d)
  <2>1. /\ Form!Toggled(e.selected, i) \in Seq(Nat) /\ Form!InRange(Form!Toggled(e.selected, i), q)
        /\ Form!Distinct(Form!Toggled(e.selected, i))
    BY <1>1, <1>2, ToggledIsSound
  <2> QED
    BY <1>1, <1>5, <2>1 DEF DraftType, DraftOk
<1>6. LET d == [e EXCEPT !.skipped = FALSE, !.selected = IF q.multi THEN @ ELSE <<>>]
      IN  d \in DraftType /\ DraftOk(q, d)
  <2> DEFINE d == [e EXCEPT !.skipped = FALSE, !.selected = IF q.multi THEN @ ELSE <<>>]
  <2>0. <<>> \in Seq(Nat)
    OBVIOUS
  <2>1. d \in DraftType /\ (d.selected = e.selected \/ d.selected = <<>>)
    <3>1. CASE q.multi
      BY <1>1, <3>1 DEF DraftType
    <3>2. CASE ~q.multi
      BY <1>1, <2>0, <3>2 DEF DraftType
    <3> QED
      BY <3>1, <3>2
  <2> QED
    BY <1>1, <2>1, EditedDraftIsOk
<1>7. ASSUME NEW text \in Form!Written
      PROVE  Form!AfterSubmit(text) \in DraftType /\ DraftOk(q, Form!AfterSubmit(text))
  <2>0. <<>> \in Seq(Nat)
    OBVIOUS
  <2>1. /\ Form!AfterSubmit(text) \in DraftType
        /\ Form!AfterSubmit(text).selected = e.selected \/ Form!AfterSubmit(text).selected = <<>>
    <3>1. CASE text \in Texts /\ ~Form!Question.multi
      BY <1>1, <2>0, <3>1 DEF DraftType, Form!AfterSubmit, e
    <3>2. CASE ~(text \in Texts /\ ~Form!Question.multi)
      BY <1>1, <3>2 DEF DraftType, Form!AfterSubmit, e
    <3> QED
      BY <3>1, <3>2
  <2> QED
    BY <1>1, <2>1, EditedDraftIsOk
<1>8. ASSUME NEW text \in Form!Written
      PROVE  LET d == [e EXCEPT !.custom = text, !.skipped = FALSE]
             IN  d \in DraftType /\ DraftOk(q, d)
  <2> DEFINE d == [e EXCEPT !.custom = text, !.skipped = FALSE]
  <2>1. d \in DraftType /\ d.selected = e.selected
    BY <1>1 DEF DraftType
  <2> QED
    BY <1>1, <2>1, EditedDraftIsOk
<1> QED
  BY <1>3, <1>4, <1>5, <1>6, <1>7, <1>8 DEF q, e

\* The keys of a list.
LEMMA ListKeyIsGood ==
    ASSUME Assumed, QuestionsInv,
           Form!Select \/ Form!Toggle \/ Form!SubmitMulti \/ Form!Skip \/ Form!Previous
                 \/ Form!NextQuestion \/ Form!BeginCustom
    PROVE  GoodStep /\ Form!LoopOnly
<1>1. /\ ui.phase # "inactive"
      /\ overlay \in BOOLEAN /\ (overlay <=> Owed(ui))
      /\ UiOk(ui) /\ CallsOk /\ ui.active # None
      /\ Owed(ui) <=> /\ Enhanced
                      /\ \/ ui.phase = "custom"
                         \/ ui.phase = "selecting" /\ Form!Question.multi
  <2>1. ui.phase # "inactive"
    BY DEF Form!Select, Form!Toggle, Form!SubmitMulti, Form!Skip, Form!Previous, Form!NextQuestion,
          Form!BeginCustom, Form!Choosing,
           Form!Listing
  <2> QED
    BY <2>1, FormIsShown, OwedIsComposer DEF QuestionsInv
<1>2. CASE Form!Select
  <2>1. PICK i \in 1 .. Form!Question.options :
          Form!Advance(Form!With([Form!NewDraft EXCEPT !.selected = <<i>>]))
    BY <1>2 DEF Form!Select
  <2>2. overlay' = FALSE /\ stopping' = stopping /\ Form!LoopOnly
    BY <1>1, <1>2 DEF Form!Select, Form!Choosing, Form!Kept, Form!NoStop
  <2> QED
    BY <1>1, <2>1, <2>2, KeyDraftsAreOk, WithLeadsOn
<1>3. CASE Form!Toggle
  <2> DEFINE d(i) == [Form!Draft EXCEPT !.skipped = FALSE, !.selected = Form!Toggled(@, i)]
  <2>1. PICK i \in 1 .. Form!Question.options :
          IF Enhanced THEN ui' = Form!With(d(i)) /\ UNCHANGED wire /\ Form!Kept
                ELSE Form!Enqueue(Form!With(d(i)))
    BY <1>3 DEF Form!Toggle
  <2>2. Form!LoopOnly /\ Form!Question.multi
    BY <1>3 DEF Form!Toggle
  <2>3. d(i) \in DraftType /\ DraftOk(Form!Question, d(i))
    BY <1>1, <2>2, KeyDraftsAreOk
  <2> HIDE DEF d
  <2>4. CASE Enhanced
    BY <1>1, <2>1, <2>2, <2>3, <2>4, WithStays DEF Form!Kept, Form!NoStop
  <2>5. CASE ~Enhanced
    <3>1. /\ UiOk(Form!With(d(i))) /\ SameOthers(ui, Form!With(d(i)))
               /\ Form!With(d(i)).active = ui.active
          /\ Form!With(d(i)).current = ui.current
      BY <1>1, <2>3, WithIsOk
    <3>2. Owed(Form!With(d(i))) <=> overlay
      BY <1>1, <2>5 DEF Owed
    <3> QED
      BY <2>1, <2>2, <2>5, <3>1, <3>2, EnqueueIsGood
  <2> QED
    BY <2>4, <2>5
<1>4. CASE Form!SubmitMulti \/ Form!NextQuestion
  BY <1>1, <1>4, HereLeadsOn DEF Form!SubmitMulti, Form!NextQuestion, Form!Restored, Form!NoStop
<1>5. CASE Form!Skip
  BY <1>1, <1>5, KeyDraftsAreOk, WithLeadsOn DEF Form!Skip, Form!Restored, Form!NoStop
<1>6. CASE Form!Previous
  <2>1. CASE ui.current > 1
    <3>1. /\ UiOk(Form!Here) /\ SameOthers(ui, Form!Here) /\ Form!Here.active = ui.active
          /\ Form!Here.current = ui.current
      BY <1>1, HereIsOk
    <3>2. ui' = Form!Show(Form!Here, ui.current - 1) /\ wire' = wire /\ overlay' = FALSE
          /\ stopping' = stopping /\ Form!LoopOnly
      BY <1>1, <1>6, <2>1, FormIsShown DEF Form!Previous, Form!Restored, Form!NoStop
    <3> QED
      BY <1>1, <2>1, <3>1, <3>2, BackIsGood
  <2>2. CASE ~(ui.current > 1)
    BY <1>6, <2>2, HereStays DEF Form!Previous, Form!Kept, Form!NoStop
  <2> QED
    BY <2>1, <2>2
<1>7. CASE Form!BeginCustom
  <2> DEFINE d == [Form!Draft EXCEPT !.skipped = FALSE,
                                !.selected = IF Form!Question.multi THEN @ ELSE <<>>]
             u == [Form!With(d) EXCEPT !.phase = "custom"]
  <2>1. /\ Form!LoopOnly
        /\ IF ~Enhanced THEN Form!Enqueue(u)
           ELSE IF overlay THEN ui' = u /\ UNCHANGED wire /\ Form!Kept
           ELSE Form!Borrow(u)
    BY <1>7 DEF Form!BeginCustom
  <2>2. d \in DraftType /\ DraftOk(Form!Question, d)
    BY <1>1, KeyDraftsAreOk
  <2> HIDE DEF d
  <2>3. /\ UiOk(Form!With(d)) /\ SameOthers(ui, Form!With(d)) /\ Form!With(d).active = ui.active
        /\ Form!With(d).current = ui.current /\ Form!With(d).phase = ui.phase
    BY <1>1, <2>2, WithIsOk
  <2>4. /\ u \in UiType /\ u.active = ui.active /\ u.drafts = Form!With(d).drafts
        /\ u.current = ui.current /\ u.phase = "custom"
    BY <2>3 DEF UiOk, UiType
  <2> HIDE DEF u
  <2>5. UiOk(u) /\ SameOthers(Form!With(d), u)
    BY <1>1, <2>3, <2>4, SameFormIsOk
  <2>6. SameOthers(ui, u)
    BY <2>3, <2>5, SameOthersTwice
  <2>7. Owed(u) <=> Enhanced
    BY <1>1, <2>4 DEF Owed, Assumed
  <2>8. CASE ~Enhanced
    BY <1>1, <2>1, <2>4, <2>5, <2>6, <2>7, <2>8, EnqueueIsGood
  <2>9. CASE Enhanced /\ overlay
    BY <1>1, <2>1, <2>5, <2>6, <2>7, <2>9, StayIsGood, OwedIsComposer DEF Form!Kept, Form!NoStop
  <2>10. CASE Enhanced /\ ~overlay
    BY <2>1, <2>5, <2>6, <2>7, <2>10, BorrowIsGood
  <2> QED
    BY <2>1, <2>8, <2>9, <2>10
<1> QED
  BY <1>2, <1>3, <1>4, <1>5, <1>6, <1>7

\* The keys of a free answer, and those that mean nothing or end the form.
LEMMA TextKeyIsGood ==
    ASSUME Assumed, QuestionsInv,
           Form!SubmitLine \/ Form!SubmitText \/ Form!TurnPage \/ Form!SkipText \/ Form!Invalid
                 \/ Form!Escape \/ Form!Eof
    PROVE  GoodStep /\ Form!LoopOnly
<1>1. /\ ui.phase # "inactive"
      /\ overlay \in BOOLEAN /\ (overlay <=> Owed(ui))
      /\ UiOk(ui) /\ CallsOk /\ ui.active # None /\ ui.active \in Calls
      /\ ui.current \in 1 .. Len(ui.drafts) /\ Len(ui.drafts) \in Nat
      /\ Owed(ui) <=> /\ Enhanced
                      /\ \/ ui.phase = "custom"
                         \/ ui.phase = "selecting" /\ Form!Question.multi
  <2>1. ui.phase # "inactive"
    BY DEF Form!SubmitLine, Form!SubmitText, Form!TurnPage, Form!SkipText, Form!Invalid,
          Form!Escape, Form!Eof, Form!Editing
  <2> QED
    BY <2>1, FormIsShown, OwedIsComposer DEF QuestionsInv
<1>2. CASE Form!SubmitLine
  <2>1. PICK text \in Form!Written :
          \/ Form!Advance(Form!With(Form!AfterSubmit(text))) /\ Form!Kept
          \/ Form!Enqueue(Form!With(Form!AfterSubmit(text)))
    BY <1>2 DEF Form!SubmitLine
  <2>2. Form!LoopOnly /\ ~Enhanced /\ overlay = FALSE
    BY <1>1, <1>2 DEF Form!SubmitLine
  <2>3. Form!AfterSubmit(text) \in DraftType /\ DraftOk(Form!Question, Form!AfterSubmit(text))
    BY <1>1, KeyDraftsAreOk
  <2>4. CASE Form!Advance(Form!With(Form!AfterSubmit(text))) /\ Form!Kept
    BY <1>1, <2>2, <2>3, <2>4, WithLeadsOn DEF Form!Kept, Form!NoStop
  <2>5. CASE Form!Enqueue(Form!With(Form!AfterSubmit(text)))
    <3> DEFINE u == Form!With(Form!AfterSubmit(text))
    <3>1. UiOk(u) /\ SameOthers(ui, u) /\ u.active = ui.active /\ u.current = ui.current
      BY <1>1, <2>3, WithIsOk
    <3>2. Owed(u) <=> overlay
      BY <1>1, <2>2 DEF Owed
    <3> QED
      BY <2>2, <2>5, <3>1, <3>2, EnqueueIsGood
  <2> QED
    BY <2>1, <2>4, <2>5
<1>3. CASE Form!SubmitText
  <2>1. PICK text \in Form!Written :
          \/ ~overlay /\ Form!Breaks(ui)
          \/ Form!Advance(Form!With(Form!AfterSubmit(text))) /\ Form!Restored
          \/ ui' = Form!With(Form!AfterSubmit(text)) /\ UNCHANGED wire /\ Form!Kept
    BY <1>3 DEF Form!SubmitText
  <2>2. Form!AfterSubmit(text) \in DraftType /\ DraftOk(Form!Question, Form!AfterSubmit(text))
    BY <1>1, KeyDraftsAreOk
  <2>3. Form!LoopOnly
    BY <1>3 DEF Form!SubmitText
  <2>4. CASE Form!Breaks(ui)
    BY <1>1, <2>3, <2>4, BreaksIsGood
  <2>5. CASE Form!Advance(Form!With(Form!AfterSubmit(text))) /\ Form!Restored
    BY <1>1, <2>2, <2>3, <2>5, WithLeadsOn DEF Form!Restored, Form!NoStop
  <2>6. CASE ui' = Form!With(Form!AfterSubmit(text)) /\ UNCHANGED wire /\ Form!Kept
    BY <1>1, <2>2, <2>3, <2>6, WithStays DEF Form!Kept, Form!NoStop
  <2> QED
    BY <2>1, <2>4, <2>5, <2>6
<1>4. CASE Form!TurnPage
  <2> DEFINE d(text) == [Form!Draft EXCEPT !.custom = text, !.skipped = FALSE]
  <2>1. PICK text \in Form!Written :
          \/ ~overlay /\ Form!Breaks(ui)
          \/ ui.current > 1 /\ ui' = Form!Show(Form!With(d(text)), ui.current - 1) /\ UNCHANGED wire
               /\ Form!Restored
          \/ ui' = Form!With(d(text)) /\ UNCHANGED wire /\ Form!Kept
          \/ Form!Advance(Form!With(d(text))) /\ Form!Restored
    BY <1>4 DEF Form!TurnPage
  <2>2. d(text) \in DraftType /\ DraftOk(Form!Question, d(text))
    BY <1>1, KeyDraftsAreOk
  <2>3. Form!LoopOnly
    BY <1>4 DEF Form!TurnPage
  <2> HIDE DEF d
  <2>4. CASE Form!Breaks(ui)
    BY <1>1, <2>3, <2>4, BreaksIsGood
  <2>5. CASE ui.current > 1 /\ ui' = Form!Show(Form!With(d(text)), ui.current - 1) /\ UNCHANGED wire
               /\ Form!Restored
    <3> DEFINE u == Form!With(d(text))
    <3>1. UiOk(u) /\ SameOthers(ui, u) /\ u.active = ui.active /\ u.current = ui.current
      BY <1>1, <2>2, WithIsOk
    <3> HIDE DEF u
    <3>2. ui' = Form!Show(u, ui.current - 1) /\ wire' = wire /\ overlay' = FALSE
          /\ stopping' = stopping
      BY <2>5 DEF Form!Restored, Form!NoStop, u
    <3> QED
      BY <1>1, <2>3, <2>5, <3>1, <3>2, BackIsGood
  <2>6. CASE ui' = Form!With(d(text)) /\ UNCHANGED wire /\ Form!Kept
    BY <1>1, <2>2, <2>3, <2>6, WithStays DEF Form!Kept, Form!NoStop
  <2>7. CASE Form!Advance(Form!With(d(text))) /\ Form!Restored
    BY <1>1, <2>2, <2>3, <2>7, WithLeadsOn DEF Form!Restored, Form!NoStop
  <2> QED
    BY <2>1, <2>4, <2>5, <2>6, <2>7
<1>5. CASE Form!SkipText
  <2>1. CASE Form!Breaks(ui)
    BY <1>1, <1>5, <2>1, BreaksIsGood DEF Form!SkipText
  <2>2. CASE Form!Advance(Form!With([Form!NewDraft EXCEPT !.skipped = TRUE])) /\ Form!Restored
    BY <1>1, <1>5, <2>2, KeyDraftsAreOk, WithLeadsOn DEF Form!SkipText, Form!Restored, Form!NoStop
  <2> QED
    BY <1>5, <2>1, <2>2 DEF Form!SkipText
<1>6. /\ UiOk(Form!Here) /\ SameOthers(ui, Form!Here) /\ Form!Here.active = ui.active
      /\ Form!Here.current = ui.current /\ Form!Here.phase = ui.phase
           /\ Form!Here.drafts = ui.drafts
  BY <1>1, HereIsOk
<1>7. Owed(Form!Here) <=> Owed(ui)
  BY <1>6 DEF Owed
<1>8. CASE Form!Invalid
  <2>1. CASE ui.phase = "selecting" /\ ~Form!Question.multi
    <3> DEFINE v == [Form!Here EXCEPT !.phase = "received"]
    <3>1. /\ v \in UiType /\ v.active = Form!Here.active /\ v.drafts = Form!Here.drafts
          /\ v.current = Form!Here.current /\ v.phase = "received"
      BY <1>6 DEF UiOk, UiType
    <3>2. ui' = v /\ wire' = wire /\ overlay' = FALSE /\ stopping' = stopping /\ Form!LoopOnly
      BY <1>1, <1>8, <2>1 DEF Form!Invalid, Form!Kept, Form!NoStop
    <3> HIDE DEF v
    <3>3. UiOk(v) /\ SameOthers(Form!Here, v)
      BY <1>1, <1>6, <3>1, SameFormIsOk
    <3>4. SameOthers(ui, v) /\ ~Owed(v)
      BY <1>6, <3>1, <3>3, SameOthersTwice DEF Owed
    <3> QED
      BY <3>2, <3>3, <3>4, StayIsGood, OwedIsComposer
  <2>2. CASE ~(ui.phase = "selecting" /\ ~Form!Question.multi) /\ Enhanced
    BY <1>8, <2>2, HereStays DEF Form!Invalid, Form!Kept, Form!NoStop
  <2>3. CASE ~(ui.phase = "selecting" /\ ~Form!Question.multi) /\ ~Enhanced
    BY <1>1, <1>6, <1>7, <1>8, <2>3, EnqueueIsGood DEF Form!Invalid
  <2> QED
    BY <2>1, <2>2, <2>3
<1>9. CASE Form!Escape
  <2>1. CASE Form!Breaks(ui)
    BY <1>1, <1>9, <2>1, BreaksIsGood DEF Form!Escape
  <2>2. CASE ui' = Form!Closed(Form!Here) /\ Form!Dismiss(ui.active) /\ Form!Restored
    <3>1. UiOk(ui') /\ ~Owed(ui') /\ SameOthers(ui, ui')
      BY <1>6, <2>2, ClosedIsOk
    <3>2. RepliesSoundly
      BY <1>1, <2>2, DismissIsSound
    <3> QED
      BY <1>9, <2>2, <3>1, <3>2, OwedIsComposer DEF GoodStep, Form!Restored, Form!NoStop,
            Form!Escape
  <2> QED
    BY <1>9, <2>1, <2>2 DEF Form!Escape
<1>10. CASE Form!Eof
  <2>1. CASE Form!Breaks(ui)
    BY <1>1, <1>10, <2>1, BreaksIsGood DEF Form!Eof
  <2>2. CASE Form!Stops(Form!Closed(ui)) /\ Form!Dismiss(ui.active) /\ overlay' = FALSE
    <3>1. UiOk(Form!Closed(ui)) /\ Form!Closed(ui).active = None
      BY <1>1, ClosedIsOk
    <3>2. ui' \in UiType /\ ui'.active = None /\ ui'.phase = "inactive" /\ stopping' = TRUE
      BY <2>2, <3>1 DEF Form!Stops, UiOk, UiType
    <3>3. UiOk(ui') /\ ~Owed(ui') /\ SameOthers(ui, ui')
      BY <3>2 DEF UiOk, Owed, SameOthers
    <3>4. RepliesSoundly
      BY <1>1, <2>2, DismissIsSound
    <3> QED
      BY <1>10, <2>2, <3>2, <3>3, <3>4 DEF GoodStep, Form!Eof
  <2> QED
    BY <1>10, <2>1, <2>2 DEF Form!Eof
<1> QED
  BY <1>2, <1>3, <1>4, <1>5, <1>8, <1>9, <1>10

LEMMA DiscardIsSound ==
    ASSUME NEW c \in Calls, Form!Discard(c)
    PROVE  RepliesSoundly
<1>1. [kind |-> "dropped", answers |-> <<>>] \in WireType
  BY DEF WireType
<1> QED
  BY <1>1 DEF Form!Discard, RepliesSoundly

\* The loop before it waits.
LEMMA TopIsGood ==
    ASSUME Assumed, QuestionsInv, Form!Top
    PROVE  GoodStep /\ Form!LoopOnly
<1> DEFINE u == [ui EXCEPT !.pc = "select"]
<1>1. UiOk(ui) /\ CallsOk /\ overlay \in BOOLEAN /\ (overlay <=> Owed(ui))
  BY OwedIsComposer DEF QuestionsInv
<1>2. /\ u \in UiType /\ u.active = ui.active /\ u.current = ui.current
      /\ u.drafts = ui.drafts /\ u.phase = ui.phase
  BY <1>1 DEF UiOk, UiType
<1>3. Form!LoopOnly
  BY DEF Form!Top
<1>4. CASE /\ ui.phase = "rendering"
           /\ LET v == [u EXCEPT !.phase = IF Form!Question.options > 0 THEN "selecting"
                                           ELSE "custom"]
              IN  IF Enhanced /\ (Form!Question.multi \/ Form!Question.options = 0)
                    THEN Form!Borrow(v)
                  ELSE ui' = v /\ UNCHANGED <<wire, overlay>> /\ Form!NoStop
  <2> DEFINE phase == IF Form!Question.options > 0 THEN "selecting" ELSE "custom"
             v == [u EXCEPT !.phase = phase]
  <2>1. IF Enhanced /\ (Form!Question.multi \/ Form!Question.options = 0) THEN Form!Borrow(v)
        ELSE ui' = v /\ UNCHANGED <<wire, overlay>> /\ Form!NoStop
    BY <1>4
  <2>2. /\ ui.active # None /\ Form!Question.options \in Nat /\ ~overlay
    BY <1>1, <1>4, FormIsShown DEF QuestionType, Owed
  <2>3. phase \in {"selecting", "custom"} /\ (phase = "custom" <=> Form!Question.options = 0)
    BY <2>2
  <2> HIDE DEF phase, u
  <2>4. /\ v \in UiType /\ v.active = ui.active /\ v.current = ui.current
        /\ v.drafts = ui.drafts /\ v.phase = phase
    BY <1>2, <2>3 DEF UiType
  <2> HIDE DEF v
  <2>5. UiOk(v) /\ SameOthers(ui, v)
    BY <1>1, <1>4, <2>3, <2>4, SameFormIsOk
  <2>6. Owed(v) <=> Enhanced /\ (Form!Question.multi \/ Form!Question.options = 0)
    BY <2>2, <2>3, <2>4 DEF Owed, Form!Question
  <2>7. CASE Enhanced /\ (Form!Question.multi \/ Form!Question.options = 0)
    BY <1>3, <2>1, <2>5, <2>6, <2>7, BorrowIsGood
  <2>8. CASE ~(Enhanced /\ (Form!Question.multi \/ Form!Question.options = 0))
    BY <1>1, <1>3, <2>1, <2>2, <2>5, <2>6, <2>8, StayIsGood, OwedIsComposer DEF Form!NoStop
  <2> QED
    BY <2>7, <2>8
<1>5. CASE /\ ui.phase = "received"
           /\ ui' = [u EXCEPT !.phase = "rendering", !.frame = TRUE]
           /\ UNCHANGED <<wire, overlay>> /\ Form!NoStop
  <2> DEFINE v == [u EXCEPT !.phase = "rendering", !.frame = TRUE]
  <2> HIDE DEF u
  <2>1. /\ v \in UiType /\ v.active = ui.active /\ v.current = ui.current
        /\ v.drafts = ui.drafts /\ v.phase = "rendering"
    BY <1>2 DEF UiType
  <2>2. ui' = v
    BY <1>5
  <2> HIDE DEF v
  <2>3. UiOk(v) /\ SameOthers(ui, v)
    BY <1>1, <1>5, <2>1, SameFormIsOk
  <2>4. ~Owed(v) /\ ~Owed(ui)
    BY <1>5, <2>1 DEF Owed
  <2> QED
    BY <1>1, <1>3, <1>5, <2>2, <2>3, <2>4, StayIsGood, OwedIsComposer DEF Form!NoStop
<1>6. CASE ui' = u /\ UNCHANGED <<wire, overlay>> /\ Form!NoStop
  <2> HIDE DEF u
  <2>1. UiOk(u) /\ SameOthers(ui, u)
    BY <1>1, <1>2, SameFormIsOk
  <2>2. Owed(u) <=> Owed(ui)
    BY <1>2 DEF Owed
  <2> QED
    BY <1>1, <1>3, <1>6, <2>1, <2>2, StayIsGood, OwedIsComposer DEF Form!NoStop
<1> QED
  BY <1>4, <1>5, <1>6 DEF Form!Top

\* Frames and rows.
LEMMA FrameIsGood ==
    ASSUME Assumed, QuestionsInv, Form!EventShown \/ Form!FrameWritten
    PROVE  GoodStep /\ Form!LoopOnly
<1>1. PICK b \in BOOLEAN : ui' = [Form!Here EXCEPT !.frame = b]
  BY DEF Form!EventShown, Form!FrameWritten
<1> DEFINE v == [Form!Here EXCEPT !.frame = b]
<1>2. /\ UiOk(Form!Here) /\ SameOthers(ui, Form!Here) /\ Form!Here.active = ui.active
      /\ Form!Here.current = ui.current /\ Form!Here.phase = ui.phase
  BY HereIsOk DEF QuestionsInv
<1>3. /\ v \in UiType /\ v.active = Form!Here.active /\ v.current = Form!Here.current
      /\ v.drafts = Form!Here.drafts /\ v.phase = Form!Here.phase
  BY <1>2 DEF UiOk, UiType
<1>4. ui' = v
  BY <1>1
<1> HIDE DEF v
<1>5. UiOk(v) /\ SameOthers(Form!Here, v)
  BY <1>2, <1>3, SameFormIsOk
<1>6. SameOthers(ui, v) /\ (Owed(v) <=> Owed(ui))
  BY <1>2, <1>3, <1>5, SameOthersTwice DEF Owed
<1> QED
  BY <1>4, <1>5, <1>6, StayIsGood, OwedIsComposer
  DEF Form!EventShown, Form!FrameWritten, Form!NoStop, Form!LoopOnly

\* A stop is latched over the form as it is.
LEMMA StopsIsOk ==
    ASSUME Assumed, QuestionsInv, Form!Stops(ui)
    PROVE  /\ UiOk(ui') /\ SameOthers(ui, ui') /\ (Owed(ui') <=> Owed(ui))
           /\ stopping' = TRUE
<1> DEFINE v == [ui EXCEPT !.frame = FALSE, !.pc = "top"]
<1>1. UiOk(ui)
  BY DEF QuestionsInv
<1>2. /\ v \in UiType /\ v.active = ui.active /\ v.current = ui.current
      /\ v.drafts = ui.drafts /\ v.phase = ui.phase
  BY <1>1 DEF UiOk, UiType
<1>3. ui' = v /\ stopping' = TRUE
  BY DEF Form!Stops
<1> HIDE DEF v
<1>4. UiOk(v) /\ SameOthers(ui, v)
  BY <1>1, <1>2, SameFormIsOk
<1> QED
  BY <1>2, <1>3, <1>4 DEF Owed

LEMMA FailsIsGood ==
    ASSUME Assumed, QuestionsInv, Form!Fails
    PROVE  GoodStep /\ Form!LoopOnly
BY BreaksIsGood DEF Form!Fails, QuestionsInv

LEMMA IgnoredIsGood ==
    ASSUME Assumed, QuestionsInv, Form!Ignored
    PROVE  GoodStep /\ Form!LoopOnly
BY HereStays DEF Form!Ignored, Form!NoStop

LEMMA StopIsGood ==
    ASSUME Assumed, QuestionsInv, Form!Stop
    PROVE  GoodStep /\ Form!LoopOnly
<1>1. /\ UiOk(ui') /\ SameOthers(ui, ui') /\ (Owed(ui') <=> Owed(ui)) /\ stopping' = TRUE
  BY StopsIsOk DEF Form!Stop
<1> QED
  BY <1>1, StayIsGood, OwedIsComposer DEF Form!Stop, Form!LoopOnly

\* A form is received, or a second one is dropped.
LEMMA ReceiveIsGood ==
    ASSUME Assumed, QuestionsInv, Form!Receive
    PROVE  GoodStep /\ call' = call /\ queue' = None
<1>1. /\ UiOk(ui) /\ CallsOk /\ overlay \in BOOLEAN /\ (overlay <=> Owed(ui))
      /\ queue \in Calls /\ queue # None /\ call[queue].pc # "idle"
  BY OwedIsComposer DEF QuestionsInv, CallsOk, Form!Receive
<1>2. CASE ui.active = None
  <2> DEFINE qs == Form!Questions(queue)
             drafts == [k \in DOMAIN qs |-> Form!NewDraft]
             u == Form!Show(Form!Here, 1)
             v == [u EXCEPT !.active = queue, !.drafts = drafts]
  <2>1. qs \in Seq(QuestionType) /\ qs # <<>>
    BY <1>1 DEF CallsOk, Assumed, Form!Questions
  <2> HIDE DEF qs
  <2>2. /\ drafts \in Seq(DraftType) /\ Len(drafts) = Len(qs) /\ 1 \in 1 .. Len(drafts)
        /\ \A k \in 1 .. Len(drafts) : drafts[k] = Form!NewDraft
    BY <2>1, NewDraftIsOk
  <2>3. ui' = v /\ wire' = wire /\ overlay' = overlay /\ stopping' = stopping
    BY <1>2 DEF Form!Receive, Form!NoStop, qs
  <2> HIDE DEF drafts
  <2>4. /\ v \in UiType /\ v.active = queue /\ v.phase = "received" /\ v.current = 1
        /\ v.drafts = drafts
    <3>1. Form!Here \in UiType
      BY <1>1, HereIsOk DEF UiOk
    <3>2. \A k \in Nat \ {0} :
            /\ Form!Show(Form!Here, k) \in UiType /\ Form!Show(Form!Here, k).current = k
            /\ Form!Show(Form!Here, k).phase = "received"
      BY <3>1 DEF Form!Show, UiType
    <3>3. u \in UiType /\ u.current = 1 /\ u.phase = "received"
      BY <3>2
    <3> HIDE DEF u
    <3> QED
      BY <1>1, <2>2, <3>3 DEF UiType
  <2> HIDE DEF v
  <2>5. UiOk(v)
    BY <1>1, <2>2, <2>4, NewDraftIsOk DEF UiOk, qs
  <2>6. ~Owed(v) /\ ~Owed(ui) /\ SameOthers(ui, v)
    BY <1>2, <2>4 DEF Owed, SameOthers
  <2> QED
    BY <1>1, <2>3, <2>5, <2>6, StayIsGood, OwedIsComposer DEF Form!Receive
<1>3. CASE ui.active # None
  <2>1. Form!Stops(ui) /\ Form!Discard(queue) /\ overlay' = overlay /\ call' = call /\ queue' = None
    BY <1>3 DEF Form!Receive
  <2>2. RepliesSoundly
    BY <1>1, <2>1, DiscardIsSound
  <2>3. /\ UiOk(ui') /\ SameOthers(ui, ui') /\ (Owed(ui') <=> Owed(ui)) /\ stopping' = TRUE
    BY <2>1, StopsIsOk
  <2> QED
    BY <1>1, <2>1, <2>2, <2>3 DEF GoodStep
<1> QED
  BY <1>2, <1>3

-----------------------------------------------------------------------------
(* The tool's side and the ends of a turn.                                 *)

LEMMA NoUiIsOk ==
    ASSUME Assumed
    PROVE  UiOk(Form!NoUi) /\ ~Owed(Form!NoUi) /\ SameOthers(ui, Form!NoUi)
<1>1. Form!NoUi \in UiType /\ Form!NoUi.active = None /\ Form!NoUi.phase = "inactive"
  BY DEF Form!NoUi, UiType
<1> QED
  BY <1>1 DEF UiOk, Owed, SameOthers

LEMMA EndIsGood ==
    ASSUME Assumed, QuestionsInv, Form!StartTurn \/ Form!TurnReady \/ Form!Drained
           \/ Form!StopExits \/ Form!DeadlinePasses
    PROVE  GoodStep /\ call' = call /\ queue' \in {queue, None}
<1>1. UiOk(ui) /\ SameOthers(ui, ui)
  BY DEF QuestionsInv, SameOthers
<1>2. CASE Form!StartTurn
  <2>1. ~overlay
    BY <1>2, OwedIsComposer DEF QuestionsInv, Form!StartTurn, Owed
  <2> QED
    BY <1>2, <2>1, NoUiIsOk, StayIsGood, OwedIsComposer DEF Form!StartTurn
<1>3. CASE Form!TurnReady
  BY <1>3, NoUiIsOk, StayIsGood, OwedIsComposer DEF Form!TurnReady
<1>4. CASE Form!Drained
  <2>1. RepliesSoundly
    <3>1. CASE queue # None /\ Form!Discard(queue)
      <4>1. queue \in Calls
        BY <3>1 DEF QuestionsInv, CallsOk
      <4> QED
        BY <3>1, <4>1, DiscardIsSound
    <3>2. CASE wire' = wire
      BY <3>2 DEF RepliesSoundly
    <3> QED
      BY <1>4, <3>1, <3>2 DEF Form!Drained
  <2> QED
    BY <1>1, <1>4, <2>1, OwedIsComposer DEF GoodStep, Form!Drained
<1>5. CASE Form!StopExits \/ Form!DeadlinePasses
  <2>1. /\ ui' = ui /\ wire' = wire /\ overlay' = overlay /\ call' = call
        /\ queue' = queue /\ stopping' \in {stopping, TRUE}
    BY <1>5 DEF Form!StopExits, Form!DeadlinePasses
  <2> QED
    BY <1>1, <2>1, StayIsGood, OwedIsComposer
<1> QED
  BY <1>2, <1>3, <1>4, <1>5

\* What the loop and the keyboard do to the turn.
LEMMA LoopKeepsTurn ==
    ASSUME Form!Top \/ Form!EventShown \/ Form!FrameWritten \/ Form!Receive \/ Form!Stop
           \/ Form!Fails \/ Form!Ignored \/ Form!Key
    PROVE  formTurn' \in {"main", "stopped", "broken"}
<1> USE DEF Form!NoStop, Form!Breaks, Form!Stops, Form!Borrow, Form!Enqueue, Form!Kept,
      Form!Restored, Form!Selecting, Form!Listing,
            Form!Choosing, Form!Editing
<1>1. CASE Form!Top \/ Form!EventShown \/ Form!FrameWritten \/ Form!Receive \/ Form!Stop
      \/ Form!Fails \/ Form!Ignored
  BY <1>1 DEF Form!Top, Form!EventShown, Form!FrameWritten, Form!Receive, Form!Stop, Form!Fails,
        Form!Ignored
<1>2. CASE Form!Select \/ Form!SubmitMulti \/ Form!Skip \/ Form!Previous \/ Form!NextQuestion
  BY <1>2 DEF Form!Select, Form!SubmitMulti, Form!Skip, Form!Previous, Form!NextQuestion
<1>3. CASE Form!Toggle \/ Form!BeginCustom \/ Form!SubmitLine
  BY <1>3 DEF Form!Toggle, Form!BeginCustom, Form!SubmitLine
<1>4. CASE Form!SubmitText \/ Form!TurnPage \/ Form!SkipText
  BY <1>4 DEF Form!SubmitText, Form!TurnPage, Form!SkipText
<1>5. CASE Form!Invalid \/ Form!Escape \/ Form!Eof
  BY <1>5 DEF Form!Invalid, Form!Escape, Form!Eof
<1> QED
  BY <1>1, <1>2, <1>3, <1>4, <1>5 DEF Form!Key

\* A call that begins or ends leaves the form that is open as it is.
LEMMA CallLeavesForm ==
    ASSUME Assumed, QuestionsInv,
           \A d \in Calls : call[d].pc # "idle" =>
             call'[d].pc # "idle" /\ call'[d].form = call[d].form,
           UNCHANGED <<wire, ui, overlay, formTurn, stopping>>
    PROVE  /\ UiOk(ui)' /\ Form!ComposerIsOwed' /\ WiresOk' /\ Form!OthersStay
           /\ overlay' \in BOOLEAN /\ stopping' \in BOOLEAN
           /\ (formTurn \in {"off", "drain"} => ui.active = None)'
<1>1. UiOk(ui) /\ CallsOk /\ WiresOk
  BY DEF QuestionsInv
<1>2. /\ wire' = wire /\ ui' = ui /\ overlay' = overlay /\ stopping' = stopping
      /\ formTurn' = formTurn
  OBVIOUS
<1>3. \A d \in Calls : call[d].pc # "idle" => Form!Questions(d)' = Form!Questions(d)
  BY DEF Form!Questions
<1>4. \A d \in Calls : wire[d].kind = "answered" => call[d].pc # "idle"
  BY <1>1 DEF CallsOk, Form!Open
<1>5. WiresOk'
  BY <1>1, <1>2, <1>3, <1>4 DEF WiresOk
<1>6. ui.active # None =>
        /\ ui.active \in Calls /\ call'[ui.active].pc # "idle"
        /\ Form!Questions(ui.active)' = Form!Questions(ui.active)
  BY <1>1, <1>2, <1>3 DEF UiOk, UiType, Form!Questions
<1>7. UiOk(ui)'
  BY <1>1, <1>2, <1>6 DEF UiOk, Form!Questions
<1>8. Form!ComposerIsOwed'
  BY <1>2, <1>6 DEF QuestionsInv, Form!ComposerIsOwed, Form!Question, Form!Questions
<1> QED
  BY <1>2, <1>5, <1>7, <1>8 DEF QuestionsInv, Form!OthersStay

LEMMA AskKeeps ==
    ASSUME Assumed, QuestionsInv, NEW c \in Calls, NEW form \in Forms, Form!Ask(c, form)
    PROVE  QuestionsInv' /\ Form!OthersStay
<1>1. call[c].pc = "idle" /\ CallsOk /\ c # None /\ wire' = wire
  BY DEF QuestionsInv, Form!Ask, Assumed
<1>2. PICK e \in CallType :
        /\ call' = [call EXCEPT ![c] = e]
        /\ e.form = form /\ e.answers = <<>>
        /\ \/ e.pc = "asking" /\ e.result = "none" /\ queue' = c
           \/ /\ e.pc = "done" /\ e.result \in {"cancelled", "unavailable"} /\ queue' = queue
           \/ /\ e.pc = "done" /\ e.result = "invalid" /\ ~form.sound /\ queue' = queue
  <2> DEFINE rec(pc, r) == [pc |-> pc, form |-> form, result |-> r, answers |-> <<>>]
  <2>1. \A r \in {"none", "cancelled", "unavailable", "invalid"} :
          \A pc \in {"asking", "done"} : rec(pc, r) \in CallType
    BY DEF CallType
  <2>2. CASE stopping /\ call' = [call EXCEPT ![c] = rec("done", "cancelled")]
             /\ queue' = queue
    BY <2>1, <2>2
  <2>3. CASE ~form.sound /\ call' = [call EXCEPT ![c] = rec("done", "invalid")]
             /\ queue' = queue
    BY <2>1, <2>3
  <2>4. CASE call' = [call EXCEPT ![c] = rec("done", "unavailable")] /\ queue' = queue
    BY <2>1, <2>4
  <2>5. CASE call' = [call EXCEPT ![c] = rec("asking", "none")] /\ queue' = c
    BY <2>1, <2>5
  <2> QED
    BY <2>2, <2>3, <2>4, <2>5 DEF Form!Ask
<1>3. /\ call' \in [Calls -> CallType] /\ call'[c] = e
      /\ \A d \in Calls : d # c => call'[d] = call[d]
  BY <1>1, <1>2 DEF CallsOk
<1>4. /\ UiOk(ui)' /\ Form!ComposerIsOwed' /\ WiresOk' /\ Form!OthersStay
      /\ overlay' \in BOOLEAN /\ stopping' \in BOOLEAN
      /\ (formTurn \in {"off", "drain"} => ui.active = None)'
  BY <1>1, <1>3, CallLeavesForm DEF Form!Ask
<1>5. queue' \in Calls \cup {None} /\ (queue' # None => call'[queue'].pc # "idle")
  BY <1>1, <1>2, <1>3 DEF CallsOk
<1>6. ASSUME NEW d \in Calls
      PROVE  /\ call'[d].pc # "idle" => call'[d].form \in Forms
             /\ call'[d].pc = "idle" => wire'[d] = Form!Open
             /\ call'[d].pc # "done" => call'[d].result = "none"
             /\ call'[d].result = "invalid" => ~call'[d].form.sound /\ wire'[d] = Form!Open
             /\ call'[d].result = "ok" => Form!AreValid(call'[d].answers, call'[d].form.questions)
  BY <1>1, <1>2, <1>3 DEF CallsOk, Form!Questions
<1>7. CallsOk'
  BY <1>3, <1>5, <1>6 DEF CallsOk, Form!Questions
<1> QED
  BY <1>4, <1>7 DEF QuestionsInv

LEMMA AskEndsKeeps ==
    ASSUME Assumed, QuestionsInv, NEW c \in Calls, Form!AskEnds(c)
    PROVE  QuestionsInv' /\ Form!OthersStay
<1>1. /\ call[c].pc = "asking" /\ CallsOk /\ WiresOk /\ wire' = wire /\ queue' = queue
      /\ call \in [Calls -> CallType] /\ wire \in [Calls -> WireType]
  BY DEF QuestionsInv, Form!AskEnds, Form!Waits, CallsOk, WiresOk
<1>2. PICK r \in {"ok", "cancelled", "dismissed", "unavailable", "timeout"}, as \in Seq(ItemType) :
        /\ Form!Returns(c, r, as)
        /\ r = "ok" => Form!AreValid(as, Form!Questions(c))
  <2>1. <<>> \in Seq(ItemType) /\ wire[c].answers \in Seq(ItemType)
    BY <1>1 DEF WireType
  <2>2. wire[c].kind = "answered" => Form!AreValid(wire[c].answers, Form!Questions(c))
    BY <1>1 DEF WiresOk
  <2>3. wire[c].kind = "answered" => Form!Readable(wire[c].answers, Form!Questions(c))
    BY <2>2, ValidIsReadable
  <2> QED
    BY <2>1, <2>2, <2>3 DEF Form!AskEnds, Form!TooLate
<1>3. PICK e \in CallType :
        /\ call' = [call EXCEPT ![c] = e]
        /\ e.pc = "done" /\ e.form = call[c].form /\ e.result = r /\ e.answers = as
  <2> DEFINE e == [call[c] EXCEPT !.pc = "done", !.result = r, !.answers = as]
  <2>1. /\ e \in CallType /\ e.pc = "done" /\ e.form = call[c].form /\ e.result = r
        /\ e.answers = as
    BY <1>1, <1>2 DEF CallType
  <2>2. call' = [call EXCEPT ![c] = e]
    BY <1>2 DEF Form!Returns
  <2> HIDE DEF e
  <2> QED
    BY <2>1, <2>2
<1>4. /\ call' \in [Calls -> CallType] /\ call'[c] = e
      /\ \A d \in Calls : d # c => call'[d] = call[d]
  BY <1>1, <1>3
<1>5. /\ UiOk(ui)' /\ Form!ComposerIsOwed' /\ WiresOk' /\ Form!OthersStay
      /\ overlay' \in BOOLEAN /\ stopping' \in BOOLEAN
      /\ (formTurn \in {"off", "drain"} => ui.active = None)'
  BY <1>1, <1>3, <1>4, CallLeavesForm DEF Form!AskEnds, Form!TooLate
<1>6. queue' \in Calls \cup {None} /\ (queue' # None => call'[queue'].pc # "idle")
  BY <1>1, <1>3, <1>4 DEF CallsOk
<1>7. ASSUME NEW d \in Calls
      PROVE  /\ call'[d].pc # "idle" => call'[d].form \in Forms
             /\ call'[d].pc = "idle" => wire'[d] = Form!Open
             /\ call'[d].pc # "done" => call'[d].result = "none"
             /\ call'[d].result = "invalid" => ~call'[d].form.sound /\ wire'[d] = Form!Open
             /\ call'[d].result = "ok" => Form!AreValid(call'[d].answers, call'[d].form.questions)
  BY <1>1, <1>2, <1>3, <1>4 DEF CallsOk, Form!Questions
<1>8. CallsOk'
  BY <1>4, <1>6, <1>7 DEF CallsOk, Form!Questions
<1> QED
  BY <1>5, <1>8 DEF QuestionsInv

-----------------------------------------------------------------------------
(* The theorems.                                                           *)

LEMMA QuestionsInit ==
    ASSUME Assumed
    PROVE  Form!Init => QuestionsInv
<1> SUFFICES ASSUME Form!Init
             PROVE  QuestionsInv
  OBVIOUS
<1>1. CallsOk
  <2> DEFINE idle == [pc |-> "idle", form |-> None, result |-> "none", answers |-> <<>>]
  <2>1. idle \in CallType
    BY DEF CallType
  <2>2. call = [c \in Calls |-> idle] /\ wire = [c \in Calls |-> Form!Open] /\ queue = None
    BY DEF Form!Init
  <2>3. idle.pc = "idle" /\ idle.result = "none"
    OBVIOUS
  <2> HIDE DEF idle
  <2> QED
    BY <2>1, <2>2, <2>3 DEF CallsOk
<1>2. WiresOk
  <2>1. Form!Open \in WireType /\ Form!Open.kind = "open"
    BY DEF Form!Open, WireType
  <2> QED
    BY <2>1 DEF Form!Init, WiresOk
<1>3. UiOk(ui) /\ ~Owed(ui) /\ ui.active = None
  BY NoUiIsOk DEF Form!Init, Form!NoUi
<1>4. Form!ComposerIsOwed
  BY <1>3 DEF Form!Init, Form!ComposerIsOwed
<1> QED
  BY <1>1, <1>2, <1>3, <1>4 DEF Form!Init, QuestionsInv

LEMMA QuestionsStep ==
    ASSUME Assumed
    PROVE  QuestionsInv /\ Form!Next => QuestionsInv' /\ Form!OthersStay
<1> SUFFICES ASSUME QuestionsInv, Form!Next
             PROVE  QuestionsInv' /\ Form!OthersStay
  OBVIOUS
<1>1. ASSUME NEW c \in Calls, Form!AskEnds(c) \/ \E form \in Forms : Form!Ask(c, form)
      PROVE  QuestionsInv' /\ Form!OthersStay
  BY <1>1, AskKeeps, AskEndsKeeps
<1>2. CASE Form!Top \/ Form!EventShown \/ Form!FrameWritten \/ Form!Receive \/ Form!Stop
      \/ Form!Fails \/ Form!Ignored \/ Form!Key
  <2>1. formTurn' \in {"main", "stopped", "broken"}
    BY <1>2, LoopKeepsTurn
  <2>2. GoodStep /\ call' = call /\ queue' \in {queue, None}
    <3>1. CASE Form!Top \/ Form!EventShown \/ Form!FrameWritten \/ Form!Stop \/ Form!Fails
          \/ Form!Ignored
      BY <3>1, TopIsGood, FrameIsGood, StopIsGood, FailsIsGood, IgnoredIsGood DEF Form!LoopOnly
    <3>2. CASE Form!Receive
      BY <3>2, ReceiveIsGood
    <3>3. CASE Form!Key
      BY <3>3, ListKeyIsGood, TextKeyIsGood DEF Form!Key, Form!LoopOnly
    <3> QED
      BY <1>2, <3>1, <3>2, <3>3
  <2> QED
    BY <2>1, <2>2, GoodStepKeeps
<1>3. CASE Form!StartTurn \/ Form!TurnReady \/ Form!Drained \/ Form!StopExits \/ Form!DeadlinePasses
  <2>1. GoodStep /\ call' = call /\ queue' \in {queue, None}
    BY <1>3, EndIsGood
  <2>2. formTurn' \in {"off", "drain"} => ui'.active = None
    BY <1>3 DEF QuestionsInv, Form!NoUi, Form!StartTurn, Form!TurnReady, Form!Drained,
          Form!StopExits, Form!DeadlinePasses
  <2> QED
    BY <2>1, <2>2, GoodStepKeeps
<1> QED
  BY <1>1, <1>2, <1>3 DEF Form!Next

LEMMA QuestionsStutter == QuestionsInv /\ UNCHANGED Form!vars => QuestionsInv' /\ Form!OthersStay
<1> SUFFICES ASSUME QuestionsInv, UNCHANGED Form!vars
             PROVE  QuestionsInv' /\ Form!OthersStay
  OBVIOUS
<1> USE DEF Form!vars
<1>1. CallsOk' /\ WiresOk'
  BY DEF QuestionsInv, CallsOk, WiresOk, Form!Questions
<1>2. UiOk(ui)'
  BY DEF QuestionsInv, UiOk, Form!Questions
<1>3. Form!ComposerIsOwed'
  BY DEF QuestionsInv, Form!ComposerIsOwed, Form!Question, Form!Questions
<1> QED
  BY <1>1, <1>2, <1>3 DEF QuestionsInv, Form!OthersStay

\* What a batch of questions is told is what was answered: whatever the calls, the forms and
\* the texts, UserQuestionEnvelope::answer and ask refuse no form that the terminal submits,
\* and the tool returns one valid answer for each question.
THEOREM AnswersAreTaken ==
    ASSUME Assumed
    PROVE  Form!Spec => []Form!AnswerIsTaken
<1>1. QuestionsInv => Form!AnswerIsTaken
  BY DEF QuestionsInv, CallsOk, WiresOk, Form!AnswerIsTaken
<1> QED
  BY <1>1, QuestionsInit, QuestionsStep, QuestionsStutter, PTL DEF Form!Spec

\* The composer that a free answer borrows comes back: on every way out of a form, and of a
\* turn, begin_question_overlay_with and finish_question_overlay are called in turn.
THEOREM ComposerComesBack ==
    ASSUME Assumed
    PROVE  Form!Spec => []Form!ComposerIsOwed
<1>1. QuestionsInv => Form!ComposerIsOwed
  BY DEF QuestionsInv
<1> QED
  BY <1>1, QuestionsInit, QuestionsStep, QuestionsStutter, PTL DEF Form!Spec

\* Every way between the pages of a form keeps the answers of the others.
THEOREM PagesKeepDrafts ==
    ASSUME Assumed
    PROVE  Form!Spec => Form!DraftsStay
<1> QED
  BY QuestionsInit, QuestionsStep, QuestionsStutter, PTL DEF Form!Spec, Form!DraftsStay

=============================================================================
