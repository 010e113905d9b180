--------------------------- MODULE SessionRecovery ---------------------------
(***************************************************************************)
(* A session's journal across stops of the process and of the machine: the *)
(* rows a live session writes, what a stop leaves of them, the cold scan   *)
(* that reads them back, the suffix that repairs them, and the two-phase   *)
(* resume that writes it, itself interrupted at any point.                 *)
(*                                                                         *)
(* A row keeps what admission and recovery compare: its kind, the call it  *)
(* is about, an outcome, the position of the tool/call it answers, the     *)
(* anchor hashed into the identity of a recovery result, and whether it    *)
(* carries the time of the row before it.  Turns and steps are numbered by *)
(* their order.  Provider attempts, surfaces and prune markers change      *)
(* neither the plan nor its admission and are left out.                    *)
(***************************************************************************)
EXTENDS Naturals, Sequences, FiniteSets

CONSTANTS
    CallLists,  \* lists of calls an assistant message may declare
    MaxRows,    \* bound: rows in the file when a live session adds one
    MaxStops    \* bound: ends of the process

ASSUME BoundsAssumption == MaxRows \in Nat /\ MaxStops \in Nat

VARIABLES
    file,        \* the journal as the file system shows it: rows and a tail
    disk,        \* what of it is durable
    phase,       \* "live", "down", and where a resume stands
    projection,  \* the live session's, or the one its resume will start with
    suffix,      \* rows a committing resume has still to write
    dispatched,  \* history: positions of the tool/call rows whose body ran
    goal,        \* history: the rows the first commit of this repair settled on
    stops        \* ends of the process so far

vars == <<file, disk, phase, projection, suffix, dispatched, goal, stops>>

-----------------------------------------------------------------------------
Calls == UNION {{list[i] : i \in DOMAIN list} : list \in CallLists}
NoCall == "no call"

Decisions == {"AllowedOnce", "Rejected", "Cancelled", "Unavailable"}

Blank == [kind |-> "none", calls |-> <<>>, call |-> NoCall, outcome |-> "none",
          intent |-> 0, anchor |-> 0, same |-> FALSE]
Plain(kind)         == [Blank EXCEPT !.kind = kind]
TurnEnd(reason)     == [Plain("turn/end") EXCEPT !.outcome = reason]
OfCall(kind, c)     == [Plain(kind) EXCEPT !.call = c]
Decided(c, outcome) == [OfCall("approval/decided", c) EXCEPT !.outcome = outcome]
Result(c, intent, code, anchor) ==
    [OfCall("tool/result", c) EXCEPT !.intent = intent, !.outcome = code,
                                     !.anchor = anchor]
EndSeed == Plain("session/end-seed")

\* Rows that only recovery may write.
RecoveryOnly(row) ==
    \/ row.kind = "session/end-seed"
    \/ row.kind = "turn/end" /\ row.outcome = "interrupted"
    \/ row.kind = "tool/result" /\ row.anchor > 0

-----------------------------------------------------------------------------
(* The projection *)

Empty == [boundary |-> "idle", calls |-> <<>>, compacting |-> FALSE]

Declared(c)    == [id |-> c, intent |-> 0, approval |-> "none", done |-> FALSE]
Unresolved(p)  == SelectSeq(p.calls, LAMBDA call : ~call.done)
Positions(p, c) == {i \in DOMAIN p.calls : p.calls[i].id = c}

\* Declared calls start in the order of their declaration.
NextCall(p) == {i \in DOMAIN p.calls :
                  /\ p.calls[i].intent = 0 /\ ~p.calls[i].done
                  /\ \A j \in 1..i - 1 : p.calls[j].intent # 0 \/ p.calls[j].done}

ResultCode(approval) ==
    CASE approval = "Rejected"    -> "APPROVAL_REJECTED"
      [] approval = "Cancelled"   -> "APPROVAL_CANCELLED"
      [] approval = "Unavailable" -> "APPROVAL_UNAVAILABLE"

Resolves(call, row) ==
    /\ ~call.done /\ call.approval # "pending"
    /\ row.intent = call.intent
    /\ call.intent = 0 => row.outcome = "TOOL_NOT_STARTED"
    /\ call.approval \in Decisions \ {"AllowedOnce"} =>
         row.outcome = ResultCode(call.approval)

\* apply_transition for a row of the recovery plan.
Admits(p, row) ==
    \/ row.kind = "turn/start" /\ p.boundary = "idle"
    \/ row.kind = "turn/end" /\ p.boundary = "turn"
    \/ row.kind = "step/start" /\ p.boundary = "turn"
    \/ row.kind = "step/end" /\ p.boundary = "step" /\ Unresolved(p) = <<>>
    \/ row.kind = "assistant/message" /\ p.boundary = "step" /\ p.calls = <<>>
    \/ row.kind = "tool/call" /\ \E i \in NextCall(p) : p.calls[i].id = row.call
    \/ /\ row.kind = "approval/asked"
       /\ \A i \in DOMAIN p.calls : p.calls[i].approval # "pending"
       /\ \E i \in Positions(p, row.call) :
            /\ p.calls[i].intent # 0 /\ ~p.calls[i].done
            /\ p.calls[i].approval = "none"
    \/ /\ row.kind = "approval/decided"
       /\ \E i \in Positions(p, row.call) : p.calls[i].approval = "pending"
    \/ /\ row.kind = "tool/result"
       /\ \E i \in Positions(p, row.call) : Resolves(p.calls[i], row)
    \/ row.kind = "compaction/start" /\ ~p.compacting /\ Unresolved(p) = <<>>
    \/ row.kind = "compaction/end" /\ p.compacting
    \/ row.kind = "session/end-seed" /\ p.boundary # "step"

\* Any other row is admitted under the same rules and two more.
AdmitsOrdinary(p, row) ==
    /\ Admits(p, row)
    /\ ~RecoveryOnly(row)
    /\ p.compacting => row.kind = "compaction/end"

WithCall(p, c, field, value) ==
    [p EXCEPT !.calls = [i \in DOMAIN p.calls |->
        IF p.calls[i].id = c THEN [p.calls[i] EXCEPT ![field] = value]
                             ELSE p.calls[i]]]

\* The projection after the row at this position.
Applied(p, row, position) ==
    CASE row.kind \in {"turn/start", "step/end"} ->
           [p EXCEPT !.boundary = "turn", !.calls = <<>>]
      [] row.kind = "turn/end"   -> [p EXCEPT !.boundary = "idle"]
      [] row.kind = "step/start" -> [p EXCEPT !.boundary = "step"]
      [] row.kind = "assistant/message" ->
           [p EXCEPT !.calls = [i \in DOMAIN row.calls |-> Declared(row.calls[i])]]
      [] row.kind = "tool/call" -> WithCall(p, row.call, "intent", position)
      [] row.kind = "approval/asked" -> WithCall(p, row.call, "approval", "pending")
      [] row.kind = "approval/decided" ->
           WithCall(p, row.call, "approval", row.outcome)
      [] row.kind = "tool/result" -> WithCall(p, row.call, "done", TRUE)
      [] row.kind = "compaction/start" -> [p EXCEPT !.compacting = TRUE]
      [] row.kind \in {"compaction/end", "session/end-seed"} ->
           [p EXCEPT !.compacting = FALSE]

-----------------------------------------------------------------------------
(* The recovery plan *)

\* Mutant: a call without a result never started.
RecoveryCodeNotStarted(call) == "TOOL_NOT_STARTED"

\* recovery_result_kind
RecoveryCode(call) ==
    CASE call.intent = 0 -> "TOOL_NOT_STARTED"
      [] call.intent # 0 /\ call.approval = "pending" -> "APPROVAL_CANCELLED"
      [] call.intent # 0 /\ call.approval \in Decisions \ {"AllowedOnce"} ->
           ResultCode(call.approval)
      [] call.intent # 0 /\ call.approval \in {"none", "AllowedOnce"} ->
           "TOOL_OUTCOME_UNKNOWN"

SameTime(rows) == [i \in DOMAIN rows |-> [rows[i] EXCEPT !.same = TRUE]]

Cancellations(p) ==
    LET undecided == SelectSeq(p.calls, LAMBDA call : call.approval = "pending")
    IN  [i \in DOMAIN undecided |-> Decided(undecided[i].id, "Cancelled")]

Repairs(p, anchor) ==
    [i \in DOMAIN Unresolved(p) |->
       LET call == Unresolved(p)[i]
       IN  Result(call.id, call.intent, RecoveryCode(call), anchor)]

\* Every closer carries the time of the last row.
Closers(p, anchor) ==
    SameTime(IF p.boundary = "step"
             THEN Cancellations(p) \o Repairs(p, anchor) \o <<Plain("step/end")>>
             ELSE <<>>)
    \o SameTime(IF p.boundary = "idle" THEN <<>> ELSE <<TurnEnd("interrupted")>>)

Plan(p, anchor, endsWithSeed) ==
    Closers(p, anchor) \o (IF endsWithSeed THEN <<>> ELSE <<EndSeed>>)

-----------------------------------------------------------------------------
(* The cold scan *)

NoCursor == [anchor |-> 0, confirmed |-> FALSE]
Start == [ok |-> TRUE, projection |-> Empty, cursor |-> NoCursor,
          endsWithSeed |-> FALSE, count |-> 0]
Corrupt == [Start EXCEPT !.ok = FALSE]

\* recovery_event_matches
Matches(s, row, anchor) == row = Head(Plan(s.projection, anchor, FALSE))

Read(s, row, cursor) ==
    [ok |-> TRUE, projection |-> Applied(s.projection, row, s.count + 1),
     cursor |-> cursor, endsWithSeed |-> row.kind = "session/end-seed",
     count |-> s.count + 1]

\* Rows a live session writes as well.
TentativeStart(row) ==
    \/ row.kind = "approval/decided" /\ row.outcome = "Cancelled"
    \/ row.kind = "step/end"

\* Mutant: every repair row is its own anchor.
ColdStepForgetsAnchor(s, row) ==
    LET repair == /\ TentativeStart(row) \/ RecoveryOnly(row)
                  /\ Matches(s, row, s.count) /\ Admits(s.projection, row)
    IN  IF ~s.ok \/ (s.endsWithSeed /\ row.kind = "session/end-seed") THEN Corrupt
        ELSE IF repair \/ AdmitsOrdinary(s.projection, row)
        THEN Read(s, row, NoCursor) ELSE Corrupt

\* apply_cold_event: the next row of a repair under way, the first of one, or an
\* ordinary row, which a confirmed repair excludes.
ColdStep(s, row) ==
    LET inRepair == s.cursor # NoCursor
        anchor   == IF inRepair THEN s.cursor.anchor ELSE s.count
        repair   == /\ inRepair \/ TentativeStart(row) \/ RecoveryOnly(row)
                    /\ Matches(s, row, anchor) /\ Admits(s.projection, row)
        cursor   == [anchor |-> anchor,
                     confirmed |-> s.cursor.confirmed \/ RecoveryOnly(row)]
    IN  IF ~s.ok \/ (s.endsWithSeed /\ row.kind = "session/end-seed") THEN Corrupt
        ELSE IF repair
        THEN Read(s, row, IF row.kind = "session/end-seed" THEN NoCursor
                                                           ELSE cursor)
        ELSE IF ~s.cursor.confirmed /\ AdmitsOrdinary(s.projection, row)
        THEN Read(s, row, NoCursor)
        ELSE Corrupt

ScanRows(rows) ==
    LET scanned[n \in 0..Len(rows)] ==
          IF n = 0 THEN Start ELSE ColdStep(scanned[n - 1], rows[n])
    IN  scanned[Len(rows)]

\* A bad line at the end is ignored, one before a readable row is not.
Scan(f) == IF f.tail = "interior" THEN Corrupt ELSE ScanRows(f.rows)

\* Mutant: a repair continued later is anchored where it is continued.
AnchorFresh(s) == s.count

\* prepare_recovery: the anchor of the repair this one continues.
Anchor(s) == IF s.cursor = NoCursor THEN s.count ELSE s.cursor.anchor

PlanFor(s) == Plan(s.projection, Anchor(s), s.endsWithSeed)

DryStep(s, row) ==
    IF s.ok /\ Admits(s.projection, row) THEN Read(s, row, NoCursor) ELSE Corrupt

\* The plan's rows applied to a copy of the projection.
Recovered(s) ==
    LET plan == PlanFor(s)
        after[n \in 0..Len(plan)] ==
          IF n = 0 THEN s ELSE DryStep(after[n - 1], plan[n])
    IN  after[Len(plan)]

Repairable(s) == s.ok /\ Recovered(s).ok

-----------------------------------------------------------------------------
(* The live session *)

Tails  == {"none", "torn", "garbage", "interior"}
Files  == [rows : Seq([kind : STRING, calls : CallLists \cup {<<>>},
                       call : Calls \cup {NoCall}, outcome : STRING,
                       intent : Nat, anchor : Nat, same : BOOLEAN]),
           tail : Tails]
Phases == {"live", "down", "prepared", "truncated", "writing", "refused"}

TypeOK ==
    /\ file \in Files /\ disk \in Files
    /\ phase \in Phases
    /\ projection.boundary \in {"idle", "turn", "step"}
    /\ projection.compacting \in BOOLEAN
    /\ dispatched \subseteq DOMAIN disk.rows
    /\ stops \in 0..MaxStops
    /\ phase \notin {"prepared", "truncated", "writing"} => suffix = <<>>

NoRows == [rows |-> <<>>, tail |-> "none"]

Init ==
    /\ file = NoRows /\ disk = NoRows
    /\ phase = "live" /\ projection = Empty
    /\ suffix = <<>> /\ dispatched = {} /\ goal = <<>> /\ stops = 0

\* How a live session reports a call: as the approval was decided, or the
\* result of the body or of a failure before it.
LiveResult(call) ==
    Result(call.id, call.intent,
           IF call.approval \in Decisions \ {"AllowedOnce"}
           THEN ResultCode(call.approval) ELSE "live", 0)

\* Rows an agent tries; a decision or the end of a step may come in the same
\* millisecond as the row before it, and approval is asked before the body runs.
LiveRows ==
    {Plain(kind) : kind \in {"turn/start", "step/start", "compaction/start",
                             "compaction/end"}}
    \cup {TurnEnd("completed")}
    \cup {[Plain("step/end") EXCEPT !.same = same] : same \in BOOLEAN}
    \cup {[Plain("assistant/message") EXCEPT !.calls = list] : list \in CallLists}
    \cup UNION {{OfCall("tool/call", call.id), LiveResult(call)}
                \cup (IF call.intent \in dispatched THEN {}
                      ELSE {OfCall("approval/asked", call.id)})
                \cup {[Decided(call.id, outcome) EXCEPT !.same = same] :
                        outcome \in Decisions, same \in BOOLEAN} :
                call \in {projection.calls[i] : i \in DOMAIN projection.calls}}

AppendRow(row) ==
    /\ phase = "live" /\ Len(file.rows) < MaxRows
    /\ AdmitsOrdinary(projection, row)
    /\ file' = [file EXCEPT !.rows = Append(@, row)]
    /\ projection' = Applied(projection, row, Len(file.rows) + 1)
    /\ goal' = <<>>
    /\ UNCHANGED <<disk, phase, suffix, dispatched, stops>>

Barrier ==
    /\ phase = "live" /\ disk # file
    /\ disk' = file
    /\ UNCHANGED <<file, phase, projection, suffix, dispatched, goal, stops>>

\* A tool's body starts once its tool/call row and the decision that allows it
\* are behind a barrier.
Dispatch(call) ==
    /\ phase = "live"
    /\ call.intent \in DOMAIN disk.rows \ dispatched /\ ~call.done
    /\ call.approval \in {"none", "AllowedOnce"}
    /\ call.approval = "AllowedOnce" =>
         \E j \in DOMAIN disk.rows :
            /\ j > call.intent
            /\ disk.rows[j].kind = "approval/decided"
            /\ disk.rows[j].call = call.id
    /\ dispatched' = dispatched \cup {call.intent}
    /\ UNCHANGED <<file, disk, phase, projection, suffix, goal, stops>>

-----------------------------------------------------------------------------
(* Stops *)

\* The process ends, perhaps inside a write.
ProcessDies ==
    /\ phase \notin {"down", "refused"} /\ stops < MaxStops
    /\ phase' = "down" /\ stops' = stops + 1
    /\ \/ UNCHANGED file
       \/ phase \in {"live", "writing"} /\ file' = [file EXCEPT !.tail = "torn"]
    /\ suffix' = <<>>
    /\ UNCHANGED <<disk, projection, dispatched, goal>>

\* What the machine's stop may leave: rows that are durable, some of the others,
\* and a bad end; blocks may reach the disk out of order.
Images ==
    {f \in [rows : {SubSeq(file.rows, 1, n) :
                      n \in Len(disk.rows)..Len(file.rows)},
            tail : Tails] :
        \/ f.rows = disk.rows /\ f.tail = disk.tail
        \/ f.rows = file.rows /\ f.tail = file.tail
        \/ Len(f.rows) < Len(file.rows) /\ f.tail \in {"none", "torn", "garbage"}
        \/ Len(f.rows) + 1 < Len(file.rows) /\ f.tail = "interior"}

PowerFails ==
    /\ phase # "refused" /\ stops < MaxStops
    /\ phase' = "down" /\ stops' = stops + 1
    /\ file' \in Images /\ disk' = file'
    /\ suffix' = <<>>
    /\ UNCHANGED <<projection, dispatched, goal>>

-----------------------------------------------------------------------------
(* Resume *)

\* prepare_locked: the scan and the plan; nothing is written.
Prepare ==
    /\ phase = "down"
    /\ LET s == Scan(file)
       IN  IF Repairable(s)
           THEN /\ phase' = "prepared"
                /\ projection' = Recovered(s).projection
                /\ suffix' = PlanFor(s)
           ELSE /\ phase' = "refused"
                /\ UNCHANGED <<projection, suffix>>
    /\ UNCHANGED <<file, disk, dispatched, goal, stops>>

\* The user declines, or a step of the commit fails.
GiveUp ==
    /\ phase \in {"prepared", "truncated"}
    /\ phase' = "down" /\ suffix' = <<>>
    /\ UNCHANGED <<file, disk, projection, dispatched, goal, stops>>

\* Mutant: the last good row is cut off with the bad tail.
TruncateTooMuch ==
    /\ phase = "prepared" /\ file.rows # <<>>
    /\ file' = [rows |-> SubSeq(file.rows, 1, Len(file.rows) - 1), tail |-> "none"]
    /\ phase' = "truncated"
    /\ UNCHANGED <<disk, projection, suffix, dispatched, goal, stops>>

\* commit_recovery_suffix: cut the file behind the last good row, ...
Truncate ==
    /\ phase = "prepared"
    /\ file' = [file EXCEPT !.tail = "none"]
    /\ phase' = "truncated"
    /\ UNCHANGED <<disk, projection, suffix, dispatched, goal, stops>>

\* ... make that durable, ...
SyncCut ==
    /\ phase = "truncated"
    /\ disk' = file
    /\ phase' = "writing"
    /\ goal' = IF goal = <<>> THEN file.rows \o suffix ELSE goal
    /\ UNCHANGED <<file, projection, suffix, dispatched, stops>>

\* ... write the plan's rows ...
WriteRow ==
    /\ phase = "writing" /\ suffix # <<>>
    /\ file' = [file EXCEPT !.rows = Append(@, Head(suffix))]
    /\ suffix' = Tail(suffix)
    /\ UNCHANGED <<disk, phase, projection, dispatched, goal, stops>>

\* (a failed write is undone, if that succeeds)
WriteFails ==
    /\ phase = "writing" /\ suffix # <<>>
    /\ \/ file' = [file EXCEPT !.tail = "torn"] /\ UNCHANGED disk
       \/ file' = [rows |-> SubSeq(file.rows, 1, Len(disk.rows)), tail |-> "none"]
          /\ UNCHANGED disk
    /\ phase' = "down" /\ suffix' = <<>>
    /\ UNCHANGED <<projection, dispatched, goal, stops>>

\* ... and make them durable; the session is live again, or the error is
\* reported and nothing is undone.
SyncSuffix ==
    /\ phase = "writing" /\ suffix = <<>>
    /\ \/ disk' = file /\ phase' = "live"
       \/ UNCHANGED disk /\ phase' = "down"
    /\ UNCHANGED <<file, projection, suffix, dispatched, goal, stops>>

-----------------------------------------------------------------------------
Next ==
    \/ \E row \in LiveRows : AppendRow(row)
    \/ \E i \in DOMAIN projection.calls : Dispatch(projection.calls[i])
    \/ Barrier \/ ProcessDies \/ PowerFails
    \/ Prepare \/ GiveUp \/ Truncate \/ SyncCut \/ WriteRow \/ WriteFails
    \/ SyncSuffix

Spec == Init /\ [][Next]_vars

-----------------------------------------------------------------------------
(* Safety *)

\* Whatever a stop leaves of the journal, of an interrupted repair or of a
\* repair of an interrupted repair, reads as sound, unless blocks reached the
\* disk out of order.
AlwaysReadable ==
    TypeOK /\ \A f \in {file, disk} : f.tail # "interior" => Repairable(Scan(f))

\* The projection a session resumes with, and keeps, is the one its journal
\* would be read back to; one that was repaired starts outside any turn, call or
\* compaction.
ProjectionRebuilt ==
    phase = "live" =>
      /\ ScanRows(file.rows).projection = projection
      /\ goal # <<>> => projection = Empty

\* A repair continued after an interruption ends with the rows it set out for, and
\* the session that follows is the one these rows would be read back to.
RepairConverges ==
    /\ phase = "writing" => file.rows \o suffix = goal
    /\ ProjectionRebuilt

\* A body that ran is never reported as not started or not allowed.
OutcomeIsHonest ==
    \A i \in DOMAIN file.rows :
       file.rows[i].kind = "tool/result" /\ file.rows[i].intent \in dispatched =>
         file.rows[i].outcome \in {"live", "TOOL_OUTCOME_UNKNOWN"}

\* The rows by which a live session was repaired cannot be lost again.
RepairIsDurable ==
    phase = "live" =>
      \A i \in DOMAIN file.rows : RecoveryOnly(file.rows[i]) => i \in DOMAIN disk.rows

(* Action properties *)

\* No durable row is ever changed or cut off.
DurableRowsStay ==
    [][\A i \in DOMAIN disk.rows :
         i \in DOMAIN disk'.rows /\ disk'.rows[i] = disk.rows[i]]_vars

\* A journal whose bad line precedes a readable row is left as it is.
InteriorIsKept == [][file.tail = "interior" => file' = file]_vars
=============================================================================
