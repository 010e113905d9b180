----------------------------- MODULE TurnReplay -----------------------------
(***************************************************************************)
(* What a journal says of a turn: the fold of Projection and of            *)
(* AttemptProjection (src/session/projection.rs, attempt_anchor.rs) over   *)
(* the rows of a cold scan, and what recovery adds to it.                  *)
(*                                                                         *)
(* A row has its kind and step; `of` is the call a header or a retry is    *)
(* about, what a chunk brings, or "error" for a summary that failed; `n`   *)
(* is the number of a retry.  Tool calls are folded in SessionRecovery.    *)
(* Usage, digests, routes, surfaces and the compaction inside a step,      *)
(* which no caller starts, are left out.                                   *)
(***************************************************************************)
EXTENDS Naturals, Sequences, FiniteSets

\* A projection: where the journal stands, the state of the step's attempt, the header
\* in force, the retries scheduled so far, and how far an open summary has come.
Nothing == [ok |-> TRUE, boundary |-> "idle", step |-> 0, attempt |-> "outside",
            header |-> "none", schedules |-> {}, bracket |-> "none"]

HasOpenAttempt(p) == p.attempt \in {"streaming", "finished", "failed"}

-----------------------------------------------------------------------------
(* Which rows are admitted *)

AtStep(p, row) == p.boundary = "step" /\ row.step = p.step

Schedule(row) == [step |-> row.step, of |-> row.of, n |-> row.n, started |-> FALSE]

\* A chain of retries is numbered from one.
NextRetry(p, row) ==
    1 + Cardinality({s \in p.schedules : s.step = row.step /\ s.of = row.of})

InBracket == {"compaction/summary", "compaction/checkpoint", "compaction/end"}

Boundaries(p, row) ==
    \/ row.kind = "turn/start" /\ p.boundary = "idle"
    \/ row.kind = "turn/end" /\ p.boundary = "turn"
    \/ row.kind = "step/start" /\ p.boundary = "turn" /\ row.step = p.step + 1
                               /\ p.attempt = "outside"
    \/ row.kind = "step/end" /\ AtStep(p, row) /\ p.attempt # "outside"
    \/ row.kind = "request/header" /\ p.boundary # "idle"

Attempts(p, row) ==
    \/ row.kind = "chunk" /\ AtStep(p, row) /\ p.attempt \in {"ready", "streaming"}
    \/ row.kind = "assistant" /\ AtStep(p, row) /\ p.attempt = "finished"
    \/ row.kind = "results" /\ AtStep(p, row) /\ p.attempt = "committed"

\* A retry names the provider of the header and is announced once; after its step the
\* announcement would still be read.
Retries(p, row) ==
    \/ /\ row.kind = "retry" /\ AtStep(p, row) /\ p.attempt = "failed"
       /\ row.of = p.header /\ row.n = NextRetry(p, row)
    \/ /\ row.kind = "retry/started" /\ Schedule(row) \in p.schedules
       /\ AtStep(p, row) => p.attempt = "scheduled"

\* The rows of a summary follow one another directly.
Brackets(p, row) ==
    \/ row.kind = "compaction/start" /\ p.boundary = "turn"
    \/ row.kind = "compaction/summary" /\ p.bracket = "started"
    \/ row.kind = "compaction/checkpoint" /\ p.bracket = "summarised"
    \/ /\ row.kind = "compaction/end" /\ p.bracket # "none"
       /\ row.of # "error" => p.bracket = "replaced"

Admitted(p, row) ==
    /\ p.bracket # "none" <=> row.kind \in InBracket
    /\ Boundaries(p, row) \/ Attempts(p, row) \/ Retries(p, row) \/ Brackets(p, row)

-----------------------------------------------------------------------------
(* What a row changes *)

\* The attempt's state after a row: a scanned step's end closes what is open.
AttemptAfter(p, row) ==
    CASE row.kind = "step/start" -> "ready"
      [] row.kind = "retry/started" /\ AtStep(p, row) -> "ready"
      [] row.kind = "chunk" /\ row.of = "content" -> "streaming"
      [] row.kind = "chunk" /\ row.of = "finish"  -> "finished"
      [] row.kind = "chunk" /\ row.of = "failure" -> "failed"
      [] row.kind = "assistant" -> "committed"
      [] row.kind = "retry"     -> "scheduled"
      [] row.kind = "step/end"  -> "outside"
      [] OTHER -> p.attempt

SchedulesAfter(p, row) ==
    CASE row.kind = "retry" -> p.schedules \cup {Schedule(row)}
      [] row.kind = "retry/started" ->
           (p.schedules \ {Schedule(row)}) \cup {[Schedule(row) EXCEPT !.started = TRUE]}
      [] OTHER -> p.schedules

BoundaryAfter(p, row) ==
    CASE row.kind \in {"turn/start", "step/end"} -> "turn"
      [] row.kind = "turn/end"   -> "idle"
      [] row.kind = "step/start" -> "step"
      [] OTHER -> p.boundary

BracketAfter(p, row) ==
    CASE row.kind = "compaction/start"      -> "started"
      [] row.kind = "compaction/summary"    -> "summarised"
      [] row.kind = "compaction/checkpoint" -> "replaced"
      [] row.kind \in {"compaction/end", "session/end-seed"} -> "none"
      [] OTHER -> p.bracket

After(p, row) ==
    [ok |-> p.ok, boundary |-> BoundaryAfter(p, row), attempt |-> AttemptAfter(p, row),
     step |-> CASE row.kind = "turn/start" -> 0
                [] row.kind = "step/start" -> row.step
                [] OTHER -> p.step,
     header |-> IF row.kind = "request/header" THEN row.of ELSE p.header,
     schedules |-> SchedulesAfter(p, row), bracket |-> BracketAfter(p, row)]

\* apply_scanned_row: a row that is not admitted makes the journal corrupt.
Scanned(p, row) == IF p.ok /\ Admitted(p, row) THEN After(p, row) ELSE [p EXCEPT !.ok = FALSE]

Replay(rows) ==
    LET scan[n \in 0..Len(rows)] == IF n = 0 THEN Nothing ELSE Scanned(scan[n - 1], rows[n])
    IN  scan[Len(rows)]

-----------------------------------------------------------------------------
(* Recovery *)

\* apply_recovery_admission: a repair may close what is open inside an open summary.
Repairs(p, row) ==
    \/ row.kind = "session/end-seed" /\ p.attempt = "outside"
    \/ row.kind \in {"step/end", "turn/end"} /\ Boundaries(p, row)

Closers(p) ==
    LET row(kind) == [kind |-> kind, step |-> p.step, of |-> "none", n |-> 0]
    IN  (IF p.boundary = "step" THEN <<row("step/end")>> ELSE <<>>)
        \o (IF p.boundary = "idle" THEN <<>> ELSE <<row("turn/end")>>)
        \o <<row("session/end-seed")>>

Repaired(p, row) == IF p.ok /\ Repairs(p, row) THEN After(p, row) ELSE [p EXCEPT !.ok = FALSE]

Recovered(p) ==
    LET rows == Closers(p)
        repair[n \in 0..Len(rows)] == IF n = 0 THEN p ELSE Repaired(repair[n - 1], rows[n])
    IN  repair[Len(rows)]

\* is_quiescent_for_search
Quiescent(p) == p.boundary = "idle" /\ p.bracket = "none" /\ p.attempt = "outside"

=============================================================================
