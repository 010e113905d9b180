----------------------------- MODULE DurableLog -----------------------------
(***************************************************************************)
(* What the session layer is promised by its journal, whatever thread,     *)
(* channel, cancellation or disk failure lies below: entries are accepted  *)
(* in order, a growing prefix of them survives a crash, a promise is made  *)
(* only when everything accepted survives, and the log ends with one       *)
(* verdict that is "clean" only when nothing accepted was left behind.     *)
(***************************************************************************)
EXTENDS Naturals, Sequences

CONSTANTS
    Entry,
    Batches    \* the sequences of entries that may be accepted at once

VARIABLES
    log,       \* entries accepted
    stable,    \* entries that survive a crash
    promised,  \* how many entries the caller was told are durable
    verdict    \* "open", "clean", "failed"

vars == <<log, stable, promised, verdict>>

TypeOK == /\ log \in Seq(Entry) /\ stable \in Seq(Entry)
          /\ promised \in Nat
          /\ verdict \in {"open", "clean", "failed"}

Init == log = <<>> /\ stable = <<>> /\ promised = 0 /\ verdict = "open"

Accept(entries) == /\ verdict = "open"
                   /\ log' = log \o entries
                   /\ UNCHANGED <<stable, promised, verdict>>

\* More entries reach stable storage, perhaps after the log was given up.
Persist == /\ verdict # "clean"
           /\ \E n \in Len(stable)..Len(log) : stable' = SubSeq(log, 1, n)
           /\ UNCHANGED <<log, promised, verdict>>

Promise == /\ verdict = "open" /\ stable = log
           /\ promised' = Len(log)
           /\ UNCHANGED <<log, stable, verdict>>

CloseClean == /\ verdict = "open" /\ stable = log
              /\ verdict' = "clean"
              /\ promised' \in {promised, Len(log)}
              /\ UNCHANGED <<log, stable>>

CloseFailed == /\ verdict = "open"
               /\ verdict' = "failed"
               /\ UNCHANGED <<log, stable, promised>>

Next == (\E entries \in Batches : Accept(entries)) \/ Persist \/ Promise
          \/ CloseClean \/ CloseFailed

Spec == Init /\ [][Next]_vars

=============================================================================
