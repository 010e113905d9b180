----------------------------- MODULE Subprocess -----------------------------
(***************************************************************************)
(* One foreground command: the two blocking jobs that prepare it           *)
(* (tools/shell.rs), the driver that starts it, reads its pipes, stops its *)
(* process group and reaps it (tools/process.rs), and the scan of the      *)
(* process table that says when the group is gone (tools/process/linux.rs).*)
(*                                                                         *)
(* Beside the driver act the leader and the members of its group, a        *)
(* process that has left the group and still holds the pipes, the clocks,  *)
(* and the kernel.  What the driver knows is in drv, what is true is in    *)
(* os.  One event of the driver, with the clean-up that follows it in the  *)
(* same turn of the loop, is one action.                                   *)
(***************************************************************************)
EXTENDS Naturals, FiniteSets, FiniteSetsExt

CONSTANTS
    Members,    \* process ids that members of the group may get, in scan order
    Streams,    \* the output streams that are followed
    Limit,      \* MAX_OBSERVED_BYTES, over both streams
    MaxBytes,   \* bytes the command writes at most
    MaxFaults,  \* failures of the kernel's interfaces in one run
    Coming,     \* the stops that may come in one run,
    MaxStops,   \* and how many of them do
    MaxBehind   \* forks whose id lies behind a running scan

ASSUME BoundsAssumption ==
    /\ Members \subseteq Nat \ {0}
    /\ Streams \subseteq {"stdout", "stderr"}
    /\ IsFiniteSet(Members)
    /\ Coming \subseteq {"caller", "turn", "action", "command"}
    /\ {Limit, MaxBytes, MaxFaults, MaxStops, MaxBehind} \subseteq Nat

Stops == {"caller", "turn", "action", "command"}
Causes == Stops \cup {"setup", "read", "limit", "drain", "background"}
Running == {"observing", "reaping", "draining"}

VARIABLES
    pc,         \* where the call is
    due,        \* the stops that have come: a cancellation, a deadline gone by
    stop,       \* SetupStop, ActionStop: the first stop of a preparing job
    worker,     \* the blocking job that prepares or checks
    drv,        \* RunningProcess
    os,         \* the processes, the pipes, the signals
    scan,       \* the scan of the process table, a blocking job
    reap,       \* the blocking job that waits for the leader
    outcome     \* ProcessOutcome, or what the shell answers without one

vars == <<pc, due, stop, worker, drv, os, scan, reap, outcome>>

NoScan == [result |-> "none", left |-> {}, live |-> FALSE, mutated |-> FALSE]
NoOutcome == [kind |-> "none", cause |-> "none", turnStop |-> "none", how |-> "none"]

NewDriver == [primary |-> "none", turnStop |-> "none", natural |-> "none",
              term |-> FALSE, kill |-> FALSE, grace |-> "off", drain |-> "off",
              armed |-> FALSE, passes |-> 0, open |-> {}, cut |-> {},
              flags |-> {}, got |-> 0, anchor |-> "none"]

Init ==
    /\ pc = "setup"
    /\ due = {}
    /\ stop = "none"
    /\ worker = "running"
    /\ drv = NewDriver
    /\ os = [leader |-> "none", how |-> "none", group |-> [m \in Members |-> "none"],
             escaped |-> FALSE, unread |-> [s \in Streams |-> 0],
             stray |-> FALSE, faults |-> 0, behind |-> 0]
    /\ scan = NoScan
    /\ reap = "none"
    /\ outcome = NoOutcome

-----------------------------------------------------------------------------
(* The latches of the stops.                                               *)

TurnStops == {"caller", "turn"}
TurnStopOf(s) == IF s \in TurnStops THEN s ELSE "none"
First(old, new) == IF old = "none" THEN new ELSE old

\* The order in which the code looks at them.
StopOrder == <<"caller", "turn", "action", "command">>
FirstOf(S) == StopOrder[Min({i \in 1 .. 4 : StopOrder[i] \in S})]

\* sample_start_stop.
SampleStart == IF due \ {"command"} = {} THEN "none" ELSE FirstOf(due \ {"command"})

\* Faulty variant: the command's deadline is still heard after its end was seen.
HeardLate(d) ==
    due \cap (   (IF d.turnStop = "none" THEN TurnStops ELSE {})
            \cup (IF d.primary = "none" THEN {"action", "command"} ELSE {}))

\* sample_stop: the stops that the driver still listens to.
Heard(d) ==
    due \cap (   (IF d.turnStop = "none" THEN TurnStops ELSE {})
            \cup (IF d.primary = "none" THEN {"action"} ELSE {})
            \cup (IF d.primary = "none" /\ d.natural = "none" THEN {"command"} ELSE {}))

Observe(d, s) ==
    [d EXCEPT !.turnStop = First(@, TurnStopOf(s)), !.primary = First(@, s)]

-----------------------------------------------------------------------------
(* Signals.  The kernel delivers one to the group named by the leader's    *)
(* id, which names this group only while the leader has not been reaped.   *)

Faulty(o) == [o EXCEPT !.faults = @ + 1]

\* KILL ends every process of the group, at once for those that fork.
Killed(o) ==
    [o EXCEPT !.leader = IF @ = "running" THEN "zombie" ELSE @,
              !.how = IF o.leader = "running" THEN "signal" ELSE @,
              !.group = [m \in Members |-> IF @[m] = "live" THEN "none" ELSE @[m]]]

Delivered(o, sig) ==
    IF o.leader \in {"none", "reaped"} THEN [o EXCEPT !.stray = TRUE]
    ELSE IF sig = "KILL" THEN Killed(o) ELSE o

\* The ways send_signal may end, as the driver and the world after it.
Signal(d, o, sig) ==
    IF ~d.armed THEN {<<d, o>>}
    ELSE {<<d, Delivered(o, sig)>>}
         \cup (IF o.faults < MaxFaults
               THEN {<<[d EXCEPT !.flags = @ \cup {"signal"}], Faulty(o)>>} ELSE {})

SendKill(d, o) ==
    IF d.kill THEN {<<d, o>>}
    ELSE Signal([d EXCEPT !.kill = TRUE, !.grace = "off"], o, "KILL")

\* Faulty variant: a stream that is closed early is not marked as truncated.
ClosePipesQuietly(d) == [d EXCEPT !.open = {}]

ClosePipes(d) == [d EXCEPT !.cut = @ \cup d.open, !.open = {}]

\* Faulty variant: TERM is sent and no grace period started.
EnsureCleanupPolite(d, o) ==
    IF d.primary = "none" \/ ~d.armed \/ d.term \/ d.kill THEN {<<d, o>>}
    ELSE Signal([d EXCEPT !.term = TRUE], o, "TERM")

\* ensure_cleanup_started, the end of every turn of the driver's loop.
EnsureCleanup(d, o) ==
    CASE d.primary = "none" -> {<<d, o>>}
      [] d.primary # "none" /\ ~d.armed ->
            {<<IF d.primary \in Stops \cup {"limit"} THEN ClosePipes(d) ELSE d, o>>}
      [] d.primary = "limit" /\ d.armed ->
            {<<ClosePipes(r[1]), r[2]>> : r \in SendKill(d, o)}
      [] d.primary \notin {"none", "limit"} /\ d.armed /\ ~d.term /\ ~d.kill ->
            {<<[r[1] EXCEPT !.grace = "armed"], r[2]>>
                : r \in Signal([d EXCEPT !.term = TRUE], o, "TERM")}
      [] OTHER -> {<<d, o>>}

\* The driver's loop goes on with the result of an event and its clean-up.
Continue(results) ==
    \E r \in results : \E e \in EnsureCleanup(r[1], r[2]) :
        drv' = e[1] /\ os' = e[2]

End(kind, cause, turnStop) ==
    /\ pc' = "ended"
    /\ outcome' = [kind |-> kind, cause |-> cause, turnStop |-> turnStop, how |-> drv.natural]

-----------------------------------------------------------------------------
(* Preparation: the work directory before the question is asked, the work  *)
(* directory and the observer again after it was answered.                 *)

Preparing == pc \in {"setup", "check"}
PrepStops == {"caller", "turn", "action"}

\* The blocking job ends; a cancelled one gives up at its next look.
WorkerEnds(r) ==
    /\ Preparing
    /\ worker = "running"
    /\ worker' = r
    /\ UNCHANGED <<pc, due, stop, drv, os, scan, reap, outcome>>

\* While it waits for the job the caller latches the first stop, and the
\* first of the turn's own stops beside it.
PrepHeard == {s \in PrepStops \cap due :
                stop = "none" \/ (s \in TurnStops /\ drv.turnStop = "none")}

PrepStop ==
    /\ Preparing
    /\ PrepHeard # {}
    /\ stop' = First(stop, FirstOf(PrepHeard))
    /\ drv' = [drv EXCEPT !.turnStop = First(@, TurnStopOf(FirstOf(PrepHeard)))]
    /\ UNCHANGED <<pc, due, worker, os, scan, reap, outcome>>

\* The job's answer is in; all stops are looked at once more before it is read.
PrepJoin ==
    /\ Preparing
    /\ worker # "running"
    /\ LET last == First(stop, SampleStart)
           told == First(drv.turnStop, TurnStopOf(SampleStart)) IN
       CASE worker = "panicked" -> End("infrastructure", "none", told)
         [] worker # "panicked" /\ last # "none" -> End("not_started", last, told)
         [] worker = "failed" /\ last = "none" -> End("not_started", "failed", told)
         [] OTHER -> /\ pc' = IF pc = "setup" THEN "ask" ELSE "start"
                     /\ UNCHANGED outcome
    /\ stop' = "none"
    /\ worker' = "idle"
    /\ UNCHANGED <<due, drv, os, scan, reap>>

\* The action is approved and runs: its host is checked by a second job.
RunAction ==
    /\ pc = "ask"
    /\ pc' = "check"
    /\ worker' = "running"
    /\ UNCHANGED <<due, stop, drv, os, scan, reap, outcome>>

\* A background command is handed to the job registry unless the turn stopped.
Detach ==
    /\ pc = "start"
    /\ IF TurnStops \cap due # {}
       THEN End("not_started", SampleStart, "none")
       ELSE \/ End("detached", "none", "none")
            \/ End("not_started", "failed", "none")
    /\ UNCHANGED <<due, stop, worker, drv, os, scan, reap>>

\* run_process before the spawn: two looks around the preflight of the reactor.
BeforeSpawn ==
    /\ pc = "start"
    /\ IF SampleStart # "none"
       THEN End("not_started", SampleStart, TurnStopOf(SampleStart))
       ELSE \/ End("not_started", "failed", "none")
            \/ pc' = "spawn" /\ UNCHANGED outcome
    /\ UNCHANGED <<due, stop, worker, drv, os, scan, reap>>

SpawnFails ==
    /\ pc = "spawn"
    /\ End("not_started", IF SampleStart = "none" THEN "failed" ELSE SampleStart,
           TurnStopOf(SampleStart))
    /\ UNCHANGED <<due, stop, worker, drv, os, scan, reap>>

\* The child exists: the guard is armed, a stop at the boundary observed,
\* both pipes are registered, or neither stays open.
Spawn(setupFails) ==
    /\ pc = "spawn"
    /\ pc' = "observing"
    /\ LET born == [drv EXCEPT !.armed = TRUE]
           seen == IF SampleStart = "none" THEN born ELSE Observe(born, SampleStart)
           piped == IF setupFails
                    THEN [seen EXCEPT !.flags = @ \cup {"setup"}, !.cut = Streams,
                                      !.primary = First(@, "setup")]
                    ELSE [seen EXCEPT !.open = Streams] IN
       Continue({<<piped, [os EXCEPT !.leader = "running"]>>})
    /\ UNCHANGED <<due, stop, worker, scan, reap, outcome>>

-----------------------------------------------------------------------------
(* The driver's loop.                                                      *)

Unheard == Heard(drv) # {}
Alive(o) == {m \in Members : o.group[m] = "live"}
Holders(o) == o.leader = "running" \/ o.escaped \/ Alive(o) # {}
Readable(d, o, s) ==
    /\ s \in d.open
    /\ o.unread[s] > 0 \/ ~Holders(o)
Quiet == pc \in Running /\ ~Unheard

\* A stop comes before every other event: the top of the loop and the order
\* of the branches of the select.
StopEvent ==
    /\ pc \in Running
    /\ Unheard
    /\ Continue({<<Observe(drv, FirstOf(Heard(drv))), os>>})
    /\ UNCHANGED <<pc, due, stop, worker, scan, reap, outcome>>

\* TERM was not enough.
GraceEvent ==
    /\ Quiet
    /\ drv.grace = "armed"
    /\ Continue(SendKill(drv, os))
    /\ UNCHANGED <<pc, due, stop, worker, scan, reap, outcome>>

\* Somebody else still holds the pipes when the group is long gone.
DrainEvent ==
    /\ Quiet
    /\ drv.drain = "armed"
    /\ Continue({<<ClosePipes([drv EXCEPT !.flags = @ \cup {"drain"}, !.drain = "off",
                                          !.primary = First(@, "drain")]), os>>})
    /\ UNCHANGED <<pc, due, stop, worker, scan, reap, outcome>>

\* handle_pipe_result: bytes, the end of the stream, or an error.
GotBytes(d, o, s, n) ==
    LET d1 == [d EXCEPT !.got = @ + n]
        o1 == [o EXCEPT !.unread[s] = @ - n] IN
    IF d1.got <= Limit THEN {<<d1, o1>>}
    ELSE {<<ClosePipes(r[1]), r[2]>>
            : r \in SendKill([d1 EXCEPT !.flags = @ \cup {"limit"},
                                        !.primary = First(@, "limit")], o1)}

AtEnd(d, s) == [d EXCEPT !.open = @ \ {s}]
Unreadable(d, s) ==
    [d EXCEPT !.flags = @ \cup {"read"}, !.open = @ \ {s}, !.cut = @ \cup {s},
              !.primary = First(@, "read")]

PipeResults(d, o, s) ==
    (UNION {GotBytes(d, o, s, n) : n \in 1 .. Min({o.unread[s], Limit + 1 - d.got})})
    \cup (IF o.unread[s] = 0 THEN {<<AtEnd(d, s), o>>} ELSE {})
    \cup (IF o.faults < MaxFaults THEN {<<Unreadable(d, s), Faulty(o)>>} ELSE {})

\* The select turns to pipes and housekeeping in alternation, whoever comes.
PipeEvent(s) ==
    /\ Quiet
    /\ Readable(drv, os, s)
    /\ Continue(PipeResults(drv, os, s))
    /\ UNCHANGED <<pc, due, stop, worker, scan, reap, outcome>>

\* The result of a job comes before the tick of the observer.
HousekeepingIdle == scan.result \in {"none", "running"}

\* A tick while the leader is watched: what is readable is read first, and
\* cleaned up after, before the leader is looked at.
ReadOnce(results, s) ==
    results \cup UNION {PipeResults(r[1], r[2], s) : r \in {q \in results : Readable(q[1], q[2], s)}}

\* Which stream is the first changes with every read.
Polled(d, o) ==
    ReadOnce(ReadOnce({<<d, o>>}, "stdout"), "stderr")
    \cup ReadOnce(ReadOnce({<<d, o>>}, "stderr"), "stdout")

Seen(d, o) ==
    IF o.leader = "running" THEN d
    ELSE [d EXCEPT !.natural = First(@, o.how)]

TickEvent ==
    /\ Quiet
    /\ pc = "observing"
    /\ HousekeepingIdle
    /\ \E r \in Polled(drv, os) : \E e \in EnsureCleanup(r[1], r[2]) :
          Continue({<<Seen(e[1], e[2]), e[2]>>})
    /\ UNCHANGED <<pc, due, stop, worker, scan, reap, outcome>>

\* waitid fails or contradicts itself: the anchor of the group is lost.
Lose(anchor) ==
    /\ pc' = "losing"
    /\ drv' = [ClosePipes(drv) EXCEPT !.anchor = anchor]

TickLost ==
    /\ Quiet
    /\ pc = "observing"
    /\ HousekeepingIdle
    /\ os.faults < MaxFaults
    /\ Lose("unowned")
    /\ os' = Faulty(os)
    /\ UNCHANGED <<due, stop, worker, scan, reap, outcome>>

\* start_scan_if_due, when the retry interval has passed.
StartScan ==
    /\ pc = "observing"
    /\ drv.natural # "none"
    /\ scan.result = "none"
    /\ scan' = [NoScan EXCEPT !.result = "running", !.left = Members]
    /\ UNCHANGED <<pc, due, stop, worker, drv, os, reap, outcome>>

\* What a finished scan means.  Two complete passes in a row reap the leader.
Reset(d) == [d EXCEPT !.passes = 0]
ScanLive(d) == [Reset(d) EXCEPT !.primary = First(@, "background")]
\* Faulty variant: one pass is enough.
EnoughPassesOne(n) == n >= 1
EnoughPasses(n) == n >= 2
BeginReap(d) == [d EXCEPT !.armed = FALSE, !.grace = "off"]

ScanEvent ==
    /\ Quiet
    /\ scan.result \notin {"none", "running"}
    /\ scan' = NoScan
    /\ CASE scan.result = "lost" ->
              Lose("exited") /\ UNCHANGED <<os, reap>>
         [] scan.result = "live" ->
              Continue({<<ScanLive(drv), os>>}) /\ UNCHANGED <<pc, reap>>
         [] scan.result \in {"unknown", "mutated"} ->
              Continue({<<Reset(drv), os>>}) /\ UNCHANGED <<pc, reap>>
         [] scan.result = "complete" /\ ~EnoughPasses(drv.passes + 1) ->
              Continue({<<[drv EXCEPT !.passes = @ + 1], os>>}) /\ UNCHANGED <<pc, reap>>
         [] OTHER ->
              /\ pc' = "reaping"
              /\ reap' = "running"
              /\ Continue({<<BeginReap([drv EXCEPT !.passes = @ + 1]), os>>})
    /\ UNCHANGED <<due, stop, worker, outcome>>

\* The leader's status must be the one that was observed before it was reaped.
ReapEvent ==
    /\ Quiet
    /\ reap \in {"ok", "bad"}
    /\ reap' = "none"
    /\ IF reap = "bad"
       THEN Lose("unowned") /\ UNCHANGED os
       ELSE /\ pc' = "draining"
            /\ Continue({<<[drv EXCEPT !.drain = "armed"], os>>})
    /\ UNCHANGED <<due, stop, worker, scan, outcome>>

\* finish_report, at the top of the loop and after the stops are sampled.
Finish ==
    /\ pc = "draining"
    /\ ~Unheard
    /\ drv.open = {}
    /\ End("quiescent", IF drv.primary = "none" THEN "natural" ELSE drv.primary, drv.turnStop)
    /\ UNCHANGED <<due, stop, worker, drv, os, scan, reap>>

-----------------------------------------------------------------------------
(* finish_ownership_lost.                                                  *)

\* Only the turn's own stops are still taken down.
LostStop(s) ==
    /\ pc \in {"losing", "lost"}
    /\ s \in TurnStops \cap due
    /\ drv.turnStop = "none"
    /\ drv' = Observe(drv, s)
    /\ UNCHANGED <<pc, due, stop, worker, os, scan, reap, outcome>>

\* The jobs that still run are awaited, then the group is killed once more if
\* the leader still stands for it, and never again.
LostKill ==
    /\ pc = "losing"
    /\ scan.result # "running"
    /\ reap # "running"
    /\ \E r \in IF drv.anchor = "exited" THEN SendKill(drv, os) ELSE {<<drv, os>>} :
          /\ drv' = BeginReap(r[1])
          /\ os' = r[2]
    /\ scan' = NoScan
    /\ reap' = IF os.leader = "reaped" THEN "none" ELSE "running"
    /\ pc' = "lost"
    /\ UNCHANGED <<due, stop, worker, outcome>>

LostEnds ==
    /\ pc = "lost"
    /\ reap # "running"
    /\ End("lost", "none", drv.turnStop)
    /\ reap' = "none"
    /\ UNCHANGED <<due, stop, worker, drv, os, scan>>

\* The future is dropped, its driver with it: the guard kills an armed group, and
\* nobody waits for the jobs any more.
DropFuture ==
    /\ pc \in Running \cup {"losing", "lost"}
    /\ pc' = "dropped"
    /\ drv' = NewDriver /\ scan' = NoScan /\ reap' = "none"
    /\ os' = IF drv.armed /\ os.leader \in {"running", "zombie"} THEN Delivered(os, "KILL") ELSE os
    /\ UNCHANGED <<due, stop, worker, outcome>>

-----------------------------------------------------------------------------
(* The blocking jobs.                                                      *)

\* One entry of /proc, in the order of the ids.
ScanVisit ==
    /\ scan.result = "running"
    /\ scan.left # {}
    /\ LET m == Min(scan.left) IN
       /\ scan' = [scan EXCEPT !.left = @ \ {m},
                               !.live = @ \/ os.group[m] = "live",
                               !.mutated = @ \/ os.group[m] = "owned"]
       /\ os' = [os EXCEPT !.group[m] = IF @ = "owned" THEN "none" ELSE @]
    /\ UNCHANGED <<pc, due, stop, worker, drv, reap, outcome>>

ScanEnds ==
    /\ scan.result = "running"
    /\ scan.left = {}
    /\ scan' = [scan EXCEPT !.result =
                    IF scan.live THEN "live"
                    ELSE IF os.leader # "zombie" THEN "unknown"
                    ELSE IF scan.mutated THEN "mutated" ELSE "complete"]
    /\ UNCHANGED <<pc, due, stop, worker, drv, os, reap, outcome>>

\* An unreadable entry, a changed /proc or disposition of SIGCHLD, a panic.
ScanFails(r) ==
    /\ scan.result = "running"
    /\ os.faults < MaxFaults
    /\ scan' = [scan EXCEPT !.result = r]
    /\ os' = Faulty(os)
    /\ UNCHANGED <<pc, due, stop, worker, drv, reap, outcome>>

\* child.wait returns when the leader has exited.
ReapJob(r) ==
    /\ reap = "running"
    /\ os.leader # "running"
    /\ r = "bad" => os.faults < MaxFaults
    /\ reap' = r
    /\ os' = [(IF r = "bad" THEN Faulty(os) ELSE os) EXCEPT !.leader = "reaped"]
    /\ UNCHANGED <<pc, due, stop, worker, drv, scan, outcome>>

-----------------------------------------------------------------------------
(* The world.                                                              *)

World == <<pc, stop, worker, drv, reap, outcome>>

StopFires(s) ==
    /\ s \in Coming \ due
    /\ Cardinality(due) < MaxStops
    /\ s = "command" => pc \in Running
    /\ s = "action" => pc # "ask"
    /\ due' = due \cup {s}
    /\ UNCHANGED <<scan, os, World>>

LeaderExits ==
    /\ os.leader = "running"
    /\ os' = [os EXCEPT !.leader = "zombie", !.how = "exit"]
    /\ UNCHANGED <<due, scan, World>>

\* A process of the group forks; the new id may lie behind a running scan.
Fork(m) ==
    /\ os.leader = "running" \/ Alive(os) # {}
    /\ os.group[m] = "none"
    /\ LET behind == scan.result = "running" /\ m \notin scan.left IN
       /\ behind => os.behind < MaxBehind
       /\ os' = [os EXCEPT !.group[m] = "live", !.behind = IF behind THEN @ + 1 ELSE @]
    /\ UNCHANGED <<due, scan, World>>

\* A process leaves the group and its session, with the pipes in its hands.
Escape ==
    /\ os.leader = "running" \/ Alive(os) # {}
    /\ ~os.escaped
    /\ os' = [os EXCEPT !.escaped = TRUE]
    /\ UNCHANGED <<due, scan, World>>

EscapedExits ==
    /\ os.escaped
    /\ os' = [os EXCEPT !.escaped = FALSE]
    /\ UNCHANGED <<due, scan, World>>

\* A member ends and is reaped by its parent, or is a child of the harness.
MemberExits(m, left) ==
    /\ os.group[m] = "live"
    /\ os' = [os EXCEPT !.group[m] = left]
    /\ UNCHANGED <<due, scan, World>>

Write(s) ==
    /\ Holders(os)
    /\ s \in drv.open
    /\ drv.got + FoldSet(LAMBDA t, n : n + os.unread[t], 0, Streams) < MaxBytes
    /\ os' = [os EXCEPT !.unread[s] = @ + 1]
    /\ UNCHANGED <<due, scan, World>>

Worker == \E r \in {"ok", "failed", "panicked"} : WorkerEnds(r)
Launch ==
    \/ Worker \/ PrepStop \/ PrepJoin
    \/ BeforeSpawn \/ SpawnFails \/ (\E f \in BOOLEAN : Spawn(f)) \/ Detach
Driver ==
    \/ StopEvent \/ GraceEvent \/ DrainEvent \/ (\E s \in Streams : PipeEvent(s))
    \/ TickEvent \/ TickLost \/ StartScan \/ ScanEvent \/ ReapEvent \/ Finish
    \/ (\E s \in TurnStops : LostStop(s)) \/ LostKill \/ LostEnds
Jobs ==
    \/ ScanVisit \/ ScanEnds \/ (\E r \in {"unknown", "lost"} : ScanFails(r))
    \/ \E r \in {"ok", "bad"} : ReapJob(r)
Processes ==
    \/ LeaderExits \/ Escape \/ EscapedExits
    \/ \E m \in Members : Fork(m) \/ \E left \in {"none", "owned"} : MemberExits(m, left)
    \/ \E s \in Streams : Write(s)

\* The bound of the model: what happens after the answer is not followed.
Next ==
    /\ pc \notin {"ended", "dropped"}
    /\ \/ Launch \/ RunAction \/ Driver \/ DropFuture
       \/ Jobs
       \/ (\E s \in Stops : StopFires(s)) \/ Processes

\* The runtime polls the call and its jobs, and the clocks go on: a timer of the
\* driver's select that has fired comes before pipes, scans and ticks.  Nothing
\* is assumed of the command: it need not exit, and may ignore TERM.
Fairness ==
    /\ WF_vars(Launch) /\ WF_vars(Driver) /\ WF_vars(Jobs)
    /\ WF_vars(GraceEvent) /\ WF_vars(DrainEvent)
    /\ WF_vars(StopFires("command"))

Spec == Init /\ [][Next]_vars /\ Fairness

-----------------------------------------------------------------------------
(* Properties.                                                             *)

TypeOK ==
    /\ pc \in Running \cup {"setup", "ask", "check", "start", "spawn", "losing", "lost",
                            "dropped", "ended"}
    /\ due \subseteq Stops
    /\ stop \in PrepStops \cup {"none"}
    /\ worker \in {"idle", "running", "ok", "failed", "panicked"}
    /\ drv.primary \in Causes \cup {"none"}
    /\ drv.open \cap drv.cut = {}
    /\ drv.got <= Limit + 1
    /\ drv.passes <= 2
    /\ reap \in {"none", "running", "ok", "bad"}

\* A command that is reported as over has left nobody in its group, its leader
\* is reaped, and the status is the one the leader ended with.
QuiescentIsGone ==
    outcome.kind = "quiescent" =>
        /\ os.leader = "reaped"
        /\ outcome.how = os.how
        /\ \A m \in Members : os.group[m] = "none"

\* No signal is sent in the name of a leader that has been reaped, whose id
\* the kernel may have given to somebody else: not by a late stop, not by the
\* output limit while the pipes drain, not by the guard of a dropped call; and
\* the leader is reaped only behind the last of its group.
GroupIsOurs == TypeOK /\ ~os.stray /\ QuiescentIsGone

\* The one cause a report names is what happened; a natural end means that
\* nothing was signalled, cut or lost; a stop of the turn is told with it.
CauseIsTrue ==
    outcome.kind = "quiescent" =>
        /\ outcome.cause \in Stops => outcome.cause \in due
        /\ outcome.cause \in TurnStops => outcome.turnStop = outcome.cause
        /\ outcome.turnStop \in due \cup {"none"}
        /\ outcome.cause = "limit" => drv.got > Limit
        /\ outcome.cause = "natural" =>
              /\ ~drv.term /\ ~drv.kill /\ drv.flags = {} /\ drv.cut = {}
        /\ \A s \in Streams \ drv.cut : os.unread[s] = 0

\* The first cause keeps its place, whatever meets the command while it is
\* stopped; a command whose end was seen is not called timed out any more.
CauseIsFinal ==
    [][pc' # "dropped" =>
         /\ drv.primary # "none" => drv'.primary = drv.primary
         /\ drv.turnStop # "none" => drv'.turnStop = drv.turnStop
         /\ drv.natural # "none" /\ drv.primary = "none" => drv'.primary # "command"]_vars

\* A call ends although the command never does, ignores TERM, writes without
\* end or leaves somebody behind who holds its pipes: unless the kernel
\* refuses a signal or no longer tells who the leader is.  Before the question
\* is asked it comes as far as the question.
CommandEnds ==
    pc # "ask" ~> \/ pc \in {"ended", "dropped", "ask"}
                  \/ "signal" \in drv.flags \/ drv.anchor = "unowned"

=============================================================================
