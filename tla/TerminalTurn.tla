--------------------------- MODULE TerminalTurn ---------------------------
(***************************************************************************)
(* The terminal while a turn runs: run_turn of cli/interactive.rs, with    *)
(* the approval dialogue (cli/approval.rs, cli/approval_join.rs).          *)
(*                                                                         *)
(* One task owns the future of the agent, the committed rows, the envelopes*)
(* of approvals, the keyboard, the signals and at most one frame that is   *)
(* being written.  A turn of its loop is Top, which completes a frame and  *)
(* may put the question, and one branch of the select that follows it.     *)
(* Rows and envelopes come by two channels and in either order.            *)
(*                                                                         *)
(* The terminal is the linear one.  Left out: the questions the model      *)
(* asks, the enhanced dock with its composer, suggestions, palette, motion *)
(* and geometry, images, the pause of a goal, signals at the prompt.       *)
(***************************************************************************)
EXTENDS Naturals, Sequences, FiniteSets, SequencesExt

CONSTANTS
    Turns,      \* bound: turns
    Questions,  \* bound: approvals that are asked for in all turns
    Keys,       \* what the user may press: "confirm", "move", "bad", "esc"
    MaxKeys,    \* bound: keys pressed
    MaxSignals, \* bound: signals sent
    Budget,     \* bound: turns, approvals and keys together
    Foreign     \* rows that are committed outside turns: "goal", "plan", "title"

ASSUME TerminalAssumption ==
    /\ {Turns, Questions, MaxKeys, MaxSignals, Budget} \subseteq Nat
    /\ Keys \subseteq {"confirm", "move", "bad", "esc"}
    /\ Foreign \subseteq {"goal", "plan", "title"}

VARIABLES
    agent,      \* the future of the turn
    rows,       \* CommittedUiReceiver: rows that were committed and not yet seen
    envelope,   \* the channel of approvals: the question in it, or 0
    reply,      \* the answer on its way to the agent
    join,       \* ApprovalJoin
    ui,         \* the locals of run_turn
    cancelled,  \* the token of the turn
    tty,        \* keys pressed and not read, with what was on the screen
    shown,      \* the prompting whose selector is complete on the screen, or 0
    sigs,       \* signals that have come and were not looked at
    world,      \* what the environment has done
    heard       \* history: the stops the loop has seen in this turn

vars == <<agent, rows, envelope, reply, join, ui, cancelled, tty, shown, sigs, world, heard>>

NoReply == [for |-> 0, by |-> "none", put |-> 0, prompting |-> 0, seen |-> 0]
NoKey == [key |-> "none", seen |-> 0]
NewJoin == [open |-> FALSE, ended |-> FALSE, asked |-> 0, envelope |-> 0, active |-> 0,
            awaiting |-> 0, decided |-> {}]
\* frame: "none", "writing" or "written"; after: what follows once it is written;
\* mode: ApprovalUiState; prompting: how often a question was put, put: the last one.
NewUi(turn) ==
    [pc |-> "top", turn |-> turn, drain |-> FALSE, frame |-> "none", after |-> "none",
     mode |-> "inactive", escape |-> NoKey, due |-> FALSE, stop |-> "none",
     ended |-> FALSE, committed |-> FALSE, prompting |-> 0, put |-> 0,
     out |-> "none"]
Off == [pc |-> "off", q |-> 0, stopped |-> FALSE, late |-> FALSE,
        admitted |-> FALSE]

Init ==
    /\ agent = Off
    /\ rows = <<>>
    /\ envelope = 0
    /\ reply = NoReply
    /\ join = NewJoin
    /\ ui = [NewUi(0) EXCEPT !.pc = "idle"]
    /\ cancelled = FALSE
    /\ tty = <<>>
    /\ shown = 0
    /\ sigs = {}
    /\ world = [keys |-> 0, signals |-> 0, fault |-> FALSE, trouble |-> FALSE, torn |-> FALSE]
    /\ heard = {}

Row(kind, q) == [kind |-> kind, q |-> q, turn |-> ui.turn]
\* publish_committed: once the observer has failed nobody listens.
Publish(r) == rows' = IF world.fault THEN rows ELSE Append(rows, r)

InTurn == ui.pc \notin {"idle", "exited"}
Ready == agent.pc \in {"ok", "err"}
\* The loop waits for work: the future, which is polled before it, is not done.
Selecting == ui.pc = "select" /\ ui.stop = "none" /\ (ui.drain \/ ~Ready)

-----------------------------------------------------------------------------
(* Stops.                                                                  *)

Observe(stop, signals) ==
    IF "exit" \in signals THEN "exit"
    ELSE IF "suspend" \in signals /\ stop \in {"none", "interrupt"} THEN "suspend"
    ELSE IF "interrupt" \in signals /\ stop = "none" THEN "interrupt" ELSE stop

Failed(stop) == IF stop = "exit" THEN stop ELSE "failure"

\* latch_active_failure
Fail(u) == [u EXCEPT !.stop = Failed(@), !.frame = "none", !.pc = "top"]

\* latch_observer_fault
Latched(u) == IF world.fault THEN Fail(u) ELSE u

Troubled == world' = [world EXCEPT !.trouble = TRUE]

-----------------------------------------------------------------------------
(* ApprovalJoin.  Its operations yield the new state, and whether they     *)
(* succeeded; c says whether a challenge was to be had.                    *)

Joined(j, ok) == [j |-> j, ok |-> ok, refused |-> 0]

TryActivate(j, c) ==
    IF j.asked = 0 \/ j.envelope = 0 THEN Joined(j, TRUE)
    ELSE LET taken == [j EXCEPT !.asked = 0, !.envelope = 0]
         IN  IF j.asked # j.envelope THEN Joined(taken, FALSE)
             ELSE IF c THEN Joined([taken EXCEPT !.active = j.asked], TRUE)
             ELSE [j |-> [taken EXCEPT !.awaiting = j.asked], ok |-> TRUE,
                   refused |-> j.asked]

ObserveAsked(j, q, c) ==
    IF ~j.open \/ j.ended \/ q \in j.decided \/ j.asked # 0 \/ j.active # 0 \/ j.awaiting # 0
    THEN Joined(j, FALSE)
    ELSE TryActivate([j EXCEPT !.asked = q], c)

Receive(j, q, closed, c) ==
    IF ~j.open \/ j.ended \/ closed \/ q \in j.decided \/ j.awaiting = q
    THEN Joined(j, TRUE)
    ELSE IF j.envelope # 0 \/ j.active # 0 THEN Joined(j, FALSE)
    ELSE TryActivate([j EXCEPT !.envelope = q], c)

Without(half, q) == IF half = q THEN 0 ELSE half
Halves(j) == {j.asked, j.envelope, j.active, j.awaiting} \ {0}

\* Mutant: an answer stays awaited after its decision.
ObserveDecidedOpen(j, q) ==
    IF ~j.open \/ j.ended THEN Joined(j, FALSE)
    ELSE IF {j.active, j.asked, j.awaiting} \subseteq {0, q}
    THEN Joined([j EXCEPT !.decided = @ \cup {q}, !.active = Without(@, q),
                          !.asked = Without(@, q), !.envelope = Without(@, q)], TRUE)
    ELSE Joined([NewJoin EXCEPT !.open = TRUE, !.decided = j.decided \cup {q}], FALSE)

\* A half of another question is an error, which clears them all.
ObserveDecided(j, q) ==
    IF ~j.open \/ j.ended THEN Joined(j, FALSE)
    ELSE IF {j.active, j.asked, j.awaiting} \subseteq {0, q}
    THEN Joined([j EXCEPT !.decided = @ \cup {q}, !.active = Without(@, q),
                          !.asked = Without(@, q), !.envelope = Without(@, q),
                          !.awaiting = Without(@, q)], TRUE)
    ELSE Joined([NewJoin EXCEPT !.open = TRUE, !.decided = j.decided \cup {q}], FALSE)

-----------------------------------------------------------------------------
(* The agent, as far as the terminal sees it.  A step of it is taken while *)
(* the loop waits; the terminal's own branches are not polled before it    *)
(* lets go.                                                                *)

Affordable == ui.turn + agent.q + world.keys < Budget

Polled == ui.pc \in {"select", "await"} /\ ~ui.drain
AgentOnly == UNCHANGED <<join, ui, cancelled, tty, shown, sigs, world, heard>>

\* Mutant: an approval that nobody answers is waited for without end.
StoppedDeaf == FALSE
Stopped == cancelled \/ agent.late

AgentStarts ==
    /\ Polled /\ agent.pc = "start"
    /\ Publish(Row("start", 0))
    /\ agent' = [agent EXCEPT !.pc = "admit"]
    /\ UNCHANGED <<envelope, reply>> /\ AgentOnly

\* A turn that is stopped, or has no room, before its first step admits no prompt.
AgentAdmits ==
    /\ Polled /\ agent.pc = "admit"
    /\ \/ agent' = [agent EXCEPT !.pc = "work", !.stopped = TRUE] /\ UNCHANGED rows
       \/ /\ ~Stopped
          /\ agent' = [agent EXCEPT !.pc = "work", !.admitted = TRUE]
          /\ Publish(Row("prompt", 0))
    /\ UNCHANGED <<envelope, reply>> /\ AgentOnly

\* A stop is noticed before the next approval is asked for.
AgentAsks ==
    /\ Polled /\ agent.pc = "work" /\ agent.admitted /\ ~agent.stopped /\ ~Stopped
    /\ agent.q < Questions /\ Affordable
    /\ Publish(Row("asked", agent.q + 1))
    /\ agent' = [agent EXCEPT !.pc = "asked", !.q = @ + 1]
    /\ reply' = NoReply
    /\ UNCHANGED envelope /\ AgentOnly

\* The first poll of TerminalApprovalProvider::request; nobody is asked when
\* the observer is gone.
AgentSends ==
    /\ Polled /\ agent.pc = "asked"
    /\ IF Stopped \/ world.fault \/ envelope # 0
       THEN agent' = [agent EXCEPT !.pc = "decide", !.stopped = Stopped] /\ UNCHANGED envelope
       ELSE agent' = [agent EXCEPT !.pc = "asking"] /\ envelope' = agent.q
    /\ UNCHANGED <<rows, reply>> /\ AgentOnly

\* A stop comes before an answer.
AgentHears ==
    /\ Polled /\ agent.pc = "asking"
    /\ Stopped \/ reply # NoReply
    /\ agent' = [agent EXCEPT !.pc = "decide", !.stopped = Stopped]
    /\ UNCHANGED <<rows, envelope, reply>> /\ AgentOnly

AgentDecides ==
    /\ Polled /\ agent.pc = "decide"
    /\ Publish(Row("decided", agent.q))
    /\ agent' = [agent EXCEPT !.pc = "work"]
    /\ UNCHANGED <<envelope, reply>> /\ AgentOnly

AgentEnds ==
    /\ Polled /\ agent.pc = "work"
    /\ Publish(Row("end", 0))
    /\ agent' = [agent EXCEPT !.pc = "ended"]
    /\ UNCHANGED <<envelope, reply>> /\ AgentOnly

\* A title that is ready is committed behind the end of the turn, before the
\* future returns (SessionTitleRuntime::collect_ready).
AgentReturns ==
    /\ Polled /\ agent.pc = "ended"
    /\ agent' = [agent EXCEPT !.pc = "ok"]
    /\ \/ UNCHANGED rows
       \/ "title" \in Foreign /\ Publish(Row("title", 0))
    /\ UNCHANGED <<envelope, reply>> /\ AgentOnly

\* The session or the agent itself fails.
AgentFails ==
    /\ Polled /\ agent.pc \in {"start", "admit", "work"}
    /\ agent' = [agent EXCEPT !.pc = "err"]
    /\ Troubled
    /\ UNCHANGED <<rows, envelope, reply, join, ui, cancelled, tty, shown, sigs, heard>>

AgentStep == AgentStarts \/ AgentAdmits \/ AgentAsks \/ AgentSends
             \/ AgentHears \/ AgentDecides \/ AgentEnds \/ AgentReturns

-----------------------------------------------------------------------------
(* The environment.  What happens while the loop is busy is seen as if it  *)
(* had happened before or after.                                           *)

Waiting == ui.pc \in {"select", "await", "finish"}

OnlyWorld == UNCHANGED <<agent, rows, envelope, reply, join, ui, cancelled, heard>>

\* Of the keys that are typed ahead only the one that does harm is followed; what is
\* pressed after a stop is left for the prompt.
Press(key) ==
    /\ Waiting /\ ui.stop = "none" /\ world.keys < MaxKeys /\ Affordable
    /\ ui.mode = "accepting" \/ key = "confirm"
    /\ world' = [world EXCEPT !.keys = @ + 1]
    /\ tty' = Append(tty, [key |-> key, seen |-> shown])
    /\ UNCHANGED <<shown, sigs>> /\ OnlyWorld

SignalComes(s) ==
    /\ Waiting /\ world.signals < MaxSignals
    /\ world' = [world EXCEPT !.signals = @ + 1]
    /\ sigs' = sigs \cup {s}
    /\ UNCHANGED <<tty, shown>> /\ OnlyWorld

\* A committed row could not be projected.
ObserverFails ==
    /\ Waiting /\ ~world.fault /\ agent.pc \in {"work", "asked", "decide"}
    /\ world' = [world EXCEPT !.fault = TRUE, !.trouble = TRUE]
    /\ UNCHANGED <<tty, shown, sigs>> /\ OnlyWorld

TurnDeadline ==
    /\ Waiting /\ agent.pc \in {"start", "admit", "work", "asked", "asking", "decide"}
    /\ ~agent.late
    /\ agent' = [agent EXCEPT !.late = TRUE]
    /\ UNCHANGED <<rows, envelope, reply, join, ui, cancelled, tty, shown, sigs, world, heard>>

-----------------------------------------------------------------------------
(* Between turns: the prompt.                                              *)

IdleOnly == UNCHANGED <<agent, envelope, reply, join, cancelled, shown, world, heard>>

\* A command at the prompt commits a row (/goal, /plan, /rename).
IdleCommits ==
    /\ ui.pc = "idle"
    /\ \A k \in DOMAIN rows : rows[k].kind \notin Foreign
    /\ \E kind \in Foreign : Publish(Row(kind, 0))
    /\ UNCHANGED <<ui, tty, sigs>> /\ IdleOnly

\* Keys that the prompt did not take may stay where they are.
StartTurn ==
    /\ ui.pc = "idle" /\ ui.turn < Turns /\ Affordable
    /\ IF join # NewJoin
       THEN ui' = [ui EXCEPT !.pc = "exited", !.out = "failure"]
            /\ UNCHANGED <<agent, join, tty, heard>>
       ELSE /\ ui' = NewUi(ui.turn + 1)
            /\ join' = [join EXCEPT !.open = TRUE]
            /\ agent' = [Off EXCEPT !.pc = "start", !.q = agent.q]
            /\ heard' = {}
            /\ tty' \in {tty, <<>>}
    /\ UNCHANGED <<rows, envelope, reply, cancelled, shown, sigs, world>>

Quit ==
    /\ ui.pc = "idle"
    /\ ui' = [ui EXCEPT !.pc = "exited", !.out = "eof"]
    /\ UNCHANGED <<rows, tty, sigs>> /\ IdleOnly

-----------------------------------------------------------------------------
(* One turn of the loop: what precedes the select.                         *)

\* Mutant: what was typed before the selector was complete is kept.
KeptInput == tty
FlushedInput == <<>>

\* What a stop of the loop does to the token of the agent.
Cancel(u) == cancelled' = (cancelled \/ (u.stop # "none" /\ ~u.drain))

\* A question is put by a frame of its own, then by a selector.
PutQuestion(u) ==
    [u EXCEPT !.frame = "writing", !.after = "fence", !.prompting = @ + 1, !.put = join.active]

Accepting(u) ==
    [u EXCEPT !.mode = "accepting", !.escape = NoKey, !.due = FALSE]

\* complete_ready_frame.  A frame's follower wants the dialogue as it left it.
Completed(u) ==
    LET v == [u EXCEPT !.frame = "none", !.after = "none"]
    IN  CASE u.frame # "written" \/ u.after \in {"none", "end"} -> IF u.frame = "written" THEN v ELSE u
          [] u.frame = "written" /\ u.after = "fence" ->
               IF u.mode = "inactive" THEN [v EXCEPT !.mode = "arming"] ELSE Fail(v)
          [] u.frame = "written" /\ u.after = "accept" ->
               IF u.mode = "rendering" THEN Accepting(v) ELSE Fail([v EXCEPT !.mode = "inactive"])

\* What the loop does before it waits again.
Prepared(u) ==
    IF u.drain
    THEN IF u.ended /\ u.frame = "none" THEN [u EXCEPT !.pc = "finish"]
         ELSE [u EXCEPT !.pc = "select"]
    ELSE [IF u.frame = "none" /\ join.active # 0 /\ u.mode = "inactive"
          THEN PutQuestion(u) ELSE u EXCEPT !.pc = "select"]

TopOnly == UNCHANGED <<agent, rows, envelope, reply, join, heard>>

Top ==
    /\ ui.pc = "top"
    /\ LET u == Latched(ui)
           c == Completed(u)
       IN  IF u.stop # "none"
           THEN /\ ui' = [u EXCEPT !.pc = IF u.drain THEN "finish" ELSE "select",
                                   !.mode = IF u.drain THEN @ ELSE "inactive",
                                   !.frame = IF u.drain THEN "none" ELSE @]
                /\ UNCHANGED <<tty, shown>>
           ELSE /\ ui' = IF c.stop # "none" THEN c ELSE Prepared(c)
                /\ IF ui.frame = "written" /\ ui.after \in {"fence", "accept"}
                   THEN tty' = FlushedInput ELSE UNCHANGED tty
                /\ shown' = IF c.mode = "accepting" /\ u.mode # "accepting"
                            THEN c.prompting ELSE shown
    /\ Cancel(ui')
    /\ UNCHANGED <<sigs, world>> /\ TopOnly

\* The terminal cannot be read, written, flushed or verified.
TerminalFails ==
    /\ Selecting
    /\ ui' = Fail(ui) /\ Cancel(ui')
    /\ Troubled
    /\ UNCHANGED <<tty, shown, sigs>> /\ TopOnly

-----------------------------------------------------------------------------
(* The branches of the select.                                             *)

BranchOnly == UNCHANGED <<agent, shown, world>>

Signalled ==
    /\ ui.pc = "select" /\ (ui.drain \/ ~Ready)
    /\ \E s \in sigs :
         /\ sigs' = sigs \ {s}
         /\ heard' = heard \cup {s}
         /\ ui' = [ui EXCEPT !.stop = Observe(@, {s}), !.frame = "none", !.pc = "top"]
    /\ Cancel(ui')
    /\ UNCHANGED <<rows, envelope, reply, join, tty>> /\ BranchOnly

FrameWritten ==
    /\ Selecting /\ ui.frame = "writing"
    /\ ui' = [ui EXCEPT !.frame = "written", !.pc = "top"]
    /\ UNCHANGED <<rows, envelope, reply, join, cancelled, tty, sigs, heard>> /\ BranchOnly

\* The terminal takes no output for FRAME_DEADLINE.
FrameExpires ==
    /\ Selecting /\ ui.frame = "writing"
    /\ ui' = Fail(ui) /\ Cancel(ui')
    /\ Troubled
    /\ UNCHANGED <<tty, shown, sigs>> /\ TopOnly

\* The approval's quiet time is over: the selector is rendered.
Armed ==
    /\ Selecting /\ ui.mode = "arming" /\ join.active # 0
    /\ tty' = FlushedInput
    /\ ui' = IF ui.frame # "none" THEN Fail([ui EXCEPT !.mode = "rendering"])
             ELSE [ui EXCEPT !.mode = "rendering", !.frame = "writing", !.after = "accept",
                             !.pc = "top"]
    /\ Cancel(ui')
    /\ UNCHANGED <<rows, envelope, reply, join, sigs, heard>> /\ BranchOnly

\* A join operation, and what it leaves for the agent and the loop.
Take(done, u) ==
    /\ join' = done.j
    /\ ui' = IF done.ok THEN [u EXCEPT !.pc = "top"] ELSE Fail(u)
    /\ reply' = IF done.refused # 0 /\ agent.pc = "asking" /\ agent.q = done.refused
                THEN [NoReply EXCEPT !.for = done.refused, !.by = "unavailable"] ELSE reply
    /\ Cancel(ui')

TakeEnvelope ==
    /\ Selecting /\ envelope # 0
    /\ envelope' = 0
    /\ \E challenge \in BOOLEAN :
         Take(Receive(join, envelope, agent.pc # "asking" \/ agent.q # envelope, challenge), ui)
    /\ UNCHANGED <<rows, tty, sigs, heard>> /\ BranchOnly

\* process_event
Processed(r, u, challenge) ==
    CASE r.turn < u.turn -> [u |-> u, done |-> Joined(join, r.kind \in {"goal", "plan"})]
      [] r.turn = u.turn /\ r.kind = "prompt" ->
           [u |-> [u EXCEPT !.committed = TRUE], done |-> Joined(join, TRUE)]
      [] r.turn = u.turn /\ r.kind = "asked" ->
           [u |-> u, done |-> ObserveAsked(join, r.q, challenge)]
      [] r.turn = u.turn /\ r.kind = "decided" ->
           [u |-> [u EXCEPT !.mode = "inactive"], done |-> ObserveDecided(join, r.q)]
      [] r.turn = u.turn /\ r.kind = "end" ->
           [u |-> [u EXCEPT !.ended = TRUE],
            done |-> Joined([join EXCEPT !.ended = TRUE], join.open /\ ~join.ended)]
      [] r.turn = u.turn /\ r.kind \in {"start"} \cup Foreign ->
           [u |-> u, done |-> Joined(join, TRUE)]

Draws(r) == r.kind \in {"start", "decided", "end"}

TakeEvent ==
    /\ Selecting /\ ui.frame = "none" /\ rows # <<>>
    /\ rows' = Tail(rows)
    /\ \E challenge \in BOOLEAN :
         LET r == Head(rows)
             p == Processed(r, ui, challenge)
         IN  /\ challenge \/ r.kind = "asked"
             /\ Take(p.done,
                     IF Draws(r) THEN [p.u EXCEPT !.frame = "writing",
                                           !.after = IF r.kind = "end" THEN "end" ELSE "none"]
                     ELSE p.u)
    /\ UNCHANGED <<envelope, tty, sigs, heard>> /\ BranchOnly

\* The channel of rows is closed.
EventsEnd ==
    /\ Selecting /\ ui.frame = "none" /\ rows = <<>> /\ world.fault
    /\ ui' = Fail(ui) /\ Cancel(ui')
    /\ UNCHANGED <<tty, shown, sigs, world>> /\ TopOnly

-----------------------------------------------------------------------------
(* The keyboard.                                                           *)

\* An answer reaches the agent if it still waits for it.
Answer(u, k) ==
    /\ join' = [join EXCEPT !.active = 0, !.awaiting = join.active]
    /\ reply' = IF agent.pc = "asking" /\ agent.q = join.active
                THEN [for |-> join.active, by |-> "user", put |-> u.put,
                      prompting |-> u.prompting, seen |-> k.seen]
                ELSE reply
    /\ ui' = [u EXCEPT !.mode = "inactive", !.pc = "top"]

\* An escape that does not begin the sequence of an arrow spoils what follows it.
Escaped(n) == IF n = 1 THEN ui.escape # NoKey ELSE tty[n - 1].key = "esc"
Spoiled(n) == tty[n].key = "bad" \/ (Escaped(n) /\ tty[n].key # "move")
Finals == {n \in DOMAIN tty : Spoiled(n) \/ tty[n].key = "confirm"}

\* ApprovalUiState::feed.  A confirmation in one read with a move may be taken for
\* pasted text.  A redraw leaves a pending escape without a deadline.
Feed ==
    IF Finals # {}
    THEN LET n == CHOOSE m \in Finals : \A k \in Finals : m <= k
         IN  \/ ~Spoiled(n) /\ Answer(ui, tty[n])
             \/ /\ Spoiled(n) \/ \E k \in 1..n : tty[k].key = "move"
                /\ ui' = [PutQuestion(ui) EXCEPT !.mode = "inactive", !.pc = "top"]
                /\ UNCHANGED <<join, reply>>
    ELSE LET redraw == \E n \in DOMAIN tty : tty[n].key = "move"
             escape == IF Last(tty).key = "esc" THEN Last(tty) ELSE NoKey
         IN  /\ ui' = [ui EXCEPT !.escape = escape, !.due = ~redraw /\ escape # NoKey,
                                 !.frame = IF redraw THEN "writing" ELSE @,
                                 !.after = IF redraw THEN "none" ELSE @, !.pc = "top"]
             /\ UNCHANGED <<join, reply>>

ReadEnabled == Selecting /\ (ui.frame = "none" \/ ui.mode \notin {"rendering", "accepting"})

\* Keys that no selector waits for are dropped.  Before it looks at them the main loop
\* takes the signals and the observer's fault that came with them.
Read ==
    /\ ReadEnabled /\ tty # <<>>
    /\ tty' = <<>>
    /\ LET signals == IF ui.drain THEN {} ELSE sigs
           u == [ui EXCEPT !.stop = Observe(@, signals)]
           v == IF ui.drain THEN u ELSE Latched(u)
       IN  /\ sigs' = sigs \ signals
           /\ heard' = heard \cup signals
           /\ IF v.stop # "none"
              THEN ui' = [v EXCEPT !.frame = "none", !.pc = "top"] /\ UNCHANGED <<join, reply>>
              ELSE IF ui.mode # "accepting"
              THEN ui' = [ui EXCEPT !.pc = "top"] /\ UNCHANGED <<join, reply>>
              ELSE IF join.active = 0
              THEN ui' = Fail(ui) /\ UNCHANGED <<join, reply>>
              ELSE Feed
    /\ Cancel(ui')
    /\ UNCHANGED <<rows, envelope>> /\ BranchOnly

\* The input ends.
ReadEnd ==
    /\ ReadEnabled /\ tty = <<>>
    /\ ui' = [ui EXCEPT !.stop = "eof", !.frame = "none", !.pc = "top"]
    /\ heard' = heard \cup {"eof"}
    /\ Cancel(ui')
    /\ UNCHANGED <<rows, envelope, reply, join, tty, sigs>> /\ BranchOnly

EscapeExpires ==
    /\ Selecting /\ ui.mode = "accepting" /\ ui.due
    /\ IF join.active = 0 THEN ui' = Fail(ui) /\ UNCHANGED <<join, reply>>
       ELSE Answer(ui, ui.escape)
    /\ Cancel(ui')
    /\ UNCHANGED <<rows, envelope, tty, sigs, heard>> /\ BranchOnly

-----------------------------------------------------------------------------
(* The end of a turn.                                                      *)

\* The future is done: without a stop, what it has committed is shown first.  Torn
\* says that a selector was being written, whose mode is reset under it.
TurnReady ==
    /\ ui.pc = "select" /\ ~ui.drain /\ Ready
    /\ LET u == Latched([ui EXCEPT !.stop = Observe(@, sigs)])
           stop == IF agent.pc = "err" THEN Failed(u.stop) ELSE u.stop
       IN  /\ ui' = [u EXCEPT !.stop = stop, !.mode = "inactive",
                              !.drain = stop = "none",
                              !.pc = IF stop = "none" THEN "top" ELSE "finish"]
           /\ world' = IF stop = "none" /\ ui.mode = "rendering"
                       THEN [world EXCEPT !.torn = TRUE] ELSE world
    /\ heard' = heard \cup sigs
    /\ sigs' = {}
    /\ UNCHANGED <<agent, rows, envelope, reply, join, cancelled, tty, shown>>

\* What was committed is not shown within FRAME_DEADLINE.
FinalDeadline ==
    /\ Selecting /\ ui.drain
    /\ ui' = Fail(ui)
    /\ Troubled
    /\ UNCHANGED <<cancelled, tty, shown, sigs>> /\ TopOnly

Old(r) == r.turn < ui.turn

\* Mutant: a prompt among the rows that are passed over is not noticed.
NoPrompt == FALSE
HasPrompt == \E k \in DOMAIN rows : ~Old(rows[k]) /\ rows[k].kind = "prompt"

\* discard_ready_updates_after_stop fails at a row of an earlier gap.
Stray == {k \in DOMAIN rows : Old(rows[k]) /\ rows[k].kind # "goal"}

Disposition(stop) ==
    CASE stop \in {"none", "interrupt", "suspend"} -> "continue"
      [] stop = "eof" -> "eof"
      [] stop = "exit" -> "signal"
      [] stop = "failure" -> "failure"

\* finish_turn of the join, the loop's result, and the end of what belongs to the turn.
\* For a key that stays unread no selector of a later turn was on the screen.
Finished(u, out) ==
    /\ ui' = [NewUi(u.turn) EXCEPT !.pc = IF out = "continue" THEN "idle" ELSE "exited",
                                   !.committed = u.committed, !.out = out]
    /\ join' = NewJoin
    /\ envelope' = 0
    /\ agent' = [Off EXCEPT !.q = agent.q]
    /\ reply' = NoReply
    /\ cancelled' = FALSE
    /\ shown' = 0
    /\ tty' = [n \in DOMAIN tty |-> [tty[n] EXCEPT !.seen = 0]]

Finish ==
    /\ ui.pc = "finish"
    /\ LET u == Latched([ui EXCEPT !.stop = Observe(@, sigs)])
       IN  IF u.stop = "none"
           THEN /\ Finished(u, IF join.ended /\ Halves(join) = {} THEN "continue" ELSE "failure")
                /\ UNCHANGED <<rows, world>>
           ELSE /\ rows' = <<>>
                /\ \/ /\ Finished([u EXCEPT !.committed = @ \/ HasPrompt],
                                  IF Stray = {} THEN Disposition(u.stop) ELSE "failure")
                      /\ UNCHANGED world
                   \* the notice of an interrupted turn cannot be written
                   \/ /\ u.stop = "interrupt" /\ Stray = {}
                      /\ Finished([u EXCEPT !.committed = @ \/ HasPrompt], "failure")
                      /\ Troubled
    /\ heard' = heard \cup sigs
    /\ sigs' = {}

\* An error that leaves the loop, or a panic in it: the future is still awaited.
Breaks ==
    /\ Selecting /\ ~ui.drain
    /\ ui' = [ui EXCEPT !.pc = "await", !.stop = "broken", !.frame = "none", !.mode = "inactive"]
    /\ cancelled' = TRUE
    /\ Troubled
    /\ UNCHANGED <<tty, shown, sigs>> /\ TopOnly

BrokenEnds ==
    /\ ui.pc = "await" /\ Ready
    /\ Finished(ui, "failure")
    /\ UNCHANGED <<rows, sigs, world, heard>>

-----------------------------------------------------------------------------
Loop ==
    \/ Top \/ Signalled \/ FrameWritten \/ FrameExpires \/ Armed \/ TakeEnvelope \/ TakeEvent
    \/ EventsEnd \/ Read \/ EscapeExpires \/ TurnReady \/ FinalDeadline \/ Finish
    \/ BrokenEnds

Next ==
    \/ Loop \/ AgentStep \/ AgentFails \/ TerminalFails \/ Breaks
    \/ IdleCommits \/ StartTurn \/ Quit
    \/ \E key \in Keys : Press(key)
    \/ \E s \in {"interrupt", "suspend", "exit"} : SignalComes(s)
    \/ ReadEnd \/ ObserverFails \/ TurnDeadline

Spec == Init /\ [][Next]_vars

\* The task goes on while there is work for the loop or the future that it polls, and
\* a turn has a deadline.
FairSpec == Spec /\ WF_vars(Loop \/ AgentStep \/ TurnDeadline)

-----------------------------------------------------------------------------
(* What the terminal guarantees.                                           *)

TypeOK ==
    /\ agent.pc \in {"off", "start", "admit", "work", "asked", "asking", "decide", "ended",
                     "ok", "err"}
    /\ agent.q \in 0..Questions
    /\ envelope \in 0..Questions
    /\ Halves(join) \subseteq 1..Questions
    /\ ui.pc \in {"idle", "top", "select", "await", "finish", "exited"}
    /\ ui.stop \in {"none", "interrupt", "suspend", "eof", "exit", "failure", "broken"}
    /\ ui.mode \in {"inactive", "arming", "rendering", "accepting"}
    /\ ui.frame \in {"none", "writing", "written"}
    /\ sigs \cup heard \subseteq {"interrupt", "suspend", "exit", "eof"}

\* An answer is the user's only if the key that gave it was pressed when the selector
\* of this very question was complete on the screen: not one typed ahead, nor one
\* meant for an earlier question or for the one before an invalid answer.
AnswerIsMeant ==
    /\ TypeOK
    /\ reply.by = "user" =>
         /\ reply.for = agent.q /\ reply.put = agent.q
         /\ reply.seen = reply.prompting

\* The terminal never gives up by itself: in whatever order rows, envelopes, answers,
\* deadlines and signals come, a turn fails only when the terminal, the observer or the
\* agent did, or when the turn ended under a selector that was being written.
OnlyTroubleFails ==
    "failure" \in {ui.stop, ui.out} => world.trouble \/ world.torn

\* A turn is left only when its future has ended.  The caller learns whether the prompt
\* was committed, even where the rows that say so were passed over; a signal to exit
\* wins; an interrupted turn returns to the prompt.
ReturnIsTrue ==
    [][InTurn /\ ~InTurn' =>
         /\ Ready
         /\ ui'.out # "failure" => ui'.committed = agent.admitted
         /\ "exit" \in heard' /\ ui.stop # "broken" => ui'.out = "signal"
         /\ ~world'.trouble /\ ~world'.torn /\ "exit" \notin heard' =>
              ui'.out = IF "eof" \in heard' THEN "eof" ELSE "continue"]_vars

\* Every turn is left.
TurnReturns == InTurn ~> ~InTurn

=============================================================================
