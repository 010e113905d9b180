---------------------------- MODULE PluginActor ----------------------------
(***************************************************************************)
(* One tool plugin: the thread that owns its process and speaks the line   *)
(* protocol with it (tools/plugin/actor.rs), and the calls that reach it   *)
(* through a queue of two.                                                 *)
(*                                                                         *)
(* Three parties act: the callers, which look at the state word, send and  *)
(* wait; the actor, which rejects, drives one call and cleans up; and the  *)
(* peer, the plugin's process, which may answer late, answer wrongly, die, *)
(* or never read.  One turn of a loop of the actor is one action.  A line  *)
(* is one element of a pipe; a read may end in the middle of one.          *)
(***************************************************************************)
EXTENDS Naturals, Sequences, FiniteSets, SequencesExt

CONSTANTS
    Calls,      \* the calls that are made
    NoCall,     \* no call
    Capacity,   \* CALL_QUEUE_CAPACITY
    StopKinds,  \* the stops that may come for a call
    MaxStops,   \* and how many of them do, the calls' own deadlines not counted
    MaxTrouble  \* lines the plugin writes that the protocol does not allow, and
                \* failures of the kernel's interfaces

ASSUME ActorAssumption ==
    /\ IsFiniteSet(Calls) /\ NoCall \notin Calls
    /\ StopKinds \subseteq {"caller", "turn", "action"}
    /\ {Capacity, MaxStops, MaxTrouble} \subseteq Nat

VARIABLES
    state,      \* the state word: STATE_STARTING .. STATE_EXITED
    shutdown,   \* the shutdown flag
    queue,      \* the channel of commands
    caller,     \* what each caller does: pc, and the answer it got
    due,        \* the stops that have come, by call
    actor,      \* the thread
    peer,       \* the plugin
    out,        \* lines it has written that nobody read yet
    inn         \* records written to it that it has not read

vars == <<state, shutdown, queue, caller, due, actor, peer, out, inn>>

NoAnswer == [kind |-> "none", stop |-> "none", dispatched |-> FALSE]

NewActor == [pc |-> "launch", next |-> 1, call |-> NoCall, id |-> 0, evidence |-> "not",
             stop |-> "none", fault |-> "none", lines |-> <<>>, part |-> FALSE,
             saw |-> FALSE, exit |-> "none", faults |-> 0]

Init ==
    /\ state = "starting"
    /\ shutdown = FALSE
    /\ queue = <<>>
    /\ caller = [c \in Calls |-> [pc |-> "idle", id |-> 0, answer |-> NoAnswer]]
    /\ due = [c \in Calls |-> {}]
    /\ actor = NewActor
    /\ peer = [alive |-> FALSE, honest |-> TRUE, seen |-> {}, said |-> {}, lies |-> 0]
    /\ out = <<>>
    /\ inn = <<>>

MoreTrouble == actor.faults + peer.lies < MaxTrouble
Line(kind, id) == [kind |-> kind, id |-> id]
First(old, new) == IF old = "none" THEN new ELSE old

\* PluginCallControl::stop.
StopOf(c, down) ==
    IF down \/ "caller" \in due[c] THEN "caller"
    ELSE IF "turn" \in due[c] THEN "turn"
    ELSE IF "action" \in due[c] THEN "action" ELSE "none"

Answer(kind, stop) == [NoAnswer EXCEPT !.kind = kind, !.stop = stop]
Told(cs, c, a) == [cs EXCEPT ![c].pc = "answered", ![c].answer = a]

-----------------------------------------------------------------------------
(* The callers: invoke.  The state is read before the command is sent.     *)

Acquainted == actor.pc \notin {"launch", "hello", "ready"}

Look(c) ==
    /\ caller[c].pc = "idle"
    /\ Acquainted
    /\ caller' = IF state = "ready" THEN [caller EXCEPT ![c].pc = "looked"]
                 ELSE Told(caller, c, Answer("unavailable", "none"))
    /\ UNCHANGED <<state, shutdown, queue, due, actor, peer, out, inn>>

\* The receiver is gone once run_actor has returned.
Send(c) ==
    /\ caller[c].pc = "looked"
    /\ CASE actor.pc = "gone" ->
              caller' = Told(caller, c, Answer("unavailable", "none")) /\ UNCHANGED queue
         [] actor.pc # "gone" /\ Len(queue) >= Capacity ->
              caller' = Told(caller, c, Answer("busy", "none")) /\ UNCHANGED queue
         [] OTHER ->
              /\ caller' = [caller EXCEPT ![c].pc = "waiting"]
              /\ queue' = Append(queue, c)
    /\ UNCHANGED <<state, shutdown, due, actor, peer, out, inn>>

RequestShutdown ==
    /\ ~shutdown
    /\ shutdown' = TRUE
    /\ state' = IF state \in {"starting", "ready"} THEN "stopping" ELSE state
    /\ UNCHANGED <<queue, caller, due, actor, peer, out, inn>>

-----------------------------------------------------------------------------
(* Reading: pump_io.                                                       *)

\* What one look at the pipes yields: whole lines and perhaps the beginning
\* of the next, the end of the pipe, the output limit, a read that fails, or a
\* leader that is no longer ours.
Pumped ==
    {r \in [n : 0 .. Len(out), part : BOOLEAN, got : {TRUE}, fault : {"none"}] :
        /\ r.n > 0 \/ (r.part /\ ~actor.part)
        /\ r.part => r.n < Len(out)}
    \cup (IF out = <<>>
          THEN {[n |-> 0, part |-> FALSE, got |-> FALSE,
                 fault |-> IF peer.alive THEN "none" ELSE "process"]} ELSE {})
    \cup (IF MoreTrouble
          THEN {[n |-> 0, part |-> actor.part, got |-> FALSE, fault |-> f]
                  : f \in {"limit", "process", "lost"}} ELSE {})

IsKernelFault(p) == p.fault # "none" /\ (peer.alive \/ p.fault # "process" \/ out # <<>>)

Read(a, p) ==
    [a EXCEPT !.lines = @ \o SubSeq(out, 1, p.n), !.part = p.part,
              !.faults = IF IsKernelFault(p) THEN @ + 1 ELSE @]
Rest(p) == SubSeq(out, p.n + 1, Len(out))

-----------------------------------------------------------------------------
(* The ends of the actor.                                                  *)

\* Every command in the queue is answered.
RejectAll(cs, down) ==
    [c \in Calls |->
        IF c \notin ToSet(queue) THEN cs[c]
        ELSE [cs[c] EXCEPT !.pc = "answered",
                !.answer = IF StopOf(c, down) = "none" THEN Answer("unavailable", "none")
                           ELSE Answer("stopped_before", StopOf(c, down))]]

\* reject_queued_for_shutdown, before and after the clean-up.
ShutdownBegins(a, cs) ==
    /\ actor' = [a EXCEPT !.pc = "cleaning", !.call = NoCall]
    /\ caller' = RejectAll(cs, TRUE)
    /\ queue' = <<>>

\* A fault while no call is driven.
IdleFault(a, fault) ==
    /\ state' = "faulted"
    /\ actor' = [a EXCEPT !.pc = "poisoned", !.fault = fault]

\* reject_queued_for_fault, before the clean-up.
RejectForFault ==
    /\ actor.pc = "poisoned"
    /\ caller' = RejectAll(caller, FALSE)
    /\ queue' = <<>>
    /\ actor' = [actor EXCEPT !.pc = "cleaning"]
    /\ UNCHANGED <<state, shutdown, due, peer, out, inn>>

\* cleanup, terminate, kill: the group is proved to be gone, or not.
CleanUp(report) ==
    /\ actor.pc \in {"cleaning", "fatal"}
    /\ report = "lost" => MoreTrouble \/ actor.fault = "lost"
    /\ peer' = IF report = "lost" THEN peer ELSE [peer EXCEPT !.alive = FALSE]
    /\ actor' = [actor EXCEPT !.exit = report,
                              !.pc = IF @ = "fatal" THEN "verdict"
                                     ELSE IF actor.fault = "none" THEN "sweeping" ELSE "exiting"]
    /\ UNCHANGED <<state, shutdown, queue, caller, due, out, inn>>

\* fatal_outcome, and the queue is rejected only now.
FatalOutcome ==
    LET dispatched == actor.evidence # "not" IN
    CASE actor.exit = "lost" ->
            [kind |-> "lost", stop |-> actor.stop, dispatched |-> dispatched]
      [] actor.exit # "lost" /\ dispatched -> Answer("unknown", actor.stop)
      [] actor.exit # "lost" /\ ~dispatched /\ actor.stop # "none" ->
            Answer("stopped_before", actor.stop)
      [] actor.exit # "lost" /\ ~dispatched /\ actor.stop = "none"
            /\ actor.fault = "write_timeout" -> Answer("stopped_before", "action")
      [] OTHER -> Answer("unavailable", "none")

FatalVerdict ==
    /\ actor.pc = "verdict"
    /\ caller' = RejectAll(Told(caller, actor.call, FatalOutcome), FALSE)
    /\ queue' = <<>>
    /\ actor' = [actor EXCEPT !.pc = "exiting", !.call = NoCall]
    /\ UNCHANGED <<state, shutdown, due, peer, out, inn>>

ShutdownSweep ==
    /\ actor.pc = "sweeping"
    /\ caller' = RejectAll(caller, TRUE)
    /\ queue' = <<>>
    /\ actor' = [actor EXCEPT !.pc = "exiting"]
    /\ UNCHANGED <<state, shutdown, due, peer, out, inn>>

\* finish_actor, and then the receiver is dropped with what is still in it.
Exit ==
    /\ actor.pc = "exiting"
    /\ state' = "exited"
    /\ actor' = [actor EXCEPT !.pc = "leaving",
                              !.exit = IF @ # "lost" /\ state = "faulted" THEN "fault" ELSE @]
    /\ UNCHANGED <<shutdown, queue, caller, due, peer, out, inn>>

\* invoke, when the answer's sender is dropped.
DropReceiver ==
    /\ actor.pc = "leaving"
    /\ actor' = [actor EXCEPT !.pc = "gone"]
    /\ caller' = [c \in Calls |->
                    IF c \notin ToSet(queue) THEN caller[c]
                    ELSE [caller[c] EXCEPT !.pc = "answered",
                             !.answer = [kind |-> "lost", stop |-> "none", dispatched |-> TRUE]]]
    /\ queue' = <<>>
    /\ UNCHANGED <<state, shutdown, due, peer, out, inn>>

-----------------------------------------------------------------------------
(* Start-up.                                                               *)

\* start_process: nothing is spawned when the shutdown came first.
StartProcess(r) ==
    /\ actor.pc = "launch"
    /\ shutdown => r = "failed"
    /\ r = "lost" => MoreTrouble
    /\ CASE r = "ok" ->
              /\ actor' = [actor EXCEPT !.pc = "hello"]
              /\ peer' = [peer EXCEPT !.alive = TRUE]
              /\ UNCHANGED state
         [] r = "failed" ->
              /\ actor' = [actor EXCEPT !.pc = "gone", !.exit = "clean"]
              /\ state' = "exited" /\ UNCHANGED peer
         [] r = "lost" ->
              /\ actor' = [actor EXCEPT !.pc = "gone", !.exit = "lost"]
              /\ state' = "faulted" /\ UNCHANGED peer
    /\ UNCHANGED <<shutdown, queue, caller, due, out, inn>>

HelloFails ==
    /\ actor.pc = "hello"
    /\ state' = "faulted"
    /\ actor' = [actor EXCEPT !.pc = "cleaning", !.fault = "process"]
    /\ UNCHANGED <<shutdown, queue, caller, due, peer, out, inn>>

\* startup_handshake: one line, the right one, and nothing after it.
Hello ==
    /\ actor.pc = "hello"
    /\ out = <<Line("hello", 0)>>
    /\ peer.alive
    /\ actor' = [actor EXCEPT !.pc = "ready", !.saw = shutdown]
    /\ out' = <<>>
    /\ UNCHANGED <<state, shutdown, queue, caller, due, peer, inn>>

\* The flag was read before the state is written.
Ready ==
    /\ actor.pc = "ready"
    /\ state' = IF actor.saw THEN "stopping" ELSE "ready"
    /\ actor' = [actor EXCEPT !.pc = "idle"]
    /\ UNCHANGED <<shutdown, queue, caller, due, peer, out, inn>>

-----------------------------------------------------------------------------
(* One call: the loop of run_actor, and drive_call.                        *)

\* A command that is taken gets a number; arguments that its schema forbids are
\* answered at once.
IdleTurn ==
    /\ actor.pc = "idle"
    /\ IF shutdown
       THEN ShutdownBegins(actor, caller) /\ UNCHANGED <<state, out>>
       ELSE \E p \in Pumped :
              LET a == Read(actor, p) IN
              /\ out' = Rest(p)
              /\ IF p.fault # "none" \/ p.got \/ actor.lines # <<>> \/ actor.part
                 THEN /\ IdleFault(a, IF p.got \/ actor.lines # <<>> \/ actor.part
                                      THEN "protocol" ELSE p.fault)
                      /\ UNCHANGED <<queue, caller>>
                 ELSE /\ queue # <<>>
                      /\ queue' = Tail(queue)
                      /\ UNCHANGED state
                      /\ \/ /\ actor' = [a EXCEPT !.pc = "writing", !.call = Head(queue),
                                                  !.id = a.next, !.next = @ + 1,
                                                  !.evidence = "not", !.stop = "none"]
                            /\ caller' = [caller EXCEPT ![Head(queue)].id = a.next]
                         \/ /\ actor' = [a EXCEPT !.next = @ + 1]
                            /\ caller' = Told([caller EXCEPT ![Head(queue)].id = a.next],
                                              Head(queue), Answer("invalid_arguments", "none"))
    /\ UNCHANGED <<shutdown, due, peer, inn>>

\* CallDrive::Fatal.
Fatal(a, fault) ==
    /\ state' = "faulted"
    /\ actor' = [a EXCEPT !.pc = "fatal", !.fault = fault]
    /\ UNCHANGED <<queue, caller>>

\* CallDrive::Continue; a call that was stopped by the shutdown ends the actor.
Settle(a, answer) ==
    LET told == Told(caller, a.call, answer) IN
    /\ IF answer.kind \in {"stopped_before", "stopped_after"} /\ shutdown
       THEN ShutdownBegins(a, told)
       ELSE /\ actor' = [a EXCEPT !.pc = "idle", !.call = NoCall, !.id = 0,
                                  !.evidence = "not", !.stop = "none"]
            /\ caller' = told
            /\ UNCHANGED queue
    /\ UNCHANGED state

Go(a, pc) == actor' = [a EXCEPT !.pc = pc] /\ UNCHANGED <<state, queue, caller>>

Latched == [actor EXCEPT !.stop = First(@, StopOf(actor.call, shutdown))]
WriteExpired == due[actor.call] \cap {"turn", "action"} # {}

\* One turn of the write loop: a stop, the deadline, or some bytes and a look
\* at what comes back.
WriteTurn ==
    /\ actor.pc = "writing"
    /\ IF Latched.stop # "none" /\ actor.evidence = "not"
       THEN /\ Settle(Latched, Answer("stopped_before", Latched.stop))
            /\ UNCHANGED <<out, inn>>
       ELSE \/ Fatal(Latched, "write_timeout") /\ UNCHANGED <<out, inn>>
            \/ ~peer.alive /\ Fatal(Latched, "process") /\ UNCHANGED <<out, inn>>
            \/ /\ peer.alive /\ ~WriteExpired
               /\ \E p \in Pumped, e \in {actor.evidence, "may", "all"} :
                     LET a == [Read(Latched, p) EXCEPT !.evidence = e] IN
                     /\ e = "not" => p.fault # "none" \/ p.got
                     /\ e = "may" => e # actor.evidence \/ p.fault # "none" \/ p.got
                     /\ out' = Rest(p)
                     /\ inn' = IF e = "all" THEN Append(inn, Line("call", a.id)) ELSE inn
                     /\ CASE p.fault = "lost" -> Fatal(a, "lost")
                          [] p.fault # "lost" /\ a.lines # <<>> ->
                                IF e = "all" THEN Go(a, "waiting") ELSE Fatal(a, "protocol")
                          [] p.fault \notin {"lost", "none"} /\ a.lines = <<>> ->
                                Fatal(a, p.fault)
                          [] OTHER -> Go(a, IF e = "all" THEN "waiting" ELSE "writing")
    /\ UNCHANGED <<shutdown, due, peer>>

\* Faulty variant: any result settles the call that is being driven.
OwnResultAny(a, l) == l.kind \in {"result", "bad_result"}

OwnResult(a, l) == l.kind \in {"result", "bad_result"} /\ l.id = a.id

\* take_result: the first whole line settles the call or breaks the protocol.
Take(a) ==
    LET l == Head(a.lines)
        rest == [a EXCEPT !.lines = Tail(@)] IN
    IF ~OwnResult(a, l) THEN Fatal(rest, "protocol")
    ELSE Settle(rest, IF a.stop # "none" THEN Answer("stopped_after", a.stop)
                      ELSE Answer(IF l.kind = "result" THEN "settled" ELSE "invalid_output",
                                  "none"))

\* pump, take_result, then the fault that the pump met.
PumpAndTake(a0) ==
    \E p \in Pumped :
        LET a == Read(a0, p) IN
        /\ out' = Rest(p)
        /\ CASE p.fault = "lost" -> Fatal(a, "lost")
             [] p.fault # "lost" /\ a.lines # <<>> -> Take(a)
             [] p.fault \notin {"lost", "none"} /\ a.lines = <<>> -> Fatal(a, p.fault)
             [] OTHER -> Go(a, actor.pc)

\* One turn of the wait: the stop is latched before the result is taken; the
\* cancel is written once, and leads to a wait of its own.
WaitTurn ==
    /\ actor.pc = "waiting"
    /\ CASE Latched.lines # <<>> -> Take(Latched) /\ UNCHANGED <<out, inn>>
         [] Latched.lines = <<>> /\ Latched.stop # "none" ->
              \/ Fatal(Latched, "process") /\ UNCHANGED <<out, inn>>
              \/ /\ peer.alive
                 /\ \E p \in Pumped :
                       /\ p.fault # "lost"
                       /\ out' = Rest(p)
                       /\ inn' = Append(inn, Line("cancel", actor.id))
                       /\ Go(Read(Latched, p), "cancelled")
         [] OTHER -> PumpAndTake(Latched) /\ UNCHANGED inn
    /\ UNCHANGED <<shutdown, due, peer>>

\* Faulty variant: the answer of a cancelled call is awaited without a grace.
CancelledTurnPatient ==
    /\ actor.pc = "cancelled"
    /\ IF actor.lines # <<>> THEN Take(actor) /\ UNCHANGED out
       ELSE PumpAndTake(actor)
    /\ UNCHANGED <<shutdown, due, peer, inn>>

\* What is left of CANCEL_GRACE.
CancelledTurn ==
    /\ actor.pc = "cancelled"
    /\ IF actor.lines # <<>> THEN Take(actor) /\ UNCHANGED out
       ELSE \/ Fatal(actor, "process") /\ UNCHANGED out
            \/ PumpAndTake(actor)
    /\ UNCHANGED <<shutdown, due, peer, inn>>

-----------------------------------------------------------------------------
(* The plugin, followed as long as the thread lives, and the clocks.       *)

Ours == <<state, shutdown, queue, caller, actor>>

PeerHello ==
    /\ peer.alive /\ actor.pc = "hello" /\ out = <<>>
    /\ out' = <<Line("hello", 0)>>
    /\ UNCHANGED <<due, peer, inn, Ours>>

PeerReads ==
    /\ peer.alive /\ inn # <<>>
    /\ inn' = Tail(inn)
    /\ peer' = IF Head(inn).kind = "call" THEN [peer EXCEPT !.seen = @ \cup {Head(inn).id}]
               ELSE peer
    /\ UNCHANGED <<due, out, Ours>>

\* One answer for a call, perhaps one that the schema of the tool forbids.
PeerAnswers(id, kind) ==
    /\ peer.alive
    /\ id \in peer.seen \ peer.said
    /\ out' = Append(out, Line(kind, id))
    /\ peer' = [peer EXCEPT !.said = @ \cup {id}]
    /\ UNCHANGED <<due, inn, Ours>>

\* A line nobody asked for, or one for a call that is over or yet to come.
PeerLies(l) ==
    /\ peer.alive /\ Acquainted
    /\ MoreTrouble
    /\ out' = Append(out, l)
    /\ peer' = [peer EXCEPT !.lies = @ + 1, !.honest = FALSE,
                            !.said = IF l.kind = "result" THEN @ \cup {l.id} ELSE @]
    /\ UNCHANGED <<due, inn, Ours>>

PeerDies ==
    /\ peer.alive
    /\ peer' = [peer EXCEPT !.alive = FALSE]
    /\ UNCHANGED <<due, out, inn, Ours>>

StopFires(c, s) ==
    /\ caller[c].pc \in IF s = "action" THEN {"waiting"} ELSE {"looked", "waiting"}
    /\ s \in StopKinds \ due[c]
    /\ s # "action" =>
          Cardinality({d \in Calls \X StopKinds : d[2] \in due[d[1]] \ {"action"}}) < MaxStops
    /\ due' = [due EXCEPT ![c] = @ \cup {s}]
    /\ UNCHANGED <<peer, out, inn, Ours>>

Lies == {Line("junk", 0)} \cup {Line("result", id) : id \in 1 .. Cardinality(Calls)}

Actor ==
    \/ (\E r \in {"ok", "failed", "lost"} : StartProcess(r)) \/ HelloFails \/ Hello \/ Ready
    \/ IdleTurn \/ WriteTurn \/ WaitTurn \/ CancelledTurn
    \/ RejectForFault \/ (\E r \in {"clean", "lost"} : CleanUp(r)) \/ FatalVerdict
    \/ ShutdownSweep \/ Exit \/ DropReceiver
Peer ==
    \/ PeerHello \/ PeerReads \/ PeerDies \/ (\E l \in Lies : PeerLies(l))
    \/ \E id \in peer.seen, kind \in {"result", "bad_result"} : PeerAnswers(id, kind)

Next ==
    \/ Actor \/ (actor.pc # "gone" /\ Peer) \/ RequestShutdown
    \/ \E c \in Calls : Look(c) \/ Send(c) \/ \E s \in StopKinds : StopFires(c, s)

\* The thread is never blocked for good, and callers are polled.  Nothing is
\* assumed of the plugin; of the clocks, that a call meets its own deadline.
Fairness ==
    /\ WF_vars(Actor)
    /\ \A c \in Calls : WF_vars(Send(c)) /\ WF_vars(StopFires(c, "action"))

Spec == Init /\ [][Next]_vars /\ Fairness

-----------------------------------------------------------------------------
(* Properties.                                                             *)

TypeOK ==
    /\ state \in {"starting", "ready", "faulted", "stopping", "exited"}
    /\ Len(queue) <= Capacity
    /\ \A c \in Calls : caller[c].pc = "waiting" <=> c \in ToSet(queue) \cup {actor.call}
    /\ actor.call # NoCall <=>
          actor.pc \in {"writing", "waiting", "cancelled", "fatal", "verdict"}
    /\ actor.evidence \in {"not", "may", "all"}

Unstarted == {"invalid_arguments", "busy", "unavailable", "stopped_before"}
Settled == {"settled", "invalid_output", "stopped_after"}

\* A plugin that answers each call once is never found to break the protocol,
\* whatever answers cross a cancel, a deadline or the end of another call.
HonestNeverBlamed == actor.fault = "protocol" => ~peer.honest

\* A call that is reported as never started is one the plugin never gets to
\* see, then or later; a call that is reported as settled has an answer of the
\* plugin under its own number; a call whose outcome is unknown leaves no
\* process behind.
AnswerIsTrue ==
    /\ TypeOK /\ HonestNeverBlamed
    /\ \A c \in Calls :
           LET a == caller[c].answer  id == caller[c].id IN
           /\ a.kind \in Unstarted =>
                 id \notin peer.seen /\ \A i \in DOMAIN inn : inn[i].id # id
           /\ a.kind \in Settled => id \in peer.said
           /\ a.kind = "unknown" => ~peer.alive
           /\ a.kind = "stopped_after" => a.stop \in due[c] \/ (a.stop = "caller" /\ shutdown)

\* Every command that was accepted is answered, although the plugin need not
\* read, write or die, and however the actor ends.
EveryCallAnswered ==
    \A c \in Calls : caller[c].pc = "waiting" ~> caller[c].pc = "answered"

=============================================================================
