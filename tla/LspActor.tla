------------------------------ MODULE LspActor ------------------------------
(***************************************************************************)
(* One language server: the thread that starts it when a query needs it,   *)
(* keeps it between queries, starts another when it fails, and ends it     *)
(* (tools/lsp/actor.rs, with the process of tools/process/plugin.rs).      *)
(*                                                                         *)
(* The queries reach the thread through a queue.  A query opens the        *)
(* document, asks, and closes the document; responses are matched by       *)
(* number, and everything else the server sends is skipped or answered on  *)
(* the way.  The servers started one after the other are numbered.         *)
(***************************************************************************)
EXTENDS Naturals, Sequences, FiniteSets, SequencesExt, FiniteSetsExt

CONSTANTS
    Queries,
    NoQuery,
    Capacity,   \* QUEUE_CAPACITY
    MaxCancels, \* queries that are cancelled, their deadlines not counted
    MaxTrouble  \* failures of servers, of writes to them and of the kernel

ASSUME LspAssumption ==
    /\ IsFiniteSet(Queries) /\ NoQuery \notin Queries
    /\ {Capacity, MaxCancels, MaxTrouble} \subseteq Nat

VARIABLES
    shutdown,   \* the shutdown flag
    queue,      \* the channel of queries
    caller,     \* what each caller does, the request sent for it, its answer
    due,        \* the stops that have come, by query
    actor,      \* the thread: where it is, its query, attempt, number awaited
    conn,       \* the connection it keeps
    server,     \* the server of that connection
    procs,      \* what became of each server: live, gone, lost
    trouble

vars == <<shutdown, queue, caller, due, actor, conn, server, procs, trouble>>
Stays == <<shutdown, due>>

NoAnswer == [kind |-> "none", stop |-> "none"]
NoConn == [up |-> FALSE, next |-> 1, able |-> TRUE, inbox |-> <<>>]
NoServer == [alive |-> FALSE, torn |-> FALSE, inn |-> <<>>, out |-> <<>>, said |-> {}]
Idle == [pc |-> "idle", query |-> NoQuery, attempt |-> 0, id |-> 0,
         failure |-> "none", stop |-> "none", exit |-> "none"]

Init ==
    /\ shutdown = FALSE
    /\ queue = <<>>
    /\ caller = [q \in Queries |-> [pc |-> "idle", asked |-> <<0, 0>>, answer |-> NoAnswer]]
    /\ due = [q \in Queries |-> {}]
    /\ actor = Idle
    /\ conn = NoConn
    /\ server = NoServer
    /\ procs = <<>>
    /\ trouble = 0

Trouble == trouble < MaxTrouble /\ trouble' = trouble + 1
Calm == UNCHANGED trouble
Message(kind, id) == [kind |-> kind, id |-> id]
Gen == Len(procs)

\* Faulty variant: the deadline of a query is not looked at.
StopOfDeaf(q) == IF shutdown \/ "cancelled" \in due[q] THEN "cancelled" ELSE "none"

\* DriveControl::stop.
StopOf(q) ==
    IF shutdown \/ "cancelled" \in due[q] THEN "cancelled"
    ELSE IF "timeout" \in due[q] THEN "timeout" ELSE "none"
Stop == StopOf(actor.query)

Told(cs, q, kind, stop) ==
    [cs EXCEPT ![q].pc = "answered", ![q].answer = [kind |-> kind, stop |-> stop]]

-----------------------------------------------------------------------------
(* LspActor::query and the shutdown.                                       *)

Look(q) ==
    /\ caller[q].pc = "idle"
    /\ caller' = IF shutdown THEN Told(caller, q, "process", "none")
                 ELSE [caller EXCEPT ![q].pc = "looked"]
    /\ UNCHANGED <<queue, actor, conn, server, procs, trouble, Stays>>

Send(q) ==
    /\ caller[q].pc = "looked"
    /\ CASE actor.pc = "gone" ->
              caller' = Told(caller, q, "process", "none") /\ UNCHANGED queue
         [] actor.pc # "gone" /\ Len(queue) >= Capacity ->
              caller' = Told(caller, q, "busy", "none") /\ UNCHANGED queue
         [] OTHER ->
              /\ caller' = [caller EXCEPT ![q].pc = "waiting"]
              /\ queue' = Append(queue, q)
    /\ UNCHANGED <<actor, conn, server, procs, trouble, Stays>>

RequestShutdown ==
    /\ ~shutdown
    /\ shutdown' = TRUE
    /\ UNCHANGED <<queue, caller, due, actor, conn, server, procs, trouble>>

\* reject_queued, and what the drop of the receiver answers.
Rejected(kind, stop) ==
    [q \in Queries |-> IF q \in ToSet(queue) THEN Told(caller, q, kind, stop)[q] ELSE caller[q]]

-----------------------------------------------------------------------------
(* The ends of a query: the answer, a failure, another attempt.            *)

Reply(kind, stop) ==
    /\ caller' = Told(caller, actor.query, kind, stop)
    /\ actor' = Idle

\* A failed connection is terminated before anything else is said.
Fail(failure, stop) ==
    /\ actor' = [actor EXCEPT !.pc = IF @ \in {"init", "initialized"} THEN "abort" ELSE "drop",
                              !.failure = failure, !.stop = stop]
    /\ UNCHANGED caller

Again ==
    /\ actor' = [actor EXCEPT !.pc = "start", !.attempt = 1, !.failure = "none"]
    /\ UNCHANGED caller

Terminated(report) == Append(Front(procs), report)
MayRetry == actor.failure \in {"transport", "protocol"} /\ actor.attempt = 0

\* run_query after a failed start, and after a failed query: a lost process is
\* given up, a stop is answered, a broken connection is replaced once.
Terminate(report) ==
    /\ actor.pc \in {"abort", "drop"}
    /\ IF report = "gone" THEN Calm ELSE Trouble
    /\ procs' = Terminated(report)
    /\ conn' = NoConn
    /\ server' = NoServer
    /\ CASE actor.failure = "stopped" /\ (report = "gone" \/ actor.pc = "drop") ->
              Reply("stopped", actor.stop)
         [] report = "gone" /\ MayRetry -> Again
         [] OTHER -> Reply("process", "none")
    /\ UNCHANGED <<queue, Stays>>

\* The kernel no longer tells whose process it is: nothing is waited for.
Lose ==
    /\ Trouble
    /\ procs' = Terminated("lost")
    /\ conn' = NoConn
    /\ server' = NoServer
    /\ Reply("process", "none")

-----------------------------------------------------------------------------
(* Bytes.                                                                  *)

\* write: whole, or given up in the middle by a stop or a fault.
Written(m) == server' = [server EXCEPT !.inn = IF server.torn THEN @ ELSE Append(@, m)]
WriteFails ==
    \/ Stop # "none" /\ Fail("stopped", Stop) /\ Calm
    \/ (~server.alive /\ Fail("transport", "none") /\ Calm)
    \/ (server.alive /\ Fail("transport", "none") /\ Trouble)

\* pump: everything that is there; the end of the pipe hides what came before,
\* unless somebody else holds it open.
Pump ==
    \/ /\ server.alive \/ conn.inbox \o server.out # <<>>
       /\ conn' = [conn EXCEPT !.inbox = @ \o server.out]
       /\ server' = [server EXCEPT !.out = <<>>]
       /\ Calm /\ UNCHANGED <<actor, caller, procs>>
    \/ /\ ~server.alive
       /\ Fail("transport", "none")
       /\ Calm /\ UNCHANGED <<conn, server, procs>>
    \/ /\ server.alive
       /\ \E f \in {"transport", "protocol"} : Fail(f, "none")
       /\ Trouble /\ UNCHANGED <<conn, server, procs>>
    \/ actor.pc # "init" /\ Lose
    \/ actor.pc = "init" /\ Trouble /\ Fail("lost", "none") /\ UNCHANGED <<conn, server, procs>>

\* Faulty variant: a response is taken for the query whatever its number.
MineAny(m) == m.kind \in {"ok", "bad", "error"}

Mine(m) == m.kind \in {"ok", "bad", "error"} /\ m.id = actor.id
Requests(ms) == \E i \in DOMAIN ms : ms[i].kind = "request"
Answers == {i \in DOMAIN conn.inbox : Mine(conn.inbox[i])}
Skipped == IF Answers = {} THEN conn.inbox ELSE SubSeq(conn.inbox, 1, Min(Answers))

-----------------------------------------------------------------------------
(* A server is started.                                                    *)

TopTake ==
    /\ actor.pc = "idle" /\ ~shutdown
    /\ queue # <<>>
    /\ queue' = Tail(queue)
    /\ IF StopOf(Head(queue)) # "none"
       THEN /\ caller' = Told(caller, Head(queue), "stopped", StopOf(Head(queue)))
            /\ UNCHANGED actor
       ELSE /\ actor' = [Idle EXCEPT !.pc = IF conn.up THEN "open" ELSE "start",
                                     !.query = Head(queue)]
            /\ UNCHANGED caller
    /\ UNCHANGED <<conn, server, procs, trouble, Stays>>

\* A stop, a start that fails, a process that is lost while it starts, or a
\* process to which the initialize request is written.
Start ==
    /\ actor.pc = "start"
    /\ \/ /\ Stop # "none"
          /\ Reply("stopped", Stop)
          /\ Calm /\ UNCHANGED <<conn, server, procs>>
       \/ /\ Stop = "none"
          /\ Trouble
          /\ IF actor.attempt = 0 THEN Again ELSE Reply("process", "none")
          /\ UNCHANGED <<conn, server, procs>>
       \/ /\ Stop = "none"
          /\ Trouble
          /\ procs' = Append(procs, "lost")
          /\ Reply("process", "none")
          /\ UNCHANGED <<conn, server>>
       \/ /\ Stop = "none"
          /\ procs' = Append(procs, "live")
          /\ server' = [NoServer EXCEPT !.alive = TRUE, !.inn = <<Message("initialize", 1)>>]
          /\ conn' = [NoConn EXCEPT !.next = 2]
          /\ actor' = [actor EXCEPT !.pc = "init", !.id = 1]
          /\ Calm /\ UNCHANGED caller
    /\ UNCHANGED <<queue, Stays>>

-----------------------------------------------------------------------------
(* wait_response, of the initialize request and of the query.              *)

Waiting == actor.pc \in {"init", "ask"}

\* A request of the server that is answered on the way may fail: the grace for
\* it goes by, or the pipe breaks.
AnswerRequestFails ==
    /\ Requests(Skipped)
    /\ \E f \in {<<"stopped", "timeout">>, <<"transport", "none">>} : Fail(f[1], f[2])
    /\ Trouble
    /\ UNCHANGED <<conn, server, procs>>

Received(m) ==
    CASE m.kind = "error" -> IF actor.pc = "init" THEN Fail("server", "none")
                             ELSE actor' = [actor EXCEPT !.pc = "close", !.failure = "protocol"]
                                  /\ UNCHANGED caller
      [] m.kind # "error" /\ actor.pc = "init" ->
            actor' = [actor EXCEPT !.pc = "initialized"] /\ UNCHANGED caller
      [] m.kind = "ok" /\ actor.pc = "ask" ->
            actor' = [actor EXCEPT !.pc = "close"] /\ UNCHANGED caller
      [] OTHER ->
            \/ Fail("protocol", "none")
            \/ actor' = [actor EXCEPT !.pc = "close", !.failure = "malformed"]
               /\ UNCHANGED caller

\* take_response, which comes before the stop is looked at, then the cancel,
\* then more reading.
WaitTurn ==
    /\ Waiting
    /\ \/ AnswerRequestFails
       \/ /\ Answers # {}
          /\ conn' = [conn EXCEPT !.inbox = SubSeq(@, Min(Answers) + 1, Len(@))]
          /\ Received(conn.inbox[Min(Answers)])
          /\ Calm /\ UNCHANGED <<server, procs>>
       \/ /\ Answers = {}
          /\ Stop # "none"
          /\ conn' = [conn EXCEPT !.inbox = <<>>]
          /\ \/ Written(Message("cancel", actor.id))
             \/ UNCHANGED server
          /\ \/ Fail("stopped", Stop) /\ Calm
             \/ ~server.alive /\ Fail("transport", "none") /\ Calm
             \/ Trouble /\ \E f \in {"transport", "protocol"} : Fail(f, "none")
          /\ UNCHANGED procs
       \/ Answers = {} /\ Stop = "none" /\ Pump
    /\ UNCHANGED <<queue, Stays>>

\* The connection is kept from here on.
Initialized ==
    /\ actor.pc = "initialized"
    /\ \/ WriteFails /\ UNCHANGED <<conn, server>>
       \/ /\ Stop = "none"
          /\ \E able \in BOOLEAN : conn' = [conn EXCEPT !.up = TRUE, !.able = able]
          /\ actor' = [actor EXCEPT !.pc = "open"]
          /\ Calm /\ UNCHANGED <<server, caller>>
    /\ UNCHANGED <<queue, procs, Stays>>

-----------------------------------------------------------------------------
(* The query itself.                                                       *)

\* The capabilities, didOpen, and the request.
Open ==
    /\ actor.pc = "open"
    /\ \/ /\ ~conn.able
          /\ Reply("unsupported", "none")
          /\ Calm /\ UNCHANGED <<conn, server>>
       \/ conn.able /\ WriteFails /\ UNCHANGED <<conn, server>>
       \/ /\ conn.able
          /\ Stop = "none"
          /\ server.alive
          /\ Written(Message("ask", conn.next))
          /\ conn' = [conn EXCEPT !.next = @ + 1]
          /\ actor' = [actor EXCEPT !.pc = "ask", !.id = conn.next]
          /\ caller' = [caller EXCEPT ![actor.query].asked = <<Gen, conn.next>>]
          /\ Calm
    /\ UNCHANGED <<queue, procs, Stays>>

\* didClose has a grace of its own, and what becomes of it is ignored.
Close ==
    /\ actor.pc = "close"
    /\ \/ Calm /\ UNCHANGED server
       \/ Trouble /\ server' = [server EXCEPT !.torn = TRUE]
    /\ Reply(IF actor.failure = "none" THEN "success" ELSE actor.failure, "none")
    /\ UNCHANGED <<queue, conn, procs, Stays>>

-----------------------------------------------------------------------------
(* Between queries, and the end.                                           *)

\* pump_idle: what comes late is dropped, a server that fails is terminated.
TopPump ==
    /\ actor.pc = "idle" /\ ~shutdown /\ queue = <<>>
    /\ conn.up
    /\ \/ /\ server.alive
          /\ server.out # <<>> \/ conn.inbox # <<>>
          /\ conn' = [conn EXCEPT !.inbox = <<>>]
          /\ server' = [server EXCEPT !.out = <<>>]
          /\ Calm /\ UNCHANGED <<procs, actor>>
       \/ /\ IF server.alive THEN Trouble ELSE Calm
          /\ procs' = Terminated("gone")
          /\ conn' = NoConn /\ server' = NoServer
          /\ UNCHANGED actor
       \/ /\ Trouble
          /\ procs' = Terminated("lost")
          /\ conn' = NoConn /\ server' = NoServer
          /\ actor' = [actor EXCEPT !.pc = "leaving", !.exit = "lost"]
    /\ UNCHANGED <<queue, caller, Stays>>

TopShutdown ==
    /\ actor.pc = "idle" /\ shutdown
    /\ caller' = Rejected("stopped", "cancelled")
    /\ queue' = <<>>
    /\ actor' = [actor EXCEPT !.pc = IF conn.up THEN "farewell" ELSE "leaving",
                              !.exit = IF conn.up THEN "none" ELSE "clean"]
    /\ UNCHANGED <<conn, server, procs, trouble, Stays>>

\* The shutdown request, answered or not within its time; exit; cleanup.
Farewell(report) ==
    /\ actor.pc = "farewell"
    /\ IF report = "gone" THEN Calm ELSE Trouble
    /\ procs' = Terminated(report)
    /\ conn' = NoConn /\ server' = NoServer
    /\ actor' = [actor EXCEPT !.pc = "leaving", !.exit = IF report = "gone" THEN "clean" ELSE "lost"]
    /\ UNCHANGED <<queue, caller, Stays>>

\* An actor that lost its server rejects the queue first; the receiver is
\* dropped with whatever came since.
Leave ==
    /\ actor.pc = "leaving"
    /\ actor' = [actor EXCEPT !.pc = "gone"]
    /\ \/ actor.exit = "lost" /\ caller' = Rejected("stopped", "cancelled")
       \/ caller' = Rejected("process", "none")
    /\ queue' = <<>>
    /\ UNCHANGED <<conn, server, procs, trouble, Stays>>

-----------------------------------------------------------------------------
(* The server and the clocks.                                              *)

Ours == <<queue, caller, actor, conn, procs>>

\* One response for each request that was read whole, in order.
ServerAnswers(kind) ==
    /\ server.alive /\ server.inn # <<>>
    /\ LET m == Head(server.inn) IN
       server' = [server EXCEPT
            !.inn = Tail(@),
            !.out = IF m.kind = "cancel" THEN @ ELSE Append(@, Message(kind, m.id)),
            !.said = IF m.kind = "ask" THEN @ \cup {m.id} ELSE @]
    /\ IF kind = "ok" THEN Calm ELSE Trouble
    /\ UNCHANGED <<Ours, Stays>>

\* A request of its own, or a response to nothing that is awaited.
ServerSays(m) ==
    /\ server.alive
    /\ Trouble
    /\ server' = [server EXCEPT !.out = Append(@, m)]
    /\ UNCHANGED <<Ours, Stays>>

ServerDies ==
    /\ server.alive
    /\ Trouble
    /\ server' = [server EXCEPT !.alive = FALSE]
    /\ UNCHANGED <<Ours, Stays>>

StopFires(q, s) ==
    /\ caller[q].pc = "waiting"
    /\ s \notin due[q]
    /\ s = "cancelled" => Cardinality({p \in Queries : s \in due[p]}) < MaxCancels
    /\ due' = [due EXCEPT ![q] = @ \cup {s}]
    /\ UNCHANGED <<shutdown, trouble, server, Ours>>

Actor ==
    \/ TopTake \/ TopPump \/ TopShutdown \/ Start \/ Initialized \/ Open \/ Close
    \/ WaitTurn \/ Leave
    \/ \E r \in {"gone", "lost"} : Terminate(r) \/ Farewell(r)
Server ==
    \/ ServerDies
    \/ \E kind \in {"ok", "bad", "error"} : ServerAnswers(kind)
    \/ \E m \in {Message("request", 0), Message("ok", 0)} : ServerSays(m)

Next ==
    \/ Actor \/ Server \/ RequestShutdown
    \/ \E q \in Queries :
          Look(q) \/ Send(q) \/ \E s \in {"cancelled", "timeout"} : StopFires(q, s)

Fairness ==
    /\ WF_vars(Actor)
    /\ \A q \in Queries : WF_vars(Send(q)) /\ WF_vars(StopFires(q, "timeout"))

Spec == Init /\ [][Next]_vars /\ Fairness

-----------------------------------------------------------------------------
(* Properties.                                                             *)

TypeOK ==
    /\ Len(queue) <= Capacity
    /\ \A q \in Queries : caller[q].pc = "waiting" <=> q \in ToSet(queue) \cup {actor.query}
    /\ conn.up => procs # <<>> /\ Last(procs) = "live"
    /\ trouble <= MaxTrouble

\* There is one server at a time: another is started only when the last one is
\* proved to be gone or was given up, and a thread that ended left none behind.
OneServer ==
    \A g \in DOMAIN procs :
        procs[g] = "live" => g = Gen /\ actor.pc \notin {"start", "leaving", "gone"}

\* A result that is shown is the answer to this query's own request on the
\* connection that is still open, never that of an earlier query or attempt, nor
\* one of a server that was left behind.
ResultIsOwn ==
    /\ TypeOK /\ OneServer
    /\ \A q \in Queries :
           actor.query = q /\ actor.pc = "close" /\ actor.failure = "none" =>
               caller[q].asked[1] = Gen /\ caller[q].asked[2] \in server.said

\* Every query that was accepted is answered, although the server need not
\* answer, exit or die.
EveryQueryAnswered ==
    \A q \in Queries : caller[q].pc = "waiting" ~> caller[q].pc = "answered"

=============================================================================
