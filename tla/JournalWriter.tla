--------------------------- MODULE JournalWriter ---------------------------
(***************************************************************************)
(* The durable session journal: one asynchronous owner (JournalWriter) and *)
(* one blocking worker thread (writer_main) joined by a command channel,   *)
(* one acknowledgement per command and a cancellation token per            *)
(* positional read.                                                        *)
(*                                                                         *)
(* Every await of the owner may be dropped by its caller; what was staged  *)
(* or sent stays in the owner and the next call settles it.  A batch of    *)
(* rows is abstracted to its number in staging order, offsets are counted  *)
(* in batches, and every async method is one loop, driven by `call`:       *)
(* settle what is outstanding, flush what is staged, synchronise, send the *)
(* method's own command, settle that.                                      *)
(***************************************************************************)
EXTENDS Naturals, Sequences

CONSTANTS
    MaxBatches,       \* bound: batches ever staged
    COMMAND_CAPACITY  \* slots of the command channel

ASSUME BatchesAssumption  == MaxBatches \in Nat \ {0}
ASSUME CapacityAssumption == COMMAND_CAPACITY \in Nat \ {0}

VARIABLES
    staged,       \* history: batches accepted by stage so far
    acked,        \* history: batches a successful barrier or finish covered
    pending,      \* the staged batch not yet sent (0: none)
    flight,       \* the four outstanding-command fields of the owner
    token,        \* cancellation token of the command last sent per slot
    cursor,       \* the owner's copy of the worker's offsets
    poisoned,
    finished,
    finishError,
    sender,       \* the owner still holds the channel's sender
    owner,        \* "live", "dropping" (joining in Drop), "dropped"
    boundary,     \* source_durable_offset of the last inspected fork
    call,         \* the async method being polled
    chan,         \* commands sent and not yet received
    job,          \* the command the worker executes
    worker,       \* "running", "exited", "died"
    wcursor,
    wpoisoned,
    file,         \* batches in the file, as the page cache has them
    torn,         \* an incomplete batch follows them
    synced        \* batches that survive a crash

ownerVars  == <<pending, flight, token, cursor, poisoned, finished,
                finishError, sender, owner, boundary, call>>
workerVars == <<job, worker, wcursor, wpoisoned, file, torn, synced>>
history    == <<staged, acked>>
vars       == <<staged, acked, pending, flight, token, cursor, poisoned,
                finished, finishError, sender, owner, boundary, call, chan,
                job, worker, wcursor, wpoisoned, file, torn, synced>>

-----------------------------------------------------------------------------
Slots     == {"write", "read", "export", "fork"}
ReadSlots == Slots \ {"write"}
Batches   == 1..MaxBatches
Offsets   == 0..MaxBatches
NoBatch   == 0
Ops       == {"flush", "settle_before_stage", "barrier", "finish",
              "read", "export", "inspect", "copy"}
ReadOps   == {"read", "export", "inspect", "copy"}

\* The slot that keeps a method's own command.
SlotOf(op) == CASE op = "read" -> "read"
                [] op = "export" -> "export"
                [] op \in {"inspect", "copy"} -> "fork"
                [] OTHER -> "write"

NoCommand == [kind |-> "none", arg |-> 0]
Kinds     == {"none", "append", "barrier", "finish"} \cup ReadOps
Command   == [kind : Kinds, arg : Offsets]

\* What an acknowledgement channel holds: nothing yet, an answer, or the news
\* that the worker dropped its end.  `data` is the number of batches a read,
\* an export or a fork inspection answered about.
Ack(tag, c, data) == [tag |-> tag, cursor |-> c, data |-> data]
Zero    == [physical |-> 0, durable |-> 0]
Waiting == Ack("waiting", Zero, 0)
Lost    == Ack("lost", Zero, 0)
Refusals == {"cancelled", "destination", "unavailable", "changed"}
AckTags == {"waiting", "lost", "cursor", "data", "poisoned"} \cup Refusals
Cursors == [physical : Offsets, durable : Offsets]
Acks    == [tag : AckTags, cursor : Cursors, data : Offsets]

NoFlight == [kind |-> "none", arg |-> 0, ack |-> Waiting]
Flights  == [kind : Kinds, arg : Offsets, ack : Acks]

\* `sent` is TRUE once the outstanding command of the method's slot is its own.
NoCall == [op |-> "none", row |-> 0, sent |-> FALSE]
Calls  == [op : Ops \cup {"none"}, row : Offsets, sent : BOOLEAN]

Idle        == call = NoCall
InFlight(s) == flight[s] # NoFlight
Usable      == ~poisoned /\ ~finished
WorkerGone  == worker # "running"

TypeOK ==
    /\ staged \in Offsets /\ acked \in Offsets
    /\ pending \in Offsets
    /\ flight \in [Slots -> Flights]
    /\ token \in [ReadSlots -> BOOLEAN]
    /\ cursor \in Cursors /\ wcursor \in Cursors
    /\ poisoned \in BOOLEAN /\ wpoisoned \in BOOLEAN
    /\ finished \in BOOLEAN
    /\ finishError \in {"none", "Poisoned", "WriterStopped"}
    /\ sender \in BOOLEAN
    /\ owner \in {"live", "dropping", "dropped"}
    /\ boundary \in Offsets
    /\ call \in Calls
    /\ chan \in Seq(Command) /\ Len(chan) <= COMMAND_CAPACITY
    /\ job \in Command
    /\ worker \in {"running", "exited", "died"}
    /\ file \in Seq(Batches) /\ Len(file) <= MaxBatches
    /\ torn \in BOOLEAN
    /\ synced \in Offsets

Init ==
    /\ staged = 0 /\ acked = 0
    /\ pending = NoBatch
    /\ flight = [s \in Slots |-> NoFlight]
    /\ token = [s \in ReadSlots |-> FALSE]
    /\ cursor = Zero /\ wcursor = Zero
    /\ poisoned = FALSE /\ wpoisoned = FALSE
    /\ finished = FALSE /\ finishError = "none"
    /\ sender = TRUE /\ owner = "live"
    /\ boundary = 0
    /\ call = NoCall
    /\ chan = <<>> /\ job = NoCommand
    /\ worker = "running"
    /\ file = <<>> /\ torn = FALSE /\ synced = 0

-----------------------------------------------------------------------------
(* The owner's synchronous methods *)

LatchedError(error) == IF finishError = "none" THEN error ELSE finishError

\* Mutant of ensure_stageable: an export flight is forgotten.
StageableDuringExport == /\ owner = "live" /\ Idle /\ Usable
                         /\ \A s \in Slots \ {"export"} : ~InFlight(s)
                         /\ pending = NoBatch

\* ensure_stageable
Stageable == /\ owner = "live" /\ Idle /\ Usable
             /\ \A s \in Slots : ~InFlight(s)
             /\ pending = NoBatch

Stage ==
    /\ Stageable
    /\ staged < MaxBatches
    /\ staged' = staged + 1
    /\ pending' = staged + 1
    /\ UNCHANGED <<acked, flight, token, cursor, poisoned, finished,
                   finishError, sender, owner, boundary, call, chan>>
    /\ UNCHANGED workerVars

\* stage_prune_prefix refuses bytes that are not one or two whole rows.
StageInvalidPrunePrefix ==
    /\ Stageable
    /\ poisoned' = TRUE
    /\ finishError' = LatchedError("Poisoned")
    /\ UNCHANGED <<staged, acked, pending, flight, token, cursor, finished,
                   sender, owner, boundary, call, chan>>
    /\ UNCHANGED workerVars

\* latch_poison: the session found its own state corrupt.  It asks only an
\* Active writer, so never one it has begun to finish.
LatchPoison ==
    /\ owner = "live" /\ Idle
    /\ ~finished /\ flight["write"].kind # "finish"
    /\ poisoned' = TRUE
    /\ finishError' = LatchedError("Poisoned")
    /\ UNCHANGED <<staged, acked, pending, flight, token, cursor, finished,
                   sender, owner, boundary, call, chan>>
    /\ UNCHANGED workerVars

-----------------------------------------------------------------------------
(* The owner's async methods *)

\* A read of the row whose read is already outstanding joins that read.
Rejoins(op, row) ==
    op = "read" /\ InFlight("read") /\ flight["read"].arg = row

\* The start of a method, up to its first await: the usability check and the
\* cancellation of whatever positional read is outstanding.
Begin(op, row) ==
    /\ owner = "live" /\ Idle
    /\ IF op = "finish" THEN ~finished ELSE Usable
    /\ op = "flush" => pending # NoBatch \/ InFlight("write")
    /\ op = "copy" => boundary # 0
    /\ call' = [op |-> op, row |-> row, sent |-> Rejoins(op, row)]
    /\ token' = [s \in ReadSlots |->
                   \/ token[s]
                   \/ InFlight(s) /\ op # "flush"
                        /\ ~(s = "read" /\ Rejoins(op, row))]
    /\ UNCHANGED <<staged, acked, pending, flight, cursor, poisoned, finished,
                   finishError, sender, owner, boundary, chan>>
    /\ UNCHANGED workerVars

Handles(s) == call.op # "none" /\ (call.op = "flush" => s = "write")
IsOwn(s)   == call.sent /\ s = SlotOf(call.op)

\* How a method goes on: it returns ("ok", "error") or stays in its loop.
Conclude(outcome) ==
    /\ call' = IF outcome = "continue" THEN call ELSE NoCall
    /\ acked' = IF outcome = "ok" /\ call.op \in {"barrier", "finish"}
                THEN staged ELSE acked

TakeAck(s) ==
    /\ Handles(s) /\ InFlight(s) /\ flight[s].ack.tag # "waiting"
    /\ flight' = [flight EXCEPT ![s] = NoFlight]

\* Mutant: barrier takes the answer of an earlier append for its own.
AfterAnyWrite(kind) ==
    CASE call.op # "finish" /\ pending = NoBatch -> "ok"
      [] call.op = "finish" /\ kind = "finish" ->
           IF finishError = "none" THEN "ok" ELSE "error"
      [] OTHER -> "continue"

AfterWrite(kind) ==
    CASE call.op \in {"flush", "settle_before_stage"} /\ kind = "append" -> "ok"
      [] call.op = "settle_before_stage" /\ pending = NoBatch -> "ok"
      [] call.op = "flush" /\ pending = NoBatch -> "error"
      [] call.op = "barrier" /\ pending = NoBatch /\ kind = "barrier" -> "ok"
      [] call.op = "barrier" /\ pending = NoBatch /\ kind = "finish" -> "error"
      [] call.op = "finish" /\ kind = "finish" ->
           IF finishError = "none" THEN "ok" ELSE "error"
      [] OTHER -> "continue"

SettleCursor ==
    /\ TakeAck("write")
    /\ LET settled == flight["write"] IN
         /\ settled.ack.tag = "cursor"
         /\ cursor' = settled.ack.cursor
         /\ finished' = (finished \/ settled.kind = "finish")
         /\ sender' = (sender /\ settled.kind # "finish")
         /\ Conclude(AfterWrite(settled.kind))
    /\ UNCHANGED <<staged, pending, token, poisoned, finishError, owner,
                   boundary, chan>>
    /\ UNCHANGED workerVars

\* The worker reported a failure, or died without an answer.
SettleFailure(s) ==
    /\ TakeAck(s)
    /\ LET settled == flight[s]
           lost    == settled.ack.tag = "lost"
           last    == settled.kind = "finish"
       IN  /\ settled.ack.tag \in {"poisoned", "lost"}
           /\ poisoned' = TRUE
           /\ sender' = (sender /\ ~lost /\ ~last)
           /\ finished' = (finished \/ last)
           /\ finishError' = IF last \/ call.op = "finish"
                             THEN LatchedError(IF lost THEN "WriterStopped"
                                                       ELSE "Poisoned")
                             ELSE finishError
           /\ pending' = IF call.op = "finish" THEN NoBatch ELSE pending
           /\ Conclude(IF call.op = "finish" /\ ~last THEN "continue"
                                                      ELSE "error")
    /\ UNCHANGED <<staged, token, cursor, owner, boundary, chan>>
    /\ UNCHANGED workerVars

\* A positional read ended without touching the journal's health.
SettleRead(s) ==
    /\ s \in ReadSlots
    /\ TakeAck(s)
    /\ LET ack == flight[s].ack IN
         /\ ack.tag \in {"data"} \cup Refusals
         /\ boundary' = IF IsOwn(s) /\ call.op = "inspect" /\ ack.tag = "data"
                        THEN ack.data ELSE boundary
         /\ Conclude(IF ~IsOwn(s) THEN "continue"
                     ELSE IF ack.tag = "data" THEN "ok" ELSE "error")
    /\ UNCHANGED <<staged, pending, token, cursor, poisoned, finished,
                   finishError, sender, owner, chan>>
    /\ UNCHANGED workerVars

\* Nothing this method must settle first is left.
ReadyToSend == /\ call.op # "none" /\ ~call.sent
               /\ \A s \in Slots : Handles(s) => ~InFlight(s)
NeedsSync   == call.op \in ReadOps /\ cursor.physical # cursor.durable
CanSend     == sender /\ ~WorkerGone /\ Len(chan) < COMMAND_CAPACITY

Send(slot, kind, arg) ==
    /\ CanSend
    /\ chan' = Append(chan, [kind |-> kind, arg |-> arg])
    /\ flight' = [flight EXCEPT ![slot] =
                    [kind |-> kind, arg |-> arg, ack |-> Waiting]]

\* Mutant: the staged batch is copied into the command, not taken.
FlushPendingCopied ==
    /\ ReadyToSend /\ pending # NoBatch /\ ~poisoned
    /\ Send("write", "append", pending)
    /\ UNCHANGED <<staged, acked, pending, token, cursor, poisoned, finished,
                   finishError, sender, owner, boundary, call>>
    /\ UNCHANGED workerVars

\* flush_staged: the staged batch leaves `pending` only with a channel permit.
FlushPending ==
    /\ ReadyToSend /\ pending # NoBatch /\ ~poisoned
    /\ Send("write", "append", pending)
    /\ pending' = NoBatch
    /\ UNCHANGED <<staged, acked, token, cursor, poisoned, finished,
                   finishError, sender, owner, boundary, call>>
    /\ UNCHANGED workerVars

\* A read, an export or a fork works on the durable prefix only.
Synchronise ==
    /\ ReadyToSend /\ pending = NoBatch /\ NeedsSync
    /\ Send("write", "barrier", 0)
    /\ UNCHANGED <<staged, acked, pending, token, cursor, poisoned, finished,
                   finishError, sender, owner, boundary, call>>
    /\ UNCHANGED workerVars

SendOwn ==
    /\ ReadyToSend /\ pending = NoBatch /\ ~NeedsSync
    /\ call.op \in {"barrier", "finish"} \cup ReadOps
    /\ call.op = "read" => call.row <= cursor.durable
    /\ call.op = "copy" => cursor.durable = boundary
    /\ Send(SlotOf(call.op), call.op,
            CASE call.op = "read" -> call.row
              [] call.op = "copy" -> boundary
              [] OTHER -> 0)
    /\ token' = [s \in ReadSlots |-> token[s] /\ s # SlotOf(call.op)]
    /\ call' = [call EXCEPT !.sent = TRUE]
    /\ UNCHANGED <<staged, acked, pending, cursor, poisoned, finished,
                   finishError, sender, owner, boundary>>
    /\ UNCHANGED workerVars

\* Cancelled before its command was sent, NotDurable, or Changed.
Decline ==
    /\ ReadyToSend /\ pending = NoBatch /\ call.op \in ReadOps
    /\ Conclude("error")
    /\ UNCHANGED <<staged, pending, flight, token, cursor, poisoned, finished,
                   finishError, sender, owner, boundary, chan>>
    /\ UNCHANGED workerVars

\* settle_before_stage found nothing to do.
NothingToSettle ==
    /\ ReadyToSend /\ pending = NoBatch /\ call.op = "settle_before_stage"
    /\ Conclude("ok")
    /\ UNCHANGED <<staged, pending, flight, token, cursor, poisoned, finished,
                   finishError, sender, owner, boundary, chan>>
    /\ UNCHANGED workerVars

\* finish on a poisoned journal gives up the staged batch.
FinishDropsPending ==
    /\ ReadyToSend /\ pending # NoBatch /\ poisoned /\ call.op = "finish"
    /\ pending' = NoBatch
    /\ finishError' = LatchedError("Poisoned")
    /\ UNCHANGED <<staged, acked, flight, token, cursor, poisoned, finished,
                   sender, owner, boundary, call, chan>>
    /\ UNCHANGED workerVars

\* The channel is closed: no sender left, or the worker is gone.
SendRefused ==
    /\ ReadyToSend
    /\ call.op = "settle_before_stage" => pending # NoBatch
    /\ ~sender \/ WorkerGone
    /\ IF call.op = "finish"
       THEN /\ pending' = NoBatch
            /\ finishError' = LatchedError("WriterStopped")
            /\ finished' = TRUE
            /\ sender' = FALSE
            /\ poisoned' = (poisoned \/ worker = "died")
       ELSE UNCHANGED <<pending, finishError, finished, sender, poisoned>>
    /\ Conclude("error")
    /\ UNCHANGED <<staged, flight, token, cursor, owner, boundary, chan>>
    /\ UNCHANGED workerVars

\* The caller drops the future at an await; nothing it sent is forgotten.
CancelCall ==
    /\ ~Idle
    /\ call' = NoCall
    /\ UNCHANGED <<staged, acked, pending, flight, token, cursor, poisoned,
                   finished, finishError, sender, owner, boundary, chan>>
    /\ UNCHANGED workerVars

\* The caller cancels the token it passed to a read, an export or a fork.
CancelToken(s) ==
    /\ InFlight(s) /\ ~token[s]
    /\ token' = [token EXCEPT ![s] = TRUE]
    /\ UNCHANGED <<staged, acked, pending, flight, cursor, poisoned, finished,
                   finishError, sender, owner, boundary, call, chan>>
    /\ UNCHANGED workerVars

Drop ==
    /\ owner = "live" /\ Idle
    /\ owner' = "dropping"
    /\ sender' = FALSE
    /\ token' = [s \in ReadSlots |-> token[s] \/ InFlight(s)]
    /\ UNCHANGED <<staged, acked, pending, flight, cursor, poisoned, finished,
                   finishError, boundary, call, chan>>
    /\ UNCHANGED workerVars

Join ==
    /\ owner = "dropping" /\ WorkerGone
    /\ owner' = "dropped"
    /\ UNCHANGED <<staged, acked, pending, flight, token, cursor, poisoned,
                   finished, finishError, sender, boundary, call, chan>>
    /\ UNCHANGED workerVars

-----------------------------------------------------------------------------
(* The worker thread *)

Receive ==
    /\ worker = "running" /\ job = NoCommand /\ chan # <<>>
    /\ job' = Head(chan)
    /\ chan' = Tail(chan)
    /\ UNCHANGED <<worker, wcursor, wpoisoned, file, torn, synced>>
    /\ UNCHANGED ownerVars /\ UNCHANGED history

\* The sole sender is gone and the queue is drained.
Disconnected ==
    /\ worker = "running" /\ job = NoCommand /\ chan = <<>> /\ ~sender
    /\ worker' = "exited"
    /\ UNCHANGED <<job, wcursor, wpoisoned, file, torn, synced, chan>>
    /\ UNCHANGED ownerVars /\ UNCHANGED history

\* The worker ends its job with an answer to whoever still holds the receiver.
Reply(s, ack) ==
    /\ job' = NoCommand
    /\ flight' = IF flight[s].kind = job.kind
                 THEN [flight EXCEPT ![s].ack = ack] ELSE flight
    /\ UNCHANGED <<pending, token, cursor, poisoned, finished, finishError,
                   sender, owner, boundary, call, chan>>
    /\ UNCHANGED history

Poisoned == Ack("poisoned", Zero, 0)

\* poison_and_rollback: cut the file back to the durable offset; the outcome
\* of the cut is ignored, so the batches and the torn bytes may stay.
Rollback(mayTear) ==
    /\ wpoisoned' = TRUE
    /\ wcursor' = [wcursor EXCEPT !.physical = wcursor.durable]
    /\ \/ /\ file' = SubSeq(file, 1, wcursor.durable)
          /\ torn' = FALSE
       \/ /\ file' = file
          /\ torn' \in {torn, mayTear}
    /\ UNCHANGED synced

WorkerAppend ==
    /\ job.kind = "append"
    /\ \/ /\ wpoisoned
          /\ Reply("write", Poisoned)
          /\ UNCHANGED <<wcursor, wpoisoned, file, torn, synced>>
       \/ /\ ~wpoisoned
          /\ file' = Append(file, job.arg)
          /\ wcursor' = [wcursor EXCEPT !.physical = @ + 1]
          /\ Reply("write", Ack("cursor", wcursor', 0))
          /\ UNCHANGED <<wpoisoned, torn, synced>>
       \/ /\ ~wpoisoned
          /\ Rollback(TRUE)
          /\ Reply("write", Poisoned)
    /\ UNCHANGED worker

\* Mutant: the worker synchronises although it failed before.
WorkerSyncAlways ==
    /\ job.kind \in {"barrier", "finish"}
    /\ synced' = Len(file)
    /\ wcursor' = [wcursor EXCEPT !.durable = wcursor.physical]
    /\ Reply("write", Ack("cursor", wcursor', 0))
    /\ UNCHANGED <<wpoisoned, file, torn>>
    /\ worker' = IF job.kind = "finish" THEN "exited" ELSE worker

\* Mutant: the worker answers a barrier before the bytes are synchronised.
WorkerSyncLater ==
    /\ job.kind \in {"barrier", "finish"} /\ ~wpoisoned
    /\ wcursor' = [wcursor EXCEPT !.durable = wcursor.physical]
    /\ Reply("write", Ack("cursor", wcursor', 0))
    /\ UNCHANGED <<wpoisoned, file, torn, synced>>
    /\ worker' = IF job.kind = "finish" THEN "exited" ELSE worker

\* Barrier and Finish synchronise alike; Finish also closes the file and ends
\* the thread.
WorkerSync ==
    /\ job.kind \in {"barrier", "finish"}
    /\ \/ /\ wpoisoned
          /\ Reply("write", Poisoned)
          /\ UNCHANGED <<wcursor, wpoisoned, file, torn, synced>>
       \/ /\ ~wpoisoned
          /\ synced' = Len(file)
          /\ wcursor' = [wcursor EXCEPT !.durable = wcursor.physical]
          /\ Reply("write", Ack("cursor", wcursor', 0))
          /\ UNCHANGED <<wpoisoned, file, torn>>
       \/ /\ ~wpoisoned
          /\ Rollback(FALSE)
          /\ Reply("write", Poisoned)
    /\ worker' = IF job.kind = "finish" THEN "exited" ELSE worker

\* What the worker checks before it reads: a violated check poisons the
\* journal, except that a fork whose source moved is refused.
InBounds(command) ==
    CASE command.kind = "read" -> command.arg <= wcursor.durable
      [] command.kind \in {"export", "inspect"} ->
           wcursor.physical = wcursor.durable
      [] OTHER -> TRUE

SameSource(command) ==
    command.kind = "copy" => /\ wcursor.physical = wcursor.durable
                             /\ wcursor.durable = command.arg

ReadRefusals(kind) ==
    CASE kind \in {"export", "copy"} -> {"destination"}
      [] kind = "inspect" -> {"unavailable"}
      [] OTHER -> {}

\* Mutant: a cancelled read ends without an answer.
WorkerReadUnanswered ==
    /\ job.kind \in ReadOps
    /\ job' = NoCommand
    /\ LET s == SlotOf(job.kind) IN
         IF token[s] THEN flight' = flight
         ELSE flight' = [flight EXCEPT ![s].ack = Ack("data", Zero, job.arg)]
    /\ UNCHANGED <<pending, token, cursor, poisoned, finished, finishError,
                   sender, owner, boundary, call, chan>>
    /\ UNCHANGED history
    /\ UNCHANGED <<worker, wcursor, wpoisoned, file, torn, synced>>

\* ReadRow, ExportRaw, InspectFork and CopyFork share their shape.
WorkerRead ==
    /\ job.kind \in ReadOps
    /\ LET s == SlotOf(job.kind) IN
       \/ /\ wpoisoned
          /\ Reply(s, Poisoned)
          /\ UNCHANGED wpoisoned
       \/ /\ ~wpoisoned /\ token[s]
          /\ Reply(s, Ack("cancelled", Zero, 0))
          /\ UNCHANGED wpoisoned
       \/ /\ ~wpoisoned /\ InBounds(job)
          /\ IF SameSource(job)
             THEN \/ Reply(s, Ack("data", Zero, IF job.kind = "read"
                                                THEN job.arg
                                                ELSE wcursor.durable))
                  \/ \E tag \in ReadRefusals(job.kind) :
                       Reply(s, Ack(tag, Zero, 0))
             ELSE Reply(s, Ack("changed", Zero, 0))
          /\ UNCHANGED wpoisoned
       \/ /\ ~wpoisoned    \* an I/O error, a hash mismatch, a bad offset
          /\ Reply(s, Poisoned)
          /\ wpoisoned' = TRUE
    /\ UNCHANGED <<worker, wcursor, file, torn, synced>>

\* The thread unwinds: every answer it owed is lost, the write or the sync it
\* was executing may have had its effect.
WorkerDies ==
    /\ worker = "running"
    /\ worker' = "died"
    /\ job' = NoCommand /\ chan' = <<>>
    /\ IF job.kind = "append" /\ ~wpoisoned
       THEN \/ file' = file /\ torn' \in BOOLEAN
            \/ file' = Append(file, job.arg) /\ torn' = torn
       ELSE UNCHANGED <<file, torn>>
    /\ synced' \in IF job.kind \in {"barrier", "finish"} /\ ~wpoisoned
                   THEN {synced, Len(file)} ELSE {synced}
    /\ flight' = [s \in Slots |->
                    IF InFlight(s) /\ flight[s].ack.tag = "waiting"
                    THEN [flight[s] EXCEPT !.ack = Lost] ELSE flight[s]]
    /\ UNCHANGED <<wcursor, wpoisoned, pending, token, cursor, poisoned,
                   finished, finishError, sender, owner, boundary, call>>
    /\ UNCHANGED history

-----------------------------------------------------------------------------
Terminated == owner = "dropped" /\ UNCHANGED vars

BeginCall == \E op \in Ops :
                \E row \in IF op = "read" THEN 1..staged ELSE {0} :
                   Begin(op, row)

\* What polling the current method does.
Poll ==
    \/ SettleCursor
    \/ \E s \in Slots : SettleFailure(s) \/ SettleRead(s)
    \/ FlushPending \/ Synchronise \/ SendOwn
    \/ Decline \/ NothingToSettle \/ FinishDropsPending \/ SendRefused

Work == Receive \/ Disconnected \/ WorkerAppend \/ WorkerSync \/ WorkerRead

Next ==
    \/ Stage \/ StageInvalidPrunePrefix \/ LatchPoison
    \/ BeginCall \/ Poll \/ CancelCall
    \/ \E s \in ReadSlots : CancelToken(s)
    \/ Drop \/ Join
    \/ Work \/ WorkerDies
    \/ Terminated

Spec == Init /\ [][Next]_vars

\* The worker thread is scheduled, a future that is not dropped is polled.
FairSpec == Spec /\ WF_vars(Poll) /\ WF_vars(Work) /\ WF_vars(Join)

-----------------------------------------------------------------------------
(* Safety *)

\* The owner never has two things under way: one staged batch or one command,
\* and so a channel permit is always free when it asks for one.  finish relies
\* on it when it settles a read and then does not look at the staged batch.
OneOutstanding ==
    /\ \A s \in Slots : InFlight(s) => /\ pending = NoBatch
                                      /\ \A t \in Slots \ {s} : ~InFlight(t)
    /\ \A s \in Slots : InFlight(s) /\ flight[s].ack.tag = "waiting" =>
         (job = NoCommand) # (chan = <<>>)
    /\ chan # <<>> => Len(chan) = 1 /\ job = NoCommand

\* The file holds the staged batches in staging order: no cancelled wait, retry
\* or rollback repeats one, skips one or swaps two.
FileInOrder == \A i \in 1..Len(file) : file[i] = i

\* Offsets the owner reports as durable survive a crash, and the worker never
\* believes more to be durable than what was synchronised.
DurableIsSynced ==
    /\ cursor.durable <= wcursor.durable
    /\ wcursor.durable <= synced
    /\ synced <= Len(file)

\* What a successful barrier or finish covered survives a crash, whatever
\* failures and rollbacks follow.
AckedSurvives == acked <= synced

\* The owner's checks before it sends a read, an export or a fork command
\* suffice: a healthy worker never gets one that would poison the journal.
ReadsAreInBounds ==
    job.kind \in ReadOps /\ ~wpoisoned => InBounds(job) /\ SameSource(job)

\* An export that succeeded holds every batch staged before it was asked for (and
\* every variable is of its type).
ExportIsWhole ==
    /\ TypeOK
    /\ InFlight("export") /\ flight["export"].ack.tag = "data" =>
         flight["export"].ack.data = staged

\* A finish that reported success left nothing behind, and no finish leaves
\* the thread, and with it the file lock, alive.
CleanFinish ==
    finished => /\ WorkerGone
                /\ finishError = "none" => synced = staged

-----------------------------------------------------------------------------
(* The inductive invariant behind the properties above *)

\* The command on its way to the worker or in its hands.
InTransit(command) == \/ job = command /\ chan = <<>>
                      \/ job = NoCommand /\ Len(chan) = 1 /\ chan[1] = command
Appending == InTransit([kind |-> "append", arg |-> staged])
Healthy   == worker = "running" /\ ~wpoisoned
SlotKinds(s) == CASE s = "write" -> {"append", "barrier", "finish"}
                  [] s = "read" -> {"read"}
                  [] s = "export" -> {"export"}
                  [] s = "fork" -> {"inspect", "copy"}

\* A flight waits exactly while its command is under way at a live worker.
FlightInv ==
    /\ \A s \in Slots : InFlight(s) =>
         /\ pending = NoBatch
         /\ flight[s].kind \in SlotKinds(s)
         /\ flight[s].ack.tag = "waiting" =>
              /\ worker = "running"
              /\ InTransit([kind |-> flight[s].kind, arg |-> flight[s].arg])
         /\ flight[s].ack.tag = "lost" => worker = "died"
         /\ flight[s].ack.tag \in {"cursor", "poisoned"} /\
            flight[s].kind = "finish" => worker = "exited"
         /\ flight[s].ack.tag = "poisoned" => wpoisoned
    /\ \A s, t \in Slots : InFlight(s) /\ InFlight(t) => s = t
    /\ job # NoCommand \/ chan # <<>> =>
         \E s \in Slots : InFlight(s) /\ flight[s].ack.tag = "waiting"
    /\ Len(chan) <= 1

\* The worker's offsets against the file and what was synchronised.
WorkerInv ==
    /\ wcursor.durable <= synced /\ synced <= Len(file)
    /\ wcursor.durable <= wcursor.physical /\ wcursor.physical <= Len(file)
    /\ worker = "running" => synced = wcursor.durable
    /\ Healthy => wcursor.physical = Len(file)

\* Where each staged batch is.
BatchInv ==
    /\ \A i \in 1..Len(file) : file[i] = i
    /\ Len(file) <= staged /\ staged <= MaxBatches
    /\ pending # NoBatch => pending = staged
    /\ InFlight("write") /\ flight["write"].kind = "append" =>
         flight["write"].arg = staged
    /\ Healthy /\ (pending # NoBatch \/ Appending) => Len(file) + 1 = staged
    /\ Healthy /\ finishError = "none" /\ pending = NoBatch /\ ~Appending =>
         Len(file) = staged

\* The owner's offsets against the worker's.
CursorInv ==
    /\ cursor.durable <= wcursor.durable
    /\ Healthy /\ ~InFlight("write") => cursor = wcursor
    /\ InFlight("write") /\ flight["write"].ack.tag = "cursor" =>
         ~wpoisoned /\ flight["write"].ack.cursor = wcursor
    /\ \A s \in {"export", "fork"} :
         InFlight(s) => cursor.physical = cursor.durable
    /\ InFlight("read") => flight["read"].arg <= cursor.durable
    /\ InFlight("fork") /\ flight["fork"].kind = "copy" =>
         flight["fork"].arg = cursor.durable

\* The owner's latches, and what its verdicts and promises rest on.
OwnerInv ==
    /\ finishError # "none" => poisoned \/ finished
    /\ call.op \notin {"none", "finish"} => ~poisoned /\ finishError = "none"
    /\ wpoisoned /\ ~poisoned =>
         \E s \in Slots : InFlight(s) /\ flight[s].ack.tag = "poisoned"
    /\ ~sender /\ owner = "live" => WorkerGone
    /\ owner # "live" => Idle
    /\ finished => WorkerGone /\ ~sender /\ ~InFlight("write")
    /\ finished /\ finishError = "none" => synced = staged
    /\ InFlight("write") /\ flight["write"].kind \in {"barrier", "finish"} /\
       flight["write"].ack.tag = "cursor" /\ finishError = "none" =>
         synced = staged
    /\ acked <= synced

Inv == TypeOK /\ FlightInv /\ WorkerInv /\ BatchInv /\ CursorInv /\ OwnerInv

\* An export waits on a file that holds everything staged, as long as the worker
\* is healthy, and its answer was taken from that file.
ExportInv ==
    InFlight("export") =>
      /\ flight["export"].ack.tag = "waiting" /\ Healthy => Len(file) = staged
      /\ flight["export"].ack.tag = "data" => flight["export"].ack.data = staged

\* finish is never polled again once it has given its verdict.
FinishCallInv == call.op = "finish" => ~finished

-----------------------------------------------------------------------------
(* Action properties *)

\* After the first failure the worker never touches the file again.
NoWriteAfterFailure == [][wpoisoned => UNCHANGED <<file, torn, synced>>]_vars

(* Refinement: seen from the session, the journal is a durable log. *)
Log == INSTANCE DurableLog WITH
         Entry    <- Batches,
         Batches  <- {<<b>> : b \in Batches},
         log      <- [i \in 1..staged |-> i],
         stable   <- SubSeq(file, 1, synced),
         promised <- acked,
         verdict  <- IF ~finished THEN "open"
                     ELSE IF finishError = "none" THEN "clean" ELSE "failed"

\* Every step of the owner and the worker is a step of the durable log: no
\* cancellation, failure or death of the thread breaks a promise it made.
ImplementsDurableLog == Log!Spec

(* Liveness *)

\* A method that keeps being polled returns, even if the worker dies.
CallsReturn == ~Idle ~> Idle

=============================================================================
