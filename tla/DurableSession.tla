--------------------------- MODULE DurableSession ---------------------------
(***************************************************************************)
(* The durable owner of a session: the one prepared operation that may be  *)
(* pending, the committed batch that waits for the journal, claims that    *)
(* protect capacity for fallback events, the provider attempt and its      *)
(* retirement behind a barrier, barriers, reads and shutdown.  Every await *)
(* may be dropped by the caller.                                           *)
(*                                                                         *)
(* Events are numbered in commit order.  The journal below is the one of   *)
(* JournalWriter, reduced to what it promises: what was staged, what       *)
(* survives a crash, the command it still owes an answer for.  Byte limits *)
(* follow the event limit and are left out, as is the resident memory.     *)
(***************************************************************************)
EXTENDS Naturals, Sequences, FiniteSets

CONSTANTS
    Claims,     \* claims of the current reservation
    MaxEvents,  \* ordinary_event_max
    MaxEpoch    \* bound: successful barriers

ASSUME ClaimsAssumption == IsFiniteSet(Claims)
ASSUME BoundsAssumption == MaxEvents \in Nat /\ MaxEpoch \in Nat

VARIABLES
    storage,       \* "starting" is Deferred with a started worker
    lifecycle, firstError, barrierError,
    operation,     \* pending_operation
    batch,         \* pending_batch: its events
    committed,     \* events in the projection
    claims,        \* the state of each EventClaim
    attempt,       \* active_attempt
    epoch,         \* barrier_epoch
    journal,       \* events staged in the writer, in order
    synced,        \* events that survive a crash
    busy,          \* command the writer has not answered
    poisoned,      \* the writer's latch
    call,          \* the async method being polled
    covered,       \* history: events a successful barrier or shutdown covered
    owed,          \* history: an operation was dropped, nobody was told yet
    paid           \* history: events committed for each claim

session == <<storage, lifecycle, firstError, barrierError>>
writer  == <<journal, synced, busy, poisoned>>
ghosts  == <<covered, owed, paid>>
vars    == <<storage, lifecycle, firstError, barrierError, operation, batch,
             committed, claims, attempt, epoch, journal, synced, busy,
             poisoned, call, covered, owed, paid>>

-----------------------------------------------------------------------------
NoClaim     == "no claim"
ASSUME NoClaimAssumption == NoClaim \notin Claims
Owners      == {"ordinary", "claim", "chunk", "closure", "claimedClosure"}
FallbackKinds == {"fallback", "exact"}
ClaimKinds  == FallbackKinds \cup {"preferred", "preferredOnly"}
NoOperation == [owner |-> "none", kind |-> "none", claim |-> NoClaim,
                protected |-> 0]
Operations  == [owner : Owners \cup {"none"}, kind : ClaimKinds \cup {"none"},
                claim : Claims \cup {NoClaim}, protected : Nat]

ClaimStates == {"none", "ready", "pendingFallback", "pendingPreferred",
                "settled"}
Unsettled   == {c \in Claims : claims[c] \notin {"none", "settled"}}
Reserved    == Cardinality(Unsettled)

NoAttempt   == [phase |-> "none", closure |-> 0, at |-> 0, held |-> FALSE]
Attempts    == [phase : {"none", "open", "closed"}, closure : 0..MaxEvents,
                at : 0..MaxEpoch, held : BOOLEAN]

\* The heads "operation" and "batch" are between awaits, the others are awaits.
Heads   == {"operation", "batch"}
Awaits  == {"ready", "drain", "drained", "flush", "flushed", "barrier",
            "finish", "read"}
NoCall  == [method |-> "none", at |-> "batch", error |-> FALSE]
Calls   == [method : {"none", "append", "barrier", "inspect", "row",
                      "materialize", "shutdown"},
            at : Heads \cup Awaits, error : BOOLEAN]

TypeOK ==
    /\ storage \in {"deferred", "starting", "active", "finishing", "failed",
                    "closed"}
    /\ lifecycle \in {"running", "shutting"}
    /\ firstError \in BOOLEAN /\ barrierError \in BOOLEAN
    /\ operation \in Operations
    /\ batch \in Seq(1..MaxEvents) /\ Len(batch) <= 2
    /\ committed \in 0..MaxEvents
    /\ claims \in [Claims -> ClaimStates]
    /\ attempt \in Attempts
    /\ epoch \in 0..MaxEpoch
    /\ journal \in Seq(1..MaxEvents) /\ synced \in 0..Len(journal)
    /\ busy \in {"none", "write", "barrier", "finish", "read"}
    /\ poisoned \in BOOLEAN
    /\ call \in Calls
    /\ covered \in 0..MaxEvents /\ owed \in BOOLEAN
    /\ paid \in [Claims -> Nat]

Init ==
    /\ storage = "deferred" /\ lifecycle = "running"
    /\ firstError = FALSE /\ barrierError = FALSE
    /\ operation = NoOperation /\ batch = <<>> /\ committed = 0
    /\ claims = [c \in Claims |-> "none"]
    /\ attempt = NoAttempt /\ epoch = 0
    /\ journal = <<>> /\ synced = 0 /\ busy = "none" /\ poisoned = FALSE
    /\ call = NoCall
    /\ covered = 0 /\ owed = FALSE /\ paid = [c \in Claims |-> 0]

Idle         == call = NoCall
HasOperation == operation # NoOperation
Active       == storage = "active" /\ lifecycle = "running" /\ ~barrierError
Stageable    == busy = "none" /\ ~poisoned

\* pending_durable_operation_is_claim
OperationIsClaim == operation.owner \in {"claim", "claimedClosure"}

-----------------------------------------------------------------------------
(* Claims and the attempt: synchronous methods of the reservation *)

\* claim_batch, one claim at a time.
MakeClaim(c) ==
    /\ Idle /\ Active /\ ~HasOperation
    /\ claims[c] = "none"
    /\ committed + Reserved + 1 <= MaxEvents
    /\ claims' = [claims EXCEPT ![c] = "ready"]
    /\ UNCHANGED <<session, operation, batch, committed, attempt, epoch,
                   writer, call, ghosts>>

Release(c) ==
    /\ Idle /\ Active /\ ~HasOperation
    /\ claims[c] = "ready"
    /\ claims' = [claims EXCEPT ![c] = "settled"]
    /\ UNCHANGED <<session, operation, batch, committed, attempt, epoch,
                   writer, call, ghosts>>

\* The caller drops the reservation with its claims and attempt token; a
\* pending operation stays with the session, and nobody can resume a claim's.
DropReservation ==
    /\ Idle
    /\ claims' = [c \in Claims |-> "none"]
    /\ paid' = [c \in Claims |-> 0]
    /\ operation' = [operation EXCEPT !.claim = NoClaim]
    /\ attempt' = [attempt EXCEPT !.held = FALSE]
    /\ UNCHANGED <<session, batch, committed, epoch, writer, call, covered,
                   owed>>

BeginAttempt ==
    /\ Idle /\ Active /\ ~HasOperation /\ batch = <<>>
    /\ attempt = NoAttempt
    /\ attempt' = [phase |-> "open", closure |-> 0, at |-> 0, held |-> TRUE]
    /\ UNCHANGED <<session, operation, batch, committed, claims, epoch, writer,
                   call, ghosts>>

RetireAttempt ==
    /\ Idle
    /\ attempt.held /\ attempt.phase = "closed"
    /\ epoch > attempt.at
    /\ attempt' = NoAttempt
    /\ UNCHANGED <<session, operation, batch, committed, claims, epoch, writer,
                   call, ghosts>>

Close(event) == [phase |-> "closed", closure |-> event, at |-> epoch, held |-> attempt.held]

\* A marker and its replacement in one batch; the clock or a limit may reject
\* the replacement after the marker was committed.
PrunePair(overflow, room) ==
    /\ Idle /\ Active
    /\ IF overflow THEN attempt.held /\ attempt.phase = "open"
                   ELSE attempt = NoAttempt
    /\ Stageable /\ batch = <<>>
    /\ committed + room + Reserved <= MaxEvents
    /\ \E pair \in BOOLEAN :
         batch' = IF pair THEN <<committed + 1, committed + 2>>
                          ELSE <<committed + 1>>
    /\ committed' = committed + Len(batch')
    /\ attempt' = IF overflow THEN Close(committed + 1) ELSE attempt
    /\ UNCHANGED <<session, operation, claims, epoch, writer, call, ghosts>>

\* append_prune_pair
AppendPrunePair(overflow) == ~HasOperation /\ PrunePair(overflow, 2)

-----------------------------------------------------------------------------
(* Beginning an async method *)

Calling(method, at, error) ==
    call' = [method |-> method, at |-> at, error |-> error]

Install(owner, kind, c, protected) ==
    /\ Idle /\ Active /\ ~HasOperation
    /\ operation' = [owner |-> owner, kind |-> kind, claim |-> c,
                     protected |-> protected]
    /\ Calling("append", "operation", FALSE)
    /\ UNCHANGED <<session, batch, committed, attempt, epoch, writer, ghosts>>

\* append_settled, of the session or of its reservation.
AppendOrdinary ==
    Install("ordinary", "none", NoClaim, Reserved) /\ UNCHANGED claims

\* append_attempt_chunk_settled, append_attempt_closure_settled
AppendOfAttempt(owner) ==
    /\ attempt.held /\ attempt.phase = "open"
    /\ Install(owner, "none", NoClaim, Reserved)
    /\ UNCHANGED claims

\* settle_settled, settle_exact_settled, settle_preferred_only_settled and
\* settle_attempt_closure_exact_settled
SettleClaim(c, owner, kind) ==
    /\ claims[c] = "ready"
    /\ owner = "claimedClosure" =>
         kind = "exact" /\ attempt.held /\ attempt.phase = "open"
    /\ Install(owner, kind, c, Reserved - 1)
    /\ claims' = [claims EXCEPT ![c] = IF kind \in FallbackKinds
                                       THEN "pendingFallback"
                                       ELSE "pendingPreferred"]

\* The same method called again after its wait was cancelled.
Resume ==
    /\ Idle
    /\ \/ operation.owner \in {"chunk", "closure"} /\ attempt.held
       \/ operation.claim # NoClaim
    /\ Calling("append", "operation", FALSE)
    /\ UNCHANGED <<session, operation, batch, committed, claims, attempt, epoch,
                   writer, ghosts>>

\* Mutant: the barrier settles a claim's operation as well.
BarrierSettlesClaims(method) ==
    /\ Idle /\ lifecycle = "running"
    /\ epoch < MaxEpoch
    /\ Calling(method, IF HasOperation THEN "operation" ELSE "batch",
               barrierError)
    /\ UNCHANGED <<session, operation, batch, committed, claims, attempt, epoch,
                   writer, ghosts>>

\* flush_barrier, by itself or at the start of an export or a fork
\* inspection.  While shutting down it is a shutdown.
BeginBarrier(method) ==
    /\ Idle /\ lifecycle = "running"
    /\ epoch < MaxEpoch
    /\ Calling(method,
               IF HasOperation /\ ~OperationIsClaim THEN "operation"
                                                    ELSE "batch",
               barrierError \/ OperationIsClaim)
    /\ UNCHANGED <<session, operation, batch, committed, claims, attempt, epoch,
                   writer, ghosts>>

\* read_validated_surface_row
BeginReadRow ==
    /\ Idle /\ Active /\ ~HasOperation /\ committed > 0
    /\ Calling("row", IF batch # <<>> THEN "flush" ELSE "read", FALSE)
    /\ UNCHANGED <<session, operation, batch, committed, claims, attempt, epoch,
                   writer, ghosts>>

BeginMaterialize ==
    /\ Idle /\ lifecycle = "running"
    /\ storage \in {"deferred", "starting"}
    /\ storage' = "starting"
    /\ Calling("materialize", "ready", FALSE)
    /\ UNCHANGED <<lifecycle, firstError, barrierError, operation, batch,
                   committed, claims, attempt, epoch, writer, ghosts>>

\* What the end of a shutdown tells its caller.
Verdict ==
    /\ call' = NoCall
    /\ covered' = IF firstError' THEN covered ELSE committed
    /\ owed' = (owed /\ ~firstError')
    /\ UNCHANGED paid

BeginShutdown ==
    /\ Idle
    /\ lifecycle' = "shutting"
    /\ barrierError' = FALSE
    /\ firstError' = (firstError \/ barrierError \/ storage = "failed")
    /\ storage' = IF storage = "deferred" THEN "closed" ELSE storage
    /\ IF storage' \in {"closed", "failed"} THEN Verdict
       ELSE /\ Calling("shutdown",
                       CASE storage = "starting" -> "ready"
                         [] storage # "starting" /\ HasOperation -> "operation"
                         [] OTHER -> "batch",
                       FALSE)
            /\ UNCHANGED ghosts
    /\ UNCHANGED <<operation, batch, committed, claims, attempt, epoch, writer>>

-----------------------------------------------------------------------------
(* Polling it *)

\* wait_ready of the deferred journal
Ready ==
    /\ call.at = "ready"
    /\ \E ok \in BOOLEAN :
         /\ storage' = IF ok THEN "active" ELSE "failed"
         /\ IF call.method = "materialize"
            THEN call' = NoCall /\ UNCHANGED <<firstError, ghosts>>
            ELSE IF ok
            THEN /\ Calling("shutdown", IF HasOperation THEN "operation"
                                                        ELSE "batch", FALSE)
                 /\ UNCHANGED <<firstError, ghosts>>
            ELSE firstError' = TRUE /\ Verdict
    /\ UNCHANGED <<lifecycle, barrierError, operation, batch, committed, claims,
                   attempt, epoch, writer>>

MayCommit == IF call.method = "shutdown" THEN storage = "active" ELSE Active

\* try_commit_durable
Commit ==
    /\ call.at = "operation" /\ MayCommit
    /\ Stageable /\ batch = <<>>
    /\ committed + 1 + operation.protected <= MaxEvents
    /\ committed' = committed + 1
    /\ batch' = <<committed + 1>>
    /\ operation' = NoOperation
    /\ attempt' = IF operation.owner \in {"closure", "claimedClosure"}
                  THEN Close(committed + 1) ELSE attempt
    /\ IF operation.claim # NoClaim
       THEN /\ paid' = [paid EXCEPT ![operation.claim] = @ + 1]
            /\ claims' = IF call.method = "append"
                         THEN [claims EXCEPT ![operation.claim] = "settled"]
                         ELSE claims
       ELSE UNCHANGED <<paid, claims>>
    /\ IF call.method = "append" THEN call' = NoCall
       ELSE Calling(call.method, "batch", call.error)
    /\ UNCHANGED <<session, epoch, writer, covered, owed>>

\* try_commit_durable answers NeedsStorageSettle.
NeedsStorageSettle ==
    /\ call.at = "operation" /\ MayCommit
    /\ ~(Stageable /\ batch = <<>>)
    /\ Calling(call.method, "drain", call.error)
    /\ UNCHANGED <<session, operation, batch, committed, claims, attempt, epoch,
                   writer, ghosts>>

\* Its own caller gets the error and, for a claim, the candidate back, unless
\* the operation is kept; a barrier or a shutdown drops it.
RejectedBy(nowFailed, kept, remembered) ==
    /\ storage' = IF nowFailed THEN "failed" ELSE storage
    /\ IF call.method = "append"
       THEN /\ operation' = IF kept THEN operation ELSE NoOperation
            /\ claims' = IF operation.claim = NoClaim \/ kept THEN claims
                         ELSE [claims EXCEPT ![operation.claim] = "ready"]
            /\ call' = NoCall
            /\ UNCHANGED <<barrierError, firstError, owed>>
       ELSE /\ operation' = NoOperation
            /\ owed' = TRUE
            /\ barrierError' = \/ barrierError
                               \/ remembered /\ call.method # "shutdown"
            /\ firstError' = (firstError \/ call.method = "shutdown")
            /\ Calling(call.method, "batch", TRUE)
            /\ UNCHANGED claims

\* Mutant: a rejected result of an irreversible tool is given up.
RejectAnything(nowFailed) == RejectedBy(nowFailed, FALSE, TRUE)

\* Mutant: the barrier does not remember the error of the operation it dropped.
RejectForgetful(nowFailed) ==
    RejectedBy(nowFailed, operation.kind = "preferredOnly", FALSE)

\* The operation is rejected; the result of an irreversible tool stays pending
\* for its caller.
Reject(nowFailed) == RejectedBy(nowFailed, operation.kind = "preferredOnly", TRUE)

\* A limit, the clock or the projection refuses the operation, or the session
\* no longer accepts any.
Refused ==
    /\ call.at = "operation"
    /\ Reject(FALSE)
    /\ UNCHANGED <<lifecycle, batch, committed, attempt, epoch, writer, covered,
                   paid>>

Flushing == call.at \in {"drain", "flush"}
Awaiting == call.at \in {"drained", "flushed"}

\* Where the method goes on once the batch is out.
AfterFlush ==
    CASE call.at \in {"drain", "drained"} -> "operation"
      [] call.method = "shutdown" -> "finish"
      [] call.method = "row" -> "read"
      [] OTHER -> "barrier"

\* flush_committed_batch: settle_before_stage succeeded, the batch is staged.
StageBatch ==
    /\ Flushing /\ storage = "active" /\ ~poisoned
    /\ IF batch # <<>>
       THEN /\ journal' = journal \o batch
            /\ batch' = <<>>
            /\ busy' = "write"
            /\ Calling(call.method,
                       IF call.at = "drain" THEN "drained" ELSE "flushed",
                       call.error)
       ELSE /\ busy' = "none"
            /\ Calling(call.method, AfterFlush, call.error)
            /\ UNCHANGED <<journal, batch>>
    /\ UNCHANGED <<session, operation, committed, claims, attempt, epoch, synced,
                   poisoned, ghosts>>

\* flush_staged succeeded.
Flushed ==
    /\ Awaiting /\ ~poisoned
    /\ busy' = "none"
    /\ Calling(call.method, AfterFlush, call.error)
    /\ UNCHANGED <<session, operation, batch, committed, claims, attempt, epoch,
                   journal, synced, poisoned, ghosts>>

\* The owner finds that the journal failed or has none any more: while settling
\* the operation that rejects it, else the method remembers the error and goes on.
FlushFailed ==
    /\ Flushing \/ Awaiting
    /\ poisoned \/ storage # "active"
    /\ IF call.at \in {"drain", "drained"} THEN Reject(TRUE) /\ UNCHANGED paid
       ELSE /\ storage' = "failed"
            /\ barrierError' = (barrierError \/ call.method
                                                \in {"barrier", "inspect"})
            /\ firstError' = (firstError \/ call.method = "shutdown")
            /\ IF call.method = "row" THEN call' = NoCall
               ELSE Calling(call.method, AfterFlush, TRUE)
            /\ UNCHANGED <<operation, claims, owed, paid>>
    /\ UNCHANGED <<lifecycle, batch, committed, attempt, epoch, writer, covered>>

EnterBatch ==
    /\ call.at = "batch" /\ ~Idle
    /\ Calling(call.method,
               CASE batch # <<>> -> "flush"
                 [] batch = <<>> /\ call.method = "shutdown" -> "finish"
                 [] OTHER -> "barrier",
               call.error)
    /\ UNCHANGED <<session, operation, batch, committed, claims, attempt, epoch,
                   writer, ghosts>>

\* The barrier or finish command goes to the writer, behind what it still owes.
\* begin_durable_finishing is part of the second.
SendCommand ==
    /\ call.at \in {"barrier", "finish"} /\ busy # call.at /\ ~poisoned
    /\ storage \in {"active", "finishing"}
    /\ busy' = call.at
    /\ storage' = IF call.at = "finish" THEN "finishing" ELSE storage
    /\ UNCHANGED <<lifecycle, firstError, barrierError, operation, batch,
                   committed, claims, attempt, epoch, journal, synced, poisoned,
                   call, ghosts>>

\* The worker thread synchronises, whether or not the caller still waits.
WriterSyncs ==
    /\ busy \in {"barrier", "finish"} /\ ~poisoned
    /\ synced # Len(journal)
    /\ synced' = Len(journal)
    /\ UNCHANGED <<session, operation, batch, committed, claims, attempt, epoch,
                   journal, busy, poisoned, call, ghosts>>

\* A write or a synchronisation fails or the thread dies.  From then on the
\* writer refuses every command; the owner learns of it when it asks.
WriterFails ==
    /\ busy # "none" /\ ~poisoned
    /\ poisoned' = TRUE
    /\ UNCHANGED <<session, operation, batch, committed, claims, attempt, epoch,
                   journal, synced, busy, call, ghosts>>

\* Mutant: the answer of the write before it passes for the barrier's.
BarrierDoneUnsynced ==
    /\ call.at = "barrier" /\ storage = "active" /\ ~poisoned
    /\ busy = "barrier"
    /\ busy' = "none"
    /\ epoch' = epoch + 1
    /\ barrierError' = FALSE
    /\ covered' = IF call.error THEN covered ELSE committed
    /\ owed' = (owed /\ ~call.error)
    /\ IF call.method = "inspect" /\ ~call.error
       THEN Calling("inspect", "read", FALSE) ELSE call' = NoCall
    /\ UNCHANGED <<storage, lifecycle, firstError, operation, batch, committed,
                   claims, attempt, journal, synced, poisoned, paid>>

\* The writer's barrier succeeded; a remembered append error still fails it.
BarrierDone ==
    /\ call.at = "barrier" /\ storage = "active" /\ ~poisoned
    /\ busy = "barrier" /\ synced = Len(journal)
    /\ busy' = "none"
    /\ epoch' = epoch + 1
    /\ barrierError' = FALSE
    /\ covered' = IF call.error THEN covered ELSE committed
    /\ owed' = (owed /\ ~call.error)
    /\ IF call.method = "inspect" /\ ~call.error
       THEN Calling("inspect", "read", FALSE) ELSE call' = NoCall
    /\ UNCHANGED <<storage, lifecycle, firstError, operation, batch, committed,
                   claims, attempt, journal, synced, poisoned, paid>>

\* The writer's barrier failed, or there is no active writer to ask.
BarrierFailed ==
    /\ call.at = "barrier"
    /\ poisoned \/ storage # "active"
    /\ storage' = IF storage = "active" THEN "failed" ELSE storage
    /\ barrierError' = FALSE
    /\ owed' = FALSE
    /\ call' = NoCall
    /\ UNCHANGED <<lifecycle, firstError, operation, batch, committed, claims,
                   attempt, epoch, writer, covered, paid>>

\* An export, a fork inspection or a row read is answered or refused.
ReadDone ==
    /\ call.at = "read" /\ storage = "active" /\ ~poisoned
    /\ busy' = "none"
    /\ call' = NoCall
    /\ UNCHANGED <<session, operation, batch, committed, claims, attempt, epoch,
                   journal, synced, poisoned, ghosts>>

\* A failed row read, or bytes that are not the expected row, latch the
\* corruption (latch_durable_corruption); any other reader drops the writer.
ReadFailed ==
    /\ call.at = "read"
    /\ IF call.method = "row"
       THEN poisoned' = TRUE /\ barrierError' = TRUE /\ UNCHANGED storage
       ELSE storage' = "failed" /\ UNCHANGED <<poisoned, barrierError>>
    /\ call' = NoCall
    /\ UNCHANGED <<lifecycle, firstError, operation, batch, committed, claims,
                   attempt, epoch, journal, synced, busy, ghosts>>

Finished ==
    /\ call.at = "finish"
    /\ \/ /\ storage = "finishing" /\ ~poisoned
          /\ busy = "finish" /\ synced = Len(journal)
          /\ storage' = "closed"
          /\ busy' = "none"
          /\ UNCHANGED firstError
       \/ /\ poisoned \/ storage \notin {"active", "finishing"}
          /\ storage' = "failed"
          /\ firstError' = TRUE
          /\ UNCHANGED busy
    /\ Verdict
    /\ UNCHANGED <<lifecycle, barrierError, operation, batch, committed, claims,
                   attempt, epoch, journal, synced, poisoned>>

\* The caller drops the future at an await; a read stays with the writer.
Cancel ==
    /\ call.at \in Awaits /\ ~(call.at = "finish" /\ storage = "active")
    /\ call' = NoCall
    /\ busy' = IF call.at = "read" /\ storage = "active" THEN "read" ELSE busy
    /\ UNCHANGED <<session, operation, batch, committed, claims, attempt, epoch,
                   journal, synced, poisoned, ghosts>>

-----------------------------------------------------------------------------
Begin ==
    \/ AppendOrdinary \/ Resume
    \/ \E owner \in {"chunk", "closure"} : AppendOfAttempt(owner)
    \/ \E c \in Claims, owner \in {"claim", "claimedClosure"},
          kind \in ClaimKinds : SettleClaim(c, owner, kind)
    \/ \E method \in {"barrier", "inspect"} : BeginBarrier(method)
    \/ BeginReadRow \/ BeginMaterialize \/ BeginShutdown

Poll ==
    \/ Ready \/ Commit \/ NeedsStorageSettle \/ Refused
    \/ StageBatch \/ Flushed \/ FlushFailed \/ EnterBatch
    \/ SendCommand \/ BarrierDone \/ BarrierFailed
    \/ ReadDone \/ ReadFailed \/ Finished

Next ==
    \/ \E c \in Claims : MakeClaim(c) \/ Release(c)
    \/ DropReservation \/ BeginAttempt \/ RetireAttempt
    \/ \E overflow \in BOOLEAN : AppendPrunePair(overflow)
    \/ Begin \/ Poll \/ WriterSyncs \/ WriterFails \/ Cancel

Spec == Init /\ [][Next]_vars

-----------------------------------------------------------------------------
(* Safety *)

FirstEvents(n) == [i \in 1..n |-> i]

\* An operation dropped on behalf of a caller who stopped waiting is answered
\* by an error of a later barrier or shutdown.
NoSilentLoss == TypeOK /\ (owed => barrierError \/ firstError \/ call.error)

\* A claim pays for one event: one that was committed is settled, unless the
\* session was shut down under its owner.
ClaimPaysOnce ==
    \A c \in Claims :
       /\ paid[c] <= 1
       /\ paid[c] = 1 /\ lifecycle = "running" => claims[c] = "settled"

\* A claim is pending exactly while its operation is, so none is ever stuck.
ClaimOwnsOperation ==
    lifecycle = "running" =>
      \A c \in Claims :
         operation.claim = c <=>
           claims[c] = IF operation.kind \in FallbackKinds
                       THEN "pendingFallback" ELSE "pendingPreferred"

\* The pending row of an attempt never outlives the attempt.
OperationIsCurrent ==
    operation.owner \in {"chunk", "closure", "claimedClosure"} =>
      attempt.phase = "open"

\* Room for the fallback of every unsettled claim is left: no ordinary event,
\* attempt row or prune pair takes it.
CapacityProtected ==
    lifecycle = "running" =>
      /\ committed + Reserved <= MaxEvents
      /\ OperationIsClaim =>
           committed + 1 + operation.protected <= MaxEvents

\* One event for each claim and room for it, no claim that waits for nothing, and no
\* row of an attempt that outlives it: however callers are cancelled, owners and
\* claims agree.
ClaimsSound ==
    ClaimPaysOnce /\ ClaimOwnsOperation /\ OperationIsCurrent /\ CapacityProtected

(* Action properties *)

\* An attempt is retired only once its closure survives a crash, and the recorded
\* result of an irreversible tool leaves only by being committed.
NothingLeavesEarly ==
    [][/\ attempt.phase # "none" /\ attempt'.phase = "none" =>
            attempt.closure \in 1..synced
       /\ operation.kind = "preferredOnly" /\ operation'.kind # operation.kind
          /\ lifecycle = "running" =>
            committed' = committed + 1]_vars

(* Refinement: events are entries of a durable log, the session's storage is
   its verdict. *)
Log == INSTANCE DurableLog WITH
         Entry    <- 1..MaxEvents,
         Batches  <- {<<e>> : e \in 1..MaxEvents}
                       \cup {<<e, e + 1>> : e \in 1..MaxEvents - 1},
         log      <- FirstEvents(committed),
         stable   <- SubSeq(journal, 1, synced),
         promised <- covered,
         verdict  <- IF storage = "closed" THEN "clean"
                     ELSE IF storage = "failed" THEN "failed" ELSE "open"

\* Barriers and shutdown promise only what survives, also when cancelled.
ImplementsDurableLog == Log!Spec
=============================================================================
