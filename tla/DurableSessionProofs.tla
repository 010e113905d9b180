------------------------ MODULE DurableSessionProofs ------------------------
(***************************************************************************)
(* Proofs about DurableSession, for every set of claims, every limit of    *)
(* events and every number of barriers: the owner implements the durable   *)
(* log, and no claim, closure, kept result or error is lost, whichever     *)
(* calls are dropped at whichever await.                                   *)
(***************************************************************************)
EXTENDS DurableSession, FiniteSetTheorems, TLAPS

-----------------------------------------------------------------------------
(* The invariant. *)

\* Where each method may stand, and what it found when it began.
CallInv ==
    /\ call.method = "none" => call = NoCall
    /\ call.method = "append" => call.at \in {"operation", "drain", "drained"}
    /\ call.method \in {"barrier", "inspect"} =>
         /\ call.at \notin {"ready", "finish"}
         /\ call.at = "read" => call.method = "inspect"
         /\ lifecycle = "running"
         /\ call.at # "read" => epoch < MaxEpoch /\ (barrierError => call.error)
         /\ call.at \in {"operation", "drain", "drained"} => ~OperationIsClaim
    /\ call.method = "row" => call.at \in {"flush", "flushed", "read"}
    /\ call.method = "materialize" => call.at = "ready"
    /\ call.method = "shutdown" => call.at \notin {"barrier", "read"} /\ lifecycle = "shutting"
    /\ call.at \in {"operation", "drain", "drained"} => HasOperation
    /\ call.at = "ready" => storage = "starting"

\* What the storage may hold: nothing before it is active, and nothing behind its
\* finish; it is closed behind a verdict, and then nobody waits for it.
StorageInv ==
    /\ storage \in {"deferred", "starting"} => committed = 0 /\ busy = "none"
    /\ storage = "finishing" => batch = <<>> /\ lifecycle = "shutting"
    /\ storage = "closed" =>
         /\ busy = "none" /\ lifecycle = "shutting"
         /\ call.method = "none" \/ (call.method = "append" /\ call.at = "operation")
         /\ ~firstError => covered = committed
    /\ call.at \in {"drained", "flushed", "barrier", "finish"} =>
         batch = <<>> \/ storage = "failed"

\* Events leave the batch for the journal in order, and none is left out.
JournalInv ==
    /\ committed = Len(journal) + Len(batch)
    /\ \A i \in DOMAIN journal : journal[i] = i
    /\ \A i \in DOMAIN batch : batch[i] = Len(journal) + i

\* A closure is committed, and a barrier that began behind it has covered it.
AttemptInv ==
    /\ attempt.phase = "closed" =>
         /\ attempt.closure \in 1 .. committed /\ attempt.at <= epoch
         /\ epoch > attempt.at => attempt.closure <= synced
    /\ OperationIsCurrent

\* Only the operation's claim is pending, nothing was paid for it, and the room that
\* the operation protects is that of the other claims.
ClaimInv ==
    /\ operation.owner = "none" => operation = NoOperation
    /\ operation.kind # "none" <=> OperationIsClaim
    /\ operation.claim # NoClaim => OperationIsClaim
    /\ \A c \in Claims :
         /\ paid[c] \in {0, 1}
         /\ claims[c] \in {"none", "ready"} => paid[c] = 0
         /\ operation.claim = c =>
              /\ paid[c] = 0
              /\ claims[c] = IF operation.kind \in FallbackKinds
                             THEN "pendingFallback" ELSE "pendingPreferred"
         /\ lifecycle = "running" =>
              /\ claims[c] \in {"pendingFallback", "pendingPreferred"} => operation.claim = c
              /\ paid[c] = 1 => claims[c] = "settled"
    /\ CapacityProtected
    /\ HasOperation /\ lifecycle = "running" =>
         Reserved <= operation.protected + (IF operation.claim = NoClaim THEN 0 ELSE 1)

\* An operation that was dropped is remembered where a cancelled wait cannot lose it.
LossInv == owed => barrierError \/ firstError

SessionInv ==
    TypeOK /\ CallInv /\ StorageInv /\ JournalInv /\ AttemptInv /\ ClaimInv /\ LossInv

-----------------------------------------------------------------------------
(* The room of the claims. *)

LEMMA ReservedType ==
    Reserved \in Nat /\ Unsettled \subseteq Claims /\ IsFiniteSet(Unsettled)
<1>1. Unsettled \subseteq Claims
  BY DEF Unsettled
<1>2. IsFiniteSet(Unsettled)
  BY <1>1, ClaimsAssumption, FS_Subset
<1> QED
  BY <1>1, <1>2, FS_CardinalityType DEF Reserved

LEMMA SameReserved == UNCHANGED claims => Reserved' = Reserved
  BY DEF Reserved, Unsettled

Weight(s) == IF s \in {"none", "settled"} THEN 0 ELSE 1

\* One claim changes: what is reserved changes by what it weighs.
LEMMA ReservedAfter ==
    ASSUME claims \in [Claims -> ClaimStates], NEW c \in Claims, NEW s,
           claims' = [claims EXCEPT ![c] = s]
    PROVE  /\ Reserved' = Reserved - Weight(claims[c]) + Weight(s)
           /\ Reserved >= Weight(claims[c]) /\ Reserved \in Nat /\ Reserved' \in Nat
<1> DEFINE U == Unsettled
           rest == Unsettled \ {c}
<1>1. Reserved \in Nat /\ IsFiniteSet(U)
  BY ReservedType
<1>2. IsFiniteSet(rest) /\ c \notin rest
  BY <1>1, FS_Subset
<1>3. Cardinality(rest) \in Nat /\ Cardinality(rest \cup {c}) = Cardinality(rest) + 1
  BY <1>2, FS_CardinalityType, FS_AddElement
<1>4. U = IF Weight(claims[c]) = 0 THEN rest ELSE rest \cup {c}
  BY DEF Unsettled, Weight
<1>5. U' = IF Weight(s) = 0 THEN rest ELSE rest \cup {c}
  BY DEF Unsettled, Weight
<1>6. Reserved = Cardinality(U) /\ Reserved' = Cardinality(U')
  BY DEF Reserved
<1>7. Weight(claims[c]) \in {0, 1} /\ Weight(s) \in {0, 1}
  BY DEF Weight
<1> HIDE DEF U, rest
<1> QED
  BY <1>3, <1>4, <1>5, <1>6, <1>7

LEMMA NoneReserved ==
    ASSUME claims' = [c \in Claims |-> "none"]
    PROVE  Reserved' = 0
<1>1. Unsettled' = {}
  BY DEF Unsettled
<1> QED
  BY <1>1, FS_EmptySet DEF Reserved

LEMMA MakeClaimClaims ==
    ASSUME SessionInv, NEW c \in Claims, MakeClaim(c)
    PROVE  ClaimInv'
<1>1. /\ claims' = [claims EXCEPT ![c] = "ready"] /\ claims[c] = "none"
      /\ operation = NoOperation /\ committed + Reserved + 1 <= MaxEvents
      /\ UNCHANGED <<lifecycle, operation, committed, paid>>
  BY DEF MakeClaim, HasOperation, session, ghosts
<1>2. Reserved' = Reserved + 1 /\ Reserved \in Nat /\ committed \in Nat /\ MaxEvents \in Nat
  <2>1. claims \in [Claims -> ClaimStates] /\ committed \in Nat
    BY BoundsAssumption DEF SessionInv, TypeOK
  <2>2. Reserved' = Reserved - Weight("none") + Weight("ready")
    BY <1>1, <2>1, ReservedAfter
  <2> QED
    BY <2>1, <2>2, ReservedType, BoundsAssumption DEF Weight
<1>3. CapacityProtected'
  BY <1>1, <1>2 DEF CapacityProtected, OperationIsClaim, NoOperation
<1> QED
  BY <1>1, <1>3, NoClaimAssumption
     DEF SessionInv, TypeOK, ClaimInv, OperationIsClaim, HasOperation, NoOperation

LEMMA ReleaseClaims ==
    ASSUME SessionInv, NEW c \in Claims, Release(c)
    PROVE  ClaimInv'
<1>1. /\ claims' = [claims EXCEPT ![c] = "settled"] /\ claims[c] = "ready"
      /\ operation = NoOperation
      /\ UNCHANGED <<lifecycle, operation, committed, paid>>
  BY DEF Release, HasOperation, session, ghosts
<1>2. Reserved' = Reserved - 1 /\ Reserved \in Nat /\ committed \in Nat /\ MaxEvents \in Nat
  <2>1. claims \in [Claims -> ClaimStates] /\ committed \in Nat
    BY BoundsAssumption DEF SessionInv, TypeOK
  <2>2. Reserved' = Reserved - Weight("ready") + Weight("settled")
    BY <1>1, <2>1, ReservedAfter
  <2> QED
    BY <2>1, <2>2, ReservedType, BoundsAssumption DEF Weight
<1>3. CapacityProtected'
  BY <1>1, <1>2 DEF SessionInv, ClaimInv, CapacityProtected, OperationIsClaim, NoOperation
<1> QED
  BY <1>1, <1>3, NoClaimAssumption
     DEF SessionInv, TypeOK, ClaimInv, OperationIsClaim, HasOperation, NoOperation

LEMMA DropReservationTypes ==
    ASSUME SessionInv, DropReservation
    PROVE  TypeOK'
<1>1. operation' \in Operations
  BY DEF SessionInv, TypeOK, DropReservation, Operations
<1>2. attempt' \in Attempts
  BY DEF SessionInv, TypeOK, DropReservation, Attempts
<1> QED
  BY <1>1, <1>2 DEF SessionInv, TypeOK, DropReservation, ClaimStates, session, writer

LEMMA DropReservationClaims ==
    ASSUME SessionInv, DropReservation
    PROVE  ClaimInv'
<1>1. /\ claims' = [c \in Claims |-> "none"] /\ paid' = [c \in Claims |-> 0]
      /\ operation' = [operation EXCEPT !.claim = NoClaim]
      /\ operation \in Operations
      /\ UNCHANGED <<lifecycle, committed>>
  BY DEF SessionInv, TypeOK, DropReservation, session
<1>2. /\ operation'.owner = operation.owner /\ operation'.kind = operation.kind
      /\ operation'.protected = operation.protected /\ operation'.claim = NoClaim
      /\ operation = NoOperation => operation' = NoOperation
      /\ operation' = NoOperation => operation.owner = "none"
      /\ operation.protected \in Nat
  BY <1>1 DEF Operations, NoOperation
<1>3. Reserved' = 0 /\ committed \in 0 .. MaxEvents /\ MaxEvents \in Nat
  BY <1>1, NoneReserved, BoundsAssumption DEF SessionInv, TypeOK
<1>4. OperationIsClaim' <=> OperationIsClaim
  BY <1>2 DEF OperationIsClaim
<1>5. CapacityProtected'
  BY <1>1, <1>2, <1>3, <1>4 DEF SessionInv, ClaimInv, CapacityProtected
<1> QED
  BY <1>1, <1>2, <1>3, <1>4, <1>5, NoClaimAssumption DEF SessionInv, ClaimInv, HasOperation

LEMMA AppendPrunePairTypes ==
    ASSUME SessionInv, NEW overflow \in BOOLEAN, AppendPrunePair(overflow)
    PROVE  /\ TypeOK' /\ committed' \in Nat /\ committed <= committed'
           /\ committed' <= committed + 2 /\ committed' + Reserved <= MaxEvents
<1>1. PICK pair \in BOOLEAN :
        batch' = IF pair THEN <<committed + 1, committed + 2>> ELSE <<committed + 1>>
  BY DEF AppendPrunePair, PrunePair
<1>2. /\ Reserved \in Nat /\ committed \in Nat /\ MaxEvents \in Nat
      /\ committed + 2 + Reserved <= MaxEvents
  BY ReservedType, BoundsAssumption DEF SessionInv, TypeOK, AppendPrunePair, PrunePair
<1>3. committed + 1 \in 1 .. MaxEvents /\ committed + 2 \in 1 .. MaxEvents
  BY <1>2
<1>4. /\ batch' \in Seq(1 .. MaxEvents) /\ Len(batch') \in {1, 2}
      /\ committed' = committed + Len(batch')
  <2>1. committed' = committed + Len(batch')
    BY DEF AppendPrunePair, PrunePair
  <2>2. CASE pair
    BY <1>1, <1>3, <2>1, <2>2
  <2>3. CASE ~pair
    BY <1>1, <1>3, <2>1, <2>3
  <2> QED
    BY <2>2, <2>3
<1>6. committed' \in {committed + 1, committed + 2}
  BY <1>4
<1>5. attempt' \in Attempts
  BY <1>2, BoundsAssumption
     DEF SessionInv, TypeOK, AppendPrunePair, PrunePair, Close, Attempts
<1> QED
  BY <1>2, <1>3, <1>4, <1>5, <1>6
     DEF SessionInv, TypeOK, AppendPrunePair, PrunePair, session, writer, ghosts

LEMMA AppendPrunePairClaims ==
    ASSUME SessionInv, NEW overflow \in BOOLEAN, AppendPrunePair(overflow)
    PROVE  ClaimInv'
<1>1. /\ UNCHANGED <<lifecycle, operation, claims, paid>> /\ operation = NoOperation
  BY DEF AppendPrunePair, PrunePair, HasOperation, session, ghosts
<1>2. committed' + Reserved <= MaxEvents
  BY AppendPrunePairTypes
<1>3. CapacityProtected'
  BY <1>1, <1>2, SameReserved DEF CapacityProtected, OperationIsClaim, NoOperation
<1> QED
  BY <1>1, <1>3, SameReserved DEF SessionInv, ClaimInv, OperationIsClaim, HasOperation

\* An operation that is no claim's protects all that is reserved.
LEMMA InstallClaims ==
    ASSUME SessionInv, NEW owner \in {"ordinary", "chunk", "closure"},
           Install(owner, "none", NoClaim, Reserved), UNCHANGED claims
    PROVE  ClaimInv'
<1>1. /\ operation = NoOperation
      /\ operation' = [owner |-> owner, kind |-> "none", claim |-> NoClaim,
                       protected |-> Reserved]
      /\ UNCHANGED <<lifecycle, claims, committed, paid>>
  BY DEF Install, HasOperation, session, ghosts
<1>2. Reserved' = Reserved /\ Reserved \in Nat
  BY <1>1, SameReserved, ReservedType
<1>3. ~OperationIsClaim' /\ ~OperationIsClaim /\ HasOperation'
  BY <1>1 DEF OperationIsClaim, HasOperation, NoOperation
<1>4. CapacityProtected'
  BY <1>1, <1>2, <1>3 DEF SessionInv, ClaimInv, CapacityProtected
<1> QED
  BY <1>1, <1>2, <1>3, <1>4, NoClaimAssumption
     DEF SessionInv, ClaimInv, NoOperation

LEMMA SettleClaimTypes ==
    ASSUME SessionInv, NEW c \in Claims, NEW owner \in {"claim", "claimedClosure"},
           NEW kind \in ClaimKinds, SettleClaim(c, owner, kind)
    PROVE  TypeOK' /\ Reserved' = Reserved /\ Reserved - 1 \in Nat
<1>1. /\ claims[c] = "ready"
      /\ claims' = [claims EXCEPT ![c] = IF kind \in FallbackKinds THEN "pendingFallback"
                                                                   ELSE "pendingPreferred"]
  BY DEF SettleClaim
<1>2. Reserved' = Reserved /\ Reserved - 1 \in Nat
  <2> DEFINE s == IF kind \in FallbackKinds THEN "pendingFallback" ELSE "pendingPreferred"
  <2>1. claims \in [Claims -> ClaimStates] /\ claims' = [claims EXCEPT ![c] = s]
    BY <1>1 DEF SessionInv, TypeOK
  <2>2. Weight(s) = 1 /\ Weight("ready") = 1
    BY DEF Weight
  <2> HIDE DEF s
  <2>3. Reserved' = Reserved - Weight("ready") + Weight(s) /\ Reserved >= Weight("ready")
    BY <1>1, <2>1, ReservedAfter
  <2> QED
    BY <2>2, <2>3, ReservedType
<1>3. operation' \in Operations /\ call' \in Calls
  BY <1>2 DEF SettleClaim, Install, Calling, Operations, Calls, Owners, Heads
<1>4. claims' \in [Claims -> ClaimStates]
  BY <1>1 DEF SessionInv, TypeOK, ClaimStates
<1> QED
  BY <1>2, <1>3, <1>4 DEF SessionInv, TypeOK, SettleClaim, Install, session, writer, ghosts

LEMMA SettleClaimClaims ==
    ASSUME SessionInv, NEW c \in Claims, NEW owner \in {"claim", "claimedClosure"},
           NEW kind \in ClaimKinds, SettleClaim(c, owner, kind)
    PROVE  ClaimInv'
<1>1. /\ operation = NoOperation /\ lifecycle = "running"
      /\ operation' = [owner |-> owner, kind |-> kind, claim |-> c, protected |-> Reserved - 1]
      /\ claims[c] = "ready"
      /\ claims' = [claims EXCEPT ![c] = IF kind \in FallbackKinds THEN "pendingFallback"
                                                                   ELSE "pendingPreferred"]
      /\ UNCHANGED <<lifecycle, committed, paid>>
  BY DEF SettleClaim, Install, HasOperation, Active, session, ghosts
<1>2. Reserved' = Reserved /\ Reserved - 1 \in Nat /\ Reserved \in Nat /\ committed \in Nat
  BY SettleClaimTypes, ReservedType DEF SessionInv, TypeOK
<1>3. OperationIsClaim' /\ HasOperation' /\ operation'.kind # "none"
  BY <1>1 DEF OperationIsClaim, HasOperation, NoOperation, ClaimKinds, FallbackKinds
<1>4. CapacityProtected'
  BY <1>1, <1>2 DEF SessionInv, ClaimInv, CapacityProtected
<1> QED
  BY <1>1, <1>2, <1>3, <1>4, NoClaimAssumption
     DEF SessionInv, TypeOK, ClaimInv, NoOperation

LEMMA CommitTypes ==
    ASSUME SessionInv, Commit
    PROVE  TypeOK' /\ committed' = committed + 1 /\ committed + 1 + operation.protected <= MaxEvents
<1>1. /\ operation.protected \in Nat /\ committed \in Nat /\ MaxEvents \in Nat
      /\ committed + 1 + operation.protected <= MaxEvents
      /\ committed' = committed + 1 /\ batch' = <<committed + 1>>
  BY BoundsAssumption DEF SessionInv, TypeOK, Commit, Operations
<1>2. committed + 1 \in 1 .. MaxEvents
  BY <1>1
<1>3. batch' \in Seq(1 .. MaxEvents) /\ Len(batch') = 1 /\ committed' \in 0 .. MaxEvents
  BY <1>1, <1>2
<1>4. attempt' \in Attempts
  BY <1>1, <1>2, BoundsAssumption DEF SessionInv, TypeOK, Commit, Close, Attempts
<1>5. operation' \in Operations /\ call' \in Calls
  <2>1. NoOperation \in Operations /\ NoCall \in Calls
    BY DEF Operations, NoOperation, Calls, NoCall, Heads
  <2>2. call' = NoCall \/ call' = [method |-> call.method, at |-> "batch", error |-> call.error]
    BY DEF Commit, Calling
  <2> QED
    BY <2>1, <2>2 DEF SessionInv, TypeOK, Commit, Calls, Heads
<1>6. claims' \in [Claims -> ClaimStates] /\ paid' \in [Claims -> Nat]
  <2>1. CASE operation.claim # NoClaim
    <3>1. operation.claim \in Claims
      BY <2>1 DEF SessionInv, TypeOK, Operations
    <3> QED
      BY <2>1, <3>1 DEF SessionInv, TypeOK, Commit, ClaimStates
  <2>2. CASE operation.claim = NoClaim
    BY <2>2 DEF SessionInv, TypeOK, Commit
  <2> QED
    BY <2>1, <2>2
<1> QED
  BY <1>1, <1>3, <1>4, <1>5, <1>6 DEF SessionInv, TypeOK, Commit, session, writer

LEMMA CommitClaims ==
    ASSUME SessionInv, Commit
    PROVE  ClaimInv'
<1>1. /\ operation' = NoOperation /\ UNCHANGED lifecycle /\ HasOperation
      /\ claims \in [Claims -> ClaimStates] /\ paid \in [Claims -> Nat]
      /\ operation \in Operations
  BY DEF SessionInv, TypeOK, CallInv, Commit, MayCommit, Active, session
<1>2. /\ ~OperationIsClaim' /\ ~HasOperation' /\ operation'.owner = "none"
      /\ operation'.kind = "none" /\ operation'.claim = NoClaim
  BY <1>1 DEF OperationIsClaim, HasOperation, NoOperation
<1>3. /\ committed' = committed + 1 /\ committed \in Nat /\ MaxEvents \in Nat
      /\ operation.protected \in Nat /\ committed + 1 + operation.protected <= MaxEvents
  BY <1>1, CommitTypes, BoundsAssumption DEF SessionInv, TypeOK, Operations
<1>4. lifecycle = "running" => HasOperation /\ Reserved <= operation.protected +
                                 (IF operation.claim = NoClaim THEN 0 ELSE 1)
  BY <1>1 DEF SessionInv, ClaimInv
<1>5. CASE operation.claim = NoClaim
  <2>1. UNCHANGED <<paid, claims>>
    BY <1>5 DEF Commit
  <2>2. CapacityProtected'
    BY <1>1, <1>2, <1>3, <1>4, <1>5, <2>1, SameReserved, ReservedType DEF CapacityProtected
  <2> QED
    BY <1>1, <1>2, <1>5, <2>1, <2>2, NoClaimAssumption DEF SessionInv, ClaimInv
<1>6. CASE operation.claim # NoClaim
  <2> DEFINE c == operation.claim
  <2>1. c \in Claims /\ OperationIsClaim
    <3>1. c \in Claims
      BY <1>1, <1>6 DEF Operations
    <3> QED
      BY <1>6, <3>1 DEF SessionInv, ClaimInv
  <2>2. /\ paid' = [paid EXCEPT ![c] = @ + 1] /\ paid[c] = 0
        /\ claims[c] \in {"pendingFallback", "pendingPreferred"}
        /\ claims' = IF call.method = "append" THEN [claims EXCEPT ![c] = "settled"] ELSE claims
    BY <1>6, <2>1 DEF Commit, SessionInv, ClaimInv
  <2>3. call.method \in {"append", "shutdown"}
        /\ (call.method = "shutdown" => lifecycle = "shutting")
    <3>1. call.at = "operation"
      BY DEF Commit
    <3>2. call.method \in {"none", "append", "barrier", "inspect", "row", "materialize", "shutdown"}
      BY DEF SessionInv, TypeOK, Calls
    <3> QED
      BY <2>1, <3>1, <3>2 DEF SessionInv, CallInv, NoCall
  <2>4. lifecycle = "running" => Reserved' = Reserved - 1
    <3> SUFFICES ASSUME lifecycle = "running" PROVE Reserved' = Reserved - 1
      OBVIOUS
    <3>1. claims' = [claims EXCEPT ![c] = "settled"]
      BY <2>2, <2>3
    <3>2. Reserved' = Reserved - Weight(claims[c]) + Weight("settled")
      BY <1>1, <2>1, <3>1, ReservedAfter
    <3>3. Weight(claims[c]) = 1 /\ Weight("settled") = 0
      BY <2>2 DEF Weight
    <3> QED
      BY <3>2, <3>3, ReservedType
  <2>5. CapacityProtected'
    BY <1>1, <1>2, <1>3, <1>4, <1>6, <2>4, ReservedType DEF CapacityProtected
  <2> HIDE DEF c
  <2>6. ASSUME NEW d \in Claims
        PROVE  /\ paid'[d] \in {0, 1} /\ (claims'[d] \in {"none", "ready"} => paid'[d] = 0)
               /\ lifecycle' = "running" =>
                    /\ claims'[d] \notin {"pendingFallback", "pendingPreferred"}
                    /\ paid'[d] = 1 => claims'[d] = "settled"
    <3>1. CASE d = c
      BY <1>1, <2>1, <2>2, <2>3, <3>1
    <3>2. CASE d # c
      <4>1. paid'[d] = paid[d] /\ claims'[d] = claims[d]
        BY <1>1, <2>1, <2>2, <3>2
      <4> QED
        BY <1>1, <3>2, <4>1 DEF SessionInv, ClaimInv, c
    <3> QED
      BY <3>1, <3>2
  <2> QED
    BY <1>1, <1>2, <2>5, <2>6, NoClaimAssumption DEF ClaimInv
<1> QED
  BY <1>5, <1>6


LEMMA NoneTypes ==
    /\ NoOperation \in Operations /\ NoCall \in Calls
    /\ NoCall.method = "none" /\ NoCall.at = "batch" /\ NoCall.error = FALSE
    /\ NoOperation.owner = "none" /\ NoOperation.kind = "none" /\ NoOperation.claim = NoClaim
  BY DEF Operations, NoOperation, Calls, NoCall, Heads

LEMMA CallType ==
    ASSUME NEW method \in {"none", "append", "barrier", "inspect", "row", "materialize", "shutdown"},
           NEW at \in Heads \cup Awaits, NEW error \in BOOLEAN
    PROVE  [method |-> method, at |-> at, error |-> error] \in Calls
  BY DEF Calls

\* An operation that is rejected, by a refusal or by a journal that failed.
LEMMA RejectKeeps ==
    ASSUME SessionInv, NEW nowFailed \in BOOLEAN, Reject(nowFailed),
           call.at \in {"operation", "drain", "drained"},
           UNCHANGED <<lifecycle, batch, committed, attempt, epoch, writer, covered, paid>>
    PROVE  SessionInv'
<1> DEFINE mine == call.method = "append"
           kept == mine /\ operation.kind = "preferredOnly"
           c    == operation.claim
<1>1. /\ call \in Calls /\ operation \in Operations /\ claims \in [Claims -> ClaimStates]
      /\ storage' = IF nowFailed THEN "failed" ELSE storage
      /\ operation' = IF kept THEN operation ELSE NoOperation
      /\ claims' = IF mine /\ ~kept /\ c # NoClaim THEN [claims EXCEPT ![c] = "ready"] ELSE claims
      /\ UNCHANGED <<journal, synced, busy, poisoned>>
  BY DEF SessionInv, TypeOK, Reject, RejectedBy, writer
<1>2. \/ mine /\ call' = NoCall /\ UNCHANGED <<barrierError, firstError, owed>>
      \/ /\ ~mine
         /\ call' = [method |-> call.method, at |-> "batch", error |-> TRUE]
         /\ owed' = TRUE
         /\ barrierError' = (barrierError \/ call.method # "shutdown")
         /\ firstError' = (firstError \/ call.method = "shutdown")
  BY DEF Reject, RejectedBy, Calling
<1>3. /\ call.method \in {"append", "barrier", "inspect", "shutdown"} /\ HasOperation
      /\ lifecycle = "running" /\ ~mine => ~OperationIsClaim
  <2>1. call.method \in {"none", "append", "barrier", "inspect", "row", "materialize", "shutdown"}
    BY <1>1 DEF Calls
  <2> QED
    BY <2>1, NoneTypes DEF SessionInv, CallInv
<1>4. c # NoClaim => c \in Claims
  BY <1>1 DEF Operations
<1>5. TypeOK'
  <2>1. operation' \in Operations /\ claims' \in [Claims -> ClaimStates]
    BY <1>1, <1>4, NoneTypes DEF ClaimStates
  <2>2. call' \in Calls
    <3>1. CASE call' = NoCall
      BY <3>1, NoneTypes
    <3>2. CASE call' = [method |-> call.method, at |-> "batch", error |-> TRUE]
      BY <1>1, <3>2 DEF Calls, Heads
    <3> QED
      BY <1>2, <3>1, <3>2
  <2>3. barrierError' \in BOOLEAN /\ firstError' \in BOOLEAN /\ owed' \in BOOLEAN
    BY <1>2 DEF SessionInv, TypeOK
  <2> QED
    BY <1>1, <2>1, <2>2, <2>3 DEF SessionInv, TypeOK
<1>6. CallInv'
  <2>1. CASE call' = NoCall
    BY <2>1, NoneTypes DEF CallInv
  <2>2. CASE ~mine /\ call' = [method |-> call.method, at |-> "batch", error |-> TRUE]
    BY <1>3, <2>2 DEF SessionInv, CallInv
  <2> QED
    BY <1>2, <2>1, <2>2
<1>7. StorageInv'
  <2>1. call'.at = "batch" /\ (storage = "closed" => call'.method = "none")
    BY <1>2, <1>3, NoneTypes DEF SessionInv, StorageInv
  <2> QED
    BY <1>1, <1>2, <2>1 DEF SessionInv, StorageInv
<1>8. JournalInv'
  BY <1>1 DEF SessionInv, JournalInv
<1>11. LossInv'
  BY <1>2 DEF SessionInv, LossInv
<1>9. AttemptInv'
  BY <1>1, NoneTypes DEF SessionInv, AttemptInv, OperationIsCurrent
<1>10. ClaimInv'
  <2>1. CASE kept
    BY <1>1, <2>1, SameReserved
       DEF SessionInv, ClaimInv, CapacityProtected, OperationIsClaim, HasOperation
  <2>2. CASE ~kept
    <3>1. operation' = NoOperation /\ ~OperationIsClaim' /\ ~HasOperation'
      BY <1>1, <2>2 DEF OperationIsClaim, HasOperation, NoOperation
    <3>2. c # NoClaim => OperationIsClaim /\ paid[c] = 0
                         /\ claims[c] \in {"pendingFallback", "pendingPreferred"}
      BY <1>4 DEF SessionInv, ClaimInv
    <3>3. Reserved' = Reserved
      <4>1. CASE UNCHANGED claims
        BY <4>1, SameReserved
      <4>2. CASE c # NoClaim /\ claims' = [claims EXCEPT ![c] = "ready"]
        <5>1. Weight(claims[c]) = 1 /\ Weight("ready") = 1
          BY <3>2, <4>2 DEF Weight
        <5>2. Reserved' = Reserved - Weight(claims[c]) + Weight("ready")
          BY <1>1, <1>4, <4>2, ReservedAfter
        <5> QED
          BY <5>1, <5>2, ReservedType
      <4> QED
        BY <1>1, <4>1, <4>2
    <3>4. CapacityProtected'
      BY <3>1, <3>3 DEF SessionInv, ClaimInv, CapacityProtected
    <3>5. ASSUME NEW d \in Claims
          PROVE  /\ paid[d] \in {0, 1} /\ (claims'[d] \in {"none", "ready"} => paid[d] = 0)
                 /\ lifecycle = "running" =>
                      /\ claims'[d] \notin {"pendingFallback", "pendingPreferred"}
                      /\ paid[d] = 1 => claims'[d] = "settled"
      <4>1. CASE mine /\ d = c
        <5>1. c # NoClaim /\ claims'[d] = "ready"
          BY <1>1, <2>2, <4>1, NoClaimAssumption
        <5> QED
          BY <3>2, <4>1, <5>1 DEF SessionInv, ClaimInv
      <4>2. CASE ~(mine /\ d = c)
        <5>1. claims'[d] = claims[d]
          BY <1>1, <1>4, <4>2
        <5>2. lifecycle = "running" => d # c
          BY <1>3, <3>2, <4>2, NoClaimAssumption
        <5> QED
          BY <5>1, <5>2 DEF SessionInv, ClaimInv
      <4> QED
        BY <4>1, <4>2
    <3> QED
      BY <3>1, <3>4, <3>5, NoneTypes, NoClaimAssumption DEF ClaimInv
  <2> QED
    BY <2>1, <2>2
<1> QED
  BY <1>5, <1>6, <1>7, <1>8, <1>9, <1>10, <1>11 DEF SessionInv

LEMMA WhoWaits ==
    ASSUME SessionInv
    PROVE  /\ call.at = "barrier" => call.method \in {"barrier", "inspect"}
           /\ call.at = "finish" => call.method = "shutdown"
           /\ call.at = "read" => call.method \in {"inspect", "row"}
           /\ call.at \in {"flush", "flushed"} =>
                call.method \in {"barrier", "inspect", "row", "shutdown"}
<1>1. call.method \in {"none", "append", "barrier", "inspect", "row", "materialize", "shutdown"}
  BY DEF SessionInv, TypeOK, Calls
<1> QED
  BY <1>1 DEF SessionInv, CallInv, NoCall

LEMMA BeginShutdownTypes ==
    ASSUME SessionInv, BeginShutdown
    PROVE  TypeOK'
<1>1. call' \in Calls
  <2>1. \/ call' = NoCall
        \/ \E at \in {"ready", "operation", "batch"} :
             call' = [method |-> "shutdown", at |-> at, error |-> FALSE]
    BY DEF BeginShutdown, Verdict, Calling
  <2> QED
    BY <2>1, NoneTypes, CallType DEF Heads, Awaits
<1>2. covered' \in 0 .. MaxEvents /\ owed' \in BOOLEAN /\ paid' = paid
  BY DEF SessionInv, TypeOK, BeginShutdown, Verdict, ghosts
<1>3. firstError' \in BOOLEAN /\ barrierError' \in BOOLEAN
  BY DEF SessionInv, TypeOK, BeginShutdown
<1> QED
  BY <1>1, <1>2, <1>3 DEF SessionInv, TypeOK, BeginShutdown, writer

LEMMA ReadyTypes ==
    ASSUME SessionInv, Ready
    PROVE  TypeOK'
<1>1. call' \in Calls
  <2>1. \/ call' = NoCall
        \/ \E at \in {"operation", "batch"} :
             call' = [method |-> "shutdown", at |-> at, error |-> FALSE]
    BY DEF Ready, Verdict, Calling
  <2> QED
    BY <2>1, NoneTypes, CallType DEF Heads
<1>2. covered' \in 0 .. MaxEvents /\ owed' \in BOOLEAN /\ paid' = paid /\ firstError' \in BOOLEAN
  BY DEF SessionInv, TypeOK, Ready, Verdict, ghosts
<1> QED
  BY <1>1, <1>2 DEF SessionInv, TypeOK, Ready, writer

LEMMA StageBatchTypes ==
    ASSUME SessionInv, StageBatch
    PROVE  TypeOK' /\ JournalInv'
<1>1. /\ journal \in Seq(1 .. MaxEvents) /\ batch \in Seq(1 .. MaxEvents)
      /\ committed = Len(journal) + Len(batch) /\ synced \in 0 .. Len(journal)
      /\ \A i \in DOMAIN journal : journal[i] = i
      /\ \A i \in DOMAIN batch : batch[i] = Len(journal) + i
  BY DEF SessionInv, TypeOK, JournalInv
<1>2. call' \in Calls
  BY DEF SessionInv, TypeOK, StageBatch, Flushing, AfterFlush, Calling, Calls, Heads, Awaits
<1>3. CASE batch = <<>>
  <2>1. UNCHANGED <<journal, batch, committed>> /\ busy' = "none"
    BY <1>3 DEF StageBatch
  <2> QED
    BY <1>2, <2>1 DEF SessionInv, TypeOK, JournalInv, StageBatch, session, ghosts
<1>4. CASE batch # <<>>
  <2>1. journal' = journal \o batch /\ batch' = <<>> /\ busy' = "write" /\ UNCHANGED committed
    BY <1>4 DEF StageBatch
  <2>2. /\ journal' \in Seq(1 .. MaxEvents) /\ Len(journal') = Len(journal) + Len(batch)
        /\ Len(batch') = 0 /\ DOMAIN batch' = {} /\ batch' \in Seq(1 .. MaxEvents)
    BY <1>1, <2>1
  <2>3. ASSUME NEW i \in DOMAIN journal' PROVE journal'[i] = i
    <3>1. i \in 1 .. Len(journal) + Len(batch) /\ Len(journal) \in Nat /\ Len(batch) \in Nat
      BY <1>1, <2>2
    <3>2. CASE i <= Len(journal)
      BY <1>1, <2>1, <3>1, <3>2
    <3>3. CASE i > Len(journal)
      <4>1. i - Len(journal) \in DOMAIN batch /\ journal'[i] = batch[i - Len(journal)]
        BY <1>1, <2>1, <3>1, <3>3
      <4>2. batch[i - Len(journal)] = Len(journal) + (i - Len(journal))
        BY <1>1, <4>1
      <4> QED
        BY <3>1, <4>1, <4>2
    <3> QED
      BY <3>1, <3>2, <3>3
  <2>4. synced \in 0 .. Len(journal')
    BY <1>1, <2>2
  <2>5. JournalInv'
    BY <1>1, <2>1, <2>2, <2>3 DEF JournalInv
  <2> QED
    BY <1>2, <2>1, <2>2, <2>4, <2>5 DEF SessionInv, TypeOK, StageBatch, session, ghosts
<1> QED
  BY <1>3, <1>4

LEMMA SendCommandStorage ==
    ASSUME SessionInv, SendCommand
    PROVE  StorageInv'
<1>1. call.at = "finish" => call.method = "shutdown" /\ lifecycle = "shutting"
  BY WhoWaits DEF SessionInv, CallInv
<1> QED
  BY <1>1 DEF SessionInv, StorageInv, SendCommand

LEMMA BarrierDoneKeeps ==
    ASSUME SessionInv, BarrierDone
    PROVE  SessionInv' /\ synced = committed
<1>1. /\ call.method \in {"barrier", "inspect"} /\ epoch < MaxEpoch
      /\ barrierError => call.error
      /\ lifecycle = "running" /\ call.at = "barrier" /\ storage = "active"
  BY WhoWaits DEF SessionInv, CallInv, BarrierDone
<1>2. batch = <<>> /\ synced = Len(journal) /\ committed = Len(journal) + Len(batch)
  BY DEF SessionInv, StorageInv, JournalInv, BarrierDone
<1>3. synced = committed /\ committed \in 0 .. MaxEvents
  BY <1>2 DEF SessionInv, TypeOK
<1>4. /\ epoch' = epoch + 1 /\ epoch' \in 0 .. MaxEpoch /\ epoch \in Nat
  BY <1>1, BoundsAssumption DEF SessionInv, TypeOK, BarrierDone
<1>5. TypeOK'
  <2>1. call' \in Calls
    <3>1. call' = NoCall \/ call' = [method |-> "inspect", at |-> "read", error |-> FALSE]
      BY DEF BarrierDone, Calling
    <3> QED
      BY <3>1, NoneTypes, CallType DEF Awaits
  <2>2. covered' \in 0 .. MaxEvents /\ owed' \in BOOLEAN
    BY DEF SessionInv, TypeOK, BarrierDone
  <2> QED
    BY <1>4, <2>1, <2>2 DEF SessionInv, TypeOK, BarrierDone
<1>6. CallInv'
  BY <1>1, NoneTypes DEF SessionInv, CallInv, BarrierDone, Calling
<1>7. StorageInv'
  BY <1>1, NoneTypes DEF SessionInv, StorageInv, BarrierDone, Calling
<1>8. JournalInv'
  BY DEF SessionInv, JournalInv, BarrierDone
<1>9. AttemptInv'
  <2>1. attempt \in Attempts /\ UNCHANGED <<attempt, committed, synced, operation>>
    BY DEF SessionInv, TypeOK, BarrierDone
  <2>2. attempt.closure \in Nat /\ attempt.at \in Nat
    BY <2>1, BoundsAssumption DEF Attempts
  <2> QED
    BY <1>3, <1>4, <2>1, <2>2 DEF SessionInv, AttemptInv, OperationIsCurrent
<1>10. ClaimInv'
  BY SameReserved DEF SessionInv, ClaimInv, CapacityProtected, OperationIsClaim, HasOperation,
                      BarrierDone
<1>11. LossInv'
  BY <1>1 DEF SessionInv, LossInv, BarrierDone
<1> QED
  BY <1>3, <1>5, <1>6, <1>7, <1>8, <1>9, <1>10, <1>11 DEF SessionInv

LEMMA EndTypes ==
    ASSUME SessionInv, BarrierFailed \/ ReadFailed \/ Finished
    PROVE  TypeOK'
<1>1. call' = NoCall
  BY DEF BarrierFailed, ReadFailed, Finished, Verdict
<1>2. covered' \in 0 .. MaxEvents /\ owed' \in BOOLEAN /\ paid' = paid
  BY DEF SessionInv, TypeOK, BarrierFailed, ReadFailed, Finished, Verdict, ghosts
<1>3. /\ storage' \in {storage, "failed", "closed"} /\ busy' \in {busy, "none"}
      /\ firstError' \in BOOLEAN /\ barrierError' \in BOOLEAN /\ poisoned' \in BOOLEAN
      /\ UNCHANGED <<lifecycle, operation, batch, committed, claims, attempt, epoch, journal,
                     synced>>
  BY DEF SessionInv, TypeOK, BarrierFailed, ReadFailed, Finished, writer
<1> QED
  BY <1>1, <1>2, <1>3, NoneTypes DEF SessionInv, TypeOK

\* A journal that failed: it rejects the operation that it was to make room for, and
\* any other method remembers it and goes on.
LEMMA FlushFailedKeeps ==
    ASSUME SessionInv, FlushFailed
    PROVE  SessionInv'
<1>1. CASE call.at \in {"drain", "drained"}
  BY <1>1, RejectKeeps DEF FlushFailed
<1>2. CASE call.at \notin {"drain", "drained"}
  <2>1. /\ call.at \in {"flush", "flushed"} /\ storage' = "failed"
        /\ barrierError' = (barrierError \/ call.method \in {"barrier", "inspect"})
        /\ firstError' = (firstError \/ call.method = "shutdown")
        /\ call' = IF call.method = "row" THEN NoCall
                   ELSE [method |-> call.method, at |-> AfterFlush, error |-> TRUE]
        /\ UNCHANGED <<lifecycle, operation, batch, committed, claims, attempt, epoch, journal,
                       synced, busy, poisoned, covered, owed, paid>>
    BY <1>2 DEF FlushFailed, Flushing, Awaiting, Calling, writer
  <2>2. /\ call.method \in {"barrier", "inspect", "row", "shutdown"}
        /\ call.method \in {"barrier", "inspect"} => AfterFlush = "barrier"
        /\ call.method = "shutdown" => AfterFlush = "finish"
    BY <2>1, WhoWaits DEF AfterFlush
  <2>3. call' \in Calls
    BY <2>1, <2>2, NoneTypes DEF Calls, Awaits
  <2>4. TypeOK'
    BY <2>1, <2>3 DEF SessionInv, TypeOK
  <2>5. CallInv'
    BY <2>1, <2>2, NoneTypes DEF SessionInv, CallInv, OperationIsClaim
  <2>6. StorageInv' /\ JournalInv'
    BY <2>1 DEF SessionInv, StorageInv, JournalInv
  <2>7. AttemptInv' /\ LossInv'
    BY <2>1 DEF SessionInv, AttemptInv, OperationIsCurrent, LossInv
  <2>8. ClaimInv'
    BY <2>1, SameReserved
       DEF SessionInv, ClaimInv, CapacityProtected, OperationIsClaim, HasOperation
  <2> QED
    BY <2>4, <2>5, <2>6, <2>7, <2>8 DEF SessionInv
<1> QED
  BY <1>1, <1>2

LEMMA RefusedKeeps ==
    ASSUME SessionInv, Refused
    PROVE  SessionInv'
  BY RejectKeeps DEF Refused

LEMMA MakeClaimKeeps ==
    ASSUME SessionInv, NEW c \in Claims, MakeClaim(c)
    PROVE  SessionInv'
<1> USE DEF SessionInv, MakeClaim, Idle, session, writer, ghosts
<1>1. TypeOK'
  BY DEF TypeOK, ClaimStates
<1>2. CallInv'
  BY DEF CallInv
<1>3. StorageInv'
  BY DEF StorageInv
<1>4. JournalInv'
  BY DEF JournalInv
<1>5. AttemptInv'
  BY DEF AttemptInv, OperationIsCurrent
<1>6. ClaimInv'
  BY MakeClaimClaims
<1>7. LossInv'
  BY DEF LossInv
<1> QED
  BY <1>1, <1>2, <1>3, <1>4, <1>5, <1>6, <1>7

LEMMA ReleaseKeeps ==
    ASSUME SessionInv, NEW c \in Claims, Release(c)
    PROVE  SessionInv'
<1> USE DEF SessionInv, Release, Idle, session, writer, ghosts
<1>1. TypeOK'
  BY DEF TypeOK, ClaimStates
<1>2. CallInv'
  BY DEF CallInv
<1>3. StorageInv'
  BY DEF StorageInv
<1>4. JournalInv'
  BY DEF JournalInv
<1>5. AttemptInv'
  BY DEF AttemptInv, OperationIsCurrent
<1>6. ClaimInv'
  BY ReleaseClaims
<1>7. LossInv'
  BY DEF LossInv
<1> QED
  BY <1>1, <1>2, <1>3, <1>4, <1>5, <1>6, <1>7

LEMMA DropReservationKeeps ==
    ASSUME SessionInv, DropReservation
    PROVE  SessionInv'
<1> USE DEF SessionInv, DropReservation, Idle, session, writer, ghosts
<1>1. TypeOK'
  BY DropReservationTypes
<1>2. CallInv'
  BY DEF CallInv, NoCall
<1>3. StorageInv'
  BY DEF StorageInv
<1>4. JournalInv'
  BY DEF JournalInv
<1>5. AttemptInv'
  BY DEF AttemptInv, OperationIsCurrent
<1>6. ClaimInv'
  BY DropReservationClaims
<1>7. LossInv'
  BY DEF LossInv
<1> QED
  BY <1>1, <1>2, <1>3, <1>4, <1>5, <1>6, <1>7

LEMMA BeginAttemptKeeps ==
    ASSUME SessionInv, BeginAttempt
    PROVE  SessionInv'
<1> USE DEF SessionInv, BeginAttempt, Idle, HasOperation, session, writer, ghosts
<1>1. TypeOK'
  BY BoundsAssumption DEF TypeOK, Attempts
<1>2. CallInv'
  BY DEF CallInv
<1>3. StorageInv'
  BY DEF StorageInv
<1>4. JournalInv'
  BY DEF JournalInv
<1>5. AttemptInv'
  BY DEF AttemptInv, OperationIsCurrent
<1>6. ClaimInv'
  BY SameReserved DEF ClaimInv, CapacityProtected, OperationIsClaim
<1>7. LossInv'
  BY DEF LossInv
<1> QED
  BY <1>1, <1>2, <1>3, <1>4, <1>5, <1>6, <1>7

LEMMA RetireAttemptKeeps ==
    ASSUME SessionInv, RetireAttempt
    PROVE  SessionInv'
<1> USE DEF SessionInv, RetireAttempt, Idle, NoAttempt, session, writer, ghosts
<1>1. TypeOK'
  BY BoundsAssumption DEF TypeOK, Attempts
<1>2. CallInv'
  BY DEF CallInv, NoCall
<1>3. StorageInv'
  BY DEF StorageInv
<1>4. JournalInv'
  BY DEF JournalInv
<1>5. AttemptInv'
  BY DEF AttemptInv, OperationIsCurrent
<1>6. ClaimInv'
  BY SameReserved DEF ClaimInv, CapacityProtected, OperationIsClaim, HasOperation
<1>7. LossInv'
  BY DEF LossInv
<1> QED
  BY <1>1, <1>2, <1>3, <1>4, <1>5, <1>6, <1>7

LEMMA AppendPrunePairKeeps ==
    ASSUME SessionInv, NEW overflow \in BOOLEAN, AppendPrunePair(overflow)
    PROVE  SessionInv'
<1> USE DEF SessionInv, AppendPrunePair, PrunePair, Idle, Active, HasOperation, Close, session,
            writer, ghosts
<1>1. TypeOK'
  BY AppendPrunePairTypes
<1>2. CallInv'
  BY DEF CallInv
<1>3. StorageInv'
  BY DEF StorageInv, NoCall
<1>4. JournalInv'
  BY DEF JournalInv
<1>5. AttemptInv'
  BY DEF TypeOK, AttemptInv, OperationIsCurrent, NoOperation
<1>6. ClaimInv'
  BY AppendPrunePairClaims
<1>7. LossInv'
  BY DEF LossInv
<1> QED
  BY <1>1, <1>2, <1>3, <1>4, <1>5, <1>6, <1>7

LEMMA AppendOrdinaryKeeps ==
    ASSUME SessionInv, AppendOrdinary
    PROVE  SessionInv'
<1> USE DEF SessionInv, AppendOrdinary, Install, Calling, Idle, HasOperation, session, writer,
            ghosts
<1>1. TypeOK'
  BY ReservedType DEF TypeOK, Operations, Owners, Calls, Heads
<1>2. CallInv'
  BY DEF CallInv, NoOperation
<1>3. StorageInv'
  BY DEF StorageInv
<1>4. JournalInv'
  BY DEF JournalInv
<1>5. AttemptInv'
  BY DEF AttemptInv, OperationIsCurrent
<1>6. ClaimInv'
  BY InstallClaims
<1>7. LossInv'
  BY DEF LossInv
<1> QED
  BY <1>1, <1>2, <1>3, <1>4, <1>5, <1>6, <1>7

LEMMA AppendOfAttemptKeeps ==
    ASSUME SessionInv, NEW owner \in {"chunk", "closure"}, AppendOfAttempt(owner)
    PROVE  SessionInv'
<1> USE DEF SessionInv, AppendOfAttempt, Install, Calling, Idle, HasOperation, session, writer,
            ghosts
<1>1. TypeOK'
  BY ReservedType DEF TypeOK, Operations, Owners, Calls, Heads
<1>2. CallInv'
  BY DEF CallInv, NoOperation
<1>3. StorageInv'
  BY DEF StorageInv
<1>4. JournalInv'
  BY DEF JournalInv
<1>5. AttemptInv'
  BY DEF AttemptInv, OperationIsCurrent
<1>6. ClaimInv'
  BY InstallClaims
<1>7. LossInv'
  BY DEF LossInv
<1> QED
  BY <1>1, <1>2, <1>3, <1>4, <1>5, <1>6, <1>7

LEMMA SettleClaimKeeps ==
    ASSUME SessionInv, NEW c \in Claims, NEW owner \in {"claim", "claimedClosure"},
           NEW kind \in ClaimKinds, SettleClaim(c, owner, kind)
    PROVE  SessionInv'
<1> USE DEF SessionInv, SettleClaim, Install, Calling, Idle, HasOperation, session, writer,
            ghosts
<1>1. TypeOK'
  BY SettleClaimTypes
<1>2. CallInv'
  BY DEF CallInv, NoOperation
<1>3. StorageInv'
  BY DEF StorageInv
<1>4. JournalInv'
  BY DEF JournalInv
<1>5. AttemptInv'
  BY DEF AttemptInv, OperationIsCurrent
<1>6. ClaimInv'
  BY SettleClaimClaims
<1>7. LossInv'
  BY DEF LossInv
<1> QED
  BY <1>1, <1>2, <1>3, <1>4, <1>5, <1>6, <1>7

LEMMA ResumeKeeps ==
    ASSUME SessionInv, Resume
    PROVE  SessionInv'
<1> USE DEF SessionInv, Resume, Calling, Idle, session, writer, ghosts
<1>1. TypeOK'
  BY DEF TypeOK, Calls, Heads
<1>2. CallInv'
  BY DEF CallInv, HasOperation, NoOperation
<1>3. StorageInv'
  BY DEF StorageInv
<1>4. JournalInv'
  BY DEF JournalInv
<1>5. AttemptInv'
  BY DEF AttemptInv, OperationIsCurrent
<1>6. ClaimInv'
  BY SameReserved DEF ClaimInv, CapacityProtected, OperationIsClaim, HasOperation
<1>7. LossInv'
  BY DEF LossInv
<1> QED
  BY <1>1, <1>2, <1>3, <1>4, <1>5, <1>6, <1>7

LEMMA BeginBarrierKeeps ==
    ASSUME SessionInv, NEW method \in {"barrier", "inspect"}, BeginBarrier(method)
    PROVE  SessionInv'
<1> USE DEF SessionInv, BeginBarrier, Calling, Idle, HasOperation, session, writer, ghosts
<1>1. TypeOK'
  BY DEF TypeOK, Calls, Heads
<1>2. CallInv'
  BY DEF CallInv, OperationIsClaim
<1>3. StorageInv'
  BY DEF StorageInv
<1>4. JournalInv'
  BY DEF JournalInv
<1>5. AttemptInv'
  BY DEF AttemptInv, OperationIsCurrent
<1>6. ClaimInv'
  BY SameReserved DEF ClaimInv, CapacityProtected, OperationIsClaim
<1>7. LossInv'
  BY DEF LossInv
<1> QED
  BY <1>1, <1>2, <1>3, <1>4, <1>5, <1>6, <1>7

LEMMA BeginReadRowKeeps ==
    ASSUME SessionInv, BeginReadRow
    PROVE  SessionInv'
<1> USE DEF SessionInv, BeginReadRow, Calling, Idle, Active, HasOperation, session, writer,
            ghosts
<1>1. TypeOK'
  BY DEF TypeOK, Calls, Awaits
<1>2. CallInv'
  BY DEF CallInv
<1>3. StorageInv'
  BY DEF StorageInv
<1>4. JournalInv'
  BY DEF JournalInv
<1>5. AttemptInv'
  BY DEF AttemptInv, OperationIsCurrent
<1>6. ClaimInv'
  BY SameReserved DEF ClaimInv, CapacityProtected, OperationIsClaim
<1>7. LossInv'
  BY DEF LossInv
<1> QED
  BY <1>1, <1>2, <1>3, <1>4, <1>5, <1>6, <1>7

LEMMA BeginMaterializeKeeps ==
    ASSUME SessionInv, BeginMaterialize
    PROVE  SessionInv'
<1> USE DEF SessionInv, BeginMaterialize, Calling, Idle, session, writer, ghosts
<1>1. TypeOK'
  BY DEF TypeOK, Calls, Awaits
<1>2. CallInv'
  BY DEF CallInv
<1>3. StorageInv'
  BY DEF StorageInv
<1>4. JournalInv'
  BY DEF JournalInv
<1>5. AttemptInv'
  BY DEF AttemptInv, OperationIsCurrent
<1>6. ClaimInv'
  BY SameReserved DEF ClaimInv, CapacityProtected, OperationIsClaim, HasOperation
<1>7. LossInv'
  BY DEF LossInv
<1> QED
  BY <1>1, <1>2, <1>3, <1>4, <1>5, <1>6, <1>7

LEMMA BeginShutdownKeeps ==
    ASSUME SessionInv, BeginShutdown
    PROVE  SessionInv'
<1> USE DEF SessionInv, BeginShutdown, Verdict, Calling, Idle, HasOperation, session, writer,
            ghosts
<1>1. TypeOK'
  BY BeginShutdownTypes
<1>2. CallInv'
  BY DEF CallInv, NoCall
<1>3. StorageInv'
  BY DEF StorageInv, NoCall
<1>4. JournalInv'
  BY DEF JournalInv
<1>5. AttemptInv'
  BY DEF AttemptInv, OperationIsCurrent
<1>6. ClaimInv'
  BY SameReserved DEF ClaimInv, CapacityProtected, OperationIsClaim
<1>7. LossInv'
  BY DEF LossInv
<1> QED
  BY <1>1, <1>2, <1>3, <1>4, <1>5, <1>6, <1>7

LEMMA ReadyKeeps ==
    ASSUME SessionInv, Ready
    PROVE  SessionInv'
<1> USE DEF SessionInv, Ready, Verdict, Calling, HasOperation, session, writer, ghosts
<1>1. TypeOK'
  BY ReadyTypes
<1>2. CallInv'
  BY DEF TypeOK, CallInv, NoCall, Calls
<1>3. StorageInv'
  BY DEF StorageInv, NoCall
<1>4. JournalInv'
  BY DEF JournalInv
<1>5. AttemptInv'
  BY DEF AttemptInv, OperationIsCurrent
<1>6. ClaimInv'
  BY SameReserved DEF ClaimInv, CapacityProtected, OperationIsClaim
<1>7. LossInv'
  BY DEF LossInv
<1> QED
  BY <1>1, <1>2, <1>3, <1>4, <1>5, <1>6, <1>7

LEMMA CommitKeeps ==
    ASSUME SessionInv, Commit
    PROVE  SessionInv'
<1> USE DEF SessionInv, Commit, MayCommit, Active, Close, Calling, session, writer, ghosts
<1>1. TypeOK'
  BY CommitTypes
<1>2. CallInv'
  BY DEF CallInv, NoCall
<1>3. StorageInv'
  BY DEF StorageInv, NoCall
<1>4. JournalInv'
  BY DEF JournalInv
<1>5. AttemptInv'
  BY DEF TypeOK, AttemptInv, OperationIsCurrent, NoOperation
<1>6. ClaimInv'
  BY CommitClaims
<1>7. LossInv'
  BY DEF LossInv
<1> QED
  BY <1>1, <1>2, <1>3, <1>4, <1>5, <1>6, <1>7

LEMMA NeedsStorageSettleKeeps ==
    ASSUME SessionInv, NeedsStorageSettle
    PROVE  SessionInv'
<1> USE DEF SessionInv, NeedsStorageSettle, MayCommit, Active, Calling, session, writer, ghosts
<1>1. TypeOK'
  BY DEF TypeOK, Calls, Awaits
<1>2. CallInv'
  BY DEF CallInv, OperationIsClaim, HasOperation, NoCall
<1>3. StorageInv'
  BY DEF StorageInv
<1>4. JournalInv'
  BY DEF JournalInv
<1>5. AttemptInv'
  BY DEF AttemptInv, OperationIsCurrent
<1>6. ClaimInv'
  BY SameReserved DEF ClaimInv, CapacityProtected, OperationIsClaim, HasOperation
<1>7. LossInv'
  BY DEF LossInv
<1> QED
  BY <1>1, <1>2, <1>3, <1>4, <1>5, <1>6, <1>7

LEMMA StageBatchKeeps ==
    ASSUME SessionInv, StageBatch
    PROVE  SessionInv'
<1> USE DEF SessionInv, StageBatch, Flushing, AfterFlush, Calling, session, writer, ghosts
<1>1. TypeOK'
  BY StageBatchTypes
<1>2. CallInv'
  BY DEF CallInv, OperationIsClaim, HasOperation, NoCall
<1>3. StorageInv'
  BY DEF StorageInv
<1>4. JournalInv'
  BY StageBatchTypes
<1>5. AttemptInv'
  BY DEF AttemptInv, OperationIsCurrent
<1>6. ClaimInv'
  BY SameReserved DEF ClaimInv, CapacityProtected, OperationIsClaim, HasOperation
<1>7. LossInv'
  BY DEF LossInv
<1> QED
  BY <1>1, <1>2, <1>3, <1>4, <1>5, <1>6, <1>7

LEMMA FlushedKeeps ==
    ASSUME SessionInv, Flushed
    PROVE  SessionInv'
<1> USE DEF SessionInv, Flushed, Awaiting, AfterFlush, Calling, session, writer, ghosts
<1>1. TypeOK'
  BY DEF TypeOK, Calls, Heads, Awaits
<1>2. CallInv'
  BY DEF CallInv, OperationIsClaim, HasOperation, NoCall
<1>3. StorageInv'
  BY DEF StorageInv
<1>4. JournalInv'
  BY DEF JournalInv
<1>5. AttemptInv'
  BY DEF AttemptInv, OperationIsCurrent
<1>6. ClaimInv'
  BY SameReserved DEF ClaimInv, CapacityProtected, OperationIsClaim, HasOperation
<1>7. LossInv'
  BY DEF LossInv
<1> QED
  BY <1>1, <1>2, <1>3, <1>4, <1>5, <1>6, <1>7

LEMMA EnterBatchKeeps ==
    ASSUME SessionInv, EnterBatch
    PROVE  SessionInv'
<1> USE DEF SessionInv, EnterBatch, Idle, Calling, session, writer, ghosts
<1>1. TypeOK'
  BY DEF TypeOK, Calls, Awaits
<1>2. CallInv'
  BY DEF CallInv
<1>3. StorageInv'
  BY DEF StorageInv
<1>4. JournalInv'
  BY DEF JournalInv
<1>5. AttemptInv'
  BY DEF AttemptInv, OperationIsCurrent
<1>6. ClaimInv'
  BY SameReserved DEF ClaimInv, CapacityProtected, OperationIsClaim, HasOperation
<1>7. LossInv'
  BY DEF LossInv
<1> QED
  BY <1>1, <1>2, <1>3, <1>4, <1>5, <1>6, <1>7

LEMMA SendCommandKeeps ==
    ASSUME SessionInv, SendCommand
    PROVE  SessionInv'
<1> USE DEF SessionInv, SendCommand, session, writer, ghosts
<1>1. TypeOK'
  BY DEF TypeOK
<1>2. CallInv'
  BY DEF CallInv
<1>3. StorageInv'
  BY SendCommandStorage
<1>4. JournalInv'
  BY DEF JournalInv
<1>5. AttemptInv'
  BY DEF AttemptInv, OperationIsCurrent
<1>6. ClaimInv'
  BY SameReserved DEF ClaimInv, CapacityProtected, OperationIsClaim, HasOperation
<1>7. LossInv'
  BY DEF LossInv
<1> QED
  BY <1>1, <1>2, <1>3, <1>4, <1>5, <1>6, <1>7

LEMMA BarrierFailedKeeps ==
    ASSUME SessionInv, BarrierFailed
    PROVE  SessionInv'
<1> USE DEF SessionInv, BarrierFailed, session, writer, ghosts
<1>1. TypeOK'
  BY EndTypes
<1>2. CallInv'
  BY DEF CallInv, NoCall
<1>3. StorageInv'
  BY DEF StorageInv, NoCall
<1>4. JournalInv'
  BY DEF JournalInv
<1>5. AttemptInv'
  BY DEF AttemptInv, OperationIsCurrent
<1>6. ClaimInv'
  BY SameReserved DEF ClaimInv, CapacityProtected, OperationIsClaim, HasOperation
<1>7. LossInv'
  BY DEF LossInv
<1> QED
  BY <1>1, <1>2, <1>3, <1>4, <1>5, <1>6, <1>7

LEMMA ReadDoneKeeps ==
    ASSUME SessionInv, ReadDone
    PROVE  SessionInv'
<1> USE DEF SessionInv, ReadDone, session, writer, ghosts
<1>1. TypeOK'
  BY NoneTypes DEF TypeOK
<1>2. CallInv'
  BY DEF CallInv, NoCall
<1>3. StorageInv'
  BY DEF StorageInv, NoCall
<1>4. JournalInv'
  BY DEF JournalInv
<1>5. AttemptInv'
  BY DEF AttemptInv, OperationIsCurrent
<1>6. ClaimInv'
  BY SameReserved DEF ClaimInv, CapacityProtected, OperationIsClaim, HasOperation
<1>7. LossInv'
  BY DEF LossInv
<1> QED
  BY <1>1, <1>2, <1>3, <1>4, <1>5, <1>6, <1>7

LEMMA ReadFailedKeeps ==
    ASSUME SessionInv, ReadFailed
    PROVE  SessionInv'
<1> USE DEF SessionInv, ReadFailed, session, writer, ghosts
<1>1. TypeOK'
  BY EndTypes
<1>2. CallInv'
  BY DEF CallInv, NoCall
<1>3. StorageInv'
  BY DEF StorageInv, NoCall
<1>4. JournalInv'
  BY DEF JournalInv
<1>5. AttemptInv'
  BY DEF AttemptInv, OperationIsCurrent
<1>6. ClaimInv'
  BY SameReserved DEF ClaimInv, CapacityProtected, OperationIsClaim, HasOperation
<1>7. LossInv'
  BY DEF LossInv
<1> QED
  BY <1>1, <1>2, <1>3, <1>4, <1>5, <1>6, <1>7

LEMMA FinishedKeeps ==
    ASSUME SessionInv, Finished
    PROVE  SessionInv'
<1> USE DEF SessionInv, Finished, Verdict, session, writer, ghosts
<1>1. TypeOK'
  BY EndTypes
<1>2. CallInv'
  BY DEF CallInv, NoCall
<1>3. StorageInv'
  BY DEF StorageInv, NoCall
<1>4. JournalInv'
  BY DEF JournalInv
<1>5. AttemptInv'
  BY DEF AttemptInv, OperationIsCurrent
<1>6. ClaimInv'
  BY SameReserved DEF ClaimInv, CapacityProtected, OperationIsClaim, HasOperation
<1>7. LossInv'
  BY DEF LossInv
<1> QED
  BY <1>1, <1>2, <1>3, <1>4, <1>5, <1>6, <1>7

LEMMA WriterSyncsKeeps ==
    ASSUME SessionInv, WriterSyncs
    PROVE  SessionInv'
<1> USE DEF SessionInv, WriterSyncs, session, writer, ghosts
<1>1. TypeOK'
  BY DEF TypeOK
<1>2. CallInv'
  BY DEF CallInv, OperationIsClaim, HasOperation
<1>3. StorageInv'
  BY DEF StorageInv
<1>4. JournalInv'
  BY DEF JournalInv
<1>5. AttemptInv'
  BY DEF TypeOK, AttemptInv, OperationIsCurrent
<1>6. ClaimInv'
  BY SameReserved DEF ClaimInv, CapacityProtected, OperationIsClaim, HasOperation
<1>7. LossInv'
  BY DEF LossInv
<1> QED
  BY <1>1, <1>2, <1>3, <1>4, <1>5, <1>6, <1>7

LEMMA WriterFailsKeeps ==
    ASSUME SessionInv, WriterFails
    PROVE  SessionInv'
<1> USE DEF SessionInv, WriterFails, session, writer, ghosts
<1>1. TypeOK'
  BY DEF TypeOK
<1>2. CallInv'
  BY DEF CallInv, OperationIsClaim, HasOperation
<1>3. StorageInv'
  BY DEF StorageInv
<1>4. JournalInv'
  BY DEF JournalInv
<1>5. AttemptInv'
  BY DEF AttemptInv, OperationIsCurrent
<1>6. ClaimInv'
  BY SameReserved DEF ClaimInv, CapacityProtected, OperationIsClaim, HasOperation
<1>7. LossInv'
  BY DEF LossInv
<1> QED
  BY <1>1, <1>2, <1>3, <1>4, <1>5, <1>6, <1>7

LEMMA CancelKeeps ==
    ASSUME SessionInv, Cancel
    PROVE  SessionInv'
<1> USE DEF SessionInv, Cancel, Awaiting, session, writer, ghosts
<1>1. TypeOK'
  BY NoneTypes DEF TypeOK
<1>2. CallInv'
  BY DEF CallInv, NoCall
<1>3. StorageInv'
  BY DEF StorageInv, NoCall
<1>4. JournalInv'
  BY DEF JournalInv
<1>5. AttemptInv'
  BY DEF AttemptInv, OperationIsCurrent
<1>6. ClaimInv'
  BY SameReserved DEF ClaimInv, CapacityProtected, OperationIsClaim, HasOperation
<1>7. LossInv'
  BY DEF LossInv
<1> QED
  BY <1>1, <1>2, <1>3, <1>4, <1>5, <1>6, <1>7

LEMMA SessionInit == Init => SessionInv
<1> SUFFICES ASSUME Init PROVE SessionInv
  OBVIOUS
<1>1. TypeOK
  <2>1. attempt \in Attempts
    BY BoundsAssumption DEF Init, NoAttempt, Attempts
  <2> QED
    <3>1. claims \in [Claims -> ClaimStates] /\ paid \in [Claims -> Nat]
      BY DEF Init, ClaimStates
    <3>2. batch \in Seq(1 .. MaxEvents) /\ Len(batch) = 0 /\ journal \in Seq(1 .. MaxEvents)
          /\ synced \in 0 .. Len(journal)
      BY DEF Init
    <3>3. /\ committed \in 0 .. MaxEvents /\ covered \in 0 .. MaxEvents
          /\ epoch \in 0 .. MaxEpoch /\ Len(batch) <= 2
      BY <3>2, BoundsAssumption DEF Init
    <3>4. /\ operation \in Operations /\ call \in Calls
          /\ firstError \in BOOLEAN /\ barrierError \in BOOLEAN /\ owed \in BOOLEAN
          /\ poisoned \in BOOLEAN
      BY NoneTypes DEF Init
    <3>5. /\ storage = "deferred" /\ lifecycle = "running" /\ busy = "none"
      BY DEF Init
    <3> QED
      BY <2>1, <3>1, <3>2, <3>3, <3>4, <3>5 DEF TypeOK
<1>2. CallInv /\ StorageInv /\ JournalInv /\ LossInv
  BY NoneTypes DEF Init, CallInv, StorageInv, JournalInv, LossInv
<1>3. AttemptInv
  BY NoneTypes DEF Init, AttemptInv, OperationIsCurrent, NoAttempt
<1>4. Reserved = 0
  <2>1. Unsettled = {}
    BY DEF Init, Unsettled
  <2> QED
    BY <2>1, FS_EmptySet DEF Reserved
<1>5. ClaimInv
  BY <1>4, NoneTypes, NoClaimAssumption, BoundsAssumption
     DEF Init, ClaimInv, CapacityProtected, OperationIsClaim, HasOperation
<1> QED
  BY <1>1, <1>2, <1>3, <1>5 DEF SessionInv

LEMMA SessionStep == SessionInv /\ [Next]_vars => SessionInv'
<1> SUFFICES ASSUME SessionInv, [Next]_vars PROVE SessionInv'
  OBVIOUS
<1>1. CASE UNCHANGED vars
  BY <1>1, SameReserved
     DEF vars, SessionInv, TypeOK, CallInv, StorageInv, JournalInv, AttemptInv, ClaimInv, LossInv,
         CapacityProtected, OperationIsCurrent, OperationIsClaim, HasOperation
<1>2. CASE \/ \E c \in Claims : MakeClaim(c) \/ Release(c)
           \/ DropReservation \/ BeginAttempt \/ RetireAttempt
           \/ \E overflow \in BOOLEAN : AppendPrunePair(overflow)
  BY <1>2, MakeClaimKeeps, ReleaseKeeps, DropReservationKeeps, BeginAttemptKeeps,
     RetireAttemptKeeps, AppendPrunePairKeeps
<1>3. CASE Begin
  BY <1>3, AppendOrdinaryKeeps, ResumeKeeps, AppendOfAttemptKeeps, SettleClaimKeeps,
     BeginBarrierKeeps, BeginReadRowKeeps, BeginMaterializeKeeps, BeginShutdownKeeps
     DEF Begin
<1>4. CASE Poll
  BY <1>4, ReadyKeeps, CommitKeeps, NeedsStorageSettleKeeps, RefusedKeeps, StageBatchKeeps,
     FlushedKeeps, FlushFailedKeeps, EnterBatchKeeps, SendCommandKeeps, BarrierDoneKeeps,
     BarrierFailedKeeps, ReadDoneKeeps, ReadFailedKeeps, FinishedKeeps
     DEF Poll
<1>5. CASE WriterSyncs \/ WriterFails \/ Cancel
  BY <1>5, WriterSyncsKeeps, WriterFailsKeeps, CancelKeeps
<1> QED
  BY <1>1, <1>2, <1>3, <1>4, <1>5 DEF Next

\* The owner of a session keeps its parts in agreement at every await, however calls
\* are dropped between them and whatever fails below.
THEOREM SessionHolds == Spec => []SessionInv
  BY SessionInit, SessionStep, PTL DEF Spec

\* An operation that a barrier or a shutdown dropped for a caller who stopped waiting
\* is answered by an error of that call or of a later one.
THEOREM NothingIsLostSilently == Spec => []NoSilentLoss
<1>1. SessionInv => NoSilentLoss
  BY DEF SessionInv, LossInv, NoSilentLoss
<1> QED
  BY <1>1, SessionHolds, PTL

\* Claims pay once, wait only with their operation, and keep their room, and no row
\* outlives its attempt, for any number of claims and any limit.
THEOREM ClaimsStaySound == Spec => []ClaimsSound
<1>1. SessionInv => ClaimsSound
  <2> SUFFICES ASSUME SessionInv PROVE ClaimsSound
    OBVIOUS
  <2>1. ClaimPaysOnce
    BY DEF SessionInv, ClaimInv, ClaimPaysOnce
  <2>2. ClaimOwnsOperation
    <3> SUFFICES ASSUME lifecycle = "running", NEW c \in Claims
                 PROVE  operation.claim = c <=>
                          claims[c] = IF operation.kind \in FallbackKinds
                                      THEN "pendingFallback" ELSE "pendingPreferred"
      BY DEF ClaimOwnsOperation
    <3> QED
      BY DEF SessionInv, ClaimInv
  <2>3. OperationIsCurrent /\ CapacityProtected
    BY DEF SessionInv, AttemptInv, ClaimInv
  <2> QED
    BY <2>1, <2>2, <2>3 DEF ClaimsSound
<1> QED
  BY <1>1, SessionHolds, PTL

-----------------------------------------------------------------------------
(* What may leave the owner, and when. *)

\* Only a commit or, in a shutdown, a rejection ends an operation that is kept.
LEMMA KeptOperation ==
    ASSUME SessionInv, Next, operation.kind = "preferredOnly",
           operation'.kind # operation.kind, lifecycle = "running"
    PROVE  committed' = committed + 1
<1>1. OperationIsClaim /\ HasOperation
  BY NoneTypes DEF SessionInv, ClaimInv, HasOperation
<1>2. operation # operation' /\ operation \in Operations
  BY DEF SessionInv, TypeOK
<1>3. Commit \/ Refused \/ FlushFailed \/ DropReservation
  BY <1>1, <1>2
     DEF Next, Begin, Poll, MakeClaim, Release, BeginAttempt, RetireAttempt, AppendPrunePair,
         PrunePair, AppendOrdinary, AppendOfAttempt, SettleClaim, Install, Resume, BeginBarrier,
         BeginReadRow, BeginMaterialize, BeginShutdown, Ready, NeedsStorageSettle, StageBatch,
         Flushed, EnterBatch, SendCommand, BarrierDone, BarrierFailed, ReadDone, ReadFailed,
         Finished, WriterSyncs, WriterFails, Cancel
<1>4. CASE Commit
  BY <1>4 DEF Commit
<1>5. CASE Refused \/ FlushFailed
  <2>1. PICK nowFailed \in BOOLEAN : Reject(nowFailed)
    BY <1>2, <1>5 DEF Refused, FlushFailed
  <2>2. call.method # "append"
    BY <1>2, <2>1 DEF Reject, RejectedBy
  <2>3. call.at \in {"operation", "drain", "drained"}
    BY <1>2, <1>5 DEF Refused, FlushFailed
  <2> QED
    BY <1>1, <2>2, <2>3 DEF SessionInv, TypeOK, CallInv, Calls, NoCall
<1>6. CASE DropReservation
  BY <1>2, <1>6 DEF DropReservation, Operations
<1> QED
  BY <1>3, <1>4, <1>5, <1>6

LEMMA RetiredAttempt ==
    ASSUME SessionInv, Next, attempt.phase # "none", attempt'.phase = "none"
    PROVE  attempt.closure \in 1 .. synced
<1>1. attempt \in Attempts /\ synced \in Nat
  BY DEF SessionInv, TypeOK
<1>2. RetireAttempt \/ BeginAttempt \/ Commit \/ DropReservation
      \/ \E overflow \in BOOLEAN : AppendPrunePair(overflow)
  <2> SUFFICES ASSUME ~Commit, ~DropReservation, ~BeginAttempt,
                      ~\E overflow \in BOOLEAN : AppendPrunePair(overflow)
               PROVE  RetireAttempt
    OBVIOUS
  <2>1. attempt' # attempt
    OBVIOUS
  <2> QED
    BY <2>1
       DEF Next, Begin, Poll, MakeClaim, Release, AppendOrdinary, AppendOfAttempt, SettleClaim,
           Install, Resume, BeginBarrier, BeginReadRow, BeginMaterialize, BeginShutdown, Ready,
           NeedsStorageSettle, Refused, StageBatch, Flushed, FlushFailed, EnterBatch, SendCommand,
           BarrierDone, BarrierFailed, ReadDone, ReadFailed, Finished, WriterSyncs, WriterFails,
           Cancel
<1>3. ~BeginAttempt
  BY DEF BeginAttempt
<1>4. ~DropReservation
  BY <1>1 DEF DropReservation, Attempts
<1>5. ~Commit
  BY DEF Commit, Close
<1>6. ~\E overflow \in BOOLEAN : AppendPrunePair(overflow)
  BY DEF AppendPrunePair, PrunePair, Close
<1> QED
  BY <1>1, <1>2, <1>3, <1>4, <1>5, <1>6 DEF RetireAttempt, SessionInv, AttemptInv

\* An attempt is retired only when its closure survives a crash, and the recorded result
\* of an irreversible tool leaves only by being committed.
THEOREM NothingLeavesBeforeItsTime == Spec => NothingLeavesEarly
<1>1. SessionInv /\ [Next]_vars =>
        [/\ attempt.phase # "none" /\ attempt'.phase = "none" =>
              attempt.closure \in 1..synced
         /\ operation.kind = "preferredOnly" /\ operation'.kind # operation.kind
            /\ lifecycle = "running" =>
              committed' = committed + 1]_vars
  BY KeptOperation, RetiredAttempt
<1> QED
  BY <1>1, SessionHolds, PTL DEF Spec, NothingLeavesEarly

-----------------------------------------------------------------------------
(* The durable log that the owner implements. *)

Fate == IF storage = "closed" THEN "clean" ELSE IF storage = "failed" THEN "failed" ELSE "open"

LEMMA FirstEventsFacts ==
    ASSUME NEW n \in Nat
    PROVE  /\ FirstEvents(n) \in Seq(Nat) /\ Len(FirstEvents(n)) = n
           /\ FirstEvents(n + 1) = FirstEvents(n) \o <<n + 1>>
           /\ FirstEvents(n + 2) = FirstEvents(n) \o <<n + 1, n + 2>>
           /\ \A m \in 0 .. n : SubSeq(FirstEvents(n), 1, m) = FirstEvents(m)
<1>1. FirstEvents(n) \in Seq(Nat) /\ Len(FirstEvents(n)) = n
  BY DEF FirstEvents
<1>2. FirstEvents(n + 1) = FirstEvents(n) \o <<n + 1>>
  BY DEF FirstEvents
<1>3. FirstEvents(n + 2) = FirstEvents(n) \o <<n + 1, n + 2>>
  BY DEF FirstEvents
<1>4. ASSUME NEW m \in 0 .. n PROVE SubSeq(FirstEvents(n), 1, m) = FirstEvents(m)
  BY DEF FirstEvents
<1> QED
  BY <1>1, <1>2, <1>3, <1>4

\* What survives are the first events.
LEMMA StableIsPrefix ==
    ASSUME SessionInv
    PROVE  SubSeq(journal, 1, synced) = FirstEvents(synced) /\ synced \in 0 .. committed
<1>1. /\ journal \in Seq(1 .. MaxEvents) /\ synced \in 0 .. Len(journal)
      /\ \A i \in DOMAIN journal : journal[i] = i
      /\ committed = Len(journal) + Len(batch) /\ Len(batch) \in Nat
  BY DEF SessionInv, TypeOK, JournalInv
<1>2. journal = FirstEvents(Len(journal))
  BY <1>1 DEF FirstEvents
<1>3. Len(journal) \in Nat /\ synced \in 0 .. Len(journal) /\ synced \in 0 .. committed
  BY <1>1
<1>4. SubSeq(FirstEvents(Len(journal)), 1, synced) = FirstEvents(synced)
  BY <1>3, FirstEventsFacts
<1> QED
  BY <1>2, <1>3, <1>4

LEMMA StableIsPrefixNext ==
    ASSUME SessionInv'
    PROVE  SubSeq(journal', 1, synced') = FirstEvents(synced') /\ synced' \in 0 .. committed'
<1>1. /\ journal' \in Seq(1 .. MaxEvents) /\ synced' \in 0 .. Len(journal')
      /\ \A i \in DOMAIN journal' : journal'[i] = i
      /\ committed' = Len(journal') + Len(batch') /\ Len(batch') \in Nat
  BY DEF SessionInv, TypeOK, JournalInv
<1>2. journal' = FirstEvents(Len(journal'))
  BY <1>1 DEF FirstEvents
<1>3. Len(journal') \in Nat /\ synced' \in 0 .. Len(journal') /\ synced' \in 0 .. committed'
  BY <1>1
<1>4. SubSeq(FirstEvents(Len(journal')), 1, synced') = FirstEvents(synced')
  BY <1>3, FirstEventsFacts
<1> QED
  BY <1>2, <1>3, <1>4

\* Steps that the log does not see.
LEMMA QuietStutters ==
    ASSUME SessionInv, SessionInv', UNCHANGED <<committed, synced, covered>>, Fate' = Fate
    PROVE  UNCHANGED Log!vars
<1>1. SubSeq(journal', 1, synced') = SubSeq(journal, 1, synced)
  BY StableIsPrefix, StableIsPrefixNext
<1> QED
  BY <1>1 DEF Log!vars, Fate

LEMMA FailureCloses ==
    ASSUME SessionInv, SessionInv', UNCHANGED <<committed, synced, covered>>,
           storage # "closed", storage' = "failed"
    PROVE  [Log!Next]_Log!vars
<1>1. CASE storage = "failed"
  BY <1>1, QuietStutters DEF Fate
<1>2. CASE storage # "failed"
  <2>1. SubSeq(journal', 1, synced') = SubSeq(journal, 1, synced)
    BY StableIsPrefix, StableIsPrefixNext
  <2>2. Log!CloseFailed
    BY <1>2, <2>1 DEF Log!CloseFailed
  <2> QED
    BY <2>2 DEF Log!Next
<1> QED
  BY <1>1, <1>2

LEMMA CommitAccepts ==
    ASSUME SessionInv, SessionInv', Commit \/ \E overflow \in BOOLEAN : AppendPrunePair(overflow)
    PROVE  Log!Next
<1>1. /\ storage = "active" /\ storage' = "active"
      /\ UNCHANGED <<synced, covered>>
      /\ batch' \in {<<committed + 1>>, <<committed + 1, committed + 2>>}
      /\ committed' = committed + Len(batch')
  BY DEF Commit, MayCommit, Active, AppendPrunePair, PrunePair, session, writer, ghosts
<1>2. committed \in Nat /\ committed' \in 0 .. MaxEvents /\ MaxEvents \in Nat
  BY BoundsAssumption DEF SessionInv, TypeOK
<1>3. FirstEvents(committed') = FirstEvents(committed) \o batch'
  <2>1. CASE batch' = <<committed + 1>>
    BY <1>1, <1>2, <2>1, FirstEventsFacts
  <2>2. CASE batch' = <<committed + 1, committed + 2>>
    BY <1>1, <1>2, <2>2, FirstEventsFacts
  <2> QED
    BY <1>1, <2>1, <2>2
<1> DEFINE Accepted == {<<e>> : e \in 1..MaxEvents} \cup {<<e, e + 1>> : e \in 1..MaxEvents - 1}
<1>4. batch' \in Accepted
  <2>1. CASE batch' = <<committed + 1>>
    <3>1. committed + 1 \in 1 .. MaxEvents
      BY <1>1, <1>2, <2>1
    <3> QED
      BY <2>1, <3>1
  <2>2. CASE batch' = <<committed + 1, committed + 2>>
    <3>1. committed + 1 \in 1 .. MaxEvents - 1 /\ committed + 2 = (committed + 1) + 1
      BY <1>1, <1>2, <2>2
    <3> QED
      BY <2>2, <3>1
  <2> QED
    BY <1>1, <2>1, <2>2
<1>5. SubSeq(journal', 1, synced') = SubSeq(journal, 1, synced)
  BY <1>1, StableIsPrefix, StableIsPrefixNext
<1>6. Log!Accept(batch')
  BY <1>1, <1>3, <1>5 DEF Log!Accept
<1> QED
  BY <1>4, <1>6 DEF Log!Next

LEMMA SyncPersists ==
    ASSUME SessionInv, SessionInv', WriterSyncs
    PROVE  Log!Next
<1>1. /\ storage # "closed" /\ UNCHANGED <<storage, committed, covered>>
      /\ synced' = Len(journal) /\ UNCHANGED journal
  BY DEF WriterSyncs, SessionInv, StorageInv, session, ghosts
<1>2. /\ synced \in 0 .. committed /\ synced' \in 0 .. committed /\ committed \in Nat
      /\ synced \in 0 .. synced'
  BY <1>1, StableIsPrefix, StableIsPrefixNext DEF SessionInv, TypeOK
<1>3. /\ Len(SubSeq(journal, 1, synced)) = synced /\ Len(FirstEvents(committed)) = committed
      /\ SubSeq(journal', 1, synced') = SubSeq(FirstEvents(committed), 1, synced')
  <2>1. synced \in Nat /\ synced' \in Nat
    BY <1>2
  <2>2. Len(FirstEvents(synced)) = synced /\ Len(FirstEvents(committed)) = committed
    BY <1>2, <2>1, FirstEventsFacts
  <2>3. SubSeq(FirstEvents(committed), 1, synced') = FirstEvents(synced')
    BY <1>2, FirstEventsFacts
  <2> QED
    BY <2>2, <2>3, StableIsPrefix, StableIsPrefixNext
<1>4. Log!Persist
  BY <1>1, <1>2, <1>3 DEF Log!Persist
<1> QED
  BY <1>4 DEF Log!Next

LEMMA BarrierPromises ==
    ASSUME SessionInv, SessionInv', BarrierDone
    PROVE  [Log!Next]_Log!vars
<1>1. /\ storage = "active" /\ UNCHANGED <<storage, committed, synced>> /\ synced = committed
      /\ covered' \in {covered, committed}
  BY BarrierDoneKeeps DEF BarrierDone
<1>2. CASE covered' = covered
  BY <1>1, <1>2, QuietStutters DEF Fate
<1>3. CASE covered' = committed
  <2>1. /\ SubSeq(journal, 1, synced) = FirstEvents(committed)
        /\ SubSeq(journal', 1, synced') = SubSeq(journal, 1, synced)
        /\ Len(FirstEvents(committed)) = committed
    BY <1>1, StableIsPrefix, StableIsPrefixNext, FirstEventsFacts DEF SessionInv, TypeOK
  <2>2. Log!Promise
    BY <1>1, <1>3, <2>1 DEF Log!Promise
  <2> QED
    BY <2>2 DEF Log!Next
<1> QED
  BY <1>1, <1>2, <1>3

\* A clean end leaves nothing behind.
LEMMA CleanEnd ==
    ASSUME SessionInv, SessionInv', storage \notin {"closed", "failed"}, storage' = "closed",
           synced = committed, UNCHANGED <<committed, synced>>,
           covered' \in {covered, committed}
    PROVE  Log!Next
<1>1. /\ SubSeq(journal, 1, synced) = FirstEvents(committed)
      /\ SubSeq(journal', 1, synced') = SubSeq(journal, 1, synced)
      /\ Len(FirstEvents(committed)) = committed
  BY StableIsPrefix, StableIsPrefixNext, FirstEventsFacts DEF SessionInv, TypeOK
<1>2. Log!CloseClean
  BY <1>1 DEF Log!CloseClean
<1> QED
  BY <1>2 DEF Log!Next

LEMMA ShutdownCloses ==
    ASSUME SessionInv, SessionInv', BeginShutdown
    PROVE  [Log!Next]_Log!vars
<1>1. /\ UNCHANGED <<committed, synced>> /\ covered' \in {covered, committed}
      /\ storage' = IF storage = "deferred" THEN "closed" ELSE storage
      /\ firstError' = (firstError \/ barrierError \/ storage = "failed")
      /\ storage' \notin {"closed", "failed"} \/ firstError' => covered' = covered
  BY DEF BeginShutdown, Verdict, writer, ghosts
<1>2. CASE storage = "deferred"
  <2>1. synced = committed
    BY <1>2, StableIsPrefix DEF SessionInv, StorageInv
  <2> QED
    BY <1>1, <1>2, <2>1, CleanEnd
<1>3. CASE storage # "deferred"
  <2>1. covered' = covered
    BY <1>1, <1>3 DEF SessionInv, StorageInv
  <2> QED
    BY <1>1, <1>3, <2>1, QuietStutters DEF Fate
<1> QED
  BY <1>2, <1>3

LEMMA FinishedCloses ==
    ASSUME SessionInv, SessionInv', Finished
    PROVE  [Log!Next]_Log!vars
<1>1. /\ UNCHANGED <<committed, synced>>
      /\ covered' = IF firstError' THEN covered ELSE committed
  BY DEF Finished, Verdict
<1>2. storage # "closed"
  <2>1. call.at = "finish" /\ (call.method = "none" => call.at = "batch")
    BY DEF Finished, SessionInv, CallInv, NoCall
  <2> QED
    BY <2>1 DEF SessionInv, StorageInv
<1>3. CASE /\ storage = "finishing" /\ storage' = "closed" /\ synced = Len(journal)
  <2>1. synced = committed
    BY <1>3, StableIsPrefix DEF SessionInv, TypeOK, StorageInv, JournalInv
  <2> QED
    BY <1>1, <1>3, <2>1, CleanEnd
<1>4. CASE storage' = "failed" /\ firstError' = TRUE
  BY <1>1, <1>2, <1>4, FailureCloses
<1> QED
  BY <1>3, <1>4 DEF Finished

LEMMA FailingRefines ==
    ASSUME SessionInv, SessionInv', Ready \/ Refused \/ FlushFailed \/ BarrierFailed \/ ReadFailed
    PROVE  [Log!Next]_Log!vars
<1>1. /\ UNCHANGED <<committed, synced, covered>>
      /\ storage' = storage \/ storage' = "failed"
         \/ (storage = "starting" /\ storage' = "active")
  BY DEF Ready, Verdict, Refused, FlushFailed, Reject, RejectedBy, BarrierFailed, ReadFailed,
         SessionInv, CallInv, writer, ghosts
<1>2. storage = "closed" => storage' = storage
  <2>1. CASE Refused
    BY <2>1 DEF Refused, Reject, RejectedBy
  <2>2. CASE Ready
    BY <2>2 DEF Ready, SessionInv, CallInv
  <2>3. CASE FlushFailed \/ BarrierFailed \/ ReadFailed
    <3>1. call.at \in {"drain", "drained", "flush", "flushed", "barrier", "read"}
      BY <2>3 DEF FlushFailed, Flushing, Awaiting, BarrierFailed, ReadFailed
    <3>2. call.method = "none" => call.at = "batch"
      BY DEF SessionInv, CallInv, NoCall
    <3> QED
      BY <3>1, <3>2 DEF SessionInv, StorageInv
  <2> QED
    BY <2>1, <2>2, <2>3
<1>3. CASE storage' = storage
  BY <1>1, <1>3, QuietStutters DEF Fate
<1>4. CASE storage = "starting" /\ storage' = "active"
  BY <1>1, <1>4, QuietStutters DEF Fate
<1>5. CASE storage # "closed" /\ storage' = "failed"
  BY <1>1, <1>5, FailureCloses
<1> QED
  BY <1>1, <1>2, <1>3, <1>4, <1>5

LEMMA NextRefines ==
    ASSUME SessionInv, SessionInv', [Next]_vars
    PROVE  [Log!Next]_Log!vars
<1>1. CASE UNCHANGED vars
  BY <1>1, QuietStutters DEF vars, Fate
<1>2. CASE Commit \/ \E overflow \in BOOLEAN : AppendPrunePair(overflow)
  BY <1>2, CommitAccepts
<1>3. CASE WriterSyncs
  BY <1>3, SyncPersists
<1>4. CASE BarrierDone
  BY <1>4, BarrierPromises
<1>5. CASE BeginShutdown \/ Finished
  BY <1>5, ShutdownCloses, FinishedCloses
<1>6. CASE Ready \/ Refused \/ FlushFailed \/ BarrierFailed \/ ReadFailed
  BY <1>6, FailingRefines
<1>7. CASE \/ \E c \in Claims : MakeClaim(c) \/ Release(c)
           \/ DropReservation \/ BeginAttempt \/ RetireAttempt
           \/ WriterFails \/ Cancel
           \/ NeedsStorageSettle \/ StageBatch \/ Flushed \/ EnterBatch \/ ReadDone
           \/ AppendOrdinary \/ Resume
           \/ \E owner \in {"chunk", "closure"} : AppendOfAttempt(owner)
           \/ \E c \in Claims, owner \in {"claim", "claimedClosure"}, kind \in ClaimKinds :
                SettleClaim(c, owner, kind)
           \/ \E method \in {"barrier", "inspect"} : BeginBarrier(method)
           \/ BeginReadRow
  <2>1. UNCHANGED <<committed, synced, covered, storage>>
    BY <1>7
       DEF MakeClaim, Release, DropReservation, BeginAttempt, RetireAttempt, WriterFails, Cancel,
           NeedsStorageSettle, StageBatch, Flushed, EnterBatch, ReadDone, AppendOrdinary,
           AppendOfAttempt, SettleClaim, Install, Resume, BeginBarrier, BeginReadRow, session,
           writer, ghosts
  <2> QED
    BY <2>1, QuietStutters DEF Fate
<1>8. CASE BeginMaterialize \/ SendCommand
  <2>1. UNCHANGED <<committed, synced, covered>> /\ Fate' = Fate
    BY <1>8 DEF BeginMaterialize, SendCommand, Fate, writer, ghosts
  <2> QED
    BY <2>1, QuietStutters
<1> QED
  BY <1>1, <1>2, <1>3, <1>4, <1>5, <1>6, <1>7, <1>8 DEF Next, Begin, Poll

LEMMA InitRefines ==
    ASSUME Init
    PROVE  Log!Init
<1>1. SessionInv
  BY SessionInit
<1>2. SubSeq(journal, 1, synced) = FirstEvents(0)
  BY <1>1, StableIsPrefix DEF Init
<1>3. FirstEvents(0) = <<>>
  BY FirstEventsFacts DEF FirstEvents
<1> QED
  BY <1>2, <1>3 DEF Init, Log!Init

\* Seen from the agent, the owner of a session is a durable log: barriers and shutdown
\* promise only what survives, and a clean end leaves nothing behind, also when calls are
\* dropped at any await.
THEOREM SessionIsDurableLog == Spec => ImplementsDurableLog
<1>1. Init => Log!Init
  BY InitRefines
<1>2. SessionInv /\ SessionInv' /\ [Next]_vars => [Log!Next]_Log!vars
  BY NextRefines
<1> QED
  BY <1>1, <1>2, SessionHolds, PTL DEF Spec, ImplementsDurableLog, Log!Spec

=============================================================================
