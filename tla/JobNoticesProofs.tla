-------------------------- MODULE JobNoticesProofs --------------------------
(***************************************************************************)
(* Proofs about JobNotices, for every number of jobs and of waiting calls  *)
(* and for every limit: one notice of a job wherever it stands, no end     *)
(* that is not told, nobody told twice, and wakes that stay in their       *)
(* budget.  All of it follows from one inductive invariant, NoticesInv.    *)
(***************************************************************************)
EXTENDS JobNotices, FiniteSetTheorems, SequenceTheorems, WellFoundedInduction, TLAPS

-----------------------------------------------------------------------------
(* The invariant.                                                          *)

\* Only a job that is reported has a notice; one that is reported while it lives has been
\* killed; and what the model knows is not told again.
ReportInv ==
    \A j \in Jobs :
        /\ Notices(j) <= IF reported[j] THEN 1 ELSE 0
        /\ job[j] = "none" => ~reported[j]
        /\ IsLive(j) /\ reported[j] /\ ~regClosed => j \in known
        /\ j \in known => reported[j] /\ Copies(pending, j) = 0 /\ Copies(hands, j) = 0

\* Nothing is in hand while a step runs, and a step is only entered where one is left.
PlaceInv ==
    /\ pc = "step" => hands = <<>>
    /\ pc = "reserved" => steps < MaxSteps
    /\ closed => regClosed

\* Every automatic turn that was opened, or is about to be, has been counted.
WakeInv ==
    autos + (IF kind = "wake" /\ pc \in {"called", "opening"} THEN 1 ELSE 0) <= wakes

NoticesInv ==
    TypeOK /\ ReportInv /\ PlaceInv /\ WakeInv /\ EndIsTold /\ ParkedIsNotified

-----------------------------------------------------------------------------
(* Queues of jobs.                                                         *)

LEMMA MinIsIn ==
    ASSUME NEW T, T \subseteq Nat, T # {}
    PROVE  Min(T) \in T
<1>1. PICK x \in T : \A y \in T : ~(<<y, x>> \in OpToRel(<, Nat))
  BY NatLessThanWellFounded, WFMin
<1>2. ASSUME NEW y \in T PROVE x <= y
  <2>1. ~(y < x)
    BY <1>1 DEF OpToRel
  <2> QED
    BY <2>1
<1>3. \E z \in T : \A y \in T : z <= y
  BY <1>2
<1> QED
  BY <1>3 DEF Min

LEMMA CopiesType ==
    ASSUME NEW s \in Seq(Jobs), NEW j
    PROVE  /\ Copies(s, j) \in Nat
           /\ IsFiniteSet({i \in DOMAIN s : s[i] = j})
           /\ Copies(s, j) = 0 <=> j \notin ToSet(s)
<1> DEFINE P == {i \in DOMAIN s : s[i] = j}
<1>1. P \subseteq 1 .. Len(s) /\ Len(s) \in Nat
  OBVIOUS
<1>2. IsFiniteSet(1 .. Len(s))
  BY <1>1, FS_Interval
<1>3. IsFiniteSet(P)
  BY <1>1, <1>2, FS_Subset
<1>4. P = {} <=> j \notin ToSet(s)
  BY DEF ToSet
<1> QED
  BY <1>3, <1>4, FS_CardinalityType, FS_EmptySet DEF Copies

LEMMA CopiesOfNone ==
    ASSUME NEW j
    PROVE  Copies(<<>>, j) = 0 /\ ToSet(<<>>) = {}
<1>1. {i \in DOMAIN <<>> : <<>>[i] = j} = {}
  OBVIOUS
<1> QED
  BY <1>1, FS_EmptySet DEF Copies, ToSet

LEMMA CopiesOfOne ==
    ASSUME NEW i \in Jobs, NEW j
    PROVE  Copies(<<i>>, j) = IF i = j THEN 1 ELSE 0
<1> DEFINE P == {k \in DOMAIN <<i>> : <<i>>[k] = j}
<1>1. P = IF i = j THEN {1} ELSE {}
  OBVIOUS
<1> QED
  BY <1>1, FS_EmptySet, FS_Singleton DEF Copies

\* What stands in two queues stands in the one made of them.
LEMMA CopiesOfBoth ==
    ASSUME NEW s \in Seq(Jobs), NEW t \in Seq(Jobs), NEW j
    PROVE  /\ Copies(s \o t, j) = Copies(s, j) + Copies(t, j)
           /\ ToSet(s \o t) = ToSet(s) \union ToSet(t)
           /\ s \o t \in Seq(Jobs)
<1> DEFINE A == {i \in DOMAIN s : s[i] = j}
           B == {i \in DOMAIN t : t[i] = j}
           C == {i \in DOMAIN (s \o t) : (s \o t)[i] = j}
           D == {i + Len(s) : i \in B}
<1>1. /\ Len(s) \in Nat /\ Len(t) \in Nat /\ s \o t \in Seq(Jobs)
      /\ DOMAIN s = 1 .. Len(s) /\ DOMAIN t = 1 .. Len(t)
      /\ DOMAIN (s \o t) = 1 .. Len(s) + Len(t)
      /\ \A i \in 1 .. Len(s) : (s \o t)[i] = s[i]
      /\ \A i \in 1 .. Len(t) : (s \o t)[i + Len(s)] = t[i]
  OBVIOUS
<1>2. \A i \in 1 .. Len(s) + Len(t) : i \in 1 .. Len(s) \/ i - Len(s) \in 1 .. Len(t)
  BY <1>1
<1>3. \A i \in 1 .. Len(s) + Len(t) : (i - Len(s)) + Len(s) = i
  BY <1>1
<1>4. C = A \union D
  <2>1. ASSUME NEW i \in C PROVE i \in A \union D
    BY <1>1, <1>2, <1>3
  <2>2. A \subseteq C
    BY <1>1
  <2>3. ASSUME NEW i \in B PROVE i + Len(s) \in C
    BY <1>1
  <2> QED
    BY <2>1, <2>2, <2>3
<1>5. A \cap D = {}
  BY <1>1
<1>6. IsFiniteSet(A) /\ IsFiniteSet(B)
  BY CopiesType
<1>7. IsFiniteSet(D) /\ Cardinality(D) = Cardinality(B)
  <2> DEFINE f == [i \in B |-> i + Len(s)]
  <2>1. f \in Bijection(B, D)
    <3>1. f \in [B -> D]
      OBVIOUS
    <3>2. \A a, b \in B : f[a] = f[b] => a = b
      BY <1>1
    <3>3. \A d \in D : \E a \in B : f[a] = d
      OBVIOUS
    <3> QED
      BY <3>1, <3>2, <3>3 DEF Bijection, Injection, Surjection, IsInjective
  <2> QED
    BY <1>6, <2>1, FS_Bijection DEF ExistsBijection
<1>8. Cardinality(A \union D) = Cardinality(A) + Cardinality(D) - Cardinality(A \cap D)
  BY <1>6, <1>7, FS_Union
<1>9. Cardinality(A \cap D) = 0 /\ Cardinality(A) \in Nat /\ Cardinality(D) \in Nat
  BY <1>5, <1>6, <1>7, FS_EmptySet, FS_CardinalityType
<1>10. Copies(s \o t, j) = Copies(s, j) + Copies(t, j)
  <2>1. Copies(s \o t, j) = Cardinality(C) /\ Copies(s, j) = Cardinality(A)
        /\ Copies(t, j) = Cardinality(B)
    BY DEF Copies
  <2> HIDE DEF A, B, C, D
  <2> QED
    BY <1>4, <1>7, <1>8, <1>9, <2>1
<1>11. ToSet(s \o t) = ToSet(s) \union ToSet(t)
  <2>1. ASSUME NEW i \in DOMAIN (s \o t) PROVE (s \o t)[i] \in ToSet(s) \union ToSet(t)
    <3>1. CASE i \in 1 .. Len(s)
      BY <1>1, <3>1 DEF ToSet
    <3>2. CASE i - Len(s) \in 1 .. Len(t)
      <4>1. (s \o t)[(i - Len(s)) + Len(s)] = t[i - Len(s)]
        BY <1>1, <3>2
      <4> QED
        BY <1>1, <1>3, <3>2, <4>1 DEF ToSet
    <3> QED
      BY <1>1, <1>2, <3>1, <3>2
  <2>2. ASSUME NEW i \in DOMAIN s PROVE s[i] \in ToSet(s \o t)
    BY <1>1 DEF ToSet
  <2>3. ASSUME NEW i \in DOMAIN t PROVE t[i] \in ToSet(s \o t)
    <3>1. i + Len(s) \in DOMAIN (s \o t)
      BY <1>1
    <3> QED
      BY <1>1, <3>1 DEF ToSet
  <2>4. ToSet(s \o t) \subseteq ToSet(s) \union ToSet(t)
    <3> SUFFICES ASSUME NEW x \in ToSet(s \o t) PROVE x \in ToSet(s) \union ToSet(t)
      OBVIOUS
    <3>1. PICK i \in DOMAIN (s \o t) : x = (s \o t)[i]
      BY DEF ToSet
    <3> QED
      BY <2>1, <3>1
  <2>5. ToSet(s) \subseteq ToSet(s \o t)
    <3> SUFFICES ASSUME NEW x \in ToSet(s) PROVE x \in ToSet(s \o t)
      OBVIOUS
    <3>1. PICK i \in DOMAIN s : x = s[i]
      BY DEF ToSet
    <3> QED
      BY <2>2, <3>1
  <2>6. ToSet(t) \subseteq ToSet(s \o t)
    <3> SUFFICES ASSUME NEW x \in ToSet(t) PROVE x \in ToSet(s \o t)
      OBVIOUS
    <3>1. PICK i \in DOMAIN t : x = t[i]
      BY DEF ToSet
    <3> QED
      BY <2>3, <3>1
  <2> QED
    BY <2>4, <2>5, <2>6
<1> QED
  BY <1>1, <1>10, <1>11

LEMMA CopiesOfMore ==
    ASSUME NEW s \in Seq(Jobs), NEW i \in Jobs, NEW j
    PROVE  /\ Append(s, i) \in Seq(Jobs)
           /\ Copies(Append(s, i), j) = Copies(s, j) + (IF i = j THEN 1 ELSE 0)
           /\ ToSet(Append(s, i)) = ToSet(s) \union {i}
<1>1. Append(s, i) = s \o <<i>> /\ <<i>> \in Seq(Jobs)
  OBVIOUS
<1>2. ToSet(<<i>>) = {i}
  BY DEF ToSet
<1>3. /\ Copies(s \o <<i>>, j) = Copies(s, j) + Copies(<<i>>, j)
      /\ ToSet(s \o <<i>>) = ToSet(s) \union ToSet(<<i>>)
      /\ s \o <<i>> \in Seq(Jobs)
  BY <1>1, CopiesOfBoth, ZenonT(60)
<1>4. Copies(<<i>>, j) = IF i = j THEN 1 ELSE 0
  BY CopiesOfOne
<1> QED
  BY <1>1, <1>2, <1>3, <1>4

\* One job between two queues.
LEMMA CopiesAround ==
    ASSUME NEW a \in Seq(Jobs), NEW j \in Jobs, NEW b \in Seq(Jobs)
    PROVE  /\ (a \o <<j>>) \o b \in Seq(Jobs)
           /\ Len((a \o <<j>>) \o b) = Len(a) + 1 + Len(b)
           /\ a \o b \in Seq(Jobs) /\ Len(a \o b) = Len(a) + Len(b)
           /\ \A i \in Jobs : /\ Copies(a \o b, i) \in Nat
                             /\ Copies(a \o b, i) <= Copies((a \o <<j>>) \o b, i)
           /\ Copies((a \o <<j>>) \o b, j) = Copies(a \o b, j) + 1
           /\ ToSet((a \o <<j>>) \o b) = ToSet(a \o b) \union {j}
<1> DEFINE c == a \o <<j>>
<1>1. /\ <<j>> \in Seq(Jobs) /\ Len(<<j>>) = 1 /\ ToSet(<<j>>) = {j}
      /\ c \in Seq(Jobs) /\ Len(c) = Len(a) + 1
  BY DEF ToSet
<1>2. ToSet(c) = ToSet(a) \union {j} /\ \A i \in Jobs : Copies(c, i) = Copies(a, i) + Copies(<<j>>, i)
  BY <1>1, CopiesOfBoth, ZenonT(60)
<1> HIDE DEF c
<1>3. /\ c \o b \in Seq(Jobs) /\ Len(c \o b) = Len(c) + Len(b)
      /\ a \o b \in Seq(Jobs) /\ Len(a \o b) = Len(a) + Len(b)
  BY <1>1
<1>4. /\ ToSet(c \o b) = ToSet(c) \union ToSet(b) /\ ToSet(a \o b) = ToSet(a) \union ToSet(b)
      /\ \A i \in Jobs : /\ Copies(c \o b, i) = Copies(c, i) + Copies(b, i)
                        /\ Copies(a \o b, i) = Copies(a, i) + Copies(b, i)
  BY <1>1, CopiesOfBoth, ZenonT(60)
<1>5. \A i \in Jobs : /\ Copies(a, i) \in Nat /\ Copies(b, i) \in Nat
                     /\ Copies(<<j>>, i) = IF i = j THEN 1 ELSE 0
  BY CopiesType, CopiesOfOne
<1>6. ASSUME NEW i \in Jobs
      PROVE  /\ Copies(a \o b, i) \in Nat
             /\ Copies(c \o b, i) = Copies(a \o b, i) + (IF i = j THEN 1 ELSE 0)
  <2>1. /\ Copies(c, i) = Copies(a, i) + Copies(<<j>>, i)
        /\ Copies(c \o b, i) = Copies(c, i) + Copies(b, i)
        /\ Copies(a \o b, i) = Copies(a, i) + Copies(b, i)
    BY <1>2, <1>4
  <2>2. /\ Copies(a, i) \in Nat /\ Copies(b, i) \in Nat
        /\ Copies(<<j>>, i) = IF i = j THEN 1 ELSE 0
    BY <1>5
  <2> QED
    BY <2>1, <2>2
<1>7. ToSet(c \o b) = ToSet(a \o b) \union {j}
  BY <1>2, <1>4
<1> QED
  BY <1>1, <1>3, <1>6, <1>7 DEF c

\* A queue from which the first notice of a job was dropped.
LEMMA CopiesOfRest ==
    ASSUME NEW s \in Seq(Jobs), NEW j \in Jobs
    PROVE  /\ RemoveFirst(s, j) \in Seq(Jobs)
           /\ \A i \in Jobs : Copies(RemoveFirst(s, j), i) <= Copies(s, i)
           /\ Copies(s, j) <= 1 => Copies(RemoveFirst(s, j), j) = 0
           /\ ToSet(s) \subseteq ToSet(RemoveFirst(s, j)) \union {j}
           /\ Len(RemoveFirst(s, j)) <= Len(s)
<1>1. CASE ~\E i \in 1 .. Len(s) : s[i] = j
  <2>1. RemoveFirst(s, j) = s /\ j \notin ToSet(s)
    BY <1>1 DEF RemoveFirst, ToSet
  <2>2. Copies(s, j) = 0 /\ \A i \in Jobs : Copies(s, i) \in Nat
    BY <2>1, CopiesType
  <2> QED
    BY <2>1, <2>2
<1>2. CASE \E i \in 1 .. Len(s) : s[i] = j
  <2> DEFINE I == {i \in 1 .. Len(s) : s[i] = j}
  <2>1. I # {} /\ I \subseteq Nat
    BY <1>2
  <2>2. PICK k \in I : k = Min(I)
    BY <2>1, MinIsIn
  <2>3. SelectInSeq(s, LAMBDA v : v = j) = k
    BY <2>1, <2>2 DEF SelectInSeq
  <2> DEFINE a == SubSeq(s, 1, k - 1)
             b == SubSeq(s, k + 1, Len(s))
  <2>4. RemoveFirst(s, j) = a \o b
    BY <1>2, <2>3 DEF RemoveFirst, RemoveAt
  <2>5. k \in 1 .. Len(s) /\ s[k] = j
    OBVIOUS
  <2> HIDE DEF I
  <2>6. /\ a \in Seq(Jobs) /\ b \in Seq(Jobs)
        /\ Len(a) = k - 1 /\ Len(b) = Len(s) - k
        /\ \A i \in 1 .. k - 1 : a[i] = s[i]
        /\ \A i \in 1 .. Len(s) - k : b[i] = s[k + i]
    BY <2>5
  <2>7. s = (a \o <<j>>) \o b
    <3> HIDE DEF a, b
    <3>1. (a \o <<j>>) \o b \in Seq(Jobs) /\ Len((a \o <<j>>) \o b) = Len(s)
      <4>1. /\ (a \o <<j>>) \o b \in Seq(Jobs)
            /\ Len((a \o <<j>>) \o b) = Len(a) + 1 + Len(b)
        BY <2>6, CopiesAround
      <4>2. Len(a) = k - 1 /\ Len(b) = Len(s) - k /\ k \in Nat /\ Len(s) \in Nat
        BY <2>5, <2>6
      <4> QED
        BY <4>1, <4>2
    <3>2. ASSUME NEW i \in 1 .. Len(s) PROVE ((a \o <<j>>) \o b)[i] = s[i]
      <4>1. CASE i \in 1 .. k - 1
        BY <2>5, <2>6, <4>1
      <4>2. CASE i = k
        BY <2>5, <2>6, <4>2
      <4>3. CASE i \in k + 1 .. Len(s)
        <5>1. i - k \in 1 .. Len(s) - k /\ k + (i - k) = i
          BY <2>5, <4>3
        <5>2. ((a \o <<j>>) \o b)[i] = b[i - k]
          BY <2>5, <2>6, <4>3
        <5> QED
          BY <2>6, <5>1, <5>2
      <4>4. i \in 1 .. k - 1 \/ i = k \/ i \in k + 1 .. Len(s)
        BY <2>5
      <4> QED
        BY <4>1, <4>2, <4>3, <4>4
    <3> QED
      BY <3>1, <3>2, SeqEqual
  <2> HIDE DEF a, b
  <2>8. /\ \A i \in Jobs : Copies(a \o b, i) <= Copies(s, i)
        /\ Copies(s, j) = Copies(a \o b, j) + 1 /\ Copies(a \o b, j) \in Nat
        /\ ToSet(s) = ToSet(a \o b) \union {j}
        /\ a \o b \in Seq(Jobs) /\ Len(a \o b) = Len(a) + Len(b)
    <3>1. a \in Seq(Jobs) /\ b \in Seq(Jobs)
      BY <2>6
    <3>2. /\ ToSet((a \o <<j>>) \o b) = ToSet(a \o b) \union {j}
          /\ a \o b \in Seq(Jobs) /\ Len(a \o b) = Len(a) + Len(b)
      BY <3>1, CopiesAround
    <3>3. /\ \A i \in Jobs : Copies(a \o b, i) <= Copies((a \o <<j>>) \o b, i)
          /\ Copies((a \o <<j>>) \o b, j) = Copies(a \o b, j) + 1
          /\ Copies(a \o b, j) \in Nat
      BY <3>1, CopiesAround
    <3> QED
      BY <2>7, <3>2, <3>3
  <2>9. Copies(s, j) <= 1 => Copies(a \o b, j) = 0
    BY <2>8
  <2>11. Len(a \o b) <= Len(s)
    BY <2>5, <2>6, <2>8
  <2> QED
    BY <2>4, <2>8, <2>9, <2>11
<1> QED
  BY <1>1, <1>2

-----------------------------------------------------------------------------
(* Notices that move.                                                      *)

\* Jobs whose end is known, or is on its way.
Underway == known \union cut \union omitted \union InHand \union ToSet(pending)

\* How often a job stands in one of the two queues, and in one of the two counts.
Queued(j) == Copies(pending, j) + Copies(hands, j)
Counted(j) == (IF j \in omitted THEN 1 ELSE 0) + (IF j \in handsMore THEN 1 ELSE 0)

LEMMA NoticesType ==
    ASSUME TypeOK, NEW j \in Jobs
    PROVE  /\ Copies(pending, j) \in Nat /\ Copies(hands, j) \in Nat
           /\ stored[j] \in Nat /\ Queued(j) \in Nat /\ Counted(j) \in 0 .. 2
           /\ Notices(j) = stored[j] + Queued(j) + Counted(j)
           /\ Copies(pending, j) = 0 <=> j \notin ToSet(pending)
           /\ Copies(hands, j) = 0 <=> j \notin ToSet(hands)
<1>1. pending \in Seq(Jobs) /\ hands \in Seq(Jobs) /\ stored[j] \in Nat
  BY DEF TypeOK
<1>2. /\ Copies(pending, j) \in Nat /\ Copies(hands, j) \in Nat
      /\ Copies(pending, j) = 0 <=> j \notin ToSet(pending)
      /\ Copies(hands, j) = 0 <=> j \notin ToSet(hands)
  BY <1>1, CopiesType
<1>3. Counted(j) \in 0 .. 2 /\ Queued(j) \in Nat
  BY <1>2 DEF Counted, Queued
<1>4. Notices(j) = stored[j] + Queued(j) + Counted(j)
  <2>1. Counted(j) = (IF j \in omitted THEN 1 ELSE 0) + (IF j \in handsMore THEN 1 ELSE 0)
    BY DEF Counted
  <2>2. Notices(j) = stored[j] + Copies(pending, j) + Copies(hands, j)
                       + (IF j \in omitted THEN 1 ELSE 0) + (IF j \in handsMore THEN 1 ELSE 0)
    BY DEF Notices
  <2>3. Queued(j) = Copies(pending, j) + Copies(hands, j)
    BY DEF Queued
  <2>4. CASE j \in omitted
    BY <1>1, <1>2, <2>1, <2>2, <2>3, <2>4
  <2>5. CASE j \notin omitted
    BY <1>1, <1>2, <2>1, <2>2, <2>3, <2>5
  <2> QED
    BY <2>4, <2>5
<1> QED
  BY <1>1, <1>2, <1>3, <1>4

LEMMA NoticesTypeNext ==
    ASSUME TypeOK', NEW j \in Jobs
    PROVE  /\ Copies(pending', j) \in Nat /\ Copies(hands', j) \in Nat
           /\ stored'[j] \in Nat /\ Queued(j)' \in Nat /\ Counted(j)' \in 0 .. 2
           /\ Notices(j)' = stored'[j] + Queued(j)' + Counted(j)'
           /\ Copies(pending', j) = 0 <=> j \notin ToSet(pending')
           /\ Copies(hands', j) = 0 <=> j \notin ToSet(hands')
<1>1. pending' \in Seq(Jobs) /\ hands' \in Seq(Jobs) /\ stored'[j] \in Nat
  BY DEF TypeOK
<1>2. /\ Copies(pending', j) \in Nat /\ Copies(hands', j) \in Nat
      /\ Copies(pending', j) = 0 <=> j \notin ToSet(pending')
      /\ Copies(hands', j) = 0 <=> j \notin ToSet(hands')
  BY <1>1, CopiesType
<1>3. Counted(j)' \in 0 .. 2 /\ Queued(j)' \in Nat
  BY <1>2 DEF Counted, Queued, Copies
<1>4. Notices(j)' = stored'[j] + Queued(j)' + Counted(j)'
  <2>1. Counted(j)' = (IF j \in omitted' THEN 1 ELSE 0) + (IF j \in handsMore' THEN 1 ELSE 0)
    BY DEF Counted
  <2>2. Notices(j)' = stored'[j] + Copies(pending', j) + Copies(hands', j)
                       + (IF j \in omitted' THEN 1 ELSE 0) + (IF j \in handsMore' THEN 1 ELSE 0)
    BY DEF Notices, Copies
  <2>3. Queued(j)' = Copies(pending', j) + Copies(hands', j)
    BY DEF Queued, Copies
  <2>4. CASE j \in omitted'
    BY <1>1, <1>2, <2>1, <2>2, <2>3, <2>4
  <2>5. CASE j \notin omitted'
    BY <1>1, <1>2, <2>1, <2>2, <2>3, <2>5
  <2> QED
    BY <2>4, <2>5
<1> QED
  BY <1>1, <1>2, <1>3, <1>4

\* No notice is made, and none is lost.
Moved ==
    /\ \A j \in Jobs : Queued(j)' <= Queued(j) /\ Counted(j)' <= Counted(j)
    /\ Underway \subseteq Underway'

LEMMA DrainMoves ==
    ASSUME TypeOK, Drain, UNCHANGED <<known, cut>>
    PROVE  /\ pending' \in Seq(Jobs) /\ hands' \in Seq(Jobs)
           /\ omitted' \subseteq Jobs /\ handsMore' \subseteq Jobs
           /\ Moved
<1>1. /\ pending \in Seq(Jobs) /\ hands \in Seq(Jobs) /\ omitted \subseteq Jobs
      /\ handsMore \subseteq Jobs
  BY DEF TypeOK
<1>2. /\ hands' = hands \o pending /\ pending' = <<>>
      /\ handsMore' = handsMore \union omitted /\ omitted' = {}
  BY DEF Drain
<1>3. hands \o pending \in Seq(Jobs) /\ ToSet(hands \o pending) = ToSet(hands) \union ToSet(pending)
  BY <1>1, CopiesOfBoth
<1>4. Underway \subseteq Underway'
  <2>1. ToSet(hands)' = ToSet(hands) \union ToSet(pending)
    BY <1>2, <1>3 DEF ToSet
  <2> QED
    BY <1>2, <2>1 DEF Underway, InHand
<1>5. ASSUME NEW j \in Jobs PROVE Queued(j)' <= Queued(j) /\ Counted(j)' <= Counted(j)
  <2>1. /\ Copies(hands \o pending, j) = Copies(hands, j) + Copies(pending, j)
        /\ Copies(<<>>, j) = 0
        /\ Copies(hands, j) \in Nat /\ Copies(pending, j) \in Nat
    BY <1>1, CopiesOfBoth, CopiesOfNone, CopiesType, ZenonT(60)
  <2>2. Queued(j)' = Copies(<<>>, j) + Copies(hands \o pending, j)
    BY <1>2 DEF Queued, Copies
  <2>3. Counted(j)' <= Counted(j)
    BY <1>2 DEF Counted
  <2> QED
    BY <2>1, <2>2, <2>3 DEF Queued
<1> QED
  BY <1>1, <1>2, <1>3, <1>4, <1>5 DEF Moved

LEMMA DropMoves ==
    ASSUME TypeOK, DropHands, UNCHANGED <<known, pending, omitted>>
    PROVE  /\ hands' \in Seq(Jobs) /\ handsMore' \subseteq Jobs /\ cut' \subseteq Jobs
           /\ Moved
<1>1. /\ hands \in Seq(Jobs) /\ handsMore \subseteq Jobs /\ cut \subseteq Jobs
  BY DEF TypeOK
<1>2. InHand \subseteq Jobs
  BY <1>1 DEF InHand, ToSet
<1>3. Underway \subseteq Underway'
  BY DEF DropHands, Underway, InHand, ToSet
<1>4. ASSUME NEW j \in Jobs PROVE Queued(j)' <= Queued(j) /\ Counted(j)' <= Counted(j)
  <2>1. Copies(<<>>, j) = 0 /\ Copies(hands, j) \in Nat /\ Copies(pending, j) \in Nat
    BY NoticesType, CopiesOfNone
  <2>2. Queued(j)' = Copies(pending, j) + Copies(<<>>, j)
    BY DEF Queued, Copies, DropHands
  <2>3. Counted(j)' <= Counted(j)
    BY DEF Counted, DropHands
  <2> QED
    BY <2>1, <2>2, <2>3 DEF Queued
<1> QED
  BY <1>1, <1>2, <1>3, <1>4 DEF Moved, DropHands

LEMMA RestoreMoves ==
    ASSUME TypeOK, NEW refund \in BOOLEAN, Restore(refund), UNCHANGED <<known, cut>>
    PROVE  /\ pending' \in Seq(Jobs) /\ hands' \in Seq(Jobs)
           /\ omitted' \subseteq Jobs /\ handsMore' \subseteq Jobs
           /\ Moved
<1>1. /\ pending \in Seq(Jobs) /\ hands \in Seq(Jobs) /\ omitted \subseteq Jobs
      /\ handsMore \subseteq Jobs
  BY DEF TypeOK
<1>2. /\ pending' = hands \o pending /\ hands' = <<>>
      /\ omitted' = omitted \union handsMore /\ handsMore' = {}
  BY DEF Restore
<1>3. hands \o pending \in Seq(Jobs) /\ ToSet(hands \o pending) = ToSet(hands) \union ToSet(pending)
  BY <1>1, CopiesOfBoth
<1>4. Underway \subseteq Underway'
  <2>1. ToSet(pending)' = ToSet(hands) \union ToSet(pending)
    BY <1>2, <1>3 DEF ToSet
  <2> QED
    BY <1>2, <2>1 DEF Underway, InHand
<1>5. ASSUME NEW j \in Jobs PROVE Queued(j)' <= Queued(j) /\ Counted(j)' <= Counted(j)
  <2>1. /\ Copies(hands \o pending, j) = Copies(hands, j) + Copies(pending, j)
        /\ Copies(<<>>, j) = 0
        /\ Copies(hands, j) \in Nat /\ Copies(pending, j) \in Nat
    BY <1>1, CopiesOfBoth, CopiesOfNone, CopiesType, ZenonT(60)
  <2>2. Queued(j)' = Copies(hands \o pending, j) + Copies(<<>>, j)
    BY <1>2 DEF Queued, Copies
  <2>3. Counted(j)' <= Counted(j)
    BY <1>2 DEF Counted
  <2> QED
    BY <2>1, <2>2, <2>3 DEF Queued
<1> QED
  BY <1>1, <1>2, <1>3, <1>4, <1>5 DEF Moved

\* Nothing but the places of notices changes.
LEMMA MoveKeeps ==
    ASSUME NoticesInv, TypeOK', Moved, UNCHANGED <<registry, body, stored, known>>,
           UNCHANGED output, cut \subseteq cut'
    PROVE  ReportInv' /\ EndIsTold'
<1>1. ReportInv'
  <2> SUFFICES ASSUME NEW j \in Jobs
               PROVE  /\ Notices(j)' <= IF reported[j] THEN 1 ELSE 0
                      /\ j \in known => Copies(pending', j) = 0 /\ Copies(hands', j) = 0
    BY DEF NoticesInv, ReportInv, registry, IsLive, Copies
  <2>1. /\ Queued(j)' <= Queued(j) /\ Counted(j)' <= Counted(j) /\ stored'[j] = stored[j]
        /\ Notices(j) <= IF reported[j] THEN 1 ELSE 0
        /\ j \in known => Copies(pending, j) = 0 /\ Copies(hands, j) = 0
    BY DEF Moved, NoticesInv, ReportInv
  <2>2. /\ Notices(j) = stored[j] + Queued(j) + Counted(j) /\ stored[j] \in Nat
        /\ Queued(j) \in Nat /\ Counted(j) \in Nat
    BY NoticesType DEF NoticesInv
  <2>3. /\ Notices(j)' = stored'[j] + Queued(j)' + Counted(j)' /\ Queued(j)' \in Nat
        /\ Counted(j)' \in Nat /\ Copies(pending', j) \in Nat /\ Copies(hands', j) \in Nat
    BY NoticesTypeNext
  <2>4. Queued(j) = Copies(pending, j) + Copies(hands, j)
        /\ Queued(j)' = Copies(pending', j) + Copies(hands', j)
    BY DEF Queued, Copies
  <2>5. Notices(j)' <= Notices(j)
    BY <2>1, <2>2, <2>3
  <2>6. Notices(j) \in Nat /\ Notices(j)' \in Nat
    BY <2>1, <2>2, <2>3
  <2>7. Notices(j)' <= IF reported[j] THEN 1 ELSE 0
    BY <2>1, <2>5, <2>6
  <2> QED
    BY <2>1, <2>3, <2>4, <2>7
<1>2. EndIsTold'
  <2> SUFFICES ASSUME NEW j \in Jobs
               PROVE  /\ job[j] = "done" /\ ~regClosed =>
                            j \in Underway' \/ stored[j] > 0 \/ Waiters(j) # {}
                      /\ cursor[j] > shown[j] => j \in cut'
    BY DEF EndIsTold, registry, output, Underway, Waiters
  <2> QED
    BY DEF NoticesInv, EndIsTold, Moved, Underway
<1> QED
  BY <1>1, <1>2

-----------------------------------------------------------------------------
(* The steps.                                                              *)

LEMMA Limits ==
    /\ NumJobs \in Nat \ {0} /\ MaxActive \in Nat /\ MaxPending \in Nat /\ MaxWakes \in Nat \ {0}
    /\ MaxSteps \in Nat \ {0} /\ NoJob \notin Jobs
  BY LimitsAssumption DEF Jobs, NoJob

LEMMA NothingMoves ==
    ASSUME UNCHANGED <<pending, omitted, hands, handsMore, known, cut>>, TypeOK
    PROVE  Moved
<1>1. ASSUME NEW j \in Jobs PROVE Queued(j)' <= Queued(j) /\ Counted(j)' <= Counted(j)
  <2>1. Queued(j)' = Queued(j) /\ Counted(j)' = Counted(j)
    BY DEF Queued, Counted, Copies
  <2>2. Queued(j) \in Nat /\ Counted(j) \in Nat
    BY NoticesType
  <2> QED
    BY <2>1, <2>2
<1> QED
  BY <1>1 DEF Moved, Underway, InHand, ToSet

\* A notice is made of the end of a job that nobody has reported.
LEMMA FinishKeeps ==
    ASSUME NoticesInv, NEW j \in Jobs, Finish(j)
    PROVE  TypeOK' /\ ReportInv' /\ EndIsTold' /\ ParkedIsNotified'
<1>1. /\ TypeOK /\ IsLive(j) /\ job' = [job EXCEPT ![j] = "done"]
      /\ job \in [Jobs -> {"none", "running", "stopping", "done", "evicted"}]
      /\ UNCHANGED <<regClosed, output, body, turn, taken, stored, known, cut, autos>>
      /\ (closed => regClosed)
  BY DEF Finish, NoticesInv, TypeOK, PlaceInv
<1>2. CASE UNCHANGED <<reported, inbox>> /\ (regClosed \/ reported[j] \/ Waiters(j) # {})
  <2>1. TypeOK'
    BY <1>1, <1>2 DEF TypeOK, output, turn, taken, inbox
  <2>2. ReportInv'
    <3> SUFFICES ASSUME NEW i \in Jobs
                 PROVE  /\ Notices(i)' <= IF reported[i] THEN 1 ELSE 0
                        /\ job'[i] = "none" => ~reported[i]
                        /\ IsLive(i)' /\ reported[i] /\ ~regClosed => i \in known
                        /\ i \in known => reported[i] /\ Copies(pending, i) = 0 /\ Copies(hands, i) = 0
      BY <1>1, <1>2 DEF ReportInv, taken, inbox, Copies
    <3>1. Notices(i)' = Notices(i)
      BY <1>1, <1>2 DEF Notices, Copies, taken, inbox
    <3> QED
      BY <1>1, <3>1 DEF NoticesInv, ReportInv, IsLive
  <2>3. EndIsTold'
    <3> SUFFICES ASSUME NEW i \in Jobs
                 PROVE  /\ job'[i] = "done" /\ ~regClosed =>
                            \/ i \in known \union cut \union omitted \union InHand \union ToSet(pending)
                            \/ stored[i] > 0
                            \/ Waiters(i) # {}
                        /\ cursor[i] > shown[i] => i \in cut
      BY <1>1, <1>2 DEF EndIsTold, output, inbox, taken, InHand, ToSet, Waiters
    <3>1. CASE i = j
      BY <1>1, <1>2, <3>1 DEF NoticesInv, ReportInv, EndIsTold
    <3>2. CASE i # j
      BY <1>1, <3>2 DEF NoticesInv, EndIsTold
    <3> QED
      BY <3>1, <3>2
  <2>4. ParkedIsNotified'
    BY <1>1, <1>2 DEF NoticesInv, ParkedIsNotified, CanWake, CanWakeWith, Some, inbox, turn
  <2> QED
    BY <2>1, <2>2, <2>3, <2>4
<1>3. CASE ~regClosed /\ ~reported[j] /\ reported' = [reported EXCEPT ![j] = TRUE] /\ Enqueue(j)
  <2>1. /\ UNCHANGED <<active, wakes, closed>>
        /\ permit' = (permit \/ CanWakeWith(pending', omitted', active, wakes))
        /\ \/ pending' = Append(pending, j) /\ omitted' = omitted
           \/ pending' = pending /\ omitted' = omitted \union {j}
    BY <1>1, <1>3 DEF Enqueue, NotifyWith
  <2>2. pending \in Seq(Jobs) /\ hands \in Seq(Jobs) /\ omitted \subseteq Jobs
    BY <1>1 DEF TypeOK
  <2>3. /\ Append(pending, j) \in Seq(Jobs)
        /\ ToSet(Append(pending, j)) = ToSet(pending) \union {j}
        /\ Copies(Append(pending, j), j) = Copies(pending, j) + 1
        /\ \A i \in Jobs : i # j => Copies(Append(pending, j), i) = Copies(pending, i)
    <3>1. \A i \in Jobs : Copies(pending, i) \in Nat
      BY <2>2, CopiesType
    <3>2. ASSUME NEW i \in Jobs
          PROVE  Copies(Append(pending, j), i) = Copies(pending, i) + (IF j = i THEN 1 ELSE 0)
      BY <2>2, CopiesOfMore
    <3>3. ASSUME NEW i \in Jobs, i # j PROVE Copies(Append(pending, j), i) = Copies(pending, i)
      BY <3>1, <3>2, <3>3
    <3> QED
      BY <2>2, <3>2, <3>3, CopiesOfMore
  <2>4. TypeOK'
    <3>1. permit' \in BOOLEAN
      BY <1>1, <2>1 DEF TypeOK, CanWakeWith, Some
    <3>2. pending' \in Seq(Jobs) /\ omitted' \subseteq Jobs
      BY <2>1, <2>2, <2>3
    <3> QED
      BY <1>1, <1>3, <2>1, <3>1, <3>2 DEF TypeOK, output, turn, taken
  <2>5. ToSet(pending') \union omitted' = ToSet(pending) \union omitted \union {j}
    BY <2>1, <2>3
  <2>6. /\ Notices(j) = 0 /\ j \notin known
        /\ stored[j] = 0 /\ Copies(pending, j) = 0 /\ Copies(hands, j) = 0 /\ Counted(j) = 0
    <3>1. Notices(j) <= 0 /\ j \notin known
      BY <1>3 DEF NoticesInv, ReportInv
    <3>2. /\ Notices(j) = stored[j] + Queued(j) + Counted(j) /\ stored[j] \in Nat
          /\ Counted(j) \in Nat /\ Copies(pending, j) \in Nat /\ Copies(hands, j) \in Nat
      BY <1>1, NoticesType
    <3>3. Queued(j) = Copies(pending, j) + Copies(hands, j)
      BY DEF Queued
    <3> QED
      BY <3>1, <3>2, <3>3
  <2>7. ReportInv'
    <3> SUFFICES ASSUME NEW i \in Jobs
                 PROVE  /\ Notices(i)' <= IF reported'[i] THEN 1 ELSE 0
                        /\ job'[i] = "none" => ~reported'[i]
                        /\ IsLive(i)' /\ reported'[i] /\ ~regClosed => i \in known
                        /\ i \in known => reported'[i] /\ Copies(pending', i) = 0 /\ Copies(hands, i) = 0
      BY <1>1 DEF ReportInv, taken, Copies
    <3>0. reported \in [Jobs -> BOOLEAN]
      BY <1>1 DEF TypeOK
    <3>1. CASE i # j
      <4>1. Copies(pending', i) = Copies(pending, i)
        BY <2>1, <2>2, <2>3, <3>1, CopiesType
      <4>2. Queued(i)' = Queued(i) /\ Counted(i)' = Counted(i) /\ stored'[i] = stored[i]
        BY <1>1, <2>1, <3>1, <4>1 DEF Queued, Counted, taken, Copies
      <4>3. Notices(i)' = Notices(i)
        BY <1>1, <2>4, <4>2, NoticesType, NoticesTypeNext
      <4> QED
        BY <1>1, <1>3, <3>0, <3>1, <4>1, <4>3 DEF NoticesInv, ReportInv, IsLive
    <3>2. CASE i = j
      <4>1. Notices(j)' = stored'[j] + Queued(j)' + Counted(j)'
        BY <2>4, NoticesTypeNext
      <4>2. /\ stored'[j] = 0 /\ Queued(j)' = Copies(pending', j) + 0
            /\ Counted(j)' = IF j \in omitted' THEN 1 ELSE 0
        BY <1>1, <2>6 DEF Queued, Counted, taken, Copies
      <4>3. CASE pending' = Append(pending, j) /\ omitted' = omitted
        <5>1. Copies(pending', j) = 1 /\ j \notin omitted'
          BY <2>3, <2>6, <4>3 DEF Counted
        <5> QED
          BY <1>1, <1>3, <2>6, <3>0, <3>2, <4>1, <4>2, <5>1 DEF IsLive
      <4>4. CASE pending' = pending /\ omitted' = omitted \union {j}
        <5>1. Copies(pending', j) = 0 /\ j \in omitted'
          BY <2>6, <4>4
        <5> QED
          BY <1>1, <1>3, <2>6, <3>0, <3>2, <4>1, <4>2, <5>1 DEF IsLive
      <4> QED
        BY <2>1, <4>3, <4>4
    <3> QED
      BY <3>1, <3>2
  <2>8. EndIsTold'
    <3> SUFFICES ASSUME NEW i \in Jobs
                 PROVE  /\ job'[i] = "done" /\ ~regClosed =>
                            \/ i \in known \union cut \union omitted' \union InHand \union ToSet(pending')
                            \/ stored[i] > 0
                            \/ Waiters(i) # {}
                        /\ cursor[i] > shown[i] => i \in cut
      BY <1>1 DEF EndIsTold, output, taken, InHand, ToSet, Waiters
    <3>1. CASE i = j
      BY <2>5, <3>1 DEF NoticesInv, EndIsTold
    <3>2. CASE i # j
      BY <1>1, <2>5, <3>2 DEF NoticesInv, EndIsTold
    <3> QED
      BY <3>1, <3>2
  <2>9. ParkedIsNotified'
    BY <1>1, <2>1 DEF ParkedIsNotified, CanWake, CanWakeWith, Some, turn
  <2> QED
    BY <2>4, <2>7, <2>8, <2>9
<1> QED
  BY <1>2, <1>3 DEF Finish

\* A notice is dropped because its job is told: what is known of it afterwards.
LEMMA SuppressKeeps ==
    ASSUME NoticesInv, TypeOK', NEW j \in Jobs, SuppressJob(j), hands = <<>>,
           reported' = [reported EXCEPT ![j] = TRUE],
           IsLive(j) => j \in known', job[j] # "none",
           known' \in {known, known \union {j}}, cut \subseteq cut', j \in known' \union cut',
           UNCHANGED <<regClosed, stored, hands, handsMore>>,
           \A i \in Jobs : job'[i] = job[i] \/ (IsLive(i) /\ job'[i] = "stopping"),
           \A i \in Jobs : (i = j \/ (cursor'[i] = cursor[i] /\ shown'[i] = shown[i]))
                        /\ (cursor'[i] > shown'[i] => cursor[i] > shown[i] \/ i \in cut'),
           \A i \in Jobs : i # j => Waiters(i)' = Waiters(i)
    PROVE  ReportInv' /\ EndIsTold'
<1>1. /\ TypeOK /\ pending \in Seq(Jobs) /\ reported \in [Jobs -> BOOLEAN]
      /\ pending' = RemoveFirst(pending, j) /\ omitted' = omitted
  BY DEF NoticesInv, TypeOK, SuppressJob
<1>2. /\ pending' \in Seq(Jobs) /\ \A i \in Jobs : Copies(pending', i) <= Copies(pending, i)
      /\ Copies(pending, j) <= 1 => Copies(pending', j) = 0
      /\ ToSet(pending) \subseteq ToSet(pending') \union {j}
  BY <1>1, CopiesOfRest
<1>3. ASSUME NEW i \in Jobs
      PROVE  Notices(i)' <= Notices(i) /\ Notices(i) \in Nat /\ Copies(hands', i) = 0
             /\ (Copies(pending, i) = 0 => Copies(pending', i) = 0) /\ Notices(i)' \in Nat
             /\ Copies(pending, i) <= Notices(i)
  <2>1. /\ Copies(pending', i) <= Copies(pending, i) /\ Copies(pending, i) \in Nat
        /\ Copies(pending', i) \in Nat /\ stored'[i] = stored[i] /\ stored[i] \in Nat
        /\ Counted(i)' = Counted(i) /\ Counted(i) \in Nat
    BY <1>1, <1>2, NoticesType, NoticesTypeNext DEF Counted
  <2>2. Copies(hands, i) = 0 /\ Copies(hands', i) = 0
    BY CopiesOfNone
  <2>3. /\ Notices(i) = stored[i] + Queued(i) + Counted(i)
        /\ Notices(i)' = stored'[i] + Queued(i)' + Counted(i)'
    BY <1>1, NoticesType, NoticesTypeNext
  <2>4. Queued(i) = Copies(pending, i) + Copies(hands, i)
        /\ Queued(i)' = Copies(pending', i) + Copies(hands', i)
    BY DEF Queued, Copies
  <2> QED
    BY <2>1, <2>2, <2>3, <2>4
<1>4. ReportInv'
  <2> SUFFICES ASSUME NEW i \in Jobs
               PROVE  /\ Notices(i)' <= IF reported'[i] THEN 1 ELSE 0
                      /\ job'[i] = "none" => ~reported'[i]
                      /\ IsLive(i)' /\ reported'[i] /\ ~regClosed => i \in known'
                      /\ i \in known' => reported'[i] /\ Copies(pending', i) = 0 /\ Copies(hands', i) = 0
    BY DEF ReportInv, Copies
  <2>1. /\ Notices(i) <= IF reported[i] THEN 1 ELSE 0
        /\ job[i] = "none" => ~reported[i]
        /\ IsLive(i) /\ reported[i] /\ ~regClosed => i \in known
        /\ i \in known => reported[i] /\ Copies(pending, i) = 0
    BY DEF NoticesInv, ReportInv
  <2>2. IsLive(i)' => IsLive(i)
    BY DEF IsLive
  <2>3. CASE i = j
    <3>1. Notices(j)' <= 1 /\ Copies(pending, j) <= 1
      BY <1>1, <1>3, <2>1, <2>3, NoticesType
    <3> QED
      BY <1>1, <1>2, <1>3, <2>1, <2>2, <2>3, <3>1 DEF IsLive
  <2>4. CASE i # j
    BY <1>1, <1>3, <2>1, <2>2, <2>4 DEF IsLive
  <2> QED
    BY <2>3, <2>4
<1>5. EndIsTold'
  <2> SUFFICES ASSUME NEW i \in Jobs
               PROVE  /\ job'[i] = "done" /\ ~regClosed =>
                          \/ i \in known' \union cut' \union omitted \union InHand \union ToSet(pending')
                          \/ stored[i] > 0
                          \/ Waiters(i)' # {}
                      /\ cursor'[i] > shown'[i] => i \in cut'
    BY <1>1 DEF EndIsTold, InHand, ToSet
  <2>1. cursor'[i] > shown'[i] => i \in cut'
    BY DEF NoticesInv, EndIsTold
  <2>2. CASE i = j
    BY <2>1, <2>2
  <2>3. CASE i # j
    BY <1>2, <2>1, <2>3 DEF NoticesInv, EndIsTold
  <2> QED
    BY <2>2, <2>3
<1> QED
  BY <1>4, <1>5

LEMMA LookForWakeKeeps ==
    ASSUME NoticesInv, LookForWake
    PROVE  NoticesInv'
<1> USE DEF NoticesInv, LookForWake, quiet, turn, taken, inbox
<1>1. Moved /\ pending' \in Seq(Jobs) /\ hands' \in Seq(Jobs)
      /\ omitted' \subseteq Jobs /\ handsMore' \subseteq Jobs /\ cut' \subseteq Jobs
  BY NothingMoves DEF TypeOK
<1>2. TypeOK'
  BY <1>1, Limits
     DEF TypeOK, PlaceInv, registry, output, Places, Kinds, CanWake, CanWakeWith, Some
<1>3. ReportInv' /\ EndIsTold'
  BY <1>1, <1>2, MoveKeeps
<1>4. PlaceInv'
  BY Limits
     DEF TypeOK, PlaceInv, registry, CanWake, CanWakeWith, Some
<1>5. WakeInv'
  BY Limits
     DEF TypeOK, WakeInv, CanWake, CanWakeWith, Some
<1>6. ParkedIsNotified'
  BY DEF ParkedIsNotified, CanWake, CanWakeWith, Some
<1> QED
  BY <1>2, <1>3, <1>4, <1>5, <1>6

LEMMA SignalAtWakeKeeps ==
    ASSUME NoticesInv, SignalAtWake
    PROVE  NoticesInv'
<1> USE DEF NoticesInv, SignalAtWake, quiet, turn, taken, inbox
<1>1. Moved /\ pending' \in Seq(Jobs) /\ hands' \in Seq(Jobs)
      /\ omitted' \subseteq Jobs /\ handsMore' \subseteq Jobs /\ cut' \subseteq Jobs
  BY NothingMoves DEF TypeOK
<1>2. TypeOK'
  BY <1>1, Limits
     DEF TypeOK, PlaceInv, registry, output, Places, Kinds
<1>3. ReportInv' /\ EndIsTold'
  BY <1>1, <1>2, MoveKeeps
<1>4. PlaceInv'
  BY Limits
     DEF TypeOK, PlaceInv, registry
<1>5. WakeInv'
  BY Limits
     DEF TypeOK, WakeInv
<1>6. ParkedIsNotified'
  BY DEF ParkedIsNotified
<1> QED
  BY <1>2, <1>3, <1>4, <1>5, <1>6

LEMMA OtherTurnKeeps ==
    ASSUME NoticesInv, OtherTurn
    PROVE  NoticesInv'
<1> USE DEF NoticesInv, OtherTurn, quiet, turn, taken, inbox
<1>1. Moved /\ pending' \in Seq(Jobs) /\ hands' \in Seq(Jobs)
      /\ omitted' \subseteq Jobs /\ handsMore' \subseteq Jobs /\ cut' \subseteq Jobs
  BY NothingMoves DEF TypeOK
<1>2. TypeOK'
  BY <1>1, Limits
     DEF TypeOK, PlaceInv, registry, output, Places, Kinds, Kinds
<1>3. ReportInv' /\ EndIsTold'
  BY <1>1, <1>2, MoveKeeps
<1>4. PlaceInv'
  BY Limits
     DEF TypeOK, PlaceInv, registry, Kinds
<1>5. WakeInv'
  BY Limits
     DEF TypeOK, WakeInv, Kinds
<1>6. ParkedIsNotified'
  BY DEF ParkedIsNotified, Kinds
<1> QED
  BY <1>2, <1>3, <1>4, <1>5, <1>6

LEMMA StopKeeps ==
    ASSUME NoticesInv, Stop
    PROVE  NoticesInv'
<1> USE DEF NoticesInv, Stop, quiet, turn, taken, inbox
<1>1. Moved /\ pending' \in Seq(Jobs) /\ hands' \in Seq(Jobs)
      /\ omitted' \subseteq Jobs /\ handsMore' \subseteq Jobs /\ cut' \subseteq Jobs
  BY NothingMoves DEF TypeOK
<1>2. TypeOK'
  BY <1>1, Limits
     DEF TypeOK, PlaceInv, registry, output, Places, Kinds
<1>3. ReportInv' /\ EndIsTold'
  BY <1>1, <1>2, MoveKeeps
<1>4. PlaceInv'
  BY Limits
     DEF TypeOK, PlaceInv, registry
<1>5. WakeInv'
  BY Limits
     DEF TypeOK, WakeInv
<1>6. ParkedIsNotified'
  BY DEF ParkedIsNotified
<1> QED
  BY <1>2, <1>3, <1>4, <1>5, <1>6

LEMMA CatalogFailsKeeps ==
    ASSUME NoticesInv, CatalogFails
    PROVE  NoticesInv'
<1> USE DEF NoticesInv, CatalogFails, quiet, turn, taken, inbox
<1>1. Moved /\ pending' \in Seq(Jobs) /\ hands' \in Seq(Jobs)
      /\ omitted' \subseteq Jobs /\ handsMore' \subseteq Jobs /\ cut' \subseteq Jobs
  BY NothingMoves DEF TypeOK
<1>2. TypeOK'
  BY <1>1, Limits
     DEF TypeOK, PlaceInv, registry, output, Places, Kinds
<1>3. ReportInv' /\ EndIsTold'
  BY <1>1, <1>2, MoveKeeps
<1>4. PlaceInv'
  BY Limits
     DEF TypeOK, PlaceInv, registry
<1>5. WakeInv'
  BY Limits
     DEF TypeOK, WakeInv
<1>6. ParkedIsNotified'
  BY DEF ParkedIsNotified
<1> QED
  BY <1>2, <1>3, <1>4, <1>5, <1>6

LEMMA StepCompletesKeeps ==
    ASSUME NoticesInv, StepCompletes
    PROVE  NoticesInv'
<1> USE DEF NoticesInv, StepCompletes, quiet, turn, taken, inbox
<1>1. Moved /\ pending' \in Seq(Jobs) /\ hands' \in Seq(Jobs)
      /\ omitted' \subseteq Jobs /\ handsMore' \subseteq Jobs /\ cut' \subseteq Jobs
  BY NothingMoves DEF TypeOK
<1>2. TypeOK'
  BY <1>1, Limits
     DEF TypeOK, PlaceInv, registry, output, Places, Kinds, InStep, NotifyWith, CanWakeWith,
         Some
<1>3. ReportInv' /\ EndIsTold'
  BY <1>1, <1>2, MoveKeeps
<1>4. PlaceInv'
  BY Limits
     DEF TypeOK, PlaceInv, registry, InStep, NotifyWith, CanWakeWith, Some
<1>5. WakeInv'
  BY Limits
     DEF TypeOK, WakeInv, InStep, NotifyWith, CanWakeWith, Some
<1>6. ParkedIsNotified'
  BY DEF ParkedIsNotified, InStep, NotifyWith, CanWakeWith, Some
<1> QED
  BY <1>2, <1>3, <1>4, <1>5, <1>6

LEMMA StepContinuesKeeps ==
    ASSUME NoticesInv, StepContinues
    PROVE  NoticesInv'
<1> USE DEF NoticesInv, StepContinues, quiet, turn, taken, inbox
<1>1. Moved /\ pending' \in Seq(Jobs) /\ hands' \in Seq(Jobs)
      /\ omitted' \subseteq Jobs /\ handsMore' \subseteq Jobs /\ cut' \subseteq Jobs
  BY NothingMoves DEF TypeOK
<1>2. TypeOK'
  BY <1>1, Limits
     DEF TypeOK, PlaceInv, registry, output, Places, Kinds, InStep
<1>3. ReportInv' /\ EndIsTold'
  BY <1>1, <1>2, MoveKeeps
<1>4. PlaceInv'
  BY Limits
     DEF TypeOK, PlaceInv, registry, InStep
<1>5. WakeInv'
  BY Limits
     DEF TypeOK, WakeInv, InStep
<1>6. ParkedIsNotified'
  BY DEF ParkedIsNotified, InStep
<1> QED
  BY <1>2, <1>3, <1>4, <1>5, <1>6

LEMMA StepStopsKeeps ==
    ASSUME NoticesInv, StepStops
    PROVE  NoticesInv'
<1> USE DEF NoticesInv, StepStops, quiet, turn, taken, inbox
<1>1. Moved /\ pending' \in Seq(Jobs) /\ hands' \in Seq(Jobs)
      /\ omitted' \subseteq Jobs /\ handsMore' \subseteq Jobs /\ cut' \subseteq Jobs
  BY NothingMoves DEF TypeOK
<1>2. TypeOK'
  BY <1>1, Limits
     DEF TypeOK, PlaceInv, registry, output, Places, Kinds
<1>3. ReportInv' /\ EndIsTold'
  BY <1>1, <1>2, MoveKeeps
<1>4. PlaceInv'
  BY Limits
     DEF TypeOK, PlaceInv, registry
<1>5. WakeInv'
  BY Limits
     DEF TypeOK, WakeInv
<1>6. ParkedIsNotified'
  BY DEF ParkedIsNotified
<1> QED
  BY <1>2, <1>3, <1>4, <1>5, <1>6

LEMMA CloseTurnKeeps ==
    ASSUME NoticesInv, CloseTurn
    PROVE  NoticesInv'
<1> USE DEF NoticesInv, CloseTurn, quiet, turn, taken, inbox
<1>1. Moved /\ pending' \in Seq(Jobs) /\ hands' \in Seq(Jobs)
      /\ omitted' \subseteq Jobs /\ handsMore' \subseteq Jobs /\ cut' \subseteq Jobs
  BY NothingMoves DEF TypeOK, FinishTurn
<1>2. TypeOK'
  <2>1. permit' \in BOOLEAN
    BY Limits
       DEF TypeOK, FinishTurn, NotifyWith, CanWakeWith, Some
  <2>2. steps' \in 0 .. MaxSteps
    BY Limits
       DEF TypeOK, ForgetTurn
  <2> QED
    BY <1>1, Limits, <2>1, <2>2
       DEF TypeOK, registry, output, Places, Kinds, FinishTurn, ForgetTurn
<1>3. ReportInv' /\ EndIsTold'
  BY <1>1, <1>2, MoveKeeps
<1>4. PlaceInv'
  BY Limits
     DEF TypeOK, PlaceInv, registry, FinishTurn, ForgetTurn, NotifyWith, CanWakeWith, Some
<1>5. WakeInv'
  BY Limits
     DEF TypeOK, WakeInv, FinishTurn, ForgetTurn, NotifyWith, CanWakeWith, Some
<1>6. ParkedIsNotified'
  BY DEF ParkedIsNotified, FinishTurn, ForgetTurn, NotifyWith, CanWakeWith, Some
<1> QED
  BY <1>2, <1>3, <1>4, <1>5, <1>6

LEMMA ClaimWakeKeeps ==
    ASSUME NoticesInv, ClaimWake
    PROVE  NoticesInv'
<1> USE DEF NoticesInv, ClaimWake, quiet, turn, taken, inbox
<1>1. Moved /\ pending' \in Seq(Jobs) /\ hands' \in Seq(Jobs)
      /\ omitted' \subseteq Jobs /\ handsMore' \subseteq Jobs /\ cut' \subseteq Jobs
  <2>1. CASE CanWake
    BY <2>1, DrainMoves
       DEF TypeOK
  <2>2. CASE ~CanWake
    BY <2>2, NothingMoves
       DEF TypeOK
  <2> QED
    BY <2>1, <2>2
<1>2. TypeOK'
  <2>1. wakes' \in 0 .. MaxWakes
    BY Limits
       DEF TypeOK, CanWake, CanWakeWith, Some
  <2> QED
    BY <1>1, Limits, <2>1
       DEF TypeOK, registry, output, Places, Kinds, Drain, CanWake
<1>3. ReportInv' /\ EndIsTold'
  BY <1>1, <1>2, MoveKeeps
<1>4. PlaceInv'
  BY Limits
     DEF TypeOK, PlaceInv, registry, Drain, CanWake, CanWakeWith, Some
<1>5. WakeInv'
  BY Limits
     DEF TypeOK, WakeInv, Drain, CanWake, CanWakeWith, Some
<1>6. ParkedIsNotified'
  BY DEF ParkedIsNotified, Drain, CanWake, CanWakeWith, Some
<1> QED
  BY <1>2, <1>3, <1>4, <1>5, <1>6

LEMMA BeginTurnKeeps ==
    ASSUME NoticesInv, BeginTurn
    PROVE  NoticesInv'
<1> USE DEF NoticesInv, BeginTurn, quiet, turn, taken, inbox
<1>1. Moved /\ pending' \in Seq(Jobs) /\ hands' \in Seq(Jobs)
      /\ omitted' \subseteq Jobs /\ handsMore' \subseteq Jobs /\ cut' \subseteq Jobs
  <2>1. CASE kind # "wake" /\ ~stop
    BY <2>1, DrainMoves
       DEF TypeOK
  <2>2. CASE ~(kind # "wake" /\ ~stop)
    BY <2>2, NothingMoves
       DEF TypeOK
  <2> QED
    BY <2>1, <2>2
<1>2. TypeOK'
  BY <1>1, Limits
     DEF TypeOK, PlaceInv, registry, output, Places, Kinds, Drain, CanWake
<1>3. ReportInv' /\ EndIsTold'
  BY <1>1, <1>2, MoveKeeps
<1>4. PlaceInv'
  BY Limits
     DEF TypeOK, PlaceInv, registry, Drain, CanWake
<1>5. WakeInv'
  BY Limits
     DEF TypeOK, WakeInv, Drain, CanWake
<1>6. ParkedIsNotified'
  BY DEF ParkedIsNotified, Drain, CanWake
<1> QED
  BY <1>2, <1>3, <1>4, <1>5, <1>6

LEMMA RefuseTurnKeeps ==
    ASSUME NoticesInv, RefuseTurn
    PROVE  NoticesInv'
<1> USE DEF NoticesInv, RefuseTurn, quiet, turn, taken, inbox
<1>1. Moved /\ pending' \in Seq(Jobs) /\ hands' \in Seq(Jobs)
      /\ omitted' \subseteq Jobs /\ handsMore' \subseteq Jobs /\ cut' \subseteq Jobs
  BY RestoreMoves DEF TypeOK
<1>2. TypeOK'
  <2>1. permit' \in BOOLEAN
    BY Limits
       DEF TypeOK, Restore, NotifyWith, CanWakeWith, Some
  <2>2. wakes' \in 0 .. MaxWakes
    BY Limits
       DEF TypeOK, Restore
  <2>3. steps' \in 0 .. MaxSteps
    BY Limits
       DEF TypeOK, ForgetTurn
  <2> QED
    BY <1>1, Limits, <2>1, <2>2, <2>3
       DEF TypeOK, registry, output, Places, Kinds, Restore, ForgetTurn
<1>3. ReportInv' /\ EndIsTold'
  BY <1>1, <1>2, MoveKeeps
<1>4. PlaceInv'
  BY Limits
     DEF TypeOK, PlaceInv, registry, Restore, ForgetTurn, NotifyWith, CanWakeWith, Some
<1>5. WakeInv'
  BY Limits
     DEF TypeOK, WakeInv, Restore, ForgetTurn, NotifyWith, CanWakeWith, Some
<1>6. ParkedIsNotified'
  BY DEF ParkedIsNotified, Restore, ForgetTurn, NotifyWith, CanWakeWith, Some
<1> QED
  BY <1>2, <1>3, <1>4, <1>5, <1>6

LEMMA OpenTurnKeeps ==
    ASSUME NoticesInv, OpenTurn
    PROVE  NoticesInv'
<1> USE DEF NoticesInv, OpenTurn, quiet, turn, taken, inbox
<1>1. Moved /\ pending' \in Seq(Jobs) /\ hands' \in Seq(Jobs)
      /\ omitted' \subseteq Jobs /\ handsMore' \subseteq Jobs /\ cut' \subseteq Jobs
  <2>1. CASE stop
    BY <2>1, DropMoves
       DEF TypeOK
  <2>2. CASE ~stop
    BY <2>2, NothingMoves
       DEF TypeOK
  <2> QED
    BY <2>1, <2>2
<1>2. TypeOK'
  <2>1. wakes' \in 0 .. MaxWakes
    BY Limits
       DEF TypeOK
  <2>2. autos' \in Nat
    BY Limits
       DEF TypeOK
  <2> QED
    BY <1>1, Limits, <2>1, <2>2
       DEF TypeOK, registry, output, Places, Kinds, DropHands, CanWake
<1>3. ReportInv' /\ EndIsTold'
  BY <1>1, <1>2, MoveKeeps
     DEF DropHands
<1>4. PlaceInv'
  BY Limits
     DEF TypeOK, PlaceInv, registry, DropHands, CanWake, CanWakeWith, Some
<1>5. WakeInv'
  BY Limits
     DEF TypeOK, WakeInv, DropHands, CanWake, CanWakeWith, Some
<1>6. ParkedIsNotified'
  BY DEF ParkedIsNotified, DropHands, CanWake, CanWakeWith, Some
<1> QED
  BY <1>2, <1>3, <1>4, <1>5, <1>6

LEMMA PrepareStepKeeps ==
    ASSUME NoticesInv, PrepareStep
    PROVE  NoticesInv'
<1> USE DEF NoticesInv, PrepareStep, quiet, turn, taken, inbox
<1>1. Moved /\ pending' \in Seq(Jobs) /\ hands' \in Seq(Jobs)
      /\ omitted' \subseteq Jobs /\ handsMore' \subseteq Jobs /\ cut' \subseteq Jobs
  <2>1. CASE stop \/ steps >= MaxSteps
    BY <2>1, DropMoves DEF TypeOK
  <2>2. CASE ~(stop \/ steps >= MaxSteps) /\ active
    BY <2>2, DrainMoves DEF TypeOK, ClaimForStep
  <2>3. CASE ~(stop \/ steps >= MaxSteps) /\ ~active
    BY <2>3, NothingMoves DEF TypeOK, ClaimForStep
  <2> QED
    BY <2>1, <2>2, <2>3
<1>2. TypeOK'
  BY <1>1, Limits
     DEF TypeOK, PlaceInv, registry, output, Places, Kinds, DropHands, ClaimForStep, Drain,
         CanWake, CanWakeWith, Some
<1>3. ReportInv' /\ EndIsTold'
  BY <1>1, <1>2, MoveKeeps
     DEF DropHands
<1>4. PlaceInv'
  BY Limits
     DEF TypeOK, PlaceInv, registry, DropHands, ClaimForStep, Drain, CanWake, CanWakeWith, Some
<1>5. WakeInv'
  BY Limits
     DEF TypeOK, WakeInv, DropHands, ClaimForStep, Drain, CanWake, CanWakeWith, Some
<1>6. ParkedIsNotified'
  BY DEF ParkedIsNotified, DropHands, ClaimForStep, Drain, CanWake, CanWakeWith, Some
<1> QED
  BY <1>2, <1>3, <1>4, <1>5, <1>6

LEMMA ReconcileKeeps ==
    ASSUME NoticesInv, Reconcile
    PROVE  NoticesInv'
<1> USE DEF NoticesInv, Reconcile, quiet, turn, taken, inbox
<1>1. Moved /\ pending' \in Seq(Jobs) /\ hands' \in Seq(Jobs)
      /\ omitted' \subseteq Jobs /\ handsMore' \subseteq Jobs /\ cut' \subseteq Jobs
  BY DrainMoves DEF TypeOK
<1>2. TypeOK'
  BY <1>1, Limits
     DEF TypeOK, PlaceInv, registry, output, Places, Kinds, Drain, CanWake, CanWakeWith, Some
<1>3. ReportInv' /\ EndIsTold'
  BY <1>1, <1>2, MoveKeeps
<1>4. PlaceInv'
  BY Limits
     DEF TypeOK, PlaceInv, registry, Drain, CanWake, CanWakeWith, Some
<1>5. WakeInv'
  BY Limits
     DEF TypeOK, WakeInv, Drain, CanWake, CanWakeWith, Some
<1>6. ParkedIsNotified'
  BY DEF ParkedIsNotified, Drain, CanWake, CanWakeWith, Some
<1> QED
  BY <1>2, <1>3, <1>4, <1>5, <1>6

LEMMA GiveUpStepKeeps ==
    ASSUME NoticesInv, GiveUpStep
    PROVE  NoticesInv'
<1> USE DEF NoticesInv, GiveUpStep, quiet, turn, taken, inbox
<1>1. Moved /\ pending' \in Seq(Jobs) /\ hands' \in Seq(Jobs)
      /\ omitted' \subseteq Jobs /\ handsMore' \subseteq Jobs /\ cut' \subseteq Jobs
  BY DropMoves DEF TypeOK
<1>2. TypeOK'
  BY <1>1, Limits
     DEF TypeOK, PlaceInv, registry, output, Places, Kinds, DropHands
<1>3. ReportInv' /\ EndIsTold'
  BY <1>1, <1>2, MoveKeeps
     DEF DropHands
<1>4. PlaceInv'
  BY Limits
     DEF TypeOK, PlaceInv, registry, DropHands
<1>5. WakeInv'
  BY Limits
     DEF TypeOK, WakeInv, DropHands
<1>6. ParkedIsNotified'
  BY DEF ParkedIsNotified, DropHands
<1> QED
  BY <1>2, <1>3, <1>4, <1>5, <1>6

LEMMA TurnFailsKeeps ==
    ASSUME NoticesInv, TurnFails
    PROVE  NoticesInv'
<1> USE DEF NoticesInv, TurnFails, quiet, turn, taken, inbox
<1>1. Moved /\ pending' \in Seq(Jobs) /\ hands' \in Seq(Jobs)
      /\ omitted' \subseteq Jobs /\ handsMore' \subseteq Jobs /\ cut' \subseteq Jobs
  BY DropMoves DEF TypeOK, FinishTurn
<1>2. TypeOK'
  BY <1>1, Limits
     DEF TypeOK, PlaceInv, registry, output, Places, Kinds, DropHands, FinishTurn, NotifyWith,
         CanWakeWith, Some
<1>3. ReportInv' /\ EndIsTold'
  BY <1>1, <1>2, MoveKeeps
     DEF DropHands
<1>4. PlaceInv'
  BY Limits
     DEF TypeOK, PlaceInv, registry, DropHands, FinishTurn, NotifyWith, CanWakeWith, Some
<1>5. WakeInv'
  BY Limits
     DEF TypeOK, WakeInv, DropHands, FinishTurn, NotifyWith, CanWakeWith, Some
<1>6. ParkedIsNotified'
  BY DEF ParkedIsNotified, DropHands, FinishTurn, NotifyWith, CanWakeWith, Some
<1> QED
  BY <1>2, <1>3, <1>4, <1>5, <1>6

LEMMA FinishStep ==
    ASSUME NoticesInv, NEW j \in Jobs, Finish(j)
    PROVE  NoticesInv'
<1>1. PlaceInv' /\ WakeInv'
  BY DEF NoticesInv, PlaceInv, WakeInv, Finish, Enqueue, turn, taken, inbox
<1> QED
  BY <1>1, FinishKeeps DEF NoticesInv

LEMMA StartShellKeeps ==
    ASSUME NoticesInv, StartShell
    PROVE  NoticesInv'
<1> USE DEF NoticesInv, output, inbox, turn, taken
<1>1. /\ UNCHANGED <<reported, regClosed, output, body, inbox, turn, taken, stored, known, cut, autos>>
      /\ job \in [Jobs -> {"none", "running", "stopping", "done", "evicted"}]
      /\ job' \in [Jobs -> {"none", "running", "stopping", "done", "evicted"}]
      /\ \A i \in Jobs : \/ job'[i] = job[i]
                         \/ job[i] = "none" /\ job'[i] = "running"
                         \/ job[i] = "done" /\ job'[i] = "evicted"
  BY DEF StartShell, TypeOK
<1>2. TypeOK'
  BY <1>1 DEF TypeOK
<1>3. ASSUME NEW i \in Jobs PROVE Notices(i)' = Notices(i)
  BY <1>1 DEF Notices, Copies
<1>4. ReportInv'
  <2> SUFFICES ASSUME NEW i \in Jobs
               PROVE  /\ Notices(i)' <= IF reported[i] THEN 1 ELSE 0
                      /\ job'[i] = "none" => ~reported[i]
                      /\ IsLive(i)' /\ reported[i] /\ ~regClosed => i \in known
                      /\ i \in known => reported[i] /\ Copies(pending, i) = 0 /\ Copies(hands, i) = 0
    BY <1>1 DEF ReportInv, Copies
  <2> QED
    BY <1>1, <1>3 DEF ReportInv, IsLive
<1>5. EndIsTold'
  <2> SUFFICES ASSUME NEW i \in Jobs
               PROVE  /\ job'[i] = "done" /\ ~regClosed =>
                          \/ i \in known \union cut \union omitted \union InHand \union ToSet(pending)
                          \/ stored[i] > 0
                          \/ Waiters(i) # {}
                      /\ cursor[i] > shown[i] => i \in cut
    BY <1>1 DEF EndIsTold, InHand, ToSet, Waiters
  <2> QED
    BY <1>1 DEF EndIsTold
<1>6. PlaceInv' /\ WakeInv' /\ ParkedIsNotified'
  BY <1>1 DEF PlaceInv, WakeInv, ParkedIsNotified, CanWake, CanWakeWith, Some
<1> QED
  BY <1>2, <1>4, <1>5, <1>6

LEMMA EmitKeeps ==
    ASSUME NoticesInv, NEW j \in Jobs, Emit(j)
    PROVE  NoticesInv'
<1> USE DEF NoticesInv, registry, inbox, turn, taken
<1>1. /\ UNCHANGED <<registry, cursor, shown, body, inbox, turn, taken, stored, known, cut, autos>>
      /\ tap' = [tap EXCEPT ![j] = 1]
  BY DEF Emit
<1>2. TypeOK'
  BY <1>1 DEF TypeOK
<1>3. ReportInv' /\ EndIsTold' /\ PlaceInv' /\ WakeInv' /\ ParkedIsNotified'
  BY <1>1 DEF ReportInv, EndIsTold, PlaceInv, WakeInv, ParkedIsNotified, Notices, Copies, IsLive,
              InHand, ToSet, Waiters, CanWake, CanWakeWith, Some
<1> QED
  BY <1>2, <1>3

LEMMA JobOutputWaitsKeeps ==
    ASSUME NoticesInv, NEW b \in Bodies, NEW j \in Jobs, JobOutputWaits(b, j)
    PROVE  NoticesInv'
<1> USE DEF NoticesInv, registry, output, inbox, turn, taken
<1>1. /\ UNCHANGED <<registry, output, inbox, turn, taken, stored, known, cut, autos>>
      /\ body[b] = NoJob /\ body' = [body EXCEPT ![b] = j]
      /\ body \in [Bodies -> Jobs \union {NoJob}]
  BY DEF JobOutputWaits, TypeOK
<1>2. TypeOK'
  BY <1>1 DEF TypeOK
<1>3. \A i \in Jobs : Waiters(i) \subseteq Waiters(i)'
  BY <1>1, Limits DEF Waiters
<1>4. ReportInv' /\ PlaceInv' /\ WakeInv' /\ ParkedIsNotified'
  BY <1>1 DEF ReportInv, PlaceInv, WakeInv, ParkedIsNotified, Notices, Copies, IsLive, CanWake,
              CanWakeWith, Some
<1>5. EndIsTold'
  <2> SUFFICES ASSUME NEW i \in Jobs
               PROVE  /\ job[i] = "done" /\ ~regClosed =>
                          \/ i \in known \union cut \union omitted \union InHand \union ToSet(pending)
                          \/ stored[i] > 0
                          \/ Waiters(i)' # {}
                      /\ cursor[i] > shown[i] => i \in cut
    BY <1>1 DEF EndIsTold, InHand, ToSet
  <2> QED
    BY <1>3 DEF EndIsTold
<1> QED
  BY <1>2, <1>4, <1>5

\* What a read leaves, whether its result is stored or not.
LEMMA ReadKeeps ==
    ASSUME NoticesInv, NEW j \in Jobs, Read(j), TypeOK', hands = <<>>, pc = "step",
           \/ shown' = [shown EXCEPT ![j] = tap[j]] /\ UNCHANGED cut
           \/ UNCHANGED shown /\ cut' = cut \union {j},
           UNCHANGED known \/ (known' = known \union {j} /\ job[j] = "done"),
           job[j] = "done" => j \in known' \union cut',
           \A i \in Jobs : i # j => Waiters(i)' = Waiters(i),
           UNCHANGED <<job, regClosed, tap, turn, taken, stored, autos>>
    PROVE  NoticesInv'
<1> USE DEF NoticesInv, turn, taken
<1>1. /\ cursor' = [cursor EXCEPT ![j] = tap[j]]
      /\ cursor \in [Jobs -> 0 .. 1] /\ shown \in [Jobs -> 0 .. 1] /\ tap \in [Jobs -> 0 .. 1]
      /\ cut \subseteq cut' /\ known \subseteq known'
  BY DEF Read, TypeOK
<1>2. ASSUME NEW i \in Jobs
      PROVE  /\ i = j \/ (cursor'[i] = cursor[i] /\ shown'[i] = shown[i])
             /\ cursor'[i] > shown'[i] => cursor[i] > shown[i] \/ i \in cut'
  BY <1>1
<1>3. PlaceInv' /\ WakeInv' /\ ParkedIsNotified'
  BY DEF PlaceInv, WakeInv, ParkedIsNotified, Read, SuppressJob, inbox
<1>4. CASE job[j] = "done"
  <2>1. reported' = [reported EXCEPT ![j] = TRUE] /\ SuppressJob(j)
    BY <1>4 DEF Read
  <2>2. ReportInv' /\ EndIsTold'
    BY <1>1, <1>2, <1>4, <2>1, SuppressKeeps DEF IsLive
  <2> QED
    BY <1>3, <2>2
<1>5. CASE job[j] # "done"
  <2>1. UNCHANGED <<reported, inbox, known>>
    BY <1>5 DEF Read
  <2>2. ReportInv'
    BY <2>1 DEF ReportInv, Notices, Copies, IsLive, inbox
  <2>3. EndIsTold'
    <3> SUFFICES ASSUME NEW i \in Jobs
                 PROVE  /\ job[i] = "done" /\ ~regClosed =>
                            \/ i \in known \union cut' \union omitted \union InHand \union ToSet(pending)
                            \/ stored[i] > 0
                            \/ Waiters(i)' # {}
                        /\ cursor'[i] > shown'[i] => i \in cut'
      BY <2>1 DEF EndIsTold, InHand, ToSet, inbox
    <3>1. cursor'[i] > shown'[i] => i \in cut'
      BY <1>1, <1>2 DEF EndIsTold
    <3> QED
      BY <1>1, <1>5, <3>1 DEF EndIsTold
  <2> QED
    BY <1>3, <2>2, <2>3
<1> QED
  BY <1>4, <1>5

LEMMA ReadTypes ==
    ASSUME TypeOK, NEW j \in Jobs, Read(j)
    PROVE  /\ cursor' \in [Jobs -> 0 .. 1] /\ reported' \in [Jobs -> BOOLEAN]
           /\ pending' \in Seq(Jobs)
           /\ UNCHANGED <<omitted, active, wakes, closed, permit>>
<1>1. pending \in Seq(Jobs)
  BY DEF TypeOK
<1>2. RemoveFirst(pending, j) \in Seq(Jobs)
  BY <1>1, CopiesOfRest
<1> QED
  BY <1>1, <1>2 DEF Read, SuppressJob, TypeOK, inbox

LEMMA JobOutputKeeps ==
    ASSUME NoticesInv, NEW j \in Jobs, JobOutput(j)
    PROVE  NoticesInv'
<1>1. /\ Read(j) /\ shown' = [shown EXCEPT ![j] = tap[j]] /\ pc = "step" /\ hands = <<>>
      /\ known' = IF job[j] = "done" THEN known \union {j} ELSE known
      /\ UNCHANGED <<job, regClosed, tap, body, turn, taken, stored, cut, autos>>
  BY DEF JobOutput, ReadAndShow, InStep, NoticesInv, PlaceInv
<1>2. TypeOK'
  BY <1>1, ReadTypes DEF NoticesInv, TypeOK, turn, taken
<1>3. \A i \in Jobs : i # j => Waiters(i)' = Waiters(i)
  BY <1>1 DEF Waiters
<1>4. /\ shown' = [shown EXCEPT ![j] = tap[j]] /\ UNCHANGED cut
      /\ UNCHANGED known \/ (known' = known \union {j} /\ job[j] = "done")
      /\ job[j] = "done" => j \in known' \union cut'
      /\ UNCHANGED <<job, regClosed, tap, turn, taken, stored, autos>>
  BY <1>1
<1> QED
  BY <1>1, <1>2, <1>3, <1>4, ReadKeeps

LEMMA WaitEndsKeeps ==
    ASSUME NoticesInv, NEW b \in Bodies, WaitEnds(b)
    PROVE  NoticesInv'
<1> DEFINE j == body[b]
<1>1. j \in Jobs /\ body \in [Bodies -> Jobs \union {NoJob}]
  BY DEF WaitEnds, NoticesInv, TypeOK
<1>2. /\ Read(j) /\ shown' = [shown EXCEPT ![j] = tap[j]] /\ pc = "step" /\ hands = <<>>
      /\ known' = IF job[j] = "done" THEN known \union {j} ELSE known
      /\ body' = [body EXCEPT ![b] = NoJob]
      /\ UNCHANGED <<job, regClosed, tap, turn, taken, stored, cut, autos>>
  BY DEF WaitEnds, ReadAndShow, InStep, NoticesInv, PlaceInv
<1>3. \A i \in Jobs : i # j => Waiters(i)' = Waiters(i)
  BY <1>1, <1>2, Limits DEF Waiters
<1> HIDE DEF j
<1>4. TypeOK'
  BY <1>1, <1>2, ReadTypes DEF NoticesInv, TypeOK, turn, taken
<1>5. /\ shown' = [shown EXCEPT ![j] = tap[j]] /\ UNCHANGED cut
      /\ UNCHANGED known \/ (known' = known \union {j} /\ job[j] = "done")
      /\ job[j] = "done" => j \in known' \union cut'
      /\ UNCHANGED <<job, regClosed, tap, turn, taken, stored, autos>>
  BY <1>2
<1> QED
  BY <1>1, <1>2, <1>3, <1>4, <1>5, ReadKeeps

LEMMA WaitIsCutKeeps ==
    ASSUME NoticesInv, NEW b \in Bodies, WaitIsCut(b)
    PROVE  NoticesInv'
<1> DEFINE j == body[b]
<1>1. j \in Jobs /\ body \in [Bodies -> Jobs \union {NoJob}]
  BY DEF WaitIsCut, NoticesInv, TypeOK
<1>2. /\ pc = "step" /\ hands = <<>> /\ body' = [body EXCEPT ![b] = NoJob]
      /\ UNCHANGED <<job, regClosed, tap, shown, turn, taken, stored, known, autos>>
  BY DEF WaitIsCut, NoticesInv, PlaceInv
<1>3. \A i \in Jobs : i # j => Waiters(i)' = Waiters(i)
  BY <1>1, <1>2, Limits DEF Waiters
<1>4. \/ job[j] = "done" /\ Read(j) /\ cut' = cut \union {j}
      \/ job[j] # "done" /\ UNCHANGED <<reported, inbox, cursor, cut>>
  BY DEF WaitIsCut
<1> HIDE DEF j
<1>5. CASE job[j] = "done" /\ Read(j) /\ cut' = cut \union {j}
  <2>1. TypeOK'
    BY <1>1, <1>2, <1>5, ReadTypes DEF NoticesInv, TypeOK, turn, taken
  <2> QED
    BY <1>1, <1>2, <1>3, <1>5, <2>1, ReadKeeps
<1>6. CASE job[j] # "done" /\ UNCHANGED <<reported, inbox, cursor, cut>>
  <2> USE DEF NoticesInv, turn, taken, inbox
  <2>1. TypeOK'
    BY <1>1, <1>2, <1>6 DEF TypeOK
  <2>2. ReportInv' /\ PlaceInv' /\ WakeInv' /\ ParkedIsNotified'
    BY <1>2, <1>6 DEF ReportInv, PlaceInv, WakeInv, ParkedIsNotified, Notices, Copies, IsLive,
                CanWake, CanWakeWith, Some
  <2>3. EndIsTold'
    <3> SUFFICES ASSUME NEW i \in Jobs
                 PROVE  /\ job[i] = "done" /\ ~regClosed =>
                            \/ i \in known \union cut \union omitted \union InHand \union ToSet(pending)
                            \/ stored[i] > 0
                            \/ Waiters(i)' # {}
                        /\ cursor[i] > shown[i] => i \in cut
      BY <1>2, <1>6 DEF EndIsTold, InHand, ToSet
    <3> QED
      BY <1>3, <1>6 DEF EndIsTold
  <2> QED
    BY <2>1, <2>2, <2>3
<1> QED
  BY <1>4, <1>5, <1>6

LEMMA JobKillKeeps ==
    ASSUME NoticesInv, NEW j \in Jobs, JobKill(j)
    PROVE  NoticesInv'
<1> USE DEF NoticesInv, turn, taken, output
<1>1. /\ IsRetained(j) /\ pc = "step" /\ hands = <<>>
      /\ reported' = [reported EXCEPT ![j] = TRUE]
      /\ job' = [job EXCEPT ![j] = IF @ = "done" THEN @ ELSE "stopping"]
      /\ SuppressJob(j) /\ known' = known \union {j}
      /\ UNCHANGED <<regClosed, output, body, turn, taken, stored, cut, autos>>
      /\ job \in [Jobs -> {"none", "running", "stopping", "done", "evicted"}]
  BY DEF JobKill, InStep, PlaceInv, TypeOK
<1>2. pending' \in Seq(Jobs) /\ UNCHANGED <<omitted, active, wakes, closed, permit>>
  <2>1. RemoveFirst(pending, j) \in Seq(Jobs)
    BY CopiesOfRest DEF TypeOK
  <2> QED
    BY <1>1, <2>1 DEF SuppressJob
<1>3. TypeOK'
  BY <1>1, <1>2 DEF TypeOK
<1>4. PlaceInv' /\ WakeInv' /\ ParkedIsNotified'
  BY <1>1, <1>2 DEF PlaceInv, WakeInv, ParkedIsNotified
<1>5. /\ \A i \in Jobs : job'[i] = job[i] \/ (IsLive(i) /\ job'[i] = "stopping")
      /\ job[j] # "none"
  BY <1>1 DEF IsRetained, IsLive
<1>6. \A i \in Jobs : Waiters(i)' = Waiters(i)
  BY <1>1 DEF Waiters
<1>7. ReportInv' /\ EndIsTold'
  BY <1>1, <1>3, <1>5, <1>6, SuppressKeeps
<1> QED
  BY <1>3, <1>4, <1>7

LEMMA ShutdownKeeps ==
    ASSUME NoticesInv, Shutdown
    PROVE  NoticesInv'
<1> USE DEF NoticesInv, taken, output
<1>1. /\ regClosed' = TRUE /\ closed' = TRUE /\ pending' = <<>> /\ omitted' = {} /\ active' = FALSE
      /\ reported' = [j \in Jobs |-> reported[j] \/ IsRetained(j)]
      /\ job' = [j \in Jobs |-> IF IsLive(j) THEN "stopping" ELSE job[j]]
      /\ pc' = "left"
      /\ UNCHANGED <<wakes, permit, output, body, kind, stop, steps, taken, stored, known, cut, autos>>
      /\ job \in [Jobs -> {"none", "running", "stopping", "done", "evicted"}]
      /\ reported \in [Jobs -> BOOLEAN]
  BY DEF Shutdown, CloseInbox, TypeOK
<1>2. TypeOK'
  <2>1. /\ job' \in [Jobs -> {"none", "running", "stopping", "done", "evicted"}]
        /\ reported' \in [Jobs -> BOOLEAN] /\ pc' \in Places
    BY <1>1 DEF IsRetained, IsLive, Places
  <2>2. /\ hands' \in Seq(Jobs) /\ body' \in [Bodies -> Jobs \union {NoJob}]
        /\ {handsMore', known', cut'} \subseteq SUBSET Jobs
        /\ {permit', stop'} \subseteq BOOLEAN
    BY <1>1 DEF TypeOK
  <2>4. pending' \in Seq(Jobs)
    BY <1>1
  <2>5. {omitted', handsMore', known', cut'} \subseteq SUBSET Jobs
    BY <1>1, <2>2
  <2>6. {regClosed', active', closed', permit', stop'} \subseteq BOOLEAN
    BY <1>1, <2>2
  <2>3. /\ wakes' \in 0 .. MaxWakes /\ autos' \in Nat /\ steps' \in 0 .. MaxSteps /\ kind' \in Kinds
        /\ stored' \in [Jobs -> Nat]
        /\ tap' \in [Jobs -> 0 .. 1] /\ cursor' \in [Jobs -> 0 .. 1] /\ shown' \in [Jobs -> 0 .. 1]
    BY <1>1 DEF TypeOK
  <2> QED
    BY <2>1, <2>2, <2>3, <2>4, <2>5, <2>6 DEF TypeOK
<1>3. ReportInv'
  <2> SUFFICES ASSUME NEW i \in Jobs
               PROVE  /\ Notices(i)' <= IF reported'[i] THEN 1 ELSE 0
                      /\ job'[i] = "none" => ~reported'[i]
                      /\ i \in known => reported'[i] /\ Copies(pending', i) = 0 /\ Copies(hands, i) = 0
    BY <1>1 DEF ReportInv, Copies
  <2>1. /\ Notices(i) <= IF reported[i] THEN 1 ELSE 0
        /\ job[i] = "none" => ~reported[i]
        /\ i \in known => reported[i] /\ Copies(hands, i) = 0
        /\ reported[i] => reported'[i]
        /\ job'[i] = "none" => job[i] = "none" /\ reported'[i] = reported[i]
    BY <1>1 DEF ReportInv, IsRetained, IsLive
  <2>2. Copies(pending', i) = 0
    BY <1>1, CopiesOfNone
  <2>3. /\ Queued(i) = Copies(pending, i) + Copies(hands, i)
        /\ Queued(i)' = Copies(pending', i) + Copies(hands, i)
        /\ Counted(i)' <= Counted(i)
    BY <1>1 DEF Queued, Copies, Counted
  <2>4. /\ Copies(pending, i) \in Nat /\ Copies(hands, i) \in Nat /\ stored[i] \in Nat
        /\ Notices(i) = stored[i] + Queued(i) + Counted(i) /\ Counted(i) \in Nat
    BY NoticesType
  <2>5. Notices(i)' = stored'[i] + Queued(i)' + Counted(i)' /\ Counted(i)' \in Nat
    BY <1>2, NoticesTypeNext
  <2>6. Notices(i)' <= Notices(i) /\ Notices(i) \in Nat /\ Notices(i)' \in Nat
    BY <1>1, <2>2, <2>3, <2>4, <2>5
  <2>7. Notices(i)' <= IF reported'[i] THEN 1 ELSE 0
    BY <2>1, <2>6
  <2> QED
    BY <2>1, <2>2, <2>7
<1>4. EndIsTold'
  BY <1>1 DEF EndIsTold
<1>5. PlaceInv' /\ WakeInv' /\ ParkedIsNotified'
  BY <1>1 DEF PlaceInv, WakeInv, ParkedIsNotified, TypeOK
<1> QED
  BY <1>2, <1>3, <1>4, <1>5

LEMMA EnterStepKeeps ==
    ASSUME NoticesInv, EnterStep
    PROVE  NoticesInv'
<1> USE DEF NoticesInv, registry, output, inbox
<1>1. /\ pc = "reserved" /\ pc' = "step" /\ steps' = steps + 1
      /\ stored' = [j \in Jobs |-> stored[j] + Copies(hands, j)]
      /\ hands' = <<>> /\ handsMore' = {} /\ known' = known \union handsMore
      /\ UNCHANGED <<registry, output, body, cut, inbox, kind, stop, autos>>
  BY DEF EnterStep
<1>2. TypeOK'
  <2>1. steps' \in 0 .. MaxSteps
    BY <1>1, Limits DEF TypeOK, PlaceInv
  <2>2. stored' \in [Jobs -> Nat]
    <3>1. \A j \in Jobs : stored[j] + Copies(hands, j) \in Nat
      BY NoticesType
    <3> QED
      BY <1>1, <3>1
  <2> QED
    BY <1>1, <2>1, <2>2 DEF TypeOK, Places
<1>3. ASSUME NEW j \in Jobs
      PROVE  /\ stored'[j] = stored[j] + Copies(hands, j) /\ Copies(hands', j) = 0
             /\ Notices(j)' <= Notices(j) /\ Notices(j)' \in Nat /\ Notices(j) \in Nat
             /\ j \in handsMore => 1 + Copies(pending, j) <= Notices(j)
             /\ j \in ToSet(hands) => stored'[j] > 0
             /\ stored[j] > 0 => stored'[j] > 0
  <2>1. Copies(hands', j) = 0 /\ stored'[j] = stored[j] + Copies(hands, j)
    BY <1>1, CopiesOfNone
  <2>2. /\ Copies(pending, j) \in Nat /\ Copies(hands, j) \in Nat /\ stored[j] \in Nat
        /\ Notices(j) = stored[j] + Queued(j) + Counted(j) /\ Counted(j) \in Nat
        /\ Copies(hands, j) = 0 <=> j \notin ToSet(hands)
    BY NoticesType
  <2>3. /\ Notices(j)' = stored'[j] + Queued(j)' + Counted(j)' /\ Counted(j)' \in Nat
    BY <1>2, NoticesTypeNext
  <2>4. /\ Queued(j) = Copies(pending, j) + Copies(hands, j)
        /\ Queued(j)' = Copies(pending, j) + Copies(hands', j)
        /\ Counted(j)' <= Counted(j) /\ (j \in handsMore => Counted(j) >= 1)
    BY <1>1 DEF Queued, Copies, Counted
  <2> QED
    BY <2>1, <2>2, <2>3, <2>4
<1>4. ReportInv'
  <2> SUFFICES ASSUME NEW i \in Jobs
               PROVE  /\ Notices(i)' <= IF reported[i] THEN 1 ELSE 0
                      /\ job[i] = "none" => ~reported[i]
                      /\ IsLive(i) /\ reported[i] /\ ~regClosed => i \in known'
                      /\ i \in known' => reported[i] /\ Copies(pending, i) = 0 /\ Copies(hands', i) = 0
    BY <1>1 DEF ReportInv, Copies, IsLive
  <2>1. /\ Notices(i) <= IF reported[i] THEN 1 ELSE 0
        /\ job[i] = "none" => ~reported[i]
        /\ IsLive(i) /\ reported[i] /\ ~regClosed => i \in known
        /\ i \in known => reported[i] /\ Copies(pending, i) = 0
    BY DEF ReportInv
  <2>2. i \in handsMore => reported[i] /\ Copies(pending, i) = 0
    <3>1. Copies(pending, i) \in Nat /\ Notices(i) \in Nat
      BY <1>3, NoticesType
    <3> QED
      BY <1>3, <2>1, <3>1
  <2>3. Notices(i)' <= IF reported[i] THEN 1 ELSE 0
    BY <1>3, <2>1
  <2> QED
    BY <1>1, <1>3, <2>1, <2>2, <2>3
<1>5. EndIsTold'
  <2> SUFFICES ASSUME NEW i \in Jobs
               PROVE  /\ job[i] = "done" /\ ~regClosed =>
                          \/ i \in known' \union cut \union omitted \union ToSet(pending)
                          \/ stored'[i] > 0
                          \/ Waiters(i) # {}
                      /\ cursor[i] > shown[i] => i \in cut
    BY <1>1 DEF EndIsTold, InHand, ToSet, Waiters
  <2> QED
    BY <1>1, <1>3 DEF EndIsTold, InHand
<1>6. PlaceInv' /\ WakeInv' /\ ParkedIsNotified'
  BY <1>1 DEF PlaceInv, WakeInv, ParkedIsNotified
<1> QED
  BY <1>2, <1>4, <1>5, <1>6

LEMMA NoticesInit == Init => NoticesInv
<1> SUFFICES ASSUME Init PROVE NoticesInv
  OBVIOUS
<1>1. TypeOK
  <2>1. /\ 0 \in 0 .. MaxWakes /\ 0 \in 0 .. MaxSteps /\ 0 \in Nat /\ 0 \in 0 .. 1
        /\ <<>> \in Seq(Jobs)
    BY Limits
  <2> QED
    BY <2>1 DEF Init, TypeOK, Places, Kinds
<1>2. ASSUME NEW j \in Jobs
      PROVE  Notices(j) = 0 /\ ~reported[j] /\ job[j] = "none" /\ cursor[j] = 0 /\ shown[j] = 0
  <2>1. Copies(pending, j) = 0 /\ Copies(hands, j) = 0
    BY CopiesOfNone DEF Init
  <2> QED
    BY <2>1 DEF Init, Notices
<1>3. ReportInv
  BY <1>2 DEF ReportInv, IsLive, Init
<1>4. EndIsTold
  BY <1>2 DEF EndIsTold
<1>5. PlaceInv /\ WakeInv /\ ParkedIsNotified
  BY DEF Init, PlaceInv, WakeInv, ParkedIsNotified
<1> QED
  BY <1>1, <1>3, <1>4, <1>5 DEF NoticesInv

LEMMA NoticesStutter ==
    ASSUME NoticesInv, UNCHANGED vars
    PROVE  NoticesInv'
<1>1. TypeOK'
  BY DEF NoticesInv, TypeOK, vars
<1>2. ReportInv' /\ EndIsTold'
  BY DEF NoticesInv, ReportInv, EndIsTold, Notices, Copies, IsLive, InHand, ToSet, Waiters, vars
<1>3. PlaceInv' /\ WakeInv' /\ ParkedIsNotified'
  BY DEF NoticesInv, PlaceInv, WakeInv, ParkedIsNotified, CanWake, CanWakeWith, Some, vars
<1> QED
  BY <1>1, <1>2, <1>3 DEF NoticesInv

LEMMA NoticesStep ==
    ASSUME NoticesInv, [Next]_vars
    PROVE  NoticesInv'
<1>1. CASE StartShell \/ \E j \in Jobs : JobStep(j)
  <2>1. CASE StartShell
    BY <2>1, StartShellKeeps
  <2>2. ASSUME NEW j \in Jobs, JobStep(j) PROVE NoticesInv'
    BY <2>2, EmitKeeps, FinishStep, JobOutputKeeps, JobKillKeeps DEF JobStep
  <2> QED
    BY <1>1, <2>1, <2>2
<1>2. ASSUME NEW b \in Bodies, BodyStep(b) PROVE NoticesInv'
  BY <1>2, JobOutputWaitsKeeps, WaitEndsKeeps, WaitIsCutKeeps DEF BodyStep
<1>3. CASE Shutdown \/ LookForWake \/ SignalAtWake \/ ClaimWake \/ OtherTurn \/ Stop
  BY <1>3, ShutdownKeeps, LookForWakeKeeps, SignalAtWakeKeeps, ClaimWakeKeeps, OtherTurnKeeps,
     StopKeeps
<1>4. CASE BeginTurn \/ RefuseTurn \/ CatalogFails \/ OpenTurn
  BY <1>4, BeginTurnKeeps, RefuseTurnKeeps, CatalogFailsKeeps, OpenTurnKeeps
<1>5. CASE PrepareStep \/ Reconcile \/ EnterStep \/ GiveUpStep
  BY <1>5, PrepareStepKeeps, ReconcileKeeps, EnterStepKeeps, GiveUpStepKeeps
<1>6. CASE StepCompletes \/ StepContinues \/ StepStops \/ CloseTurn \/ TurnFails
  BY <1>6, StepCompletesKeeps, StepContinuesKeeps, StepStopsKeeps, CloseTurnKeeps, TurnFailsKeeps
<1>7. CASE UNCHANGED vars
  BY <1>7, NoticesStutter
<1> QED
  BY <1>1, <1>2, <1>3, <1>4, <1>5, <1>6, <1>7 DEF Next

THEOREM NoticesHold == Spec => []NoticesInv
<1>1. Init => NoticesInv
  BY NoticesInit
<1>2. NoticesInv /\ [Next]_vars => NoticesInv'
  BY NoticesStep
<1> QED
  BY <1>1, <1>2, PTL DEF Spec

-----------------------------------------------------------------------------

\* However the notices are taken for a turn, given back, claimed again or dropped with a
\* turn, and whatever a job, a read and a kill do meanwhile: one notice, in one place.
THEOREM OneNoticeOfAJob == Spec => []NoticeOnce
<1>1. NoticesInv => NoticeOnce
  <2> SUFFICES ASSUME NoticesInv, NEW j \in Jobs PROVE Notices(j) <= 1
    BY DEF NoticeOnce, NoticesInv
  <2>1. Notices(j) <= IF reported[j] THEN 1 ELSE 0
    BY DEF NoticesInv, ReportInv
  <2>2. Notices(j) \in Nat
    <3>1. /\ Copies(pending, j) \in Nat /\ Copies(hands, j) \in Nat /\ stored[j] \in Nat
          /\ Notices(j) = stored[j] + Queued(j) + Counted(j) /\ Counted(j) \in Nat
      BY NoticesType DEF NoticesInv
    <3> QED
      BY <3>1 DEF Queued
  <2> QED
    BY <2>1, <2>2
<1> QED
  BY <1>1, NoticesHold, PTL

\* The end of a job is never lost between the registry, the inbox, the agent and the
\* session.
THEOREM EveryEndIsTold == Spec => []EndIsTold
<1>1. NoticesInv => EndIsTold
  BY DEF NoticesInv
<1> QED
  BY <1>1, NoticesHold, PTL

\* The budget of automatic turns, and a permit wherever the terminal parks beside a notice.
THEOREM WakesStayRight == Spec => []WakesAreRight
<1>1. NoticesInv => WakesAreRight
  <2> SUFFICES ASSUME NoticesInv PROVE autos <= MaxWakes
    BY DEF NoticesInv, WakesAreRight, WakeBudget
  <2>1. autos \in Nat /\ wakes \in 0 .. MaxWakes /\ MaxWakes \in Nat
    BY Limits DEF NoticesInv, TypeOK
  <2>2. autos <= wakes
    BY <2>1 DEF NoticesInv, WakeInv
  <2> QED
    BY <2>1, <2>2
<1> QED
  BY <1>1, NoticesHold, PTL

\* What the model knows it is not told again.
THEOREM TheToldIsNotRepeated == Spec => ToldStaysSilent
<1>1. ASSUME NoticesInv, [Next]_vars, NEW j \in known
      PROVE  stored'[j] = stored[j]
  <2>1. CASE EnterStep
    <3>1. known \subseteq Jobs /\ stored \in [Jobs -> Nat]
      BY <1>1 DEF NoticesInv, TypeOK
    <3>3. j \in Jobs /\ stored[j] \in Nat
      BY <3>1
    <3>4. Copies(hands, j) = 0
      BY <1>1, <3>3 DEF NoticesInv, ReportInv
    <3>2. stored'[j] = stored[j] + Copies(hands, j)
      BY <2>1, <3>3 DEF EnterStep
    <3> QED
      BY <3>2, <3>3, <3>4
  <2>2. CASE ~EnterStep
    <3>1. UNCHANGED stored
      BY <1>1, <2>2 DEF Next, vars, quiet, JobStep, BodyStep, StartShell, Emit, Finish, JobOutput,
         JobKill, JobOutputWaits, WaitEnds, WaitIsCut, Shutdown, LookForWake, SignalAtWake,
         ClaimWake, OtherTurn, Stop, BeginTurn, RefuseTurn, CatalogFails, OpenTurn, PrepareStep,
         Reconcile, GiveUpStep, StepCompletes, StepContinues, StepStops, CloseTurn, TurnFails
    <3> QED
      BY <3>1
  <2> QED
    BY <2>1, <2>2
<1>2. NoticesInv /\ [Next]_vars => [\A j \in known : stored'[j] = stored[j]]_vars
  BY <1>1
<1> QED
  BY <1>2, NoticesHold, PTL DEF Spec, ToldStaysSilent

=============================================================================
