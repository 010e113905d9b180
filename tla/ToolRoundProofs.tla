--------------------------- MODULE ToolRoundProofs ---------------------------
(***************************************************************************)
(* Proofs about ToolRound, for every set of rounds, whatever their calls,  *)
(* policy and session, and every width of the pool: calls are announced    *)
(* and answered in order, work starts only when it may, results say what   *)
(* happened, and a stop ends the round and is told to the turn.            *)
(*                                                                         *)
(* The way there: RoundInv holds initially and after every step, one lemma *)
(* for each action; the properties follow from it.                         *)
(***************************************************************************)
EXTENDS ToolRound, FiniteSetTheorems, SequenceTheorems, WellFoundedInduction, TLAPS

-----------------------------------------------------------------------------
(* The invariant.                                                          *)

Alone   == {"barrier", "running", "settling", "setup", "resolving", "asking", "answering",
            "deciding", "acting", "working"}
Pooling == {"filling", "starting", "committing", "awaiting", "resting"}
Quick   == {"parallel", "plain"}
Paused  == {"asking", "answering", "deciding", "acting", "working"}

Places   == {"next", "done", "fatal"} \cup Alone \cup Pooling
RunCodes == {"none", "ok", "failed", "prepared", "refused", "unknown", "INVALID", "ABORTED",
             "TURN_TIMEOUT", "TOOL_TIMEOUT", "AGENT_TURN_TIMEOUT", "ABORTED_BEFORE_DISPATCH",
             "SESSION_LIMIT", "NOT_STARTED", "DECLINED"}
Runs     == [code : RunCodes, stop : Stops, required : BOOLEAN]
Kinds    == {"tool/call", "tool/result", "state", "approval/asked", "approval/decided"}
Codes    == RunCodes \cup Outcomes \cup {"OVER_BUDGET"}
RowType  == [kind : Kinds, call : Nat, code : Codes]
Pools    == [end : Nat, start : Nat, commit : Nat, stop : BOOLEAN, unresolved : Nat]
Drivers  == [limit : BOOLEAN, unseen : BOOLEAN, cancelled : BOOLEAN,
             infra : {"none", "timeout", "executor"}, latched : Stops]
Grants   == [held : BOOLEAN, candidate : BOOLEAN, pending : BOOLEAN]

TypeInv ==
    /\ round \in Rounds /\ at \in Places /\ index \in 1 .. Len(round.modes) + 1
    /\ body \in [Calls -> {"off", "queued", "on", "cleanup", "work"}]
    /\ slot \in [Calls -> Runs]
    /\ answer \in [outcome : Outcomes, stop : Stops]
    /\ pool \in Pools /\ driver \in Drivers /\ grant \in Grants
    /\ token \in BOOLEAN /\ deadline \in BOOLEAN /\ observerUp \in BOOLEAN
    /\ ran \subseteq Calls
    /\ log \in Seq(RowType) /\ seen \in 0 .. Len(log)

\* A log in which the first a calls are announced and the first r answered.
LogOk(l, a, r) ==
    /\ l \in Seq(RowType) /\ a \in Nat /\ r \in 0 .. a
    /\ \A j, k \in DOMAIN l :
         j < k /\ l[j].kind = l[k].kind /\ l[j].kind \in {"tool/call", "tool/result"}
         => l[j].call < l[k].call
    /\ \A k \in DOMAIN l :
         l[k].kind # "tool/call" => \E j \in 1 .. k - 1 : l[j] = Row("tool/call", l[k].call, "none")
    /\ \A j, k \in DOMAIN l : j < k /\ l[j].kind = "tool/result" => l[k].call # l[j].call
    /\ \A k \in DOMAIN l : /\ l[k].call \in 1 .. a
                           /\ l[k].kind = "tool/result" => l[k].call <= r
    /\ \A i \in 1 .. a : \E k \in DOMAIN l : l[k] = Row("tool/call", i, "none")
    /\ \A i \in 1 .. r : \E k \in DOMAIN l : l[k].kind = "tool/result" /\ l[k].call = i

\* How far the log is, by where the driving future stands.
LogInv ==
    /\ at = "next" => LogOk(log, index - 1, index - 1)
    /\ at \in Alone => LogOk(log, index, index - 1)
    /\ at \in {"filling", "committing", "awaiting"} =>
         /\ pool.unresolved = 0 => LogOk(log, pool.start - 1, pool.commit - 1)
         /\ pool.unresolved # 0 => LogOk(log, pool.start - 1, pool.unresolved - 1)
    /\ at = "starting" => LogOk(log, pool.start, pool.commit - 1)
    /\ at = "resting" =>
         /\ pool.unresolved = 0 => LogOk(log, pool.start - 1, pool.start - 1)
         /\ pool.unresolved # 0 => LogOk(log, pool.start - 1, pool.unresolved - 1)
    /\ at \in {"done", "fatal"} => \E a, r \in 0 .. Len(round.modes) : LogOk(log, a, r)

\* Where work may be under way, and for whom.
PlaceInv ==
    /\ at = "next" => \A i \in Calls : body[i] = "off" /\ slot[i] = NoRun
    /\ at \in Alone =>
         /\ index \in Calls
         /\ \A i \in Calls : i # index => body[i] = "off" /\ slot[i] = NoRun
         /\ at = "barrier" => slot[index] = NoRun
         /\ at = "running" => body[index] \in {"queued", "on", "cleanup"}
         /\ at = "working" => body[index] = "work"
         /\ at \notin {"running", "working"} => body[index] = "off"
         /\ at = "settling" =>
              /\ slot[index].code # "none"
              /\ slot[index].code = "prepared" => Mode(index) \in {"state", "exit"}
         /\ at \in {"setup", "resolving"} \cup Paused =>
              slot[index].code = "prepared" /\ Mode(index) \in {"mutation", "action"}
         /\ at = "setup" => Mode(index) = "action"
         /\ at \in {"barrier", "running"} => slot[index].code # "prepared"
    /\ at \in {"done"} \cup Pooling => \A i \in Calls : body[i] # "work" /\ slot[i].code # "prepared"
    /\ at \in {"done", "fatal", "resting"} => \A i \in Calls : body[i] = "off"

\* The pool: a group of parallel calls, the started ones of which are under way or
\* wait to be committed.
PoolInv ==
    at \in Pooling =>
      /\ index <= pool.commit /\ pool.commit <= pool.start /\ pool.start <= pool.end + 1
      /\ pool.end <= Len(round.modes) /\ 1 <= index /\ ~driver.limit
      /\ \A i \in index .. pool.end : Mode(i) = "parallel"
      /\ at = "starting" => pool.start <= pool.end /\ pool.unresolved = 0
      /\ pool.unresolved # 0 =>
           /\ pool.unresolved = pool.commit - 1 /\ pool.unresolved >= index
           /\ ~round.durable /\ driver.infra # "none" /\ pool.stop
      /\ \A i \in Calls : body[i] # "off" \/ slot[i] # NoRun => pool.commit <= i /\ i < pool.start
      /\ at # "resting" => \A i \in pool.commit .. pool.start - 1 : body[i] # "off" \/ slot[i] # NoRun
      /\ at = "resting" /\ pool.unresolved = 0 => \A i \in Calls : slot[i] = NoRun

\* What a call's body and result say of its work.
WorkInv ==
    at # "fatal" =>
    \A i \in Calls :
      /\ body[i] = "queued" => i \notin ran
      /\ body[i] \in {"on", "cleanup"} => (i \in ran <=> Mode(i) \in Quick)
      /\ body[i] \in {"queued", "on"} => slot[i] = NoRun
      /\ body[i] = "cleanup" =>
           slot[i].code \in {"ABORTED", "TURN_TIMEOUT", "TOOL_TIMEOUT", "ABORTED_BEFORE_DISPATCH"}
      /\ slot[i].code = "none" => slot[i] = NoRun
      /\ slot[i].code \in {"ok", "failed"} => i \in ran
      /\ slot[i].code \in NotStarted => i \notin ran
      /\ slot[i].code = "prepared" => Mode(i) \notin Quick /\ (i \in ran => at = "working")
      /\ slot[i].code = "ABORTED" => slot[i].stop = "cancelled"
      /\ slot[i].code = "TURN_TIMEOUT" => slot[i].stop = "timeout"
      /\ slot[i].code = "AGENT_TURN_TIMEOUT" => deadline /\ slot[i].stop # "none"
      /\ slot[i].code = "SESSION_LIMIT" => driver.limit

\* No call has worked that was not announced.
RanInv ==
    /\ at \in {"next", "barrier"} => \A i \in ran : i < index
    /\ at \in Alone => \A i \in ran : i <= index
    /\ at \in Pooling => \A i \in ran : i < pool.start

\* Where work is under way or prepared, the announcement was seen.
SeenCall(l, s, i) == \E k \in 1 .. s : l[k] = Row("tool/call", i, "none")
SeenInv ==
    at # "fatal" =>
      \A i \in Calls : body[i] # "off" \/ slot[i].code = "prepared" => SeenCall(log, seen, i)

Halted == driver.limit \/ driver.unseen \/ driver.infra # "none" \/ driver.cancelled

\* A result that ends the round: the turn knows, and nothing starts behind it.
StopRow(row) == row.kind = "tool/result" /\ row.code \in StopCodes \cup {"unknown", "SESSION_LIMIT"}
Before(l, k, i) == \E h \in 1 .. k - 1 : l[h].kind = "tool/call" /\ l[h].call = i
Stopped(k) ==
    /\ at # "fatal" => Halted
    /\ at # "fatal" /\ log[k].code \in StopCodes => driver.latched # "none"
    /\ at # "fatal" /\ log[k].code \notin StopCodes =>
         driver.limit \/ driver.unseen \/ driver.infra # "none"
    /\ at \in {"next", "settling", "done", "fatal"} \cup (Pooling \ {"starting"})
    /\ at \in Pooling => pool.stop
    /\ at = "settling" => index \notin ran /\ slot[index].code # "prepared"
    /\ \A i \in ran : Before(log, k, i)
    /\ \A i \in Calls : at # "fatal" /\ body[i] # "off" => Before(log, k, i)

StopInv == \A k \in DOMAIN log : StopRow(log[k]) => Stopped(k)

\* The results of a call, what they may say, and a grant that was earned, of any log.
ResultsOf(l, i) == {l[k].code : k \in {h \in DOMAIN l : l[h].kind = "tool/result" /\ l[h].call = i}}

Honest(l, worked, modes, i) ==
    /\ i \in worked => ResultsOf(l, i) \cap NotStarted = {}
    /\ i \in worked /\ modes[i] \notin Quick => "OVER_BUDGET" \notin ResultsOf(l, i)
    /\ ResultsOf(l, i) \cap {"ok", "failed"} # {} => i \in worked

HonestInv == \A i \in Calls : Honest(log, ran, round.modes, i)

EarnedBy(l, worked, forGood, modes, i) ==
    \E j \in forGood \cap worked :
      /\ j < i
      /\ \A k \in worked \cap j .. i - 1 : modes[k] = "action" => ResultsOf(l, k) = {"ok"}

Allowed(l, s, i) == \E k \in 1 .. s : l[k] = Row("approval/decided", i, "AllowedOnce")

\* A grant was earned, and the one that is used or won is of this call.
GrantInv ==
    at \notin {"done", "fatal"} =>
      /\ grant.held => round.policy = "ask" /\ EarnedBy(log, ran, scoped, round.modes, index)
      /\ grant.pending =>
           /\ at = "settling" /\ Mode(index) = "action" /\ slot[index].code = "ok"
           /\ round.policy = "ask"
           /\ index \in scoped \/ EarnedBy(log, ran, scoped, round.modes, index)
      /\ at \in Paused /\ Mode(index) = "action" => ~grant.held
      /\ at = "settling" /\ index \in ran /\ Mode(index) = "action" => ~grant.held
      /\ at \in {"asking", "answering", "deciding"} => round.policy = "ask"
      /\ at = "deciding" /\ grant.candidate /\ answer.outcome = "AllowedOnce" =>
           Mode(index) = "action" /\ index \in scoped
      /\ at \in {"acting", "working"} /\ grant.candidate =>
           /\ Mode(index) = "action" /\ round.policy = "ask"
           /\ index \in scoped \/ EarnedBy(log, ran, scoped, round.modes, index)
      /\ at \in {"acting", "working"} =>
           \/ round.policy = "allow"
           \/ /\ round.policy = "ask"
              /\ \/ Allowed(log, seen, index)
                 \/ Mode(index) = "action" /\ EarnedBy(log, ran, scoped, round.modes, index)

\* Claims are given back by the end of the round only, and the turn is told of it.
ReleaseInv ==
    /\ at # "done" => released = {}
    /\ at = "done" =>
         /\ \E a, r \in 0 .. Len(round.modes) :
              /\ LogOk(log, a, r)
              /\ \A i \in Calls : /\ <<"tool/call", i>> \in released <=> i > a
                                  /\ <<"tool/result", i>> \in released <=> i > r
         /\ round.durable => released = {}
         /\ released # {} => driver.infra # "none"

RoundInv ==
    /\ TypeInv /\ LogInv /\ PlaceInv /\ PoolInv /\ WorkInv /\ RanInv /\ SeenInv /\ StopInv
    /\ GrantInv /\ ReleaseInv /\ HonestInv

-----------------------------------------------------------------------------
(* Logs.                                                                   *)

\* What a well-formed log is made of.
LEMMA LogType ==
    ASSUME NEW l, NEW a, NEW r, LogOk(l, a, r)
    PROVE  /\ l \in Seq(RowType) /\ Len(l) \in Nat /\ DOMAIN l = 1 .. Len(l)
           /\ a \in Nat /\ r \in Nat /\ r <= a
           /\ \A k \in DOMAIN l : l[k] \in RowType /\ l[k].call \in 1 .. a
BY DEF LogOk

\* What an appended row changes.
LEMMA LogAppended ==
    ASSUME NEW l \in Seq(RowType), NEW row \in RowType
    PROVE  /\ Append(l, row) \in Seq(RowType)
           /\ Len(l) \in Nat /\ Len(Append(l, row)) = Len(l) + 1
           /\ DOMAIN l = 1 .. Len(l) /\ DOMAIN Append(l, row) = 1 .. Len(l) + 1
           /\ \A k \in DOMAIN l : Append(l, row)[k] = l[k]
           /\ Append(l, row)[Len(l) + 1] = row
OBVIOUS

\* The next call is announced.
LEMMA LogAnnounced ==
    ASSUME NEW l, NEW a, NEW r, LogOk(l, a, r)
    PROVE  LogOk(Append(l, Row("tool/call", a + 1, "none")), a + 1, r)
<1> DEFINE row == Row("tool/call", a + 1, "none")
           m == Append(l, row)
<1>1. /\ l \in Seq(RowType) /\ a \in Nat /\ r \in Nat /\ r <= a /\ row \in RowType
  BY DEF LogOk, Row, RowType, Kinds, Codes, RunCodes
<1>2. /\ m \in Seq(RowType) /\ Len(l) \in Nat
      /\ DOMAIN l = 1 .. Len(l) /\ DOMAIN m = 1 .. Len(l) + 1
      /\ \A k \in DOMAIN l : m[k] = l[k]
      /\ m[Len(l) + 1] = row
  BY <1>1, LogAppended
<1>3. row.kind = "tool/call" /\ row.call = a + 1 /\ row.code = "none"
  BY DEF Row
<1> HIDE DEF m
<1>4. /\ \A j, k \in DOMAIN m :
           j < k /\ m[j].kind = m[k].kind /\ m[j].kind \in {"tool/call", "tool/result"}
           => m[j].call < m[k].call
      /\ \A j, k \in DOMAIN m : j < k /\ m[j].kind = "tool/result" => m[k].call # m[j].call
  <2> SUFFICES ASSUME NEW j \in 1 .. Len(l) + 1, NEW k \in 1 .. Len(l) + 1, j < k
               PROVE  /\ m[j].kind = m[k].kind /\ m[j].kind \in {"tool/call", "tool/result"}
                         => m[j].call < m[k].call
                      /\ m[j].kind = "tool/result" => m[k].call # m[j].call
    BY <1>2
  <2>1. j \in 1 .. Len(l)
    BY <1>2
  <2>2. m[j] = l[j] /\ l[j].call \in 1 .. a
    BY <1>2, <2>1 DEF LogOk
  <2>3. CASE k \in 1 .. Len(l)
    <3>1. k \in DOMAIN l /\ j \in DOMAIN l /\ m[k] = l[k]
      BY <1>2, <2>1, <2>3
    <3>2. /\ l[j].kind = l[k].kind /\ l[j].kind \in {"tool/call", "tool/result"}
             => l[j].call < l[k].call
          /\ l[j].kind = "tool/result" => l[k].call # l[j].call
      BY <3>1 DEF LogOk
    <3> QED
      BY <2>2, <3>1, <3>2
  <2>4. CASE k = Len(l) + 1
    BY <1>1, <1>2, <1>3, <2>2, <2>4
  <2> QED
    BY <1>2, <2>3, <2>4
<1>5. \A k \in DOMAIN m :
         m[k].kind # "tool/call" => \E j \in 1 .. k - 1 : m[j] = Row("tool/call", m[k].call, "none")
  <2> SUFFICES ASSUME NEW k \in DOMAIN m, m[k].kind # "tool/call"
               PROVE  \E j \in 1 .. k - 1 : m[j] = Row("tool/call", m[k].call, "none")
    OBVIOUS
  <2>1. k \in DOMAIN l /\ m[k] = l[k]
    BY <1>2, <1>3
  <2>2. PICK j \in 1 .. k - 1 : l[j] = Row("tool/call", l[k].call, "none")
    BY <2>1 DEF LogOk
  <2> QED
    BY <1>2, <2>1, <2>2
<1>6. \A k \in DOMAIN m : m[k].call \in 1 .. a + 1 /\ (m[k].kind = "tool/result" => m[k].call <= r)
  BY <1>1, <1>2, <1>3 DEF LogOk
<1>7. \A i \in 1 .. a + 1 : \E k \in DOMAIN m : m[k] = Row("tool/call", i, "none")
  <2> SUFFICES ASSUME NEW i \in 1 .. a + 1
               PROVE  \E k \in DOMAIN m : m[k] = Row("tool/call", i, "none")
    OBVIOUS
  <2>1. CASE i = a + 1
    BY <1>2, <2>1
  <2>2. CASE i # a + 1
    <3>1. PICK k \in DOMAIN l : l[k] = Row("tool/call", i, "none")
      BY <1>1, <2>2 DEF LogOk
    <3> QED
      BY <1>2, <3>1
  <2> QED
    BY <2>1, <2>2
<1>8. \A i \in 1 .. r : \E k \in DOMAIN m : m[k].kind = "tool/result" /\ m[k].call = i
  <2> SUFFICES ASSUME NEW i \in 1 .. r
               PROVE  \E k \in DOMAIN m : m[k].kind = "tool/result" /\ m[k].call = i
    OBVIOUS
  <2>1. PICK k \in DOMAIN l : l[k].kind = "tool/result" /\ l[k].call = i
    BY DEF LogOk
  <2> QED
    BY <1>2, <2>1
<1>9. a + 1 \in Nat /\ r \in 0 .. a + 1
  BY <1>1
<1> QED
  BY <1>2, <1>4, <1>5, <1>6, <1>7, <1>8, <1>9 DEF LogOk, m

\* A row about a call that is announced and not answered: its answer, or another.
LEMMA LogContinued ==
    ASSUME NEW l, NEW a, NEW r, LogOk(l, a, r), NEW i \in Nat, r < i, i <= a,
           NEW kind \in Kinds, kind # "tool/call", kind = "tool/result" => i = r + 1,
           NEW code \in Codes, NEW s \in Nat, s = IF kind = "tool/result" THEN r + 1 ELSE r
    PROVE  LogOk(Append(l, Row(kind, i, code)), a, s)
<1> DEFINE row == Row(kind, i, code)
           m == Append(l, row)
<1>1. /\ l \in Seq(RowType) /\ a \in Nat /\ r \in Nat /\ r <= a /\ row \in RowType
  BY DEF LogOk, Row, RowType, Kinds, Codes, RunCodes
<1>2. /\ m \in Seq(RowType) /\ Len(l) \in Nat
      /\ DOMAIN l = 1 .. Len(l) /\ DOMAIN m = 1 .. Len(l) + 1
      /\ \A k \in DOMAIN l : m[k] = l[k]
      /\ m[Len(l) + 1] = row
  BY <1>1, LogAppended
<1>3. row.kind = kind /\ row.call = i /\ row.code = code
  BY DEF Row
<1>4. /\ \A k \in DOMAIN l : l[k].call \in 1 .. a
      /\ \A k \in DOMAIN l : l[k].kind = "tool/result" => l[k].call <= r
      /\ s \in 0 .. a /\ r <= s
  BY <1>1 DEF LogOk
<1> HIDE DEF m, row
<1>5. /\ \A j, k \in DOMAIN m :
           j < k /\ m[j].kind = m[k].kind /\ m[j].kind \in {"tool/call", "tool/result"}
           => m[j].call < m[k].call
      /\ \A j, k \in DOMAIN m : j < k /\ m[j].kind = "tool/result" => m[k].call # m[j].call
  <2> SUFFICES ASSUME NEW j \in 1 .. Len(l) + 1, NEW k \in 1 .. Len(l) + 1, j < k
               PROVE  /\ m[j].kind = m[k].kind /\ m[j].kind \in {"tool/call", "tool/result"}
                         => m[j].call < m[k].call
                      /\ m[j].kind = "tool/result" => m[k].call # m[j].call
    BY <1>2
  <2>1. j \in 1 .. Len(l)
    BY <1>2
  <2>2. m[j] = l[j] /\ l[j].call \in 1 .. a /\ (l[j].kind = "tool/result" => l[j].call <= r)
    <3>1. j \in DOMAIN l
      BY <1>2, <2>1
    <3>2. m[j] = l[j]
      BY <1>2, <3>1
    <3>3. l[j].call \in 1 .. a
      BY <1>1, <1>4, <3>1
    <3>4. l[j].kind = "tool/result" => l[j].call <= r
      BY <1>1, <1>4, <3>1
    <3> QED
      BY <3>2, <3>3, <3>4
  <2>3. CASE k \in 1 .. Len(l)
    <3>1. k \in DOMAIN l /\ j \in DOMAIN l /\ m[k] = l[k]
      BY <1>2, <2>1, <2>3
    <3>2. /\ l[j].kind = l[k].kind /\ l[j].kind \in {"tool/call", "tool/result"}
             => l[j].call < l[k].call
          /\ l[j].kind = "tool/result" => l[k].call # l[j].call
      BY <3>1 DEF LogOk
    <3> QED
      BY <2>2, <3>1, <3>2
  <2>4. CASE k = Len(l) + 1
    BY <1>1, <1>2, <1>3, <2>2, <2>4
  <2> QED
    BY <1>2, <2>3, <2>4
<1>6. \A k \in DOMAIN m :
         m[k].kind # "tool/call" => \E j \in 1 .. k - 1 : m[j] = Row("tool/call", m[k].call, "none")
  <2> SUFFICES ASSUME NEW k \in DOMAIN m, m[k].kind # "tool/call"
               PROVE  \E j \in 1 .. k - 1 : m[j] = Row("tool/call", m[k].call, "none")
    OBVIOUS
  <2>1. CASE k \in DOMAIN l
    <3>1. PICK j \in 1 .. k - 1 : l[j] = Row("tool/call", l[k].call, "none")
      BY <1>2, <2>1 DEF LogOk
    <3> QED
      BY <1>2, <2>1, <3>1
  <2>2. CASE k = Len(l) + 1
    <3>1. PICK j \in DOMAIN l : l[j] = Row("tool/call", i, "none")
      <4>1. i \in 1 .. a
        BY <1>1
      <4> QED
        BY <4>1 DEF LogOk
    <3> QED
      BY <1>2, <1>3, <2>2, <3>1
  <2> QED
    BY <1>2, <2>1, <2>2
<1>7. \A k \in DOMAIN m : m[k].call \in 1 .. a /\ (m[k].kind = "tool/result" => m[k].call <= s)
  <2> SUFFICES ASSUME NEW k \in 1 .. Len(l) + 1
               PROVE  m[k].call \in 1 .. a /\ (m[k].kind = "tool/result" => m[k].call <= s)
    BY <1>2
  <2>1. CASE k \in 1 .. Len(l)
    <3>1. m[k] = l[k] /\ l[k].call \in 1 .. a /\ (l[k].kind = "tool/result" => l[k].call <= r)
      <4>1. k \in DOMAIN l
        BY <1>2, <2>1
      <4>2. m[k] = l[k]
        BY <1>2, <4>1
      <4>3. l[k].call \in 1 .. a
        BY <1>1, <1>4, <4>1
      <4>4. l[k].kind = "tool/result" => l[k].call <= r
        BY <1>1, <1>4, <4>1
      <4> QED
        BY <4>2, <4>3, <4>4
    <3> QED
      BY <1>1, <1>4, <3>1
  <2>2. CASE k = Len(l) + 1
    BY <1>1, <1>2, <1>3, <2>2
  <2> QED
    BY <1>2, <2>1, <2>2
<1>8. \A j \in 1 .. a : \E k \in DOMAIN m : m[k] = Row("tool/call", j, "none")
  <2> SUFFICES ASSUME NEW j \in 1 .. a
               PROVE  \E k \in DOMAIN m : m[k] = Row("tool/call", j, "none")
    OBVIOUS
  <2>1. PICK k \in DOMAIN l : l[k] = Row("tool/call", j, "none")
    BY DEF LogOk
  <2> QED
    BY <1>2, <2>1
<1>9. \A j \in 1 .. s : \E k \in DOMAIN m : m[k].kind = "tool/result" /\ m[k].call = j
  <2> SUFFICES ASSUME NEW j \in 1 .. s
               PROVE  \E k \in DOMAIN m : m[k].kind = "tool/result" /\ m[k].call = j
    OBVIOUS
  <2>1. CASE j <= r
    <3>1. PICK k \in DOMAIN l : l[k].kind = "tool/result" /\ l[k].call = j
      BY <1>1, <2>1 DEF LogOk
    <3> QED
      BY <1>2, <3>1
  <2>2. CASE ~(j <= r)
    <3>1. kind = "tool/result" /\ j = i
      BY <1>1, <2>2
    <3> QED
      BY <1>2, <1>3, <3>1
  <2> QED
    BY <2>1, <2>2
<1>10. LogOk(m, a, s)
  <2>1. m \in Seq(RowType) /\ a \in Nat /\ s \in 0 .. a
    BY <1>1, <1>2, <1>4
  <2> QED
    BY <1>5, <1>6, <1>7, <1>8, <1>9, <2>1 DEF LogOk
<1> QED
  BY <1>10 DEF m, row

\* The next announced call is answered.
LEMMA LogAnswered ==
    ASSUME NEW l, NEW a, NEW r, LogOk(l, a, r), r < a, NEW code \in Codes
    PROVE  LogOk(Append(l, Row("tool/result", r + 1, code)), a, r + 1)
<1>1. a \in Nat /\ r \in Nat /\ r + 1 \in Nat /\ r < r + 1 /\ r + 1 <= a
  BY DEF LogOk
<1>2. "tool/result" \in Kinds /\ "tool/result" # "tool/call"
  BY DEF Kinds
<1> QED
  BY <1>1, <1>2, LogContinued

\* A row between a call's announcement and its result.
LEMMA LogNoted ==
    ASSUME NEW l, NEW a, NEW r, LogOk(l, a, r), NEW i \in Nat, r < i, i <= a,
           NEW kind \in Kinds, kind \notin {"tool/call", "tool/result"}, NEW code \in Codes
    PROVE  LogOk(Append(l, Row(kind, i, code)), a, r)
<1>1. r \in Nat
  BY DEF LogOk
<1> QED
  BY <1>1, LogContinued

\* The calls whose announcement and whose result the log has.
LEMMA LogHas ==
    ASSUME NEW a, NEW r, LogOk(log, a, r), NEW i \in Nat \ {0}
    PROVE  /\ Rows("tool/call", i) # {} <=> i <= a
           /\ Rows("tool/result", i) # {} <=> i <= r
           /\ ResultsOf(log, i) = {} <=> i > r
<1>1. /\ a \in Nat /\ r \in Nat
      /\ \A k \in DOMAIN log : /\ log[k].call \in 1 .. a
                               /\ log[k].kind = "tool/result" => log[k].call <= r
      /\ i <= a => \E k \in DOMAIN log : log[k] = Row("tool/call", i, "none")
      /\ i <= r => \E k \in DOMAIN log : log[k].kind = "tool/result" /\ log[k].call = i
  BY DEF LogOk
<1>2. Rows("tool/call", i) # {} <=> i <= a
  <2>1. Row("tool/call", i, "none").kind = "tool/call" /\ Row("tool/call", i, "none").call = i
    BY DEF Row
  <2> QED
    BY <1>1, <2>1 DEF Rows
<1>3. Rows("tool/result", i) # {} <=> i <= r
  BY <1>1 DEF Rows
<1>4. ResultsOf(log, i) = {} <=> Rows("tool/result", i) = {}
  BY DEF ResultsOf, Rows
<1> QED
  BY <1>1, <1>2, <1>3, <1>4

\* The results of a call grow with its own result row, and with no other.
LEMMA ResultsGrow ==
    ASSUME NEW l \in Seq(RowType), NEW row \in RowType, NEW i
    PROVE  /\ row.kind # "tool/result" \/ row.call # i => ResultsOf(Append(l, row), i) = ResultsOf(l, i)
           /\ row.kind = "tool/result" /\ row.call = i =>
                ResultsOf(Append(l, row), i) = ResultsOf(l, i) \cup {row.code}
<1> DEFINE m == Append(l, row)
<1>1. /\ Len(l) \in Nat /\ DOMAIN l = 1 .. Len(l) /\ DOMAIN m = 1 .. Len(l) + 1
      /\ \A k \in DOMAIN l : m[k] = l[k]
      /\ m[Len(l) + 1] = row
  BY LogAppended
<1> HIDE DEF m
<1>2. CASE row.kind = "tool/result" /\ row.call = i
  BY <1>1, <1>2 DEF ResultsOf, m
<1>3. CASE ~(row.kind = "tool/result" /\ row.call = i)
  BY <1>1, <1>3 DEF ResultsOf, m
<1> QED
  BY <1>2, <1>3 DEF m

\* What the types say of the round.
RoundFacts ==
    /\ Len(round.modes) \in Nat /\ Calls = 1 .. Len(round.modes)
    /\ round.modes \in Seq(Modes) /\ round.policy \in Policies /\ round.durable \in BOOLEAN
    /\ \A i \in Calls : Mode(i) \in Modes
    /\ index \in Nat /\ 1 <= index /\ index <= Len(round.modes) + 1
    /\ seen \in Nat /\ Len(log) \in Nat /\ ran \subseteq Nat

\* What the types say of the round and its calls.
LEMMA RoundType ==
    ASSUME TypeInv
    PROVE  RoundFacts
<1>1. round \in [modes : Seq(Modes), durable : BOOLEAN, policy : Policies]
  BY RoundAssumption DEF TypeInv
<1>2. Len(round.modes) \in Nat /\ Calls = 1 .. Len(round.modes) /\ \A i \in Calls : Mode(i) \in Modes
  BY <1>1 DEF Calls, Mode
<1> QED
  BY <1>1, <1>2 DEF TypeInv, RoundFacts

\* The types imply those that TLC checks.
LEMMA TypesAreOK ==
    ASSUME TypeInv
    PROVE  TypeOK
<1>1. at \in {"next", "barrier", "running", "settling", "setup", "resolving", "asking",
               "answering", "deciding", "acting", "working", "filling", "starting",
               "committing", "awaiting", "resting", "done", "fatal"}
  BY DEF TypeInv, Places, Alone, Pooling
<1>2. \A i \in Calls : slot[i].stop \in Stops /\ slot[i].required \in BOOLEAN
  BY DEF TypeInv, Runs
<1> QED
  BY <1>1, <1>2 DEF TypeInv, TypeOK, Drivers

\* The codes, kinds and stops there are.
LEMMA CodesAre ==
    /\ "none" \in RunCodes /\ "ok" \in RunCodes /\ "failed" \in RunCodes
    /\ "prepared" \in RunCodes /\ "refused" \in RunCodes /\ "unknown" \in RunCodes
    /\ "INVALID" \in RunCodes /\ "ABORTED" \in RunCodes /\ "TURN_TIMEOUT" \in RunCodes
    /\ "TOOL_TIMEOUT" \in RunCodes /\ "AGENT_TURN_TIMEOUT" \in RunCodes
    /\ "ABORTED_BEFORE_DISPATCH" \in RunCodes /\ "SESSION_LIMIT" \in RunCodes
    /\ "NOT_STARTED" \in RunCodes /\ "DECLINED" \in RunCodes
    /\ "tool/call" \in Kinds /\ "tool/result" \in Kinds /\ "state" \in Kinds
    /\ "approval/asked" \in Kinds /\ "approval/decided" \in Kinds
    /\ "none" \in Stops /\ "cancelled" \in Stops /\ "timeout" \in Stops
    /\ RunCodes \subseteq Codes /\ Outcomes \subseteq Codes /\ "OVER_BUDGET" \in Codes
BY DEF RunCodes, Kinds, Stops, Codes

\* Runs and rows are what they are made of.
LEMMA RunIs ==
    /\ \A code \in RunCodes, stop \in Stops :
         Run(code, stop, FALSE) \in Runs /\ Run(code, stop, TRUE) \in Runs
    /\ \A code, stop :
         /\ Run(code, stop, FALSE).code = code /\ Run(code, stop, FALSE).stop = stop
         /\ Run(code, stop, TRUE).code = code /\ Run(code, stop, TRUE).stop = stop
    /\ NoRun \in Runs /\ NoRun.code = "none" /\ NoRun.stop = "none"
BY DEF Run, NoRun, Runs, RunCodes, Stops

\* prestart_failure: the code it was called with, or that of the stop.
LEMMA PrestartIs ==
    ASSUME NEW i \in Calls, Mode(i) \in Modes, NEW code \in RunCodes, NEW stop \in Stops
    PROVE  /\ Prestart(i, code, stop) \in Runs
           /\ Prestart(i, code, stop).stop = stop
           /\ \/ Prestart(i, code, stop).code = code /\ (Mode(i) = "action" \/ stop = "none")
              \/ Prestart(i, code, stop).code = "ABORTED" /\ stop = "cancelled"
              \/ Prestart(i, code, stop).code = "TURN_TIMEOUT" /\ stop = "timeout"
<1>1. CASE Owned(i) \/ stop = "none"
  <2>1. Prestart(i, code, stop) = Run(code, stop, FALSE)
    BY <1>1 DEF Prestart
  <2> QED
    BY <1>1, <2>1 DEF Owned, Run, Runs
<1>2. CASE ~Owned(i) /\ stop = "cancelled"
  <2>1. Prestart(i, code, stop) = Run("ABORTED", stop, FALSE)
    BY <1>2 DEF Prestart
  <2>2. "ABORTED" \in RunCodes
    BY DEF RunCodes
  <2>3. Run("ABORTED", stop, FALSE) \in Runs
    BY <2>2, RunIs
  <2>4. Run("ABORTED", stop, FALSE).code = "ABORTED" /\ Run("ABORTED", stop, FALSE).stop = stop
    BY RunIs
  <2> QED
    BY <1>2, <2>1, <2>3, <2>4
<1>3. CASE ~Owned(i) /\ stop = "timeout"
  <2>1. Prestart(i, code, stop) = Run("TURN_TIMEOUT", stop, FALSE)
    BY <1>3 DEF Prestart
  <2>2. "TURN_TIMEOUT" \in RunCodes
    BY DEF RunCodes
  <2>3. Run("TURN_TIMEOUT", stop, FALSE) \in Runs
    BY <2>2, RunIs
  <2>4. Run("TURN_TIMEOUT", stop, FALSE).code = "TURN_TIMEOUT" /\ Run("TURN_TIMEOUT", stop, FALSE).stop = stop
    BY RunIs
  <2> QED
    BY <1>3, <2>1, <2>3, <2>4
<1> QED
  BY <1>1, <1>2, <1>3 DEF Stops

\* Rows are what they are made of.
LEMMA RowIs ==
    /\ \A kind \in Kinds, i \in Nat, code \in Codes : Row(kind, i, code) \in RowType
    /\ \A kind, i, code : /\ Row(kind, i, code).kind = kind /\ Row(kind, i, code).call = i
                          /\ Row(kind, i, code).code = code
BY DEF Row, RowType

\* The stop that is sampled, and the one that stays latched.
LEMMA StopIs ==
    /\ Sample \in Stops
    /\ Sample = "none" <=> ~token /\ ~deadline
    /\ \A a, b \in Stops : Latch(a, b) \in Stops /\ (Latch(a, b) = "none" <=> a = "none" /\ b = "none")
    /\ \A a, b \in Stops : a # "none" => Latch(a, b) = a
    /\ \A b \in Stops : Latch("none", b) = b
<1>1. Sample \in Stops /\ (Sample = "none" <=> ~token /\ ~deadline)
  BY DEF Sample, Stops
<1>2. /\ \A a, b \in Stops : Latch(a, b) \in Stops /\ (Latch(a, b) = "none" <=> a = "none" /\ b = "none")
      /\ \A a, b \in Stops : a # "none" => Latch(a, b) = a
      /\ \A b \in Stops : Latch("none", b) = b
  BY DEF Latch, Stops
<1> QED
  BY <1>1, <1>2

-----------------------------------------------------------------------------
(* What is known of a log stays known when a row is added.                 *)

\* What was seen stays seen.
LEMMA SeenGrows ==
    ASSUME NEW l \in Seq(RowType), NEW row \in RowType, NEW s \in 0 .. Len(l),
           NEW t \in Nat, s <= t, NEW i
    PROVE  /\ SeenCall(l, s, i) => SeenCall(Append(l, row), t, i)
           /\ Allowed(l, s, i) => Allowed(Append(l, row), t, i)
<1> DEFINE m == Append(l, row)
<1>1. Len(l) \in Nat /\ DOMAIN l = 1 .. Len(l) /\ \A k \in DOMAIN l : m[k] = l[k]
  BY LogAppended
<1> HIDE DEF m
<1>2. ASSUME NEW k \in 1 .. s
      PROVE  k \in 1 .. t /\ m[k] = l[k]
  BY <1>1, <1>2
<1>3. SeenCall(l, s, i) => SeenCall(m, t, i)
  BY <1>2 DEF SeenCall
<1>4. Allowed(l, s, i) => Allowed(m, t, i)
  BY <1>2 DEF Allowed
<1> QED
  BY <1>3, <1>4 DEF m

\* All that is announced is seen when a barrier covers the log.
LEMMA SeenAll ==
    ASSUME NEW l, NEW a, NEW r, LogOk(l, a, r), NEW i \in 1 .. a
    PROVE  SeenCall(l, Len(l), i)
BY DEF LogOk, SeenCall

\* An announcement stays before what was written behind it.
LEMMA BeforeGrows ==
    ASSUME NEW l \in Seq(RowType), NEW row \in RowType, NEW k \in DOMAIN l, NEW i, Before(l, k, i)
    PROVE  Before(Append(l, row), k, i)
<1> DEFINE m == Append(l, row)
<1>1. Len(l) \in Nat /\ DOMAIN l = 1 .. Len(l) /\ \A h \in DOMAIN l : m[h] = l[h]
  BY LogAppended
<1> HIDE DEF m
<1>2. PICK h \in 1 .. k - 1 : l[h].kind = "tool/call" /\ l[h].call = i
  BY DEF Before
<1>3. m[h] = l[h]
  BY <1>1, <1>2
<1> QED
  BY <1>2, <1>3 DEF Before, m

\* Every announced call is announced before the next row.
LEMMA BeforeLast ==
    ASSUME NEW l, NEW a, NEW r, LogOk(l, a, r), NEW row \in RowType, NEW i \in 1 .. a
    PROVE  Before(Append(l, row), Len(l) + 1, i)
<1> DEFINE m == Append(l, row)
<1>1. l \in Seq(RowType)
  BY LogType
<1>2. Len(l) \in Nat /\ DOMAIN l = 1 .. Len(l) /\ \A h \in DOMAIN l : m[h] = l[h]
  BY <1>1, LogAppended
<1> HIDE DEF m
<1>3. PICK h \in DOMAIN l : l[h] = Row("tool/call", i, "none")
  BY DEF LogOk
<1>4. h \in 1 .. (Len(l) + 1) - 1 /\ m[h].kind = "tool/call" /\ m[h].call = i
  BY <1>2, <1>3, RowIs
<1> QED
  BY <1>4 DEF Before, m

\* A grant once earned stays so while later calls are under way, and after them
\* when no command among them failed.
LEMMA EarnedOn ==
    ASSUME NEW l, NEW m, NEW w, NEW v, NEW g, NEW h, NEW modes, NEW i \in Nat, NEW n \in Nat,
           i <= n, w \subseteq v, v \subseteq Nat, g \subseteq h, EarnedBy(l, w, g, modes, i),
           \A k \in v : k < i => k \in w /\ ResultsOf(m, k) = ResultsOf(l, k),
           \A k \in v : i <= k /\ k < n /\ modes[k] = "action" => ResultsOf(m, k) = {"ok"}
    PROVE  EarnedBy(m, v, h, modes, n)
<1>1. PICK j \in g \cap w :
        j < i /\ \A k \in w \cap j .. i - 1 : modes[k] = "action" => ResultsOf(l, k) = {"ok"}
  BY DEF EarnedBy
<1>2. j \in h /\ j \in v
  BY <1>1
<1>3. j \in h \cap v /\ j \in Nat /\ j < n
  <2>1. j \in Nat
    BY <1>2
  <2> QED
    BY <1>1, <1>2, <2>1
<1>4. ASSUME NEW k \in v \cap j .. n - 1, modes[k] = "action"
      PROVE  ResultsOf(m, k) = {"ok"}
  <2>1. k \in v /\ k \in Nat /\ j <= k /\ k < n
    BY <1>3, <1>4
  <2>2. CASE k < i
    <3>1. k \in w \cap j .. i - 1 /\ ResultsOf(m, k) = ResultsOf(l, k)
      BY <1>3, <2>1, <2>2
    <3> QED
      BY <1>1, <1>4, <3>1
  <2>3. CASE ~(k < i)
    BY <1>4, <2>1, <2>3
  <2> QED
    BY <2>2, <2>3
<1> QED
  BY <1>3, <1>4 DEF EarnedBy

\* A command that the user allowed for good and that ended well earns the next.
LEMMA EarnedNow ==
    ASSUME NEW m, NEW v, NEW h, NEW modes, NEW i \in Nat, i \in v, i \in h,
           ResultsOf(m, i) = {"ok"}
    PROVE  EarnedBy(m, v, h, modes, i + 1)
<1>1. i < i + 1 /\ \A k \in v \cap i .. (i + 1) - 1 : k = i
  OBVIOUS
<1> QED
  BY <1>1 DEF EarnedBy

\* Nothing changes for it.
LEMMA EarnedStill ==
    ASSUME NEW l, NEW m, NEW w, NEW g, NEW modes, NEW i \in Nat, w \subseteq Nat,
           EarnedBy(l, w, g, modes, i),
           \A k \in w : k < i => ResultsOf(m, k) = ResultsOf(l, k)
    PROVE  EarnedBy(m, w, g, modes, i)
<1>1. i <= i /\ w \subseteq w /\ g \subseteq g /\ \A k \in w : k \in Nat
  OBVIOUS
<1>2. \A k \in w : ~(i <= k /\ k < i)
  BY <1>1
<1> QED
  BY <1>1, <1>2, EarnedOn

\* Work of this call, or of a later one, does not touch an earlier grant.
LEMMA EarnedWider ==
    ASSUME NEW l, NEW w, NEW g, NEW modes, NEW i \in Nat, NEW j \in Nat, i <= j,
           w \subseteq Nat, EarnedBy(l, w, g, modes, i)
    PROVE  EarnedBy(l, w \cup {j}, g, modes, i)
<1>1. /\ i <= i /\ w \subseteq w \cup {j} /\ w \cup {j} \subseteq Nat /\ g \subseteq g
      /\ \A k \in w \cup {j} : k < i => k \in w
      /\ \A k \in w \cup {j} : ~(i <= k /\ k < i)
  OBVIOUS
<1> QED
  BY <1>1, EarnedOn

\* A row that is no result.
LEMMA QuietRow ==
    ASSUME NEW l \in Seq(RowType), NEW row \in RowType, row.kind # "tool/result",
           NEW w, w \subseteq Nat, NEW g, NEW modes
    PROVE  /\ \A i : ResultsOf(Append(l, row), i) = ResultsOf(l, i)
           /\ \A i : Honest(l, w, modes, i) => Honest(Append(l, row), w, modes, i)
           /\ \A i \in Nat : EarnedBy(l, w, g, modes, i) => EarnedBy(Append(l, row), w, g, modes, i)
<1>1. \A i : ResultsOf(Append(l, row), i) = ResultsOf(l, i)
  BY ResultsGrow
<1>2. ASSUME NEW i, Honest(l, w, modes, i)
      PROVE  Honest(Append(l, row), w, modes, i)
  <2>1. ResultsOf(Append(l, row), i) = ResultsOf(l, i)
    BY <1>1
  <2> QED
    BY <1>2, <2>1 DEF Honest
<1>3. ASSUME NEW i \in Nat, EarnedBy(l, w, g, modes, i)
      PROVE  EarnedBy(Append(l, row), w, g, modes, i)
  BY <1>1, <1>3, EarnedStill
<1> QED
  BY <1>1, <1>2, <1>3

\* A row that does not end the round leaves those that do where they are.
LEMMA OldStops ==
    ASSUME NEW l \in Seq(RowType), NEW row \in RowType, ~StopRow(row),
           NEW k \in DOMAIN Append(l, row), StopRow(Append(l, row)[k])
    PROVE  /\ k \in DOMAIN l /\ Append(l, row)[k] = l[k]
           /\ \A i : Before(l, k, i) => Before(Append(l, row), k, i)
<1>1. /\ Len(l) \in Nat /\ DOMAIN l = 1 .. Len(l) /\ DOMAIN Append(l, row) = 1 .. Len(l) + 1
      /\ \A h \in DOMAIN l : Append(l, row)[h] = l[h]
      /\ Append(l, row)[Len(l) + 1] = row
  BY LogAppended
<1>2. k # Len(l) + 1
  BY <1>1
<1>3. k \in DOMAIN l /\ Append(l, row)[k] = l[k]
  BY <1>1, <1>2
<1> QED
  BY <1>3, BeforeGrows

\* A call that is under way, or waits to be settled, has no result yet.
LEMMA Unanswered ==
    ASSUME RoundInv, RoundFacts, NEW i \in Calls, body[i] # "off" \/ slot[i] # NoRun,
           at \in Alone \cup {"filling", "committing", "awaiting"}
    PROVE  ResultsOf(log, i) = {}
<1>1. LogInv /\ PlaceInv /\ PoolInv
  BY DEF RoundInv
<1>2. i \in Nat \ {0}
  BY DEF RoundFacts
<1>3. CASE at \in Alone
  <2>1. i = index /\ LogOk(log, index, index - 1)
    BY <1>1, <1>3 DEF LogInv, PlaceInv
  <2>2. index - 1 \in Nat /\ ~(i <= index - 1) /\ i > index - 1
    BY <1>2, <2>1
  <2> QED
    BY <1>2, <2>1, <2>2, LogHas
<1>4. CASE at \in {"filling", "committing", "awaiting"}
  <2>1. pool.commit <= i
    BY <1>1, <1>4 DEF PoolInv, Pooling
  <2>2. CASE pool.unresolved = 0
    <3>1. LogOk(log, pool.start - 1, pool.commit - 1) /\ i > pool.commit - 1
      <4>1. LogOk(log, pool.start - 1, pool.commit - 1)
        BY <1>1, <1>4, <2>2 DEF LogInv
      <4>2. pool.commit \in Int
        BY <4>1, <2>1, <1>1 DEF RoundInv, TypeInv, Pools
      <4> QED
        BY <1>2, <2>1, <4>1, <4>2
    <3> QED
      BY <1>2, <3>1, LogHas
  <2>3. CASE pool.unresolved # 0
    <3>1. LogOk(log, pool.start - 1, pool.unresolved - 1) /\ i > pool.unresolved - 1
      <4>1. LogOk(log, pool.start - 1, pool.unresolved - 1) /\ pool.unresolved = pool.commit - 1
        BY <1>1, <1>4, <2>3 DEF LogInv, PoolInv, Pooling
      <4>2. pool.commit \in Int
        BY <1>1 DEF RoundInv, TypeInv, Pools
      <4> QED
        BY <1>2, <2>1, <4>1, <4>2
    <3> QED
      BY <1>2, <3>1, LogHas
  <2> QED
    BY <2>2, <2>3
<1> QED
  BY <1>3, <1>4

\* The next call's grant, when this call is over.
LEMMA EarnedNext ==
    ASSUME NEW l, NEW m, NEW w, NEW v, NEW g, NEW modes, NEW i \in Nat,
           w \subseteq v, v \subseteq Nat, EarnedBy(l, w, g, modes, i),
           \A k \in v : k < i => k \in w /\ ResultsOf(m, k) = ResultsOf(l, k),
           i \in v /\ modes[i] = "action" => ResultsOf(m, i) = {"ok"}
    PROVE  EarnedBy(m, v, g, modes, i + 1)
<1>1. PICK j \in g \cap w :
        j < i /\ \A k \in w \cap j .. i - 1 : modes[k] = "action" => ResultsOf(l, k) = {"ok"}
  BY DEF EarnedBy
<1>2. j \in g /\ j \in v /\ j \in Nat /\ j < i + 1
  <2>1. j \in v /\ j \in g
    BY <1>1
  <2>2. j \in Nat
    BY <2>1
  <2> QED
    BY <1>1, <2>1, <2>2
<1>3. ASSUME NEW k \in v \cap j .. (i + 1) - 1, modes[k] = "action"
      PROVE  ResultsOf(m, k) = {"ok"}
  <2>1. k \in v /\ k \in Nat /\ j <= k /\ k < i + 1
    BY <1>2, <1>3
  <2>2. CASE k < i
    <3>1. k \in w \cap j .. i - 1 /\ ResultsOf(m, k) = ResultsOf(l, k)
      BY <1>2, <2>1, <2>2
    <3> QED
      BY <1>1, <1>3, <3>1
  <2>3. CASE k = i
    BY <1>3, <2>1, <2>3
  <2> QED
    BY <2>1, <2>2, <2>3
<1> QED
  BY <1>2, <1>3 DEF EarnedBy

\* Two rows written at once are the one and then the other.
LEMMA TwoRows ==
    ASSUME NEW l \in Seq(RowType), NEW x \in RowType, NEW y \in RowType
    PROVE  l \o <<x, y>> = Append(Append(l, x), y)
OBVIOUS

-----------------------------------------------------------------------------
(* The invariant is kept by every action.                                  *)

\* An append or a barrier fails: nothing is under way any more.
LEMMA StorageFailsStep ==
    ASSUME RoundInv, StorageFails
    PROVE  RoundInv'
<1>1. /\ TypeInv /\ LogInv /\ PlaceInv /\ PoolInv /\ WorkInv /\ RanInv /\ SeenInv /\ StopInv
      /\ GrantInv /\ ReleaseInv /\ HonestInv
  BY DEF RoundInv
<1>2. RoundFacts
  BY <1>1, RoundType
<1>3. TypeInv'
  <2>1. at' \in Places
    BY <1>1, <1>2 DEF StorageFails, Places
  <2>2. body' \in [Calls -> {"off", "queued", "on", "cleanup", "work"}]
    BY <1>1, <1>2 DEF StorageFails
  <2> QED
    BY <1>1, <1>2, <2>1, <2>2 DEF TypeInv, StorageFails, Calls, config, environment, history
<1>4. LogInv'
  <2>1. \E a, r \in 0 .. Len(round.modes) : LogOk(log, a, r)
    <3>1. CASE at \in Alone \cup {"next"}
      <4>1. /\ index - 1 \in 0 .. Len(round.modes)
            /\ at = "next" => LogOk(log, index - 1, index - 1)
            /\ at \in Alone => index \in 0 .. Len(round.modes) /\ LogOk(log, index, index - 1)
        BY <1>1, <1>2 DEF RoundFacts, LogInv, PlaceInv
      <4>2. at = "next" \/ at \in Alone
        BY <3>1
      <4>3. CASE at = "next"
        BY <4>1, <4>3
      <4>4. CASE at \in Alone
        BY <4>1, <4>4
      <4> QED
        BY <4>2, <4>3, <4>4
    <3>2. CASE at \in Pooling
      <4>1. /\ pool.commit \in Nat /\ pool.start \in Nat /\ pool.unresolved \in Nat
            /\ pool.end \in Nat
            /\ 1 <= pool.commit /\ pool.commit <= pool.start
            /\ pool.start <= Len(round.modes) + 1
            /\ at = "starting" => pool.start <= Len(round.modes)
            /\ pool.unresolved # 0 => pool.unresolved <= pool.start
        BY <1>1, <1>2, <3>2 DEF RoundFacts, TypeInv, Pools, PoolInv
      <4>2. /\ pool.commit - 1 \in 0 .. Len(round.modes) /\ pool.start - 1 \in 0 .. Len(round.modes)
            /\ at = "starting" => pool.start \in 0 .. Len(round.modes)
            /\ pool.unresolved # 0 => pool.unresolved - 1 \in 0 .. Len(round.modes)
        <5>1. Len(round.modes) \in Nat
          BY <1>2 DEF RoundFacts
        <5>2. pool.commit - 1 \in 0 .. Len(round.modes) /\ pool.start - 1 \in 0 .. Len(round.modes)
          BY <4>1, <5>1
        <5>3. at = "starting" => pool.start \in 0 .. Len(round.modes)
          BY <4>1, <5>1
        <5>4. pool.unresolved # 0 => pool.unresolved - 1 \in 0 .. Len(round.modes)
          BY <4>1, <5>1
        <5> QED
          BY <5>2, <5>3, <5>4
      <4>3. \/ LogOk(log, pool.start - 1, pool.commit - 1)
            \/ at = "starting" /\ LogOk(log, pool.start, pool.commit - 1)
            \/ LogOk(log, pool.start - 1, pool.start - 1)
            \/ pool.unresolved # 0 /\ LogOk(log, pool.start - 1, pool.unresolved - 1)
        BY <1>1, <3>2 DEF LogInv, Pooling
      <4> QED
        BY <4>2, <4>3
    <3> QED
      BY <1>1, <3>1, <3>2 DEF StorageFails, Alone, Pooling
  <2> QED
    BY <2>1 DEF LogInv, StorageFails, config, Alone
<1>5. PlaceInv'
  BY <1>1, <1>2 DEF StorageFails, PlaceInv, Calls, config, Alone, Pooling
<1>6. PoolInv'
  BY <1>1, <1>2 DEF StorageFails, PoolInv, Pooling
<1>7. WorkInv'
  BY <1>1, <1>2 DEF StorageFails, WorkInv
<1>8. RanInv'
  BY <1>1, <1>2 DEF StorageFails, RanInv, Alone, Pooling
<1>9. SeenInv'
  BY <1>1, <1>2 DEF StorageFails, SeenInv
<1>10. StopInv'
  BY <1>1, <1>2 DEF StorageFails, StopInv, history, Pooling, Stopped
<1>11. GrantInv'
  BY <1>1, <1>2 DEF StorageFails, GrantInv
<1>12. ReleaseInv'
  BY <1>1, <1>2 DEF StorageFails, ReleaseInv, config
<1>13. HonestInv'
  BY <1>1, <1>2 DEF StorageFails, HonestInv, Calls, config, history
<1> QED
  BY <1>3, <1>4, <1>5, <1>6, <1>7, <1>8, <1>9, <1>10, <1>11, <1>12, <1>13 DEF RoundInv

\* A call is announced, and refused at once when the round is stopping.
LEMMA WriteIntentStep ==
    ASSUME RoundInv, WriteIntent
    PROVE  RoundInv'
<1>1. /\ TypeInv /\ LogInv /\ PlaceInv /\ PoolInv /\ WorkInv /\ RanInv /\ SeenInv /\ StopInv
      /\ GrantInv /\ ReleaseInv /\ HonestInv
  BY DEF RoundInv
<1>2. RoundFacts
  BY <1>1, RoundType
<1>3. /\ at = "next" /\ index \in Calls /\ index - 1 \in Nat /\ (index - 1) + 1 = index
      /\ log' = Append(log, Row("tool/call", index, "none"))
      /\ Row("tool/call", index, "none") \in RowType /\ log \in Seq(RowType)
      /\ Row("tool/call", index, "none").kind = "tool/call"
      /\ UNCHANGED <<environment, config, history, index, pool, body, grant, seen>>
  BY <1>1, <1>2, RowIs, CodesAre DEF WriteIntent, RoundFacts, TypeInv
<1>4. PICK run \in Runs :
        \/ /\ driver.limit /\ at' = "settling" /\ driver' = driver
           /\ slot' = [slot EXCEPT ![index] = run] /\ run.code = "SESSION_LIMIT"
        \/ /\ ~driver.limit /\ Stopping /\ at' = "settling"
           /\ driver' = [driver EXCEPT !.cancelled = @ \/ token]
           /\ slot' = [slot EXCEPT ![index] = run] /\ run.code = "ABORTED_BEFORE_DISPATCH"
        \/ ~driver.limit /\ ~Stopping /\ at' = "barrier" /\ driver' = driver /\ slot' = slot
  <2>1. CASE driver.limit
    <3>1. /\ Run("SESSION_LIMIT", "none", FALSE) \in Runs
          /\ Run("SESSION_LIMIT", "none", FALSE).code = "SESSION_LIMIT"
      BY RunIs, CodesAre
    <3> QED
      BY <2>1, <3>1 DEF WriteIntent, Prestart
  <2>2. CASE ~driver.limit /\ Stopping
    <3>1. PICK stop \in {"none", "cancelled"} :
            slot' = [slot EXCEPT ![index] = Run("ABORTED_BEFORE_DISPATCH", stop, FALSE)]
      BY <2>2 DEF WriteIntent
    <3>2. /\ Run("ABORTED_BEFORE_DISPATCH", stop, FALSE) \in Runs
          /\ Run("ABORTED_BEFORE_DISPATCH", stop, FALSE).code = "ABORTED_BEFORE_DISPATCH"
      BY RunIs, CodesAre
    <3> QED
      BY <2>2, <3>1, <3>2 DEF WriteIntent
  <2>3. CASE ~driver.limit /\ ~Stopping
    <3>1. NoRun \in Runs
      BY RunIs
    <3> QED
      BY <2>3, <3>1 DEF WriteIntent
  <2> QED
    BY <2>1, <2>2, <2>3
<1>5. LogOk(log, index - 1, index - 1)
  BY <1>1, <1>3 DEF LogInv
<1>6. TypeInv'
  <2>1. at' \in Places
    BY <1>1, <1>2 DEF WriteIntent, Places, Alone
  <2>2. slot' \in [Calls -> Runs]
    BY <1>1, <1>4 DEF TypeInv
  <2>3. driver' \in Drivers
    <3>1. driver' = driver \/ driver' = [driver EXCEPT !.cancelled = @ \/ token]
      BY <1>4
    <3> QED
      BY <1>1, <3>1 DEF TypeInv, Drivers
  <2>4. answer' \in [outcome : Outcomes, stop : Stops]
    BY <1>1, <1>2, StopIs, CodesAre DEF WriteIntent, Outcomes, NoAnswer
  <2>5. log' \in Seq(RowType) /\ Len(log) <= Len(log')
    BY <1>1, <1>2, CodesAre, RowIs, LogAppended DEF WriteIntent, TypeInv
  <2> QED
    BY <1>1, <1>2, <2>1, <2>2, <2>3, <2>4, <2>5
      DEF TypeInv, WriteIntent, Calls, config, environment, history
<1>7. LogInv'
  <2>1. LogOk(log', index, index - 1)
    BY <1>3, <1>5, LogAnnounced
  <2>2. at' \in Alone /\ at' \notin {"next", "done", "fatal"} \cup Pooling /\ index' = index
    BY <1>3, <1>4 DEF Alone, Pooling, config
  <2> QED
    BY <2>1, <2>2 DEF LogInv, Pooling
<1>8. PlaceInv'
  BY <1>1, <1>2
    DEF WriteIntent, TypeInv, PlaceInv, Prestart, Calls, config, history, Run, NoRun, Alone,
        Pooling, Paused
<1>9. PoolInv'
  BY <1>1, <1>2 DEF WriteIntent, PoolInv, Pooling
<1>10. WorkInv'
  <2>1. /\ index \notin ran /\ \A i \in Calls : i # index => slot'[i] = slot[i]
        /\ \A i \in Calls : slot[i] = NoRun /\ body[i] = "off"
        /\ \/ slot'[index] = slot[index]
           \/ slot'[index].code = "ABORTED_BEFORE_DISPATCH"
           \/ slot'[index].code = "SESSION_LIMIT" /\ driver'.limit
    BY <1>1, <1>2, <1>3, <1>4 DEF RoundFacts, TypeInv, RanInv, PlaceInv
  <2>2. /\ at' # "fatal" /\ body' = body /\ ran' = ran /\ Calls' = Calls
        /\ NoRun.code = "none"
    BY <1>3, <1>4, RunIs DEF Calls, config, history
  <2>3. ASSUME NEW i \in Calls, slot'[i] = NoRun
        PROVE  slot'[i].code \notin NotStarted \cup {"ok", "failed", "prepared", "ABORTED",
                   "TURN_TIMEOUT", "AGENT_TURN_TIMEOUT", "SESSION_LIMIT"}
    BY <2>2, <2>3 DEF NotStarted
  <2> QED
    BY <2>1, <2>2, <2>3 DEF WorkInv, Mode, config
<1>11. RanInv'
  BY <1>1, <1>2 DEF RoundFacts, WriteIntent, RanInv, history, Run, Pooling
<1>12. SeenInv'
  <2>1. \A i \in Calls : slot'[i].code # "prepared" /\ body'[i] = "off"
    <3>1. \A i \in Calls : slot[i].code # "prepared" /\ body[i] = "off"
      BY <1>1, <1>3, RunIs DEF PlaceInv
    <3>2. slot \in [Calls -> Runs] /\ NoRun.code # "prepared" /\ body' = body
      BY <1>1, <1>3, RunIs DEF TypeInv
    <3>3. \A i \in Calls : slot'[i].code # "prepared"
      BY <1>4, <3>1, <3>2
    <3> QED
      BY <3>1, <3>2, <3>3
  <2> QED
    BY <2>1 DEF SeenInv, Calls, config, WriteIntent
<1>13. StopInv'
  <2> SUFFICES ASSUME NEW k \in DOMAIN log', StopRow(log'[k])
               PROVE  Stopped(k)'
    BY DEF StopInv
  <2>1. /\ k \in DOMAIN log /\ log'[k] = log[k] /\ StopRow(log[k])
        /\ \A i : Before(log, k, i) => Before(log', k, i)
    <3>1. ~StopRow(Row("tool/call", index, "none"))
      BY <1>3 DEF StopRow
    <3> QED
      BY <1>3, <3>1, OldStops
  <2>2. Stopped(k)
    BY <1>1, <2>1 DEF StopInv
  <2>3. /\ at' = "settling" /\ slot'[index].code # "prepared" /\ index \notin ran
    <3>1. driver.limit \/ Stopping
      BY <1>3, <2>2 DEF Stopped, Halted, Stopping
    <3>2. index \notin ran
      BY <1>1, <1>2, <1>3 DEF RanInv, RoundFacts
    <3>3. at' = "settling" /\ slot' = [slot EXCEPT ![index] = run] /\ run.code # "prepared"
      BY <1>4, <3>1
    <3> QED
      BY <1>1, <1>3, <3>2, <3>3 DEF TypeInv
  <2>4. /\ driver'.limit = driver.limit /\ driver'.unseen = driver.unseen
        /\ driver'.infra = driver.infra /\ driver'.latched = driver.latched
        /\ driver.cancelled => driver'.cancelled
    BY <1>1, <1>4 DEF TypeInv, Drivers
  <2>5. \A i \in Calls : body[i] = "off"
    BY <1>1, <1>3 DEF PlaceInv
  <2> QED
    BY <1>3, <2>1, <2>2, <2>3, <2>4, <2>5 DEF Stopped, Halted, Calls, config, history, Pooling
<1>14. GrantInv'
  <2>1. EarnedBy(log, ran, scoped, round.modes, index)
          => EarnedBy(log', ran, scoped, round.modes, index)
    BY <1>2, <1>3, QuietRow DEF RoundFacts
  <2>2. index \notin ran
    BY <1>1, <1>2, <1>3 DEF RanInv, RoundFacts
  <2> QED
    BY <1>1, <1>3, <1>4, <2>1, <2>2 DEF GrantInv, Paused, config, history
<1>15. ReleaseInv'
  BY <1>1, <1>2 DEF WriteIntent, ReleaseInv, config
<1>16. HonestInv'
  BY <1>1, <1>2, <1>3, QuietRow DEF HonestInv, RoundFacts, Calls, config, history
<1> QED
  BY <1>6, <1>7, <1>8, <1>9, <1>10, <1>11, <1>12, <1>13, <1>14, <1>15, <1>16 DEF RoundInv

\* The announcement is seen and the call queued, or the observer is gone.
LEMMA DispatchStep ==
    ASSUME RoundInv, Dispatch
    PROVE  RoundInv'
<1>1. /\ TypeInv /\ LogInv /\ PlaceInv /\ PoolInv /\ WorkInv /\ RanInv /\ SeenInv /\ StopInv
      /\ GrantInv /\ ReleaseInv /\ HonestInv
  BY DEF RoundInv
<1>2. RoundFacts
  BY <1>1, RoundType
<1>3. TypeInv'
  <2>1. at' \in Places
    BY <1>1, <1>2 DEF Dispatch, Places, Alone
  <2>2. body' \in [Calls -> {"off", "queued", "on", "cleanup", "work"}]
    BY <1>1, <1>2 DEF Dispatch, TypeInv
  <2>3. slot' \in [Calls -> Runs]
    <3>1. slot' = slot \/ slot' = [slot EXCEPT ![index] = Prestart(index, "ABORTED_BEFORE_DISPATCH", "none")]
      BY DEF Dispatch
    <3>2. index \in Calls /\ Prestart(index, "ABORTED_BEFORE_DISPATCH", "none") \in Runs
      BY <1>1, <1>2, CodesAre, PrestartIs DEF RoundFacts, Dispatch, PlaceInv, Alone
    <3> QED
      BY <1>1, <3>1, <3>2 DEF TypeInv
  <2>4. driver' \in Drivers
    <3>1. driver' = driver \/ driver' = [driver EXCEPT !.unseen = TRUE]
      BY DEF Dispatch
    <3> QED
      BY <1>1, <3>1 DEF TypeInv, Drivers
  <2>5. seen' \in 0 .. Len(log')
    BY <1>1, <1>2 DEF Dispatch, TypeInv, Covered
  <2> QED
    BY <1>1, <1>2, <2>1, <2>2, <2>3, <2>4, <2>5
      DEF TypeInv, Dispatch, Calls, config, environment, history
<1>4. LogInv'
  BY <1>1, <1>2 DEF Dispatch, LogInv, Alone
<1>5. PlaceInv'
  BY <1>1, <1>2
    DEF Dispatch, TypeInv, PlaceInv, Prestart, Calls, config, environment, Run, Alone, Pooling,
        Paused
<1>6. PoolInv'
  BY <1>1, <1>2 DEF Dispatch, PoolInv, Pooling
<1>7. WorkInv'
  BY <1>1, <1>2
    DEF Dispatch, TypeInv, WorkInv, PlaceInv, RanInv, Prestart, Calls, config, history, Run,
        NoRun, Alone, Quick
<1>8. RanInv'
  BY <1>1, <1>2 DEF Dispatch, RanInv, history, Alone, Pooling
<1>9. SeenInv'
  <2>1. /\ index \in Calls /\ LogOk(log, index, index - 1) /\ at' # "fatal"
        /\ \A i \in Calls : i # index => body[i] = "off" /\ slot[i] = NoRun
        /\ body[index] = "off" /\ slot[index] = NoRun
    BY <1>1 DEF PlaceInv, LogInv, Dispatch, Alone
  <2>2. SeenCall(log, Len(log), index)
    BY <1>2, <2>1, SeenAll DEF RoundFacts
  <2>3. \A i \in Calls : slot'[i].code # "prepared"
    BY <1>1, <2>1 DEF Dispatch, TypeInv, Prestart, Run, NoRun
  <2>4. \A i \in Calls : body'[i] # "off" => i = index /\ seen' = Len(log)
    BY <1>1, <2>1 DEF Dispatch, TypeInv, Covered
  <2> QED
    BY <2>2, <2>3, <2>4 DEF SeenInv, Dispatch, Calls, config
<1>10. StopInv'
  BY <1>1, <1>2 DEF Dispatch, StopInv, Pooling, Stopped
<1>11. GrantInv'
  BY <1>1, <1>2 DEF Dispatch, TypeInv, GrantInv, RanInv, config, history, Paused
<1>12. ReleaseInv'
  BY <1>1, <1>2 DEF Dispatch, ReleaseInv, config
<1>13. HonestInv'
  BY <1>1, <1>2 DEF Dispatch, HonestInv, Calls, config, history
<1> QED
  BY <1>3, <1>4, <1>5, <1>6, <1>7, <1>8, <1>9, <1>10, <1>11, <1>12, <1>13 DEF RoundInv

\* A run that ends: what it reports fits what was done, and the call may be settled.
LEMMA DeliverStep ==
    ASSUME RoundInv, NEW i \in Calls, NEW run \in Runs, Deliver(i, run), Polled(i),
           body[i] \in {"queued", "on", "cleanup"}, run.code # "none",
           run.code \in {"ok", "failed"} => i \in ran, run.code \in NotStarted => i \notin ran,
           run.code = "prepared" => Mode(i) \notin Quick /\ i \notin ran,
           run.code = "ABORTED" => run.stop = "cancelled",
           run.code = "TURN_TIMEOUT" => run.stop = "timeout",
           run.code \notin {"AGENT_TURN_TIMEOUT", "SESSION_LIMIT"}
    PROVE  RoundInv'
<1>1. /\ TypeInv /\ LogInv /\ PlaceInv /\ PoolInv /\ WorkInv /\ RanInv /\ SeenInv /\ StopInv
      /\ GrantInv /\ ReleaseInv /\ HonestInv
  BY DEF RoundInv
<1>2. RoundFacts
  BY <1>1, RoundType
<1>3. /\ i \in Nat /\ at \in {"running", "awaiting"} /\ (at = "running" => i = index)
      /\ at = "running" => index \in Calls
      /\ at = "awaiting" => Mode(i) = "parallel" /\ run.code # "prepared"
      /\ body[i] # "off" /\ run # NoRun
  <2>1. at \in {"running", "awaiting"} /\ (at = "running" => i = index)
    BY DEF Polled
  <2>2. ASSUME at = "awaiting"
        PROVE  Mode(i) = "parallel"
    <3>1. /\ pool.commit <= i /\ i < pool.start /\ index <= pool.commit
          /\ pool.start <= pool.end + 1
          /\ \A j \in index .. pool.end : Mode(j) = "parallel"
      BY <1>1, <2>2 DEF PoolInv, Pooling
    <3>2. pool.commit \in Nat /\ pool.start \in Nat /\ pool.end \in Nat /\ index \in Nat /\ i \in Nat
      BY <1>1, <1>2 DEF TypeInv, Pools, RoundFacts
    <3>3. i \in index .. pool.end
      BY <3>1, <3>2
    <3> QED
      BY <3>1, <3>3
  <2> QED
    BY <1>2, <2>1, <2>2, RunIs DEF RoundFacts, Quick
<1>4. /\ body' = [body EXCEPT ![i] = "off"] /\ slot' = [slot EXCEPT ![i] = run]
      /\ UNCHANGED <<environment, config, ran, scoped, index, answer, driver, grant, log, seen>>
  BY DEF Deliver
<1>5. \/ at = "awaiting" /\ at' = "filling"
      \/ /\ at = "running" /\ at' = "settling"
         /\ run.code = "prepared" => Mode(i) \in {"state", "exit"}
      \/ /\ at = "running" /\ at' \in {"setup", "resolving"} /\ run.code = "prepared"
         /\ Mode(i) \in {"action", "mutation"} /\ (at' = "setup" => Mode(i) = "action")
  <2>1. Mode(i) \in Modes
    BY <1>2 DEF RoundFacts
  <2>2. CASE at = "awaiting"
    BY <2>2 DEF Deliver
  <2>3. CASE at = "running" /\ run.code # "prepared"
    BY <2>3 DEF Deliver
  <2>4. CASE at = "running" /\ run.code = "prepared"
    <3>1. at' = CASE Mode(i) = "action" -> "setup"
                  [] Mode(i) = "mutation" -> "resolving"
                  [] Mode(i) \in {"state", "exit"} -> "settling"
      BY <2>4 DEF Deliver
    <3> QED
      BY <2>1, <2>4, <3>1 DEF Modes, Quick
  <2> QED
    BY <1>3, <2>2, <2>3, <2>4
<1>6. /\ pool' \in Pools /\ pool'.start = pool.start /\ pool'.commit = pool.commit
      /\ pool'.end = pool.end /\ pool'.unresolved = pool.unresolved
      /\ pool.stop => pool'.stop
  <2>1. pool' = pool \/ \E b \in BOOLEAN : pool' = [pool EXCEPT !.stop = @ \/ b]
    BY DEF Deliver, StopsPool
  <2> QED
    BY <1>1, <2>1 DEF TypeInv, Pools
<1>7. TypeInv'
  <2>1. at' \in Places
    BY <1>5 DEF Places, Alone, Pooling
  <2>2. body' \in [Calls -> {"off", "queued", "on", "cleanup", "work"}] /\ slot' \in [Calls -> Runs]
    BY <1>1, <1>4 DEF TypeInv
  <2> QED
    BY <1>1, <1>4, <1>6, <2>1, <2>2 DEF TypeInv, Calls, config, environment
<1>8. LogInv'
  BY <1>1, <1>4, <1>5, <1>6 DEF LogInv, Alone, config
<1>9. PlaceInv'
  BY <1>1, <1>2, <1>3, <1>4, <1>5, <1>6
    DEF TypeInv, PlaceInv, Calls, Mode, config, Alone, Pooling, Paused
<1>10. PoolInv'
  BY <1>1, <1>2, <1>3, <1>4, <1>5, <1>6
    DEF RoundFacts, TypeInv, PoolInv, Calls, Mode, config, Pooling
<1>11. WorkInv'
  BY <1>1, <1>2, <1>3, <1>4, <1>5, <1>6 DEF TypeInv, WorkInv, Calls, Mode, config, environment
<1>12. RanInv'
  BY <1>1, <1>2, <1>3, <1>4, <1>5, <1>6 DEF RanInv, Alone, Pooling
<1>13. SeenInv'
  BY <1>1, <1>2, <1>3, <1>4, <1>5, <1>6 DEF SeenInv, Calls, config
<1>14. StopInv'
  <2> SUFFICES ASSUME NEW k \in DOMAIN log', StopRow(log'[k])
               PROVE  Stopped(k)'
    BY DEF StopInv
  <2>1. Stopped(k)
    BY <1>1, <1>4 DEF StopInv
  <2>2. at = "awaiting" /\ at' = "filling"
    BY <1>5, <2>1 DEF Stopped, Pooling
  <2>3. \A j \in Calls : body'[j] # "off" => body[j] # "off"
    BY <1>1, <1>4 DEF TypeInv
  <2> QED
    BY <1>4, <1>6, <2>1, <2>2, <2>3 DEF Stopped, Halted, Pooling, Calls, config
<1>15. GrantInv'
  BY <1>1, <1>2, <1>3, <1>4, <1>5, <1>6 DEF GrantInv, WorkInv, Mode, config, Quick, Paused
<1>16. ReleaseInv'
  BY <1>1, <1>2, <1>3, <1>4, <1>5, <1>6 DEF ReleaseInv, config
<1>17. HonestInv'
  BY <1>1, <1>2, <1>3, <1>4, <1>5, <1>6 DEF HonestInv, Calls, config
<1> QED
  BY <1>7, <1>8, <1>9, <1>10, <1>11, <1>12, <1>13, <1>14, <1>15, <1>16, <1>17 DEF RoundInv

\* A refused run reports that no work was started, or that it does not know.
LEMMA BodyRefusedStep ==
    ASSUME RoundInv, NEW i \in Calls, BodyRefused(i)
    PROVE  RoundInv'
<1>1. /\ TypeInv /\ LogInv /\ PlaceInv /\ PoolInv /\ WorkInv /\ RanInv /\ SeenInv /\ StopInv
      /\ GrantInv /\ ReleaseInv /\ HonestInv
  BY DEF RoundInv
<1>2. RoundFacts
  BY <1>1, RoundType
<1>3. body[i] = "queued" /\ Polled(i) /\ i \notin ran /\ Mode(i) \in Modes
  BY <1>1, <1>2 DEF BodyRefused, WorkInv, RoundFacts, Polled
<1>4. CASE Deliver(i, Prestart(i, "INVALID", "none"))
  <2>1. /\ Prestart(i, "INVALID", "none") \in Runs
        /\ Prestart(i, "INVALID", "none").code = "INVALID"
    BY <1>3, PrestartIs, CodesAre
  <2> QED
    BY <1>3, <1>4, <2>1, DeliverStep DEF NotStarted
<1>5. CASE Deliver(i, Prestart(i, "ABORTED_BEFORE_DISPATCH", Sample))
  <2>1. /\ Prestart(i, "ABORTED_BEFORE_DISPATCH", Sample) \in Runs
        /\ Prestart(i, "ABORTED_BEFORE_DISPATCH", Sample).stop = Sample
        /\ \/ Prestart(i, "ABORTED_BEFORE_DISPATCH", Sample).code = "ABORTED_BEFORE_DISPATCH"
           \/ Prestart(i, "ABORTED_BEFORE_DISPATCH", Sample).code = "ABORTED" /\ Sample = "cancelled"
           \/ Prestart(i, "ABORTED_BEFORE_DISPATCH", Sample).code = "TURN_TIMEOUT" /\ Sample = "timeout"
    BY <1>3, PrestartIs, CodesAre, StopIs
  <2> QED
    BY <1>3, <1>5, <2>1, DeliverStep DEF NotStarted
<1>6. CASE Deliver(i, Run("unknown", "none", FALSE))
  <2>1. Run("unknown", "none", FALSE) \in Runs /\ Run("unknown", "none", FALSE).code = "unknown"
    BY RunIs, CodesAre
  <2> QED
    BY <1>3, <1>6, <2>1, DeliverStep DEF NotStarted
<1> QED
  BY <1>4, <1>5, <1>6 DEF BodyRefused

\* The body of a queued call starts: its announcement was seen before.
LEMMA BodyStartsStep ==
    ASSUME RoundInv, NEW i \in Calls, BodyStarts(i)
    PROVE  RoundInv'
<1>1. /\ TypeInv /\ LogInv /\ PlaceInv /\ PoolInv /\ WorkInv /\ RanInv /\ SeenInv /\ StopInv
      /\ GrantInv /\ ReleaseInv /\ HonestInv
  BY DEF RoundInv
<1>2. RoundFacts
  BY <1>1, RoundType
<1>3. /\ body[i] = "queued" /\ i \notin ran /\ slot[i] = NoRun /\ i \in Nat /\ index <= i
      /\ at \in {"running", "awaiting"} /\ (at = "running" => i = index)
  <2>1. body[i] = "queued" /\ at \in {"running", "awaiting"} /\ (at = "running" => i = index)
    BY DEF BodyStarts, Polled
  <2>2. i \notin ran /\ slot[i] = NoRun
    BY <1>1, <2>1 DEF WorkInv
  <2>3. i \in Nat /\ index <= i
    <3>1. i \in Nat
      BY <1>2 DEF RoundFacts
    <3>2. CASE at = "awaiting"
      <4>1. index <= pool.commit /\ pool.commit <= i
        BY <1>1, <2>1, <3>2 DEF PoolInv, Pooling
      <4>2. pool.commit \in Nat
        BY <1>1 DEF TypeInv, Pools
      <4> QED
        BY <1>2, <3>1, <4>1, <4>2 DEF RoundFacts
    <3> QED
      BY <1>2, <2>1, <3>1, <3>2 DEF RoundFacts
  <2> QED
    BY <2>1, <2>2, <2>3
<1>4. ResultsOf(log, i) = {}
  BY <1>2, <1>3, Unanswered DEF Alone
<1>5. /\ body' = [body EXCEPT ![i] = "on"]
      /\ ran' = ran \/ ran' = ran \cup {i}
      /\ i \in ran' <=> Mode(i) \in Quick
      /\ UNCHANGED <<environment, config, scoped, at, index, pool, slot, answer, driver,
                     grant, log, seen>>
  BY <1>3 DEF BodyStarts, Quick
<1>6. TypeInv'
  <2>1. body' \in [Calls -> {"off", "queued", "on", "cleanup", "work"}]
    BY <1>1, <1>2 DEF BodyStarts, TypeInv
  <2>2. ran' \subseteq Calls
    BY <1>1, <1>2 DEF BodyStarts, TypeInv
  <2> QED
    BY <1>1, <1>2, <2>1, <2>2 DEF TypeInv, BodyStarts, Calls, config, environment
<1>7. LogInv'
  BY <1>1, <1>2 DEF BodyStarts, LogInv, PlaceInv
<1>8. PlaceInv'
  BY <1>1, <1>2 DEF BodyStarts, PlaceInv, Calls, config
<1>9. PoolInv'
  BY <1>1, <1>2 DEF BodyStarts, PoolInv, PlaceInv, Calls, Mode, config
<1>10. WorkInv'
  BY <1>1, <1>2, <1>3, <1>5
    DEF WorkInv, TypeInv, Calls, Mode, config, environment, NoRun, Run, NotStarted
<1>11. RanInv'
  BY <1>1, <1>2 DEF BodyStarts, TypeInv, RanInv, PlaceInv, PoolInv, Polled
<1>12. SeenInv'
  BY <1>1, <1>2 DEF BodyStarts, SeenInv, Calls, config
<1>13. StopInv'
  BY <1>1, <1>2 DEF BodyStarts, StopInv, Polled, Calls, config, Halted, Stopped
<1>14. GrantInv'
  <2>1. EarnedBy(log, ran, scoped, round.modes, index)
          => EarnedBy(log, ran', scoped, round.modes, index)
    <3>1. CASE ran' = ran
      BY <3>1
    <3>2. CASE ran' = ran \cup {i}
      BY <1>2, <1>3, <3>2, EarnedWider DEF RoundFacts
    <3> QED
      BY <1>5, <3>1, <3>2
  <2> QED
    BY <1>1, <1>3, <1>5, <2>1 DEF GrantInv, Paused, Mode, config
<1>15. ReleaseInv'
  BY <1>1, <1>2 DEF BodyStarts, ReleaseInv, Polled, config
<1>16. HonestInv'
  BY <1>1, <1>4, <1>5 DEF HonestInv, Honest, Calls, config
<1> QED
  BY <1>6, <1>7, <1>8, <1>9, <1>10, <1>11, <1>12, <1>13, <1>14, <1>15, <1>16 DEF RoundInv

\* A body ends by itself.
LEMMA BodyEndsStep ==
    ASSUME RoundInv, NEW i \in Calls, BodyEnds(i)
    PROVE  RoundInv'
<1>1. /\ TypeInv /\ LogInv /\ PlaceInv /\ PoolInv /\ WorkInv /\ RanInv /\ SeenInv /\ StopInv
      /\ GrantInv /\ ReleaseInv /\ HonestInv
  BY DEF RoundInv
<1>2. RoundFacts
  BY <1>1, RoundType
<1>3. body[i] = "on" /\ Polled(i) /\ (i \in ran <=> Mode(i) \in Quick)
  BY <1>1 DEF BodyEnds, WorkInv, Polled
<1>4. PICK code \in {"ok", "prepared", "refused", "unknown"} :
        /\ Deliver(i, Run(code, "none", FALSE))
        /\ code = "ok" => Mode(i) \in Quick
        /\ code = "prepared" => Mode(i) \notin Quick
  BY DEF BodyEnds, Quick
<1>5. Run(code, "none", FALSE) \in Runs /\ Run(code, "none", FALSE).code = code
  BY RunIs, CodesAre
<1> QED
  BY <1>3, <1>4, <1>5, DeliverStep DEF NotStarted

\* A stop interrupts a body, which gets time to clean up.
LEMMA BodyInterruptedStep ==
    ASSUME RoundInv, NEW i \in Calls, BodyInterrupted(i)
    PROVE  RoundInv'
<1>1. /\ TypeInv /\ LogInv /\ PlaceInv /\ PoolInv /\ WorkInv /\ RanInv /\ SeenInv /\ StopInv
      /\ GrantInv /\ ReleaseInv /\ HonestInv
  BY DEF RoundInv
<1>2. RoundFacts
  BY <1>1, RoundType
<1>3. TypeInv'
  <2>1. body' \in [Calls -> {"off", "queued", "on", "cleanup", "work"}]
    BY <1>1, <1>2 DEF BodyInterrupted, TypeInv
  <2>2. slot' \in [Calls -> Runs]
    BY <1>1, <1>2, CodesAre, RunIs, PrestartIs, StopIs DEF RoundFacts, BodyInterrupted, TypeInv
  <2> QED
    BY <1>1, <1>2, <2>1, <2>2 DEF TypeInv, BodyInterrupted, Calls, config, environment
<1>4. LogInv'
  BY <1>1, <1>2 DEF BodyInterrupted, LogInv, PlaceInv
<1>5. PlaceInv'
  BY <1>1, <1>2 DEF BodyInterrupted, PlaceInv, Prestart, Calls, config, Run, Sample
<1>6. PoolInv'
  BY <1>1, <1>2 DEF BodyInterrupted, PoolInv, PlaceInv, Calls, Mode, config, Run
<1>7. WorkInv'
  BY <1>1, <1>2
    DEF BodyInterrupted, TypeInv, WorkInv, Prestart, NotStarted, Owned, Calls, Mode, config,
        environment, Run, Sample, Quick
<1>8. RanInv'
  BY <1>1, <1>2 DEF BodyInterrupted, RanInv
<1>9. SeenInv'
  BY <1>1, <1>2 DEF BodyInterrupted, SeenInv, Calls, config
<1>10. StopInv'
  BY <1>1, <1>2 DEF BodyInterrupted, StopInv, Polled, Calls, config, Halted, Stopped
<1>11. GrantInv'
  BY <1>1, <1>2 DEF BodyInterrupted, GrantInv, WorkInv, Mode, config, Run, NoRun
<1>12. ReleaseInv'
  BY <1>1, <1>2 DEF BodyInterrupted, ReleaseInv, Polled, config
<1>13. HonestInv'
  BY <1>1, <1>2 DEF BodyInterrupted, HonestInv, Calls, config
<1> QED
  BY <1>3, <1>4, <1>5, <1>6, <1>7, <1>8, <1>9, <1>10, <1>11, <1>12, <1>13 DEF RoundInv

\* An interrupted body is done cleaning up, and reports what stopped it.
LEMMA CleanupEndsStep ==
    ASSUME RoundInv, NEW i \in Calls, CleanupEnds(i)
    PROVE  RoundInv'
<1>1. /\ TypeInv /\ LogInv /\ PlaceInv /\ PoolInv /\ WorkInv /\ RanInv /\ SeenInv /\ StopInv
      /\ GrantInv /\ ReleaseInv /\ HonestInv
  BY DEF RoundInv
<1>2. RoundFacts
  BY <1>1, RoundType
<1>3. body[i] = "cleanup" /\ Polled(i) /\ Deliver(i, slot[i]) /\ slot[i] \in Runs
  BY <1>1 DEF CleanupEnds, TypeInv
<1>4. /\ slot[i].code \in {"ABORTED", "TURN_TIMEOUT", "TOOL_TIMEOUT", "ABORTED_BEFORE_DISPATCH"}
      /\ slot[i].code \in NotStarted => i \notin ran
      /\ slot[i].code = "ABORTED" => slot[i].stop = "cancelled"
      /\ slot[i].code = "TURN_TIMEOUT" => slot[i].stop = "timeout"
  BY <1>1, <1>3 DEF WorkInv, Polled
<1> QED
  BY <1>3, <1>4, DeliverStep

\* A change of the goal or of the to-do list is installed, or comes too late.
LEMMA WriteStateStep ==
    ASSUME RoundInv, WriteState
    PROVE  RoundInv'
<1>1. /\ TypeInv /\ LogInv /\ PlaceInv /\ PoolInv /\ WorkInv /\ RanInv /\ SeenInv /\ StopInv
      /\ GrantInv /\ ReleaseInv /\ HonestInv
  BY DEF RoundInv
<1>2. RoundFacts
  BY <1>1, RoundType
<1>3. /\ at = "settling" /\ Mode(index) = "state" /\ slot[index].code = "prepared"
      /\ index \in Calls
      /\ index \notin ran /\ index \in Nat /\ log \in Seq(RowType)
      /\ Row("state", index, "none") \in RowType /\ Row("state", index, "none").kind = "state"
      /\ UNCHANGED <<environment, config, scoped, at, index, pool, body, answer, driver,
                     grant, seen>>
  <2>1. /\ at = "settling" /\ Mode(index) = "state" /\ slot[index].code = "prepared"
        /\ UNCHANGED <<environment, config, scoped, at, index, pool, body, answer, driver,
                       grant, seen>>
    BY DEF WriteState
  <2>2. index \in Calls
    BY <1>1, <2>1 DEF PlaceInv, Alone
  <2>3. index \notin ran
    BY <1>1, <2>1, <2>2 DEF WorkInv
  <2> QED
    BY <1>1, <1>2, <2>1, <2>2, <2>3, RowIs, CodesAre DEF RoundFacts, TypeInv
<1>4. PICK run \in Runs :
        /\ slot' = [slot EXCEPT ![index] = run]
        /\ \/ /\ log' = log /\ ran' = ran
              /\ \/ run.code = "ABORTED" /\ run.stop = "cancelled"
                 \/ run.code = "AGENT_TURN_TIMEOUT" /\ run.stop = "timeout" /\ deadline
           \/ /\ log' = Append(log, Row("state", index, "none"))
              /\ ran' = ran \cup {index} /\ run.code = "ok"
  <2>1. CASE Sample # "none"
    <3>1. PICK code \in {"ABORTED", "AGENT_TURN_TIMEOUT"}, stop \in {"cancelled", "timeout"} :
            /\ slot' = [slot EXCEPT ![index] = Run(code, stop, FALSE)]
            /\ \/ code = "ABORTED" /\ stop = "cancelled"
               \/ code = "AGENT_TURN_TIMEOUT" /\ stop = "timeout" /\ deadline
      BY <2>1 DEF WriteState, Sample
    <3>2. /\ Run(code, stop, FALSE) \in Runs
          /\ Run(code, stop, FALSE).code = code /\ Run(code, stop, FALSE).stop = stop
      BY RunIs, CodesAre
    <3> QED
      BY <2>1, <3>1, <3>2 DEF WriteState
  <2>2. CASE Sample = "none"
    <3>1. Run("ok", "none", TRUE) \in Runs /\ Run("ok", "none", TRUE).code = "ok"
      BY RunIs, CodesAre
    <3> QED
      BY <2>2, <3>1 DEF WriteState
  <2> QED
    BY <2>1, <2>2
<1>5. \/ log' = log /\ ran' = ran
      \/ log' = Append(log, Row("state", index, "none")) /\ ran' = ran \cup {index}
  BY <1>4
<1>6. ResultsOf(log, index) = {} /\ LogOk(log, index, index - 1)
  <2>1. slot[index] # NoRun
    BY <1>3, RunIs
  <2> QED
    BY <1>1, <1>2, <1>3, <2>1, Unanswered DEF Alone, LogInv
<1>7. TypeInv'
  <2>1. slot' \in [Calls -> Runs]
    BY <1>1, <1>4 DEF TypeInv
  <2>2. log' \in Seq(RowType) /\ Len(log) <= Len(log')
    <3>1. /\ Append(log, Row("state", index, "none")) \in Seq(RowType)
          /\ Len(Append(log, Row("state", index, "none"))) = Len(log) + 1
      BY <1>3, LogAppended
    <3> QED
      BY <1>2, <1>3, <1>5, <3>1 DEF RoundFacts
  <2>3. ran' \subseteq Calls
    BY <1>1, <1>3, <1>4 DEF TypeInv
  <2> QED
    BY <1>1, <1>2, <2>1, <2>2, <2>3 DEF TypeInv, WriteState, Calls, config, environment
<1>8. LogInv'
  <2>1. LogOk(log', index, index - 1)
    <3>1. index - 1 < index /\ index <= index /\ "state" \notin {"tool/call", "tool/result"}
      BY <1>3
    <3>2. "state" \in Kinds /\ "none" \in Codes
      BY CodesAre
    <3>3. LogOk(Append(log, Row("state", index, "none")), index, index - 1)
      BY <1>3, <1>6, <3>1, <3>2, LogNoted
    <3> QED
      BY <1>6, <1>5, <3>3
  <2> QED
    BY <1>3, <2>1 DEF LogInv, Alone
<1>9. PlaceInv'
  <2>1. /\ slot'[index].code # "none" /\ slot'[index].code # "prepared"
        /\ \A i \in Calls : i # index => slot'[i] = slot[i]
    BY <1>1, <1>3, <1>4 DEF TypeInv
  <2>2. /\ \A i \in Calls : i # index => body[i] = "off" /\ slot[i] = NoRun
        /\ body[index] = "off"
    BY <1>1, <1>3 DEF PlaceInv, Alone
  <2> QED
    BY <1>3, <2>1, <2>2 DEF PlaceInv, Alone, Pooling, Paused, Calls, config
<1>10. PoolInv'
  BY <1>1, <1>2 DEF WriteState, PoolInv, PlaceInv, Alone
<1>11. WorkInv'
  BY <1>1, <1>2
    DEF WriteState, TypeInv, WorkInv, NotStarted, Calls, Mode, config, environment, Run, NoRun,
        Sample
<1>12. RanInv'
  BY <1>1, <1>2 DEF WriteState, TypeInv, RanInv, Calls, Run, Pooling
<1>13. SeenInv'
  BY <1>1, <1>2 DEF WriteState, TypeInv, SeenInv, PlaceInv, Calls, config, Run, NoRun, Alone
<1>14. StopInv'
  <2>1. \A k \in DOMAIN log : ~StopRow(log[k])
    BY <1>1, <1>3 DEF StopInv, Stopped
  <2>2. ~StopRow(Row("state", index, "none"))
    BY <1>3 DEF StopRow
  <2>3. \A k \in DOMAIN log' : ~StopRow(log'[k])
    <3>1. \A k \in DOMAIN Append(log, Row("state", index, "none")) :
             ~StopRow(Append(log, Row("state", index, "none"))[k])
      <4> SUFFICES ASSUME NEW k \in DOMAIN Append(log, Row("state", index, "none")),
                          StopRow(Append(log, Row("state", index, "none"))[k])
                   PROVE  FALSE
        OBVIOUS
      <4> QED
        BY <1>3, <2>1, <2>2, OldStops
    <3> QED
      BY <1>5, <2>1, <3>1
  <2> QED
    BY <2>3 DEF StopInv
<1>15. GrantInv'
  <2>1. EarnedBy(log, ran, scoped, round.modes, index)
          => EarnedBy(log', ran', scoped, round.modes, index)
    <3>1. CASE log' = log /\ ran' = ran
      BY <3>1
    <3>2. CASE log' = Append(log, Row("state", index, "none")) /\ ran' = ran \cup {index}
      <4> SUFFICES ASSUME EarnedBy(log, ran, scoped, round.modes, index)
                   PROVE  EarnedBy(log', ran', scoped, round.modes, index)
        OBVIOUS
      <4>1. ran \subseteq Nat /\ index <= index
        BY <1>2 DEF RoundFacts
      <4>2. EarnedBy(log', ran, scoped, round.modes, index)
        BY <1>3, <3>2, <4>1, QuietRow
      <4> QED
        BY <1>3, <3>2, <4>1, <4>2, EarnedWider
    <3> QED
      BY <1>5, <3>1, <3>2
  <2>2. ~grant.pending
    BY <1>1, <1>3 DEF GrantInv
  <2> QED
    BY <1>1, <1>3, <2>1, <2>2 DEF GrantInv, Paused, Mode, config
<1>16. ReleaseInv'
  BY <1>1, <1>2 DEF WriteState, ReleaseInv, config
<1>17. HonestInv'
  <2>1. \A i \in Calls : ResultsOf(log', i) = ResultsOf(log, i)
    BY <1>2, <1>3, <1>5, QuietRow DEF RoundFacts
  <2>2. \A i \in Calls : i # index => (i \in ran' <=> i \in ran)
    BY <1>5
  <2> QED
    BY <1>1, <1>3, <1>6, <2>1, <2>2 DEF HonestInv, Honest, Calls, config
<1> QED
  BY <1>7, <1>8, <1>9, <1>10, <1>11, <1>12, <1>13, <1>14, <1>15, <1>16, <1>17 DEF RoundInv

\* A call alone is answered, and a stop it reports or meets is latched.
LEMMA SettleStep ==
    ASSUME RoundInv, Settle
    PROVE  RoundInv'
<1>1. /\ TypeInv /\ LogInv /\ PlaceInv /\ PoolInv /\ WorkInv /\ RanInv /\ SeenInv /\ StopInv
      /\ GrantInv /\ ReleaseInv /\ HonestInv
  BY DEF RoundInv
<1>2. RoundFacts
  BY <1>1, RoundType
<1>3. /\ at = "settling" /\ index \in Calls /\ index \in Nat /\ index - 1 \in Nat
      /\ (index - 1) + 1 = index
      /\ log \in Seq(RowType) /\ LogOk(log, index, index - 1) /\ ran \subseteq Nat
      /\ slot[index] \in Runs /\ slot[index].code \notin {"none", "unknown"}
      /\ slot[index].code = "prepared" => Mode(index) = "exit" /\ index \notin ran
      /\ index' = index + 1 /\ at' = "next"
      /\ UNCHANGED <<environment, config, scoped, pool, body, answer, seen>>
  <2>1. /\ at = "settling" /\ slot[index].code # "unknown" /\ index' = index + 1 /\ at' = "next"
        /\ slot[index].code = "prepared" => Mode(index) = "exit"
        /\ UNCHANGED <<environment, config, scoped, pool, body, answer, seen>>
    BY DEF Settle
  <2>2. index \in Calls /\ slot[index].code # "none" /\ LogOk(log, index, index - 1)
    BY <1>1, <2>1 DEF PlaceInv, LogInv, Alone
  <2>3. slot[index].code = "prepared" => index \notin ran
    BY <1>1, <2>1, <2>2 DEF WorkInv
  <2>4. /\ index \in Nat /\ index - 1 \in Nat /\ (index - 1) + 1 = index
        /\ log \in Seq(RowType) /\ ran \subseteq Nat /\ slot[index] \in Runs
    <3>1. index \in Nat /\ ran \subseteq Nat
      BY <1>2 DEF RoundFacts
    <3>2. slot[index] \in Runs /\ log \in Seq(RowType)
      BY <1>1, <2>2 DEF TypeInv
    <3>3. index >= 1
      BY <1>2 DEF RoundFacts
    <3> QED
      BY <3>1, <3>2, <3>3
  <2> QED
    BY <2>1, <2>2, <2>3, <2>4
<1>4. PICK code \in Codes :
        /\ log' = Append(log, Row("tool/result", index, code))
        /\ slot[index].code = "prepared" => code = "ok"
        /\ slot[index].code # "prepared" => code \in {slot[index].code, "OVER_BUDGET"}
        /\ slot[index].code # "prepared" /\ index \in ran /\ Mode(index) \notin Quick
             => code = slot[index].code
        /\ grant' = IF Mode(index) = "action" /\ code = slot[index].code
                    THEN AfterGrant(Latch(Reported(slot[index]), Sample))
                    ELSE [grant EXCEPT !.pending = FALSE]
  <2>1. PICK code \in SettledAs(index, IF slot[index].code = "prepared"
                                       THEN Run("ok", "none", TRUE) ELSE slot[index]) :
          /\ log' = Append(log, Row("tool/result", index, code))
          /\ grant' = IF Mode(index) = "action" /\ code = slot[index].code
                      THEN AfterGrant(Latch(Reported(slot[index]), Sample))
                      ELSE [grant EXCEPT !.pending = FALSE]
    BY DEF Settle
  <2>2. CASE slot[index].code = "prepared"
    <3>1. code = "ok" /\ "ok" \in Codes
      BY <2>1, <2>2, CodesAre DEF SettledAs, Run
    <3> QED
      BY <2>1, <2>2, <3>1
  <2>3. CASE slot[index].code # "prepared"
    <3>1. code \in {slot[index].code, "OVER_BUDGET"} /\ (index \in ran /\ Mode(index) \notin Quick => code = slot[index].code)
      BY <2>1, <2>3 DEF SettledAs, Quick
    <3>2. code \in Codes
      BY <1>3, <3>1, CodesAre DEF Runs
    <3> QED
      BY <2>1, <2>3, <3>1, <3>2
  <2> QED
    BY <2>2, <2>3
<1>5. /\ Row("tool/result", index, code) \in RowType
      /\ Row("tool/result", index, code).kind = "tool/result"
      /\ Row("tool/result", index, code).call = index
      /\ Row("tool/result", index, code).code = code
  BY <1>3, RowIs, CodesAre
<1>6. /\ ran' = IF slot[index].code = "prepared" THEN ran \cup {index} ELSE ran
      /\ slot' = [slot EXCEPT ![index] = NoRun]
      /\ driver' = AfterStop(Reported(slot[index]), Sample)
  BY DEF Settle
<1>7. /\ ResultsOf(log, index) = {} /\ ResultsOf(log', index) = {code}
      /\ \A i : i # index => ResultsOf(log', i) = ResultsOf(log, i)
  <2>1. ResultsOf(log, index) = {}
    BY <1>2, <1>3, Unanswered, RunIs DEF Alone
  <2>2. /\ ResultsOf(log', index) = ResultsOf(log, index) \cup {code}
        /\ \A i : i # index => ResultsOf(log', i) = ResultsOf(log, i)
    <3> DEFINE row == Row("tool/result", index, code)
    <3>1. row \in RowType /\ row.kind = "tool/result" /\ row.call = index /\ row.code = code
      BY <1>5
    <3>2. log \in Seq(RowType) /\ log' = Append(log, row)
      BY <1>3, <1>4
    <3> HIDE DEF row
    <3> QED
      BY <3>1, <3>2, ResultsGrow
  <2> QED
    BY <2>1, <2>2
<1>8. /\ Reported(slot[index]) \in Stops /\ Sample \in Stops
      /\ slot[index].code = "ABORTED" => Reported(slot[index]) = "cancelled"
      /\ slot[index].code = "TURN_TIMEOUT" => Reported(slot[index]) = "timeout"
      /\ slot[index].code = "AGENT_TURN_TIMEOUT" => Reported(slot[index]) # "none"
  BY <1>1, <1>3, StopIs DEF Reported, WorkInv, Runs
<1>9. /\ driver' \in Drivers /\ driver'.limit = driver.limit /\ driver'.unseen = driver.unseen
      /\ driver.cancelled => driver'.cancelled
      /\ driver.infra # "none" => driver'.infra # "none"
      /\ driver.latched # "none" => driver'.latched # "none"
      /\ Reported(slot[index]) # "none" =>
           driver'.latched # "none" /\ (driver'.cancelled \/ driver'.infra # "none")
  <2> DEFINE stop == Reported(slot[index])
             latched == Latch(Latch(driver.latched, stop), Sample)
  <2>1. /\ driver \in Drivers /\ latched \in Stops
        /\ driver.latched # "none" \/ stop # "none" => latched # "none"
    BY <1>1, <1>8, StopIs DEF TypeInv, Drivers
  <2>2. driver' = [driver EXCEPT !.latched = latched,
                                 !.cancelled = @ \/ stop = "cancelled" \/ latched = "cancelled",
                                 !.infra = IF stop = "timeout" \/ (@ = "none" /\ latched = "timeout")
                                           THEN "timeout" ELSE @]
    BY <1>6 DEF AfterStop
  <2>3. stop \in {"none", "cancelled", "timeout"}
    BY <1>8 DEF Stops
  <2> HIDE DEF stop, latched
  <2>4. driver' \in Drivers
    BY <2>1, <2>2 DEF Drivers
  <2>5. /\ driver'.latched = latched /\ driver'.limit = driver.limit
        /\ driver'.unseen = driver.unseen
        /\ driver.cancelled => driver'.cancelled
        /\ driver.infra # "none" => driver'.infra # "none"
        /\ stop = "cancelled" => driver'.cancelled
        /\ stop = "timeout" => driver'.infra # "none"
    BY <2>1, <2>2 DEF Drivers
  <2> QED
    BY <2>1, <2>3, <2>4, <2>5 DEF stop
<1>10. TypeInv'
  <2>1. at' \in Places
    BY <1>1, <1>2 DEF Settle, Places
  <2>2. slot' \in [Calls -> Runs]
    BY <1>1, <1>2, CodesAre, RunIs, PrestartIs, StopIs DEF Settle, TypeInv
  <2>3. driver' \in Drivers
    BY <1>9
  <2>4. grant' \in Grants
    <3>1. CASE Mode(index) = "action" /\ code = slot[index].code
      BY <1>1, <1>4, <3>1 DEF TypeInv, Grants, AfterGrant
    <3>2. CASE ~(Mode(index) = "action" /\ code = slot[index].code)
      BY <1>1, <1>4, <3>2 DEF TypeInv, Grants
    <3> QED
      BY <3>1, <3>2
  <2>5. log' \in Seq(RowType) /\ Len(log) <= Len(log')
    BY <1>2, <1>3, <1>4, <1>5, LogAppended DEF RoundFacts
  <2>6. ran' \subseteq Calls
    BY <1>1, <1>3, <1>6 DEF TypeInv
  <2>7. index' \in 1 .. Len(round.modes) + 1
    BY <1>2, <1>3 DEF RoundFacts
  <2> QED
    BY <1>1, <1>2, <2>1, <2>2, <2>3, <2>4, <2>5, <2>6, <2>7
      DEF TypeInv, Settle, Calls, config, environment
<1>11. LogInv'
  <2>1. LogOk(Append(log, Row("tool/result", index, code)), index, index)
    <3>1. index - 1 < index /\ "tool/result" \in Kinds
      BY <1>3, CodesAre
    <3> QED
      BY <1>3, <1>4, <3>1, LogAnswered
  <2>2. LogOk(log', index' - 1, index' - 1)
    BY <1>3, <1>4, <2>1
  <2> QED
    BY <1>3, <2>2 DEF LogInv, Alone
<1>12. PlaceInv'
  BY <1>1, <1>2 DEF Settle, TypeInv, PlaceInv, Calls, config, Run, NoRun, Alone
<1>13. PoolInv'
  BY <1>1, <1>2 DEF Settle, PoolInv, Pooling
<1>14. WorkInv'
  BY <1>1, <1>2
    DEF Settle, TypeInv, WorkInv, PlaceInv, NotStarted, Calls, config, Run, NoRun, Alone
<1>15. RanInv'
  BY <1>1, <1>2 DEF RoundFacts, Settle, RanInv, Alone, Pooling
<1>16. SeenInv'
  BY <1>1, <1>2 DEF Settle, TypeInv, SeenInv, PlaceInv, Calls, config, Run, NoRun, Alone
<1>17. StopInv'
  <2> SUFFICES ASSUME NEW k \in DOMAIN log', StopRow(log'[k])
               PROVE  Stopped(k)'
    BY DEF StopInv
  <2>1. /\ Len(log) \in Nat /\ DOMAIN log = 1 .. Len(log) /\ DOMAIN log' = 1 .. Len(log) + 1
        /\ \A h \in DOMAIN log : log'[h] = log[h]
        /\ log'[Len(log) + 1] = Row("tool/result", index, code)
    BY <1>3, <1>4, <1>5, LogAppended
  <2>2. /\ \A i \in Calls : body'[i] = "off"
        /\ at' = "next" /\ at' # "settling" /\ at' \notin Pooling
    BY <1>1, <1>3 DEF PlaceInv, Alone, Pooling
  <2>3. CASE k \in DOMAIN log
    <3>1. StopRow(log[k]) /\ log'[k] = log[k]
      BY <2>1, <2>3
    <3>2. Stopped(k)
      BY <1>1, <2>3, <3>1 DEF StopInv
    <3>3. ran' = ran
      BY <1>3, <1>6, <3>2 DEF Stopped
    <3>4. \A i : Before(log, k, i) => Before(log', k, i)
      BY <1>3, <1>4, <1>5, <2>3, BeforeGrows
    <3>5. /\ Halted' /\ (log'[k].code \in StopCodes => driver'.latched # "none")
          /\ log'[k].code \notin StopCodes => driver'.limit \/ driver'.unseen \/ driver'.infra # "none"
      BY <1>3, <1>9, <3>1, <3>2 DEF Stopped, Halted
    <3> QED
      BY <1>3, <2>2, <3>2, <3>3, <3>4, <3>5 DEF Stopped, Calls, config
  <2>4. CASE k = Len(log) + 1
    <3>1. code \in StopCodes \cup {"SESSION_LIMIT"} /\ log'[k].code = code
      BY <1>3, <1>4, <1>5, <2>1, <2>4 DEF StopRow
    <3>2. slot[index].code = code
      BY <1>4, <3>1 DEF StopCodes
    <3>3. ran' = ran /\ \A i \in ran : i \in 1 .. index
      <4>1. ran' = ran
        BY <1>6, <3>1, <3>2 DEF StopCodes
      <4>2. \A i \in ran : i \in 1 .. Len(round.modes) /\ i <= index
        BY <1>1, <1>2, <1>3 DEF TypeInv, RoundFacts, RanInv, Alone
      <4> QED
        BY <1>2, <1>3, <4>1, <4>2 DEF RoundFacts
    <3>4. \A i \in ran' : Before(log', k, i)
      BY <1>3, <1>4, <1>5, <2>4, <3>3, BeforeLast
    <3>5. code \in StopCodes => Reported(slot[index]) # "none"
      BY <1>8, <3>2 DEF StopCodes
    <3>6. code = "SESSION_LIMIT" => driver.limit
      BY <1>1, <1>3, <3>2 DEF WorkInv
    <3>7. /\ Halted' /\ (log'[k].code \in StopCodes => driver'.latched # "none")
          /\ log'[k].code \notin StopCodes => driver'.limit \/ driver'.unseen \/ driver'.infra # "none"
      BY <1>9, <3>1, <3>5, <3>6 DEF Halted
    <3> QED
      BY <1>3, <2>2, <3>4, <3>7 DEF Stopped, Calls, config
  <2> QED
    BY <2>1, <2>3, <2>4
<1>18. GrantInv'
  <2>1. /\ at' = "next" /\ round' = round /\ scoped' = scoped /\ ran' \subseteq Nat
        /\ ran \subseteq ran'
        /\ \A i \in ran' : i < index => i \in ran
    BY <1>3, <1>6 DEF config
  <2>4. /\ \A i \in ran' : i < index => i \in ran /\ ResultsOf(log', i) = ResultsOf(log, i)
        /\ index + 1 \in Nat /\ index <= index + 1 /\ scoped \subseteq scoped
    <3>1. \A i \in ran' : i < index => i \in ran /\ i # index
      BY <1>3, <2>1
    <3> QED
      BY <1>3, <1>7, <3>1
  <2>2. ~grant'.pending
    BY <1>1, <1>4 DEF TypeInv, Grants, AfterGrant
  <2>3. ASSUME grant'.held
        PROVE  round.policy = "ask" /\ EarnedBy(log', ran', scoped, round.modes, index + 1)
    <3>1. CASE grant.held
      <4>1. round.policy = "ask" /\ EarnedBy(log, ran, scoped, round.modes, index)
        BY <1>1, <1>3, <3>1 DEF GrantInv
      <4>2. ~(index \in ran' /\ round.modes[index] = "action")
        BY <1>1, <1>3, <1>6, <3>1 DEF GrantInv, Mode
      <4> QED
        BY <1>3, <2>1, <2>4, <4>1, <4>2, EarnedNext
    <3>2. CASE ~grant.held
      <4>1. Mode(index) = "action" /\ code = slot[index].code /\ grant.pending
        BY <1>1, <1>4, <2>3, <3>2 DEF TypeInv, Grants, AfterGrant
      <4>2. /\ slot[index].code = "ok" /\ round.policy = "ask"
            /\ index \in scoped \/ EarnedBy(log, ran, scoped, round.modes, index)
        BY <1>1, <1>3, <4>1 DEF GrantInv
      <4>3. ResultsOf(log', index) = {"ok"} /\ index \in ran'
        BY <1>1, <1>3, <1>6, <1>7, <4>1, <4>2 DEF WorkInv
      <4>4. CASE index \in scoped
        BY <1>3, <4>2, <4>3, <4>4, EarnedNow
      <4>5. CASE EarnedBy(log, ran, scoped, round.modes, index)
        BY <1>3, <2>1, <2>4, <4>2, <4>3, <4>5, EarnedNext
      <4> QED
        BY <4>2, <4>4, <4>5
    <3> QED
      BY <3>1, <3>2
  <2> QED
    BY <1>3, <2>1, <2>2, <2>3 DEF GrantInv, Paused
<1>19. ReleaseInv'
  BY <1>1, <1>2 DEF Settle, ReleaseInv, config
<1>20. HonestInv'
  <2> SUFFICES ASSUME NEW i \in Calls
               PROVE  Honest(log', ran', round.modes, i)
    BY <1>3 DEF HonestInv, Calls, config
  <2>1. CASE i # index
    <3>1. ResultsOf(log', i) = ResultsOf(log, i) /\ (i \in ran' <=> i \in ran)
      BY <1>6, <1>7, <2>1
    <3> QED
      BY <1>1, <3>1 DEF HonestInv, Honest
  <2>2. CASE i = index
    <3>1. CASE slot[index].code = "prepared"
      BY <1>4, <1>6, <1>7, <2>2, <3>1 DEF Honest, NotStarted
    <3>2. CASE slot[index].code # "prepared"
      <4>1. /\ ran' = ran
            /\ slot[index].code \in {"ok", "failed"} => index \in ran
            /\ slot[index].code \in NotStarted => index \notin ran
        BY <1>1, <1>3, <1>6, <3>2 DEF WorkInv
      <4>2. slot[index].code # "OVER_BUDGET"
        BY <1>3 DEF Runs, RunCodes
      <4> QED
        BY <1>3, <1>4, <1>7, <2>2, <3>2, <4>1, <4>2 DEF Honest, NotStarted, Mode
    <3> QED
      BY <3>1, <3>2
  <2> QED
    BY <2>1, <2>2
<1> QED
  BY <1>10, <1>11, <1>12, <1>13, <1>14, <1>15, <1>16, <1>17, <1>18, <1>19, <1>20 DEF RoundInv

\* An outcome is lost: the error is noted, and a round that is not durable ends here.
LEMMA SettleUnknownStep ==
    ASSUME RoundInv, SettleUnknown
    PROVE  RoundInv'
<1>1. /\ TypeInv /\ LogInv /\ PlaceInv /\ PoolInv /\ WorkInv /\ RanInv /\ SeenInv /\ StopInv
      /\ GrantInv /\ ReleaseInv /\ HonestInv
  BY DEF RoundInv
<1>2. RoundFacts
  BY <1>1, RoundType
<1>3. /\ at = "settling" /\ index \in Calls /\ index \in Nat /\ index - 1 \in Nat
      /\ (index - 1) + 1 = index
      /\ log \in Seq(RowType) /\ LogOk(log, index, index - 1) /\ ran \subseteq Nat
      /\ slot[index].code = "unknown" /\ slot' = [slot EXCEPT ![index] = NoRun]
      /\ driver' = [driver EXCEPT !.infra = "executor", !.latched = Latch(@, slot[index].stop)]
      /\ UNCHANGED <<environment, round, history, pool, body, answer, grant, seen>>
  <2>1. /\ at = "settling" /\ slot[index].code = "unknown" /\ slot' = [slot EXCEPT ![index] = NoRun]
        /\ driver' = [driver EXCEPT !.infra = "executor", !.latched = Latch(@, slot[index].stop)]
        /\ UNCHANGED <<environment, round, history, pool, body, answer, grant, seen>>
    BY DEF SettleUnknown
  <2>2. index \in Calls /\ LogOk(log, index, index - 1)
    BY <1>1, <2>1 DEF PlaceInv, LogInv, Alone
  <2> QED
    BY <1>1, <1>2, <2>1, <2>2 DEF RoundFacts, TypeInv
<1>4. \/ /\ round.durable /\ index' = index + 1 /\ at' = "next" /\ released' = released
         /\ \E code \in {"unknown", "OVER_BUDGET"} : log' = Append(log, Row("tool/result", index, code))
      \/ /\ ~round.durable /\ released' = ClaimsFrom(index) /\ at' = "done"
         /\ log' = log /\ index' = index
  BY <1>3 DEF SettleUnknown, SettledAs
<1>5. /\ ResultsOf(log, index) = {}
      /\ \A i \in Calls : i # index => ResultsOf(log', i) = ResultsOf(log, i)
      /\ ResultsOf(log', index) \subseteq {"unknown", "OVER_BUDGET"}
      /\ index \in ran /\ Mode(index) \notin Quick => "OVER_BUDGET" \notin ResultsOf(log', index)
  <2>1. ResultsOf(log, index) = {}
    BY <1>2, <1>3, Unanswered, RunIs DEF Alone
  <2>2. CASE log' = log
    BY <2>1, <2>2
  <2>3. CASE \E code \in SettledAs(index, slot[index]) :
               log' = Append(log, Row("tool/result", index, code))
    <3>1. PICK code \in SettledAs(index, slot[index]) :
                 log' = Append(log, Row("tool/result", index, code))
      BY <2>3
    <3>2. /\ code \in {"unknown", "OVER_BUDGET"} /\ code \in Codes
          /\ index \in ran /\ Mode(index) \notin Quick => code = "unknown"
      BY <1>3, <3>1, CodesAre DEF SettledAs, Quick
    <3>3. /\ Row("tool/result", index, code) \in RowType
          /\ Row("tool/result", index, code).code = code
          /\ Row("tool/result", index, code).kind = "tool/result"
          /\ Row("tool/result", index, code).call = index
      BY <1>3, <3>2, RowIs, CodesAre
    <3>4. /\ ResultsOf(log', index) = ResultsOf(log, index) \cup {code}
          /\ \A i : i # index => ResultsOf(log', i) = ResultsOf(log, i)
      <4> DEFINE row == Row("tool/result", index, code)
      <4>1. row \in RowType /\ row.kind = "tool/result" /\ row.call = index /\ row.code = code
        BY <3>3
      <4>2. log \in Seq(RowType) /\ log' = Append(log, row)
        BY <1>3, <3>1
      <4> HIDE DEF row
      <4> QED
        BY <4>1, <4>2, ResultsGrow
    <3> QED
      BY <2>1, <3>2, <3>4
  <2> QED
    BY <2>2, <2>3 DEF SettleUnknown
<1>6. /\ \A i \in Calls : body[i] = "off" /\ slot'[i] = NoRun
      /\ at' \notin Alone \cup Pooling /\ at' # "fatal"
  BY <1>1, <1>3, <1>4 DEF PlaceInv, Alone, Pooling, TypeInv
<1>7. /\ driver' \in Drivers /\ driver'.infra = "executor" /\ driver'.limit = driver.limit
      /\ driver'.unseen = driver.unseen /\ driver'.cancelled = driver.cancelled
      /\ driver.latched # "none" => driver'.latched # "none"
  <2>1. /\ driver \in Drivers /\ Latch(driver.latched, slot[index].stop) \in Stops
        /\ driver.latched # "none" => Latch(driver.latched, slot[index].stop) # "none"
    <3>1. driver.latched \in Stops /\ slot[index].stop \in Stops /\ driver \in Drivers
      BY <1>1, <1>3 DEF TypeInv, Drivers, Runs
    <3> QED
      BY <3>1, StopIs
  <2> QED
    BY <1>3, <2>1 DEF Drivers
<1>8. TypeInv'
  <2>1. at' \in Places
    BY <1>1, <1>2 DEF SettleUnknown, Places
  <2>2. slot' \in [Calls -> Runs]
    BY <1>1, <1>2, CodesAre, RunIs, PrestartIs, StopIs DEF SettleUnknown, TypeInv
  <2>3. driver' \in Drivers
    BY <1>7
  <2>4. log' \in Seq(RowType) /\ Len(log) <= Len(log')
    <3>1. ASSUME NEW code \in {"unknown", "OVER_BUDGET"}
          PROVE  /\ Append(log, Row("tool/result", index, code)) \in Seq(RowType)
                 /\ Len(Append(log, Row("tool/result", index, code))) = Len(log) + 1
      <4>1. Row("tool/result", index, code) \in RowType
        BY <1>3, RowIs, CodesAre
      <4> QED
        BY <1>3, <4>1, LogAppended
    <3>2. log' = log \/ \E code \in {"unknown", "OVER_BUDGET"} :
            log' = Append(log, Row("tool/result", index, code))
      BY <1>4
    <3>3. CASE log' = log
      BY <1>2, <1>3, <3>3 DEF RoundFacts
    <3>4. CASE \E code \in {"unknown", "OVER_BUDGET"} :
                 log' = Append(log, Row("tool/result", index, code))
      <4>1. PICK code \in {"unknown", "OVER_BUDGET"} :
                   log' = Append(log, Row("tool/result", index, code))
        BY <3>4
      <4>2. log' \in Seq(RowType) /\ Len(log') = Len(log) + 1
        BY <3>1, <4>1
      <4> QED
        BY <1>2, <4>2 DEF RoundFacts
    <3> QED
      BY <3>2, <3>3, <3>4
  <2>5. index' \in 1 .. Len(round.modes) + 1
    BY <1>2, <1>3, <1>4 DEF RoundFacts
  <2> QED
    BY <1>1, <1>2, <2>1, <2>2, <2>3, <2>4, <2>5
      DEF TypeInv, SettleUnknown, Calls, environment, history
<1>9. LogInv'
  <2>1. CASE at' = "next"
    <3>1. PICK code \in {"unknown", "OVER_BUDGET"} : log' = Append(log, Row("tool/result", index, code))
      BY <1>4, <2>1
    <3>2. index - 1 < index /\ code \in Codes
      BY <1>3, CodesAre
    <3>3. LogOk(Append(log, Row("tool/result", index, code)), index, index)
      BY <1>3, <3>2, LogAnswered
    <3>4. LogOk(log', index' - 1, index' - 1)
      BY <1>3, <1>4, <2>1, <3>1, <3>3
    <3> QED
      BY <2>1, <3>4 DEF LogInv, Alone, Pooling
  <2>2. CASE at' = "done"
    <3>1. log' = log /\ index \in 0 .. Len(round.modes) /\ index - 1 \in 0 .. Len(round.modes)
      BY <1>2, <1>3, <1>4, <2>2 DEF RoundFacts
    <3> QED
      BY <1>3, <2>2, <3>1 DEF LogInv, Alone, Pooling
  <2> QED
    BY <1>4, <2>1, <2>2
<1>10. PlaceInv'
  BY <1>1, <1>2 DEF SettleUnknown, TypeInv, PlaceInv, Calls, Run, NoRun, Alone
<1>11. PoolInv'
  BY <1>1, <1>2 DEF SettleUnknown, PoolInv, Pooling
<1>12. WorkInv'
  BY <1>3, <1>6, RunIs DEF WorkInv, Calls, history, NotStarted
<1>13. RanInv'
  BY <1>1, <1>2 DEF RoundFacts, SettleUnknown, RanInv, history, Alone, Pooling
<1>14. SeenInv'
  BY <1>1, <1>2 DEF SettleUnknown, SeenInv, PlaceInv, Calls, Run, NoRun, Alone
<1>15. StopInv'
  <2> SUFFICES ASSUME NEW k \in DOMAIN log', StopRow(log'[k])
               PROVE  Stopped(k)'
    BY DEF StopInv
  <2>1. /\ Calls' = Calls /\ ran' = ran /\ \A i \in Calls : body'[i] = "off"
        /\ at' \in {"next", "done"} /\ at' # "settling" /\ at' \notin Pooling
    BY <1>3, <1>4, <1>6 DEF Calls, history
  <2>2. CASE k \in DOMAIN log /\ log'[k] = log[k] /\ \A i : Before(log, k, i) => Before(log', k, i)
    <3>1. Stopped(k)
      BY <1>1, <2>2 DEF StopInv
    <3> QED
      BY <1>3, <1>7, <2>1, <2>2, <3>1 DEF Stopped, Halted
  <2>3. CASE log' = log
    BY <2>2, <2>3
  <2>4. CASE \E code \in {"unknown", "OVER_BUDGET"} :
               log' = Append(log, Row("tool/result", index, code))
    <3>1. PICK code \in {"unknown", "OVER_BUDGET"} : log' = Append(log, Row("tool/result", index, code))
      BY <2>4
    <3>2. Row("tool/result", index, code) \in RowType /\ Row("tool/result", index, code).code = code
      BY <1>3, RowIs, CodesAre
    <3>3. /\ Len(log) \in Nat /\ DOMAIN log = 1 .. Len(log) /\ DOMAIN log' = 1 .. Len(log) + 1
          /\ \A h \in DOMAIN log : log'[h] = log[h]
          /\ log'[Len(log) + 1] = Row("tool/result", index, code)
      BY <1>3, <3>1, <3>2, LogAppended
    <3>4. CASE k \in DOMAIN log
      <4>1. \A i : Before(log, k, i) => Before(log', k, i)
        BY <1>3, <3>1, <3>2, <3>4, BeforeGrows
      <4> QED
        BY <2>2, <3>3, <3>4, <4>1
    <3>5. CASE k = Len(log) + 1
      <4>1. \A i \in ran : i \in 1 .. index
        <5>1. \A i \in ran : i \in 1 .. Len(round.modes) /\ i <= index
          BY <1>1, <1>2, <1>3 DEF TypeInv, RoundFacts, RanInv, Alone
        <5> QED
          BY <1>2, <1>3, <5>1 DEF RoundFacts
      <4>2. \A i \in ran : Before(log', k, i)
        BY <1>3, <3>1, <3>2, <3>5, <4>1, BeforeLast
      <4>3. log'[k].code \notin StopCodes
        BY <3>2, <3>3, <3>5 DEF StopCodes
      <4> QED
        BY <1>7, <2>1, <4>2, <4>3 DEF Stopped, Halted
    <3> QED
      BY <3>3, <3>4, <3>5
  <2> QED
    BY <1>4, <2>3, <2>4
<1>16. GrantInv'
  <2>1. CASE at' = "done"
    BY <2>1 DEF GrantInv
  <2>2. CASE at' = "next"
    <3>1. ~grant.pending /\ grant' = grant /\ index' = index + 1 /\ round' = round /\ scoped' = scoped /\ ran' = ran
      BY <1>1, <1>3, <1>4, <2>2 DEF GrantInv, history
    <3>2. ASSUME grant.held
          PROVE  round.policy = "ask" /\ EarnedBy(log', ran, scoped, round.modes, index + 1)
      <4>1. round.policy = "ask" /\ EarnedBy(log, ran, scoped, round.modes, index)
        BY <1>1, <1>3, <3>2 DEF GrantInv
      <4>2. ~(index \in ran /\ round.modes[index] = "action")
        BY <1>1, <1>3, <3>2 DEF GrantInv, Mode
      <4>3. \A i \in ran : i < index => i \in ran /\ ResultsOf(log', i) = ResultsOf(log, i)
        <5>1. \A i \in ran : i < index => i \in Calls /\ i # index
          BY <1>1, <1>3 DEF TypeInv
        <5> QED
          BY <1>5, <5>1
      <4> QED
        BY <1>3, <4>1, <4>2, <4>3, EarnedNext
    <3> QED
      BY <2>2, <3>1, <3>2 DEF GrantInv, Paused
  <2> QED
    BY <1>4, <2>1, <2>2
<1>17. ReleaseInv'
  <2>1. CASE at' = "next"
    BY <1>1, <1>3, <1>4, <2>1 DEF ReleaseInv
  <2>2. CASE at' = "done"
    <3>1. /\ log' = log /\ index \in 0 .. Len(round.modes) /\ index - 1 \in 0 .. Len(round.modes)
          /\ released' = ClaimsFrom(index) /\ ~round.durable
      BY <1>2, <1>3, <1>4, <2>2 DEF RoundFacts
    <3>2. \A i \in Calls : /\ <<"tool/call", i>> \in ClaimsFrom(index) <=> i > index
                           /\ <<"tool/result", i>> \in ClaimsFrom(index) <=> i > index - 1
      <4> SUFFICES ASSUME NEW i \in Calls
                   PROVE  /\ <<"tool/call", i>> \in ClaimsFrom(index) <=> i > index
                          /\ <<"tool/result", i>> \in ClaimsFrom(index) <=> i > index - 1
        OBVIOUS
      <4>1. /\ i \in Nat \ {0} /\ i <= Len(round.modes) /\ Len(round.modes) \in Nat
            /\ Rows("tool/call", i) # {} <=> i <= index
        BY <1>2, <1>3, LogHas DEF RoundFacts
      <4>2. <<"tool/call", i>> \in ClaimsFrom(index) <=>
              i \in index .. Len(round.modes) /\ Rows("tool/call", i) = {}
        BY DEF ClaimsFrom
      <4>3. <<"tool/result", i>> \in ClaimsFrom(index) <=> i \in index .. Len(round.modes)
        BY DEF ClaimsFrom
      <4> QED
        BY <1>3, <4>1, <4>2, <4>3
    <3>3. \E a, r \in 0 .. Len(round.modes) :
            /\ LogOk(log, a, r)
            /\ \A i \in Calls : /\ <<"tool/call", i>> \in released' <=> i > a
                                /\ <<"tool/result", i>> \in released' <=> i > r
      BY <1>3, <3>1, <3>2
    <3> QED
      BY <1>3, <1>7, <2>2, <3>1, <3>3 DEF ReleaseInv, Calls
  <2> QED
    BY <1>4, <2>1, <2>2
<1>18. HonestInv'
  <2> SUFFICES ASSUME NEW i \in Calls
               PROVE  Honest(log', ran, round.modes, i)
    BY <1>3 DEF HonestInv, Calls, history
  <2>1. CASE i # index
    BY <1>1, <1>5, <2>1 DEF HonestInv, Honest
  <2>2. CASE i = index
    BY <1>5, <2>2 DEF Honest, NotStarted, Mode
  <2> QED
    BY <2>1, <2>2
<1> QED
  BY <1>8, <1>9, <1>10, <1>11, <1>12, <1>13, <1>14, <1>15, <1>16, <1>17, <1>18 DEF RoundInv

\* A stop that comes while the user is asked.
LEMMA StopNoticedStep ==
    ASSUME RoundInv, StopNoticed
    PROVE  RoundInv'
<1>1. /\ TypeInv /\ LogInv /\ PlaceInv /\ PoolInv /\ WorkInv /\ RanInv /\ SeenInv /\ StopInv
      /\ GrantInv /\ ReleaseInv /\ HonestInv
  BY DEF RoundInv
<1>2. RoundFacts
  BY <1>1, RoundType
<1>3. TypeInv'
  <2>1. answer' \in [outcome : Outcomes, stop : Stops]
    BY <1>1, <1>2, StopIs, CodesAre DEF StopNoticed, TypeInv
  <2> QED
    BY <1>1, <1>2, <2>1 DEF TypeInv, StopNoticed, Calls, config, environment
<1>4. LogInv'
  BY <1>1, <1>2 DEF StopNoticed, LogInv
<1>5. PlaceInv'
  BY <1>1, <1>2 DEF StopNoticed, PlaceInv, Calls, Mode, config
<1>6. PoolInv'
  BY <1>1, <1>2 DEF StopNoticed, PoolInv, Calls, Mode, config
<1>7. WorkInv'
  BY <1>1, <1>2 DEF StopNoticed, WorkInv, Calls, Mode, config, environment
<1>8. RanInv'
  BY <1>1, <1>2 DEF StopNoticed, RanInv
<1>9. SeenInv'
  BY <1>1, <1>2 DEF StopNoticed, SeenInv, Calls, config
<1>10. StopInv'
  BY <1>1, <1>2 DEF StopNoticed, StopInv, Pooling, Stopped
<1>11. GrantInv'
  BY <1>1, <1>2 DEF StopNoticed, GrantInv, Mode, config
<1>12. ReleaseInv'
  BY <1>1, <1>2 DEF StopNoticed, ReleaseInv, config
<1>13. HonestInv'
  BY <1>1, <1>2 DEF StopNoticed, HonestInv, Calls, config
<1> QED
  BY <1>3, <1>4, <1>5, <1>6, <1>7, <1>8, <1>9, <1>10, <1>11, <1>12, <1>13 DEF RoundInv

\* The shell of a command is set up, or the command is declined.
LEMMA SetUpStep ==
    ASSUME RoundInv, SetUp
    PROVE  RoundInv'
<1>1. /\ TypeInv /\ LogInv /\ PlaceInv /\ PoolInv /\ WorkInv /\ RanInv /\ SeenInv /\ StopInv
      /\ GrantInv /\ ReleaseInv /\ HonestInv
  BY DEF RoundInv
<1>2. RoundFacts
  BY <1>1, RoundType
<1>3. TypeInv'
  <2>1. at' \in Places
    BY <1>1, <1>2 DEF SetUp, Places, Alone, ToSettle, Decline
  <2>2. slot' \in [Calls -> Runs]
    <3>1. PICK code \in {"NOT_STARTED", "unknown", "ABORTED_BEFORE_DISPATCH"}, stop \in Stops :
            slot' = slot \/ slot' = [slot EXCEPT ![index] = Run(code, stop, FALSE)]
      <4>1. Latch(answer.stop, Sample) \in Stops
        BY <1>1, StopIs DEF TypeInv
      <4> QED
        BY <4>1 DEF SetUp, ToSettle, Decline
    <3>2. Run(code, stop, FALSE) \in Runs
      BY RunIs, CodesAre
    <3> QED
      BY <1>1, <3>1, <3>2 DEF TypeInv
  <2> QED
    BY <1>1, <1>2, <2>1, <2>2 DEF TypeInv, SetUp, Calls, config, environment
<1>4. LogInv'
  BY <1>1, <1>2 DEF SetUp, LogInv, ToSettle, Decline, Alone
<1>5. PlaceInv'
  BY <1>1, <1>2
    DEF SetUp, TypeInv, PlaceInv, ToSettle, Decline, Calls, Mode, config, Run, Alone, Pooling,
        Paused
<1>6. PoolInv'
  BY <1>1, <1>2 DEF SetUp, PoolInv, ToSettle, Decline, Pooling
<1>7. WorkInv'
  BY <1>1, <1>2
    DEF SetUp, TypeInv, WorkInv, PlaceInv, ToSettle, Decline, NotStarted, Calls, Mode, config,
        environment, Run, Alone, Pooling
<1>8. RanInv'
  BY <1>1, <1>2 DEF SetUp, RanInv, ToSettle, Decline, Alone, Pooling
<1>9. SeenInv'
  BY <1>1, <1>2 DEF SetUp, TypeInv, SeenInv, ToSettle, Decline, Calls, config, environment, Run
<1>10. StopInv'
  BY <1>1, <1>2 DEF SetUp, StopInv, PlaceInv, Alone, Stopped
<1>11. GrantInv'
  BY <1>1, <1>2 DEF SetUp, GrantInv, PlaceInv, WorkInv, ToSettle, Decline, config, Alone, Paused
<1>12. ReleaseInv'
  BY <1>1, <1>2 DEF SetUp, ReleaseInv, ToSettle, Decline, config
<1>13. HonestInv'
  BY <1>1, <1>2 DEF SetUp, HonestInv, Calls, config
<1> QED
  BY <1>3, <1>4, <1>5, <1>6, <1>7, <1>8, <1>9, <1>10, <1>11, <1>12, <1>13 DEF RoundInv

\* The policy refuses, or a stop does.
LEMMA RefuseStep ==
    ASSUME RoundInv, Refuse
    PROVE  RoundInv'
<1>1. /\ TypeInv /\ LogInv /\ PlaceInv /\ PoolInv /\ WorkInv /\ RanInv /\ SeenInv /\ StopInv
      /\ GrantInv /\ ReleaseInv /\ HonestInv
  BY DEF RoundInv
<1>2. RoundFacts
  BY <1>1, RoundType
<1>3. /\ at = "resolving" /\ at' = "settling" /\ index \in Calls /\ index \notin ran
      /\ slot[index].code = "prepared" /\ body[index] = "off"
  BY <1>1 DEF Refuse, ToSettle, Decline, PlaceInv, WorkInv, Alone
<1>4. PICK run \in Runs :
        /\ slot' = [slot EXCEPT ![index] = run]
        /\ \/ driver' = driver /\ run.code \in {"DECLINED", "unknown"}
           \/ driver' = [driver EXCEPT !.limit = TRUE] /\ run.code = "SESSION_LIMIT"
  <2>1. CASE Decline("DECLINED", "none") /\ UNCHANGED driver
    <3>1. PICK code \in {"DECLINED", "unknown"} :
            slot' = [slot EXCEPT ![index] = Run(code, "none", FALSE)]
      BY <2>1 DEF Decline, ToSettle
    <3>2. Run(code, "none", FALSE) \in Runs /\ Run(code, "none", FALSE).code = code
      BY RunIs, CodesAre
    <3> QED
      BY <2>1, <3>1, <3>2
  <2>2. CASE driver' = [driver EXCEPT !.limit = TRUE] /\ ToSettle(Prestart(index, "SESSION_LIMIT", "none"))
    <3>1. Prestart(index, "SESSION_LIMIT", "none") = Run("SESSION_LIMIT", "none", FALSE)
      BY DEF Prestart
    <3>2. Run("SESSION_LIMIT", "none", FALSE) \in Runs /\ Run("SESSION_LIMIT", "none", FALSE).code = "SESSION_LIMIT"
      BY RunIs, CodesAre
    <3> QED
      BY <2>2, <3>1, <3>2 DEF ToSettle
  <2> QED
    BY <2>1, <2>2 DEF Refuse
<1>5. TypeInv'
  <2>1. at' \in Places
    BY <1>1, <1>2 DEF Refuse, Places, Alone, ToSettle, Decline
  <2>2. slot' \in [Calls -> Runs]
    BY <1>1, <1>4 DEF TypeInv
  <2>3. driver' \in Drivers
    <3>1. driver' = driver \/ driver' = [driver EXCEPT !.limit = TRUE]
      BY <1>4
    <3> QED
      BY <1>1, <3>1 DEF TypeInv, Drivers
  <2> QED
    BY <1>1, <1>2, <2>1, <2>2, <2>3 DEF TypeInv, Refuse, Calls, config, environment, history
<1>6. LogInv'
  BY <1>1, <1>2 DEF Refuse, LogInv, ToSettle, Decline, Alone
<1>7. PlaceInv'
  BY <1>1, <1>2
    DEF Refuse, TypeInv, PlaceInv, ToSettle, Decline, Prestart, Calls, config, Run, NoRun, Alone,
        Paused
<1>8. PoolInv'
  BY <1>1, <1>2 DEF Refuse, PoolInv, ToSettle, Decline, Pooling
<1>9. WorkInv'
  <2>1. /\ \A i \in Calls : i # index => slot'[i] = slot[i]
        /\ slot'[index] = run /\ run.code \in {"DECLINED", "unknown", "SESSION_LIMIT"}
        /\ run.code = "SESSION_LIMIT" => driver'.limit
        /\ driver.limit => driver'.limit
    BY <1>1, <1>3, <1>4 DEF TypeInv, Drivers
  <2>2. at # "working" /\ at' # "working" /\ at # "fatal" /\ at' # "fatal"
    BY <1>3
  <2> QED
    BY <1>1, <1>3, <2>1, <2>2 DEF Refuse, WorkInv, Calls, Mode, config, history, environment
<1>10. RanInv'
  BY <1>1, <1>2 DEF Refuse, RanInv, ToSettle, Decline, history, Alone, Pooling
<1>11. SeenInv'
  BY <1>1, <1>2
    DEF Refuse, TypeInv, SeenInv, ToSettle, Decline, Prestart, Calls, Mode, config, Run
<1>12. StopInv'
  BY <1>1, <1>2 DEF Refuse, StopInv, PlaceInv, Alone, Stopped
<1>13. GrantInv'
  BY <1>1, <1>2
    DEF Refuse, GrantInv, PlaceInv, WorkInv, ToSettle, Decline, config, history, Alone, Paused
<1>14. ReleaseInv'
  BY <1>1, <1>2 DEF Refuse, ReleaseInv, ToSettle, Decline, config
<1>15. HonestInv'
  BY <1>1, <1>2 DEF Refuse, HonestInv, Calls, config, history
<1> QED
  BY <1>5, <1>6, <1>7, <1>8, <1>9, <1>10, <1>11, <1>12, <1>13, <1>14, <1>15 DEF RoundInv

\* A command for which a grant is held goes on without asking, and uses the grant up.
LEMMA ProceedStep ==
    ASSUME RoundInv, Proceed
    PROVE  RoundInv'
<1>1. /\ TypeInv /\ LogInv /\ PlaceInv /\ PoolInv /\ WorkInv /\ RanInv /\ SeenInv /\ StopInv
      /\ GrantInv /\ ReleaseInv /\ HonestInv
  BY DEF RoundInv
<1>2. RoundFacts
  BY <1>1, RoundType
<1>3. TypeInv'
  <2>1. at' \in Places
    BY <1>1, <1>2 DEF Proceed, Places, Alone
  <2>2. grant' \in Grants
    BY <1>1, <1>2 DEF Proceed, Grants
  <2> QED
    BY <1>1, <1>2, <2>1, <2>2 DEF TypeInv, Proceed, Calls, config, environment, history
<1>4. LogInv'
  BY <1>1, <1>2 DEF Proceed, LogInv, Alone
<1>5. PlaceInv'
  BY <1>1, <1>2 DEF Proceed, PlaceInv, Calls, Mode, config, Alone, Pooling
<1>6. PoolInv'
  BY <1>1, <1>2 DEF Proceed, PoolInv, Pooling
<1>7. WorkInv'
  BY <1>1, <1>2 DEF Proceed, WorkInv, Calls, Mode, config, environment, history
<1>8. RanInv'
  BY <1>1, <1>2 DEF Proceed, RanInv, history, Alone, Pooling
<1>9. SeenInv'
  BY <1>1, <1>2 DEF Proceed, SeenInv, Calls, config
<1>10. StopInv'
  BY <1>1, <1>2 DEF Proceed, StopInv, Pooling, Stopped
<1>11. GrantInv'
  <2>1. /\ at = "resolving" /\ index \in Calls /\ Mode(index) \in {"mutation", "action"}
        /\ round.policy \in {"allow", "ask"} /\ grant \in Grants
        /\ UNCHANGED <<round, index, answer, log, seen, ran, scoped>>
    BY <1>1, <1>2 DEF Proceed, PlaceInv, Alone, RoundFacts, Policies, TypeInv, config, history
  <2>2. CASE round.policy = "ask" /\ Mode(index) = "action" /\ grant.held
    <3>1. at' = "acting" /\ ~grant'.held /\ grant'.candidate /\ ~grant'.pending
      BY <2>2 DEF Proceed
    <3>2. EarnedBy(log, ran, scoped, round.modes, index)
      BY <1>1, <2>1, <2>2 DEF GrantInv
    <3> QED
      BY <2>1, <2>2, <3>1, <3>2 DEF GrantInv, Paused, Mode
  <2>3. CASE ~(round.policy = "ask" /\ Mode(index) = "action" /\ grant.held)
    <3>1. /\ at' = IF round.policy = "ask" THEN "asking" ELSE "acting"
          /\ grant'.held <=> grant.held
          /\ ~grant'.candidate /\ ~grant'.pending
      BY <2>1, <2>3 DEF Proceed, Grants
    <3>2. grant.held => round.policy = "ask" /\ EarnedBy(log, ran, scoped, round.modes, index)
      BY <1>1, <2>1 DEF GrantInv
    <3>3. Mode(index) = "action" => ~grant.held
      BY <2>3, <3>2
    <3> QED
      BY <2>1, <3>1, <3>2, <3>3 DEF GrantInv, Paused, Mode
  <2> QED
    BY <2>2, <2>3
<1>12. ReleaseInv'
  BY <1>1, <1>2 DEF Proceed, ReleaseInv, config
<1>13. HonestInv'
  BY <1>1, <1>2 DEF Proceed, HonestInv, Calls, config, history
<1> QED
  BY <1>3, <1>4, <1>5, <1>6, <1>7, <1>8, <1>9, <1>10, <1>11, <1>12, <1>13 DEF RoundInv

\* The question is stored, and seen or not.
LEMMA AskStep ==
    ASSUME RoundInv, Ask
    PROVE  RoundInv'
<1>1. /\ TypeInv /\ LogInv /\ PlaceInv /\ PoolInv /\ WorkInv /\ RanInv /\ SeenInv /\ StopInv
      /\ GrantInv /\ ReleaseInv /\ HonestInv
  BY DEF RoundInv
<1>2. RoundFacts
  BY <1>1, RoundType
<1>3. /\ at = "asking" /\ at' \in {"answering", "deciding"} /\ index \in Calls /\ index \in Nat
      /\ log' = Append(log, Row("approval/asked", index, "none")) /\ log \in Seq(RowType)
      /\ LogOk(log, index, index - 1) /\ answer' = NoAnswer
      /\ UNCHANGED <<environment, config, history, index, pool, body, slot, grant>>
  <2>1. /\ at = "asking" /\ at' \in {"answering", "deciding"} /\ answer' = NoAnswer
        /\ log' = Append(log, Row("approval/asked", index, "none"))
        /\ UNCHANGED <<environment, config, history, index, pool, body, slot, grant>>
    BY DEF Ask
  <2> QED
    BY <1>1, <1>2, <2>1 DEF PlaceInv, LogInv, Alone, TypeInv
<1>4. /\ Row("approval/asked", index, "none") \in RowType
      /\ Row("approval/asked", index, "none").kind = "approval/asked"
  BY <1>3, RowIs, CodesAre
<1>5. /\ log' \in Seq(RowType) /\ Len(log') = Len(log) + 1
      /\ seen' \in 0 .. Len(log') /\ seen <= seen'
  <2>1. log' \in Seq(RowType) /\ Len(log') = Len(log) + 1
    BY <1>3, <1>4, LogAppended
  <2> QED
    BY <1>1, <1>2, <2>1 DEF Ask, Covered, TypeInv, RoundFacts
<1>6. TypeInv'
  <2>1. at' \in Places
    BY <1>1, <1>2 DEF Ask, Places, Alone
  <2>2. driver' \in Drivers
    <3>1. driver' = [driver EXCEPT !.unseen = @ \/ ~observerUp] /\ driver \in Drivers /\ observerUp \in BOOLEAN
      BY <1>1 DEF Ask, TypeInv
    <3> QED
      BY <3>1 DEF Drivers
  <2>3. answer' \in [outcome : Outcomes, stop : Stops]
    BY <1>1, <1>2, StopIs, CodesAre DEF Ask, Outcomes, NoAnswer
  <2>4. log' \in Seq(RowType) /\ Len(log) <= Len(log')
    BY <1>2, <1>5 DEF RoundFacts
  <2>5. seen' \in 0 .. Len(log')
    BY <1>5
  <2> QED
    BY <1>1, <1>2, <2>1, <2>2, <2>3, <2>4, <2>5
      DEF TypeInv, Ask, Calls, config, environment, history
<1>7. LogInv'
  <2>1. index - 1 < index /\ index <= index /\ "approval/asked" \notin {"tool/call", "tool/result"}
    BY <1>3
  <2>2. "approval/asked" \in Kinds /\ "none" \in Codes
    BY CodesAre
  <2>3. LogOk(log', index, index - 1)
    BY <1>3, <2>1, <2>2, LogNoted
  <2> QED
    BY <1>3, <2>3 DEF LogInv, Alone
<1>8. PlaceInv'
  BY <1>1, <1>2 DEF Ask, PlaceInv, Calls, Mode, config, Alone, Pooling, Paused
<1>9. PoolInv'
  BY <1>1, <1>2 DEF Ask, PoolInv, Pooling
<1>10. WorkInv'
  BY <1>1, <1>2 DEF Ask, WorkInv, Calls, Mode, config, environment, history
<1>11. RanInv'
  BY <1>1, <1>2 DEF Ask, RanInv, history, Alone, Pooling
<1>12. SeenInv'
  <2> SUFFICES ASSUME NEW i \in Calls, body[i] # "off" \/ slot[i].code = "prepared"
               PROVE  SeenCall(log', seen', i)
    BY <1>3 DEF SeenInv, Calls, config
  <2>1. SeenCall(log, seen, i)
    BY <1>1, <1>3 DEF SeenInv
  <2>2. seen \in 0 .. Len(log) /\ seen' \in Nat
    BY <1>1, <1>5 DEF TypeInv
  <2> QED
    BY <1>3, <1>4, <1>5, <2>1, <2>2, SeenGrows
<1>13. StopInv'
  <2>1. \A k \in DOMAIN log : ~StopRow(log[k])
    BY <1>1, <1>3 DEF StopInv, Stopped, Pooling
  <2>2. ~StopRow(Row("approval/asked", index, "none"))
    BY <1>4 DEF StopRow
  <2> SUFFICES ASSUME NEW k \in DOMAIN log', StopRow(log'[k])
               PROVE  FALSE
    BY DEF StopInv
  <2> QED
    BY <1>3, <1>4, <2>1, <2>2, OldStops
<1>14. GrantInv'
  <2>1. EarnedBy(log, ran, scoped, round.modes, index)
          => EarnedBy(log', ran, scoped, round.modes, index)
    BY <1>2, <1>3, <1>4, QuietRow DEF RoundFacts
  <2> QED
    BY <1>1, <1>3, <2>1 DEF GrantInv, Paused, Mode, config, history, NoAnswer
<1>15. ReleaseInv'
  BY <1>1, <1>2 DEF Ask, ReleaseInv, config
<1>16. HonestInv'
  BY <1>1, <1>2, <1>3, <1>4, QuietRow DEF HonestInv, RoundFacts, Calls, config, history
<1> QED
  BY <1>6, <1>7, <1>8, <1>9, <1>10, <1>11, <1>12, <1>13, <1>14, <1>15, <1>16 DEF RoundInv

\* The user answers, perhaps for good.
LEMMA AnswerStep ==
    ASSUME RoundInv, Answer
    PROVE  RoundInv'
<1>1. /\ TypeInv /\ LogInv /\ PlaceInv /\ PoolInv /\ WorkInv /\ RanInv /\ SeenInv /\ StopInv
      /\ GrantInv /\ ReleaseInv /\ HonestInv
  BY DEF RoundInv
<1>2. RoundFacts
  BY <1>1, RoundType
<1>3. TypeInv'
  <2>1. at' \in Places
    BY <1>1, <1>2 DEF Answer, Places, Alone
  <2>2. answer' \in [outcome : Outcomes, stop : Stops]
    BY <1>1, <1>2, StopIs, CodesAre DEF Answer
  <2>3. grant' \in Grants
    BY <1>1, <1>2 DEF Answer, TypeInv, Grants
  <2> QED
    BY <1>1, <1>2, <2>1, <2>2, <2>3 DEF TypeInv, Answer, Calls, config, environment
<1>4. LogInv'
  BY <1>1, <1>2 DEF Answer, LogInv, Alone
<1>5. PlaceInv'
  BY <1>1, <1>2 DEF Answer, PlaceInv, Calls, Mode, config, Alone, Pooling, Paused
<1>6. PoolInv'
  BY <1>1, <1>2 DEF Answer, PoolInv, Pooling
<1>7. WorkInv'
  BY <1>1, <1>2 DEF Answer, WorkInv, Calls, Mode, config, environment
<1>8. RanInv'
  BY <1>1, <1>2 DEF Answer, RanInv, Alone, Pooling
<1>9. SeenInv'
  BY <1>1, <1>2 DEF Answer, SeenInv, Calls, config
<1>10. StopInv'
  BY <1>1, <1>2 DEF Answer, StopInv, Pooling, Stopped
<1>11. GrantInv'
  BY <1>1, <1>2 DEF Answer, GrantInv, Mode, config, Paused
<1>12. ReleaseInv'
  BY <1>1, <1>2 DEF Answer, ReleaseInv, config
<1>13. HonestInv'
  BY <1>1, <1>2 DEF Answer, HonestInv, Calls, config
<1> QED
  BY <1>3, <1>4, <1>5, <1>6, <1>7, <1>8, <1>9, <1>10, <1>11, <1>12, <1>13 DEF RoundInv

\* The answer is stored and seen before anything is done on it.
LEMMA DecideStep ==
    ASSUME RoundInv, Decide
    PROVE  RoundInv'
<1>1. /\ TypeInv /\ LogInv /\ PlaceInv /\ PoolInv /\ WorkInv /\ RanInv /\ SeenInv /\ StopInv
      /\ GrantInv /\ ReleaseInv /\ HonestInv
  BY DEF RoundInv
<1>2. RoundFacts
  BY <1>1, RoundType
<1>3. /\ at = "deciding" /\ at' \in {"acting", "settling"} /\ index \in Calls /\ index \in Nat
      /\ log' = Append(log, Row("approval/decided", index, answer.outcome)) /\ log \in Seq(RowType)
      /\ LogOk(log, index, index - 1) /\ answer.outcome \in Codes /\ answer.stop \in Stops
      /\ slot[index].code = "prepared" /\ index \notin ran /\ body[index] = "off"
      /\ \A i \in Calls : i # index => body[i] = "off" /\ slot[i] = NoRun
      /\ UNCHANGED <<environment, config, history, index, pool, body, answer, grant>>
  <2>1. /\ at = "deciding" /\ at' \in {"acting", "settling"}
        /\ log' = Append(log, Row("approval/decided", index, answer.outcome))
        /\ UNCHANGED <<environment, config, history, index, pool, body, answer, grant>>
    BY DEF Decide, Decline, ToSettle
  <2>2. /\ index \in Calls /\ LogOk(log, index, index - 1)
        /\ slot[index].code = "prepared" /\ body[index] = "off"
        /\ \A i \in Calls : i # index => body[i] = "off" /\ slot[i] = NoRun
    BY <1>1, <2>1 DEF PlaceInv, LogInv, Alone, Paused
  <2>3. index \notin ran
    BY <1>1, <2>1, <2>2 DEF WorkInv
  <2>4. answer.outcome \in Codes /\ answer.stop \in Stops /\ index \in Nat /\ log \in Seq(RowType)
    BY <1>1, <1>2, CodesAre DEF TypeInv, RoundFacts
  <2> QED
    BY <2>1, <2>2, <2>3, <2>4
<1>4. /\ Row("approval/decided", index, answer.outcome) \in RowType
      /\ Row("approval/decided", index, answer.outcome).kind = "approval/decided"
  <2>1. "approval/decided" \in Kinds
    BY CodesAre
  <2> QED
    BY <1>3, <2>1, RowIs
<1>5. /\ log' \in Seq(RowType) /\ Len(log') = Len(log) + 1 /\ Len(log) \in Nat
      /\ log'[Len(log) + 1] = Row("approval/decided", index, answer.outcome)
      /\ seen' \in 0 .. Len(log') /\ seen <= seen' /\ (observerUp => seen' = Len(log) + 1)
  <2>1. /\ log' \in Seq(RowType) /\ Len(log') = Len(log) + 1
        /\ log'[Len(log) + 1] = Row("approval/decided", index, answer.outcome)
    BY <1>3, <1>4, LogAppended
  <2> QED
    BY <1>1, <1>2, <2>1 DEF Decide, Covered, TypeInv, RoundFacts
<1>6. \/ at' = "acting" /\ slot' = slot /\ observerUp /\ answer.outcome = "AllowedOnce"
      \/ /\ at' = "settling"
         /\ \E run \in Runs : /\ slot' = [slot EXCEPT ![index] = run]
                              /\ run.code \in {"ABORTED_BEFORE_DISPATCH", "DECLINED", "unknown"}
  <2>1. CASE answer.outcome = "AllowedOnce" /\ answer.stop = "none" /\ observerUp
    BY <2>1 DEF Decide
  <2>2. CASE ~(answer.outcome = "AllowedOnce" /\ answer.stop = "none" /\ observerUp)
    <3>1. PICK code \in {"ABORTED_BEFORE_DISPATCH", "DECLINED", "unknown"} :
            slot' = [slot EXCEPT ![index] = Run(code, answer.stop, FALSE)] /\ at' = "settling"
      BY <2>2 DEF Decide, Decline, ToSettle
    <3>2. Run(code, answer.stop, FALSE) \in Runs /\ Run(code, answer.stop, FALSE).code = code
      BY <1>3, RunIs, CodesAre
    <3> QED
      BY <3>1, <3>2
  <2> QED
    BY <2>1, <2>2
<1>7. TypeInv'
  <2>1. at' \in Places
    BY <1>1, <1>2 DEF Decide, Places, Alone, ToSettle, Decline
  <2>2. slot' \in [Calls -> Runs]
    BY <1>1, <1>6 DEF TypeInv
  <2>3. driver' \in Drivers
    <3>1. driver' = [driver EXCEPT !.unseen = @ \/ ~observerUp] /\ driver \in Drivers /\ observerUp \in BOOLEAN
      BY <1>1 DEF Decide, TypeInv
    <3> QED
      BY <3>1 DEF Drivers
  <2>4. log' \in Seq(RowType) /\ Len(log) <= Len(log')
    BY <1>5
  <2>5. seen' \in 0 .. Len(log')
    BY <1>5
  <2> QED
    BY <1>1, <1>2, <2>1, <2>2, <2>3, <2>4, <2>5
      DEF TypeInv, Decide, Calls, config, environment, history
<1>8. LogInv'
  <2>1. index - 1 < index /\ index <= index /\ "approval/decided" \notin {"tool/call", "tool/result"}
    BY <1>3
  <2>2. "approval/decided" \in Kinds
    BY CodesAre
  <2>3. LogOk(log', index, index - 1)
    BY <1>3, <2>1, <2>2, LogNoted
  <2> QED
    BY <1>3, <2>3 DEF LogInv, Alone
<1>9. PlaceInv'
  BY <1>1, <1>2
    DEF Decide, TypeInv, PlaceInv, PoolInv, Covered, ToSettle, Decline, Calls, Mode, config,
        environment, history, Run, NoRun, Alone, Pooling, Paused
<1>10. PoolInv'
  BY <1>1, <1>2 DEF Decide, PoolInv, ToSettle, Decline, Pooling
<1>11. WorkInv'
  <2>1. /\ \A i \in Calls : i # index => slot'[i] = slot[i]
        /\ slot'[index] = slot[index] \/ slot'[index].code \in {"ABORTED_BEFORE_DISPATCH", "DECLINED", "unknown"}
    BY <1>1, <1>3, <1>6 DEF TypeInv
  <2>2. at # "fatal" /\ at' # "fatal" /\ driver'.limit = driver.limit
    BY <1>1, <1>3 DEF Decide, TypeInv, Drivers
  <2> QED
    BY <1>1, <1>3, <2>1, <2>2 DEF WorkInv, Calls, Mode, config, history, environment
<1>12. RanInv'
  BY <1>1, <1>2 DEF Decide, RanInv, ToSettle, Decline, history, Alone, Pooling
<1>13. SeenInv'
  <2> SUFFICES ASSUME NEW i \in Calls, body[i] # "off" \/ slot'[i].code = "prepared"
               PROVE  SeenCall(log', seen', i)
    BY <1>3 DEF SeenInv, Calls, config
  <2>1. slot[i].code = "prepared" \/ body[i] # "off"
    BY <1>1, <1>3, <1>6 DEF TypeInv
  <2>2. SeenCall(log, seen, i)
    BY <1>1, <1>3, <2>1 DEF SeenInv
  <2>3. seen \in 0 .. Len(log) /\ seen' \in Nat
    BY <1>1, <1>5 DEF TypeInv
  <2> QED
    BY <1>3, <1>4, <1>5, <2>2, <2>3, SeenGrows
<1>14. StopInv'
  <2>1. \A k \in DOMAIN log : ~StopRow(log[k])
    BY <1>1, <1>3 DEF StopInv, Stopped, Pooling
  <2>2. ~StopRow(Row("approval/decided", index, answer.outcome))
    BY <1>4 DEF StopRow
  <2> SUFFICES ASSUME NEW k \in DOMAIN log', StopRow(log'[k])
               PROVE  FALSE
    BY DEF StopInv
  <2> QED
    BY <1>3, <1>4, <2>1, <2>2, OldStops
<1>15. GrantInv'
  <2>1. EarnedBy(log, ran, scoped, round.modes, index)
          => EarnedBy(log', ran, scoped, round.modes, index)
    BY <1>2, <1>3, <1>4, QuietRow DEF RoundFacts
  <2>2. at' = "acting" => Allowed(log', seen', index) /\ answer.outcome = "AllowedOnce"
    BY <1>5, <1>6 DEF Allowed
  <2>3. round.policy = "ask" /\ ~grant.pending
    BY <1>1, <1>3 DEF GrantInv
  <2> QED
    BY <1>1, <1>3, <2>1, <2>2, <2>3 DEF GrantInv, Paused, Mode, config, history
<1>16. ReleaseInv'
  BY <1>1, <1>2 DEF Decide, ReleaseInv, ToSettle, Decline, config
<1>17. HonestInv'
  BY <1>1, <1>2, <1>3, <1>4, QuietRow DEF HonestInv, RoundFacts, Calls, config, history
<1> QED
  BY <1>7, <1>8, <1>9, <1>10, <1>11, <1>12, <1>13, <1>14, <1>15, <1>16, <1>17 DEF RoundInv

\* The work is begun, or declined for a stop.
LEMMA ActStep ==
    ASSUME RoundInv, Act
    PROVE  RoundInv'
<1>1. /\ TypeInv /\ LogInv /\ PlaceInv /\ PoolInv /\ WorkInv /\ RanInv /\ SeenInv /\ StopInv
      /\ GrantInv /\ ReleaseInv /\ HonestInv
  BY DEF RoundInv
<1>2. RoundFacts
  BY <1>1, RoundType
<1>3. TypeInv'
  <2>1. at' \in Places
    BY <1>1, <1>2 DEF Act, Places, Alone, ToSettle, Decline
  <2>2. body' \in [Calls -> {"off", "queued", "on", "cleanup", "work"}]
    BY <1>1, <1>2 DEF Act, TypeInv
  <2>3. slot' \in [Calls -> Runs]
    <3>1. PICK code \in {"unknown", "ABORTED_BEFORE_DISPATCH"} :
            slot' = slot \/ slot' = [slot EXCEPT ![index] = Run(code, Sample, FALSE)]
      BY DEF Act, ToSettle, Decline
    <3>2. Run(code, Sample, FALSE) \in Runs
      BY RunIs, CodesAre, StopIs
    <3> QED
      BY <1>1, <3>1, <3>2 DEF TypeInv
  <2> QED
    BY <1>1, <1>2, <2>1, <2>2, <2>3 DEF TypeInv, Act, Calls, config, environment
<1>4. LogInv'
  BY <1>1, <1>2 DEF Act, LogInv, ToSettle, Decline, Alone
<1>5. PlaceInv'
  BY <1>1, <1>2
    DEF Act, TypeInv, PlaceInv, ToSettle, Decline, Calls, Mode, config, Run, Alone, Pooling,
        Paused
<1>6. PoolInv'
  BY <1>1, <1>2 DEF Act, PoolInv, ToSettle, Decline, Pooling
<1>7. WorkInv'
  BY <1>1, <1>2
    DEF Act, TypeInv, WorkInv, PlaceInv, ToSettle, Decline, Calls, Mode, config, environment, Run,
        Alone, Paused
<1>8. RanInv'
  BY <1>1, <1>2 DEF Act, RanInv, ToSettle, Decline, Alone, Pooling
<1>9. SeenInv'
  BY <1>1, <1>2
    DEF Act, TypeInv, SeenInv, PlaceInv, ToSettle, Decline, Calls, config, Alone, Paused
<1>10. StopInv'
  BY <1>1, <1>2 DEF Act, StopInv, Pooling, Stopped
<1>11. GrantInv'
  BY <1>1, <1>2 DEF Act, GrantInv, ToSettle, Decline, Mode, config, Paused
<1>12. ReleaseInv'
  BY <1>1, <1>2 DEF Act, ReleaseInv, ToSettle, Decline, config
<1>13. HonestInv'
  BY <1>1, <1>2 DEF Act, HonestInv, Calls, config
<1> QED
  BY <1>3, <1>4, <1>5, <1>6, <1>7, <1>8, <1>9, <1>10, <1>11, <1>12, <1>13 DEF RoundInv

\* The work takes effect: it was allowed.
LEMMA WorkTakesEffectStep ==
    ASSUME RoundInv, WorkTakesEffect
    PROVE  RoundInv'
<1>1. /\ TypeInv /\ LogInv /\ PlaceInv /\ PoolInv /\ WorkInv /\ RanInv /\ SeenInv /\ StopInv
      /\ GrantInv /\ ReleaseInv /\ HonestInv
  BY DEF RoundInv
<1>2. RoundFacts
  BY <1>1, RoundType
<1>3. /\ at = "working" /\ index \notin ran /\ ran' = ran \cup {index} /\ index \in Calls
      /\ index \in Nat
      /\ body[index] = "work" /\ slot[index].code = "prepared"
      /\ UNCHANGED <<environment, config, scoped, at, index, pool, body, slot, answer,
                     driver, grant, log, seen>>
  <2>1. /\ at = "working" /\ index \notin ran /\ ran' = ran \cup {index}
        /\ UNCHANGED <<environment, config, scoped, at, index, pool, body, slot, answer,
                       driver, grant, log, seen>>
    BY DEF WorkTakesEffect
  <2> QED
    BY <1>1, <1>2, <2>1 DEF PlaceInv, Alone, Paused, RoundFacts
<1>4. ResultsOf(log, index) = {}
  BY <1>2, <1>3, Unanswered DEF Alone
<1>5. TypeInv'
  <2>1. ran' \subseteq Calls
    BY <1>1, <1>3 DEF TypeInv
  <2> QED
    BY <1>1, <1>2, <2>1 DEF TypeInv, WorkTakesEffect, Calls, config, environment
<1>6. LogInv'
  BY <1>1, <1>2 DEF WorkTakesEffect, LogInv
<1>7. PlaceInv'
  BY <1>1, <1>2 DEF WorkTakesEffect, PlaceInv, Calls, Mode, config
<1>8. PoolInv'
  BY <1>1, <1>2 DEF WorkTakesEffect, PoolInv, Calls, Mode, config
<1>9. WorkInv'
  BY <1>1, <1>3 DEF WorkInv, Calls, Mode, config, environment, NotStarted
<1>10. RanInv'
  BY <1>1, <1>2 DEF WorkTakesEffect, TypeInv, RanInv, PlaceInv, Alone
<1>11. SeenInv'
  BY <1>1, <1>2 DEF WorkTakesEffect, SeenInv, Calls, config
<1>12. StopInv'
  BY <1>1, <1>2 DEF WorkTakesEffect, StopInv, Pooling, Stopped
<1>13. GrantInv'
  <2>1. EarnedBy(log, ran, scoped, round.modes, index)
          => EarnedBy(log, ran', scoped, round.modes, index)
    <3>1. ran \subseteq Nat /\ index <= index
      BY <1>2, <1>3 DEF RoundFacts
    <3>2. EarnedBy(log, ran, scoped, round.modes, index)
            => EarnedBy(log, ran \cup {index}, scoped, round.modes, index)
      BY <1>3, <3>1, EarnedWider
    <3> QED
      BY <1>3, <3>2
  <2> QED
    BY <1>1, <1>3, <2>1 DEF GrantInv, Paused, Mode, config
<1>14. ReleaseInv'
  BY <1>1, <1>2 DEF WorkTakesEffect, ReleaseInv, config
<1>15. HonestInv'
  BY <1>1, <1>3, <1>4 DEF HonestInv, Honest, Calls, config
<1> QED
  BY <1>5, <1>6, <1>7, <1>8, <1>9, <1>10, <1>11, <1>12, <1>13, <1>14, <1>15 DEF RoundInv

\* The work is over, and says whether it took effect.
LEMMA WorkEndsStep ==
    ASSUME RoundInv, WorkEnds
    PROVE  RoundInv'
<1>1. /\ TypeInv /\ LogInv /\ PlaceInv /\ PoolInv /\ WorkInv /\ RanInv /\ SeenInv /\ StopInv
      /\ GrantInv /\ ReleaseInv /\ HonestInv
  BY DEF RoundInv
<1>2. RoundFacts
  BY <1>1, RoundType
<1>3. /\ at = "working" /\ at' = "settling" /\ index \in Calls /\ body' = [body EXCEPT ![index] = "off"]
      /\ Mode(index) \in {"mutation", "action"}
      /\ UNCHANGED <<environment, config, ran, scoped, index, pool, answer, driver, log, seen>>
  <2>1. /\ at = "working" /\ at' = "settling" /\ body' = [body EXCEPT ![index] = "off"]
        /\ UNCHANGED <<environment, config, ran, scoped, index, pool, answer, driver, log, seen>>
    BY DEF WorkEnds, ToSettle
  <2> QED
    BY <1>1, <2>1 DEF PlaceInv, Alone, Paused
<1>4. PICK run \in Runs :
        /\ slot' = [slot EXCEPT ![index] = run]
        /\ \/ /\ index \in ran /\ run.code \in {"ok", "failed"}
              /\ \E clean \in BOOLEAN : /\ grant' = [grant EXCEPT !.pending = clean]
                                        /\ clean => run.code = "ok" /\ grant.candidate
           \/ index \notin ran /\ run.code = "NOT_STARTED" /\ grant' = grant
           \/ run.code = "unknown" /\ grant' = grant
  <2> DEFINE stop == Latch(answer.stop, Sample)
  <2>1. stop \in Stops
    BY <1>1, StopIs DEF TypeInv
  <2>2. \A code \in {"ok", "failed", "NOT_STARTED", "unknown"} :
          /\ Run(code, stop, TRUE) \in Runs /\ Run(code, stop, FALSE) \in Runs
          /\ Run(code, stop, TRUE).code = code /\ Run(code, stop, FALSE).code = code
    BY <2>1, RunIs, CodesAre
  <2>3. \/ /\ index \in ran
           /\ \E code \in {"ok", "failed"} :
                /\ ToSettle(Run(code, stop, TRUE))
                /\ grant' = [grant EXCEPT !.pending = code = "ok" /\ stop = "none" /\ grant.candidate]
        \/ /\ index \notin ran
           /\ ToSettle(Run("NOT_STARTED", stop, FALSE)) /\ UNCHANGED grant
        \/ ToSettle(Run("unknown", stop, FALSE)) /\ UNCHANGED grant
    BY DEF WorkEnds
  <2> HIDE DEF stop
  <2>4. CASE /\ index \in ran
             /\ \E code \in {"ok", "failed"} :
                  /\ ToSettle(Run(code, stop, TRUE))
                  /\ grant' = [grant EXCEPT !.pending = code = "ok" /\ stop = "none" /\ grant.candidate]
    <3>1. PICK code \in {"ok", "failed"} :
            /\ slot' = [slot EXCEPT ![index] = Run(code, stop, TRUE)]
            /\ grant' = [grant EXCEPT !.pending = code = "ok" /\ stop = "none" /\ grant.candidate]
      BY <2>4 DEF ToSettle
    <3>2. grant.candidate \in BOOLEAN
      BY <1>1 DEF TypeInv, Grants
    <3>3. \E clean \in BOOLEAN : /\ grant' = [grant EXCEPT !.pending = clean]
                                 /\ clean => code = "ok" /\ grant.candidate
      BY <3>1, <3>2
    <3> QED
      BY <2>2, <2>4, <3>1, <3>3
  <2>5. CASE index \notin ran /\ ToSettle(Run("NOT_STARTED", stop, FALSE)) /\ UNCHANGED grant
    BY <2>2, <2>5 DEF ToSettle
  <2>6. CASE ToSettle(Run("unknown", stop, FALSE)) /\ UNCHANGED grant
    BY <2>2, <2>6 DEF ToSettle
  <2> QED
    BY <2>3, <2>4, <2>5, <2>6
<1>5. TypeInv'
  <2>1. at' \in Places
    BY <1>1, <1>2 DEF WorkEnds, Places, Alone, ToSettle
  <2>2. body' \in [Calls -> {"off", "queued", "on", "cleanup", "work"}]
    BY <1>1, <1>2 DEF WorkEnds, TypeInv
  <2>3. slot' \in [Calls -> Runs]
    BY <1>1, <1>4 DEF TypeInv
  <2>4. grant' \in Grants
    BY <1>1, <1>4 DEF TypeInv, Grants
  <2> QED
    BY <1>1, <1>2, <2>1, <2>2, <2>3, <2>4 DEF TypeInv, WorkEnds, Calls, config, environment
<1>6. LogInv'
  BY <1>1, <1>2 DEF WorkEnds, LogInv, ToSettle, Alone
<1>7. PlaceInv'
  BY <1>1, <1>2
    DEF WorkEnds, TypeInv, PlaceInv, ToSettle, Calls, config, Run, Alone, Pooling, Paused
<1>8. PoolInv'
  BY <1>1, <1>2 DEF WorkEnds, PoolInv, ToSettle, Pooling
<1>9. WorkInv'
  BY <1>1, <1>2
    DEF WorkEnds, TypeInv, WorkInv, PlaceInv, ToSettle, NotStarted, Calls, config, Run, NoRun,
        Alone
<1>10. RanInv'
  BY <1>1, <1>2 DEF WorkEnds, RanInv, ToSettle, Alone, Pooling
<1>11. SeenInv'
  BY <1>1, <1>2 DEF WorkEnds, TypeInv, SeenInv, ToSettle, Calls, config, Run
<1>12. StopInv'
  BY <1>1, <1>2 DEF WorkEnds, StopInv, PlaceInv, Alone, Stopped
<1>13. GrantInv'
  <2>1. /\ grant'.held <=> grant.held
        /\ grant'.pending => grant.pending \/ (grant.candidate /\ run.code = "ok")
        /\ slot'[index] = run
    BY <1>1, <1>3, <1>4 DEF TypeInv, Grants
  <2>2. ~grant.pending /\ (Mode(index) = "action" => ~grant.held)
    BY <1>1, <1>3 DEF GrantInv, Paused
  <2>3. grant.candidate =>
          /\ Mode(index) = "action" /\ round.policy = "ask"
          /\ index \in scoped \/ EarnedBy(log, ran, scoped, round.modes, index)
    BY <1>1, <1>3 DEF GrantInv
  <2> QED
    BY <1>1, <1>3, <2>1, <2>2, <2>3 DEF GrantInv, Paused, Mode, config
<1>14. ReleaseInv'
  BY <1>1, <1>2 DEF WorkEnds, ReleaseInv, ToSettle, config
<1>15. HonestInv'
  BY <1>1, <1>2 DEF WorkEnds, HonestInv, Calls, config
<1> QED
  BY <1>5, <1>6, <1>7, <1>8, <1>9, <1>10, <1>11, <1>12, <1>13, <1>14, <1>15 DEF RoundInv

\* A group of parallel calls begins: it ends where the modes change.
LEMMA StartPoolStep ==
    ASSUME RoundInv, StartPool
    PROVE  RoundInv'
<1>1. /\ TypeInv /\ LogInv /\ PlaceInv /\ PoolInv /\ WorkInv /\ RanInv /\ SeenInv /\ StopInv
      /\ GrantInv /\ ReleaseInv /\ HonestInv
  BY DEF RoundInv
<1>2. RoundFacts
  BY <1>1, RoundType
<1>3. /\ at = "next" /\ at' = "filling" /\ index \in Calls /\ index \in Nat
      /\ Mode(index) = "parallel"
      /\ ~Stopping /\ ~driver.limit
      /\ UNCHANGED <<environment, config, history, index, body, slot, answer, driver, grant,
                     log, seen>>
  BY <1>2 DEF StartPool, StartsPool, RoundFacts
<1> DEFINE Last(e) == /\ \A i \in index .. e : Mode(i) = "parallel"
                      /\ e = Len(round.modes) \/ Mode(e + 1) # "parallel"
<1>4. \E e \in index .. Len(round.modes) : Last(e)
  <2> DEFINE N == Len(round.modes)
             Group == {e \in index .. N : \A i \in index .. e : Mode(i) = "parallel"}
  <2>1. N \in Nat /\ index \in 1 .. N
    BY <1>2, <1>3 DEF RoundFacts
  <2>2. index \in Group /\ Group \subseteq Int /\ \A e \in Group : e <= N
    <3>1. \A i \in index .. index : i = index
      BY <1>3
    <3> QED
      BY <1>3, <2>1, <3>1
  <2>3. \E e \in Group : e + 1 \notin Group
    <3> DEFINE Behind == {N - e : e \in Group}
    <3>1. Behind \subseteq Nat /\ Behind # {}
      <4>1. \A e \in Group : N - e \in Nat
        BY <2>1, <2>2
      <4>2. N - index \in Behind
        BY <2>2
      <4> QED
        BY <4>1, <4>2
    <3> HIDE DEF Behind
    <3>2. PICK least \in Behind : \A d \in Behind : <<d, least>> \notin OpToRel(<, Nat)
      BY <3>1, NatLessThanWellFounded, WFMin
    <3>3. PICK e \in Group : least = N - e
      BY <3>2 DEF Behind
    <3>4. ASSUME e + 1 \in Group
          PROVE  FALSE
      <4>1. N - (e + 1) \in Behind
        BY <3>4 DEF Behind
      <4>2. N - (e + 1) \in Nat /\ least \in Nat /\ N - (e + 1) < least
        BY <2>1, <2>2, <3>1, <3>3, <4>1
      <4> QED
        BY <3>2, <4>1, <4>2 DEF OpToRel
    <3> QED
      BY <3>4
  <2>4. PICK e \in Group : e + 1 \notin Group
    BY <2>3
  <2>5. e = N \/ Mode(e + 1) # "parallel"
    <3> SUFFICES ASSUME e # N, Mode(e + 1) = "parallel"
                 PROVE  FALSE
      OBVIOUS
    <3>1. e \in index .. N /\ e + 1 \in index .. N
      BY <2>1, <2>2, <2>4
    <3>2. \A i \in index .. e + 1 : i \in index .. e \/ i = e + 1
      BY <2>1, <3>1
    <3>3. \A i \in index .. e + 1 : Mode(i) = "parallel"
      BY <2>4, <3>2
    <3> QED
      BY <2>4, <3>1, <3>3
  <2> QED
    BY <2>4, <2>5
<1>5. PICK e \in index .. Len(round.modes) :
        Last(e) /\ pool' = [NoPool EXCEPT !.start = index, !.commit = index, !.end = e]
  <2> DEFINE e == CHOOSE e \in index .. Len(round.modes) : Last(e)
  <2>1. e \in index .. Len(round.modes) /\ Last(e)
    BY <1>4
  <2>2. pool' = [NoPool EXCEPT !.start = index, !.commit = index, !.end = e]
    BY DEF StartPool
  <2> QED
    BY <2>1, <2>2
<1>6. /\ pool'.start = index /\ pool'.commit = index /\ pool'.end = e /\ ~pool'.stop
      /\ pool'.unresolved = 0 /\ pool' \in Pools /\ e \in Nat /\ index <= e /\ e <= Len(round.modes)
      /\ \A i \in index .. e : Mode(i) = "parallel"
  <2>1. e \in Nat /\ index <= e /\ e <= Len(round.modes)
    BY <1>2, <1>3, <1>5 DEF RoundFacts
  <2>2. pool' = [end |-> e, start |-> index, commit |-> index, stop |-> FALSE, unresolved |-> 0]
    BY <1>5 DEF NoPool
  <2>3. pool' \in Pools
    BY <1>3, <2>1, <2>2 DEF Pools
  <2>4. /\ pool'.start = index /\ pool'.commit = index /\ pool'.end = e /\ ~pool'.stop
        /\ pool'.unresolved = 0
    BY <2>2
  <2>5. \A i \in index .. e : Mode(i) = "parallel"
    BY <1>5
  <2> QED
    BY <2>1, <2>3, <2>4, <2>5
<1> HIDE DEF Last
<1>7. TypeInv'
  <2>1. at' \in Places
    BY <1>1, <1>2 DEF StartPool, Places, Pooling
  <2>2. pool' \in Pools
    BY <1>6
  <2> QED
    BY <1>1, <1>2, <2>1, <2>2 DEF TypeInv, StartPool, Calls, config, environment, history
<1>8. LogInv'
  BY <1>1, <1>3, <1>6 DEF LogInv, Alone
<1>9. PlaceInv'
  BY <1>1, <1>2 DEF StartPool, PlaceInv, Calls, config, Run, NoRun, Alone
<1>10. PoolInv'
  <2>1. /\ at' = "filling" /\ Calls' = Calls /\ round' = round /\ driver' = driver
        /\ \A i \in Calls : body[i] = "off" /\ slot[i] = NoRun /\ body' = body /\ slot' = slot
        /\ index' = index /\ index \in Nat /\ 1 <= index
    BY <1>1, <1>2, <1>3 DEF PlaceInv, Calls, config, RoundFacts
  <2>2. \A i \in index .. index - 1 : FALSE
    BY <1>3
  <2> QED
    BY <1>3, <1>6, <2>1, <2>2 DEF PoolInv, Mode
<1>11. WorkInv'
  BY <1>1, <1>2 DEF StartPool, WorkInv, Calls, Mode, config, environment, history
<1>12. RanInv'
  BY <1>1, <1>3, <1>6 DEF RanInv, Alone, Pooling, history
<1>13. SeenInv'
  BY <1>1, <1>2 DEF StartPool, SeenInv, Calls, config
<1>14. StopInv'
  BY <1>1, <1>2 DEF StartPool, StopInv, StartsPool, Stopping, Halted, Stopped
<1>15. GrantInv'
  BY <1>1, <1>2 DEF StartPool, GrantInv, StartsPool, Mode, config, history
<1>16. ReleaseInv'
  BY <1>1, <1>2 DEF StartPool, ReleaseInv, config
<1>17. HonestInv'
  BY <1>1, <1>2 DEF StartPool, HonestInv, Calls, config, history
<1> QED
  BY <1>7, <1>8, <1>9, <1>10, <1>11, <1>12, <1>13, <1>14, <1>15, <1>16, <1>17 DEF RoundInv

\* The next call of the pool is announced, or the filling ends.
LEMMA FillStep ==
    ASSUME RoundInv, Fill
    PROVE  RoundInv'
<1>1. /\ TypeInv /\ LogInv /\ PlaceInv /\ PoolInv /\ WorkInv /\ RanInv /\ SeenInv /\ StopInv
      /\ GrantInv /\ ReleaseInv /\ HonestInv
  BY DEF RoundInv
<1>2. RoundFacts
  BY <1>1, RoundType
<1>3. /\ at = "filling" /\ at' \in {"starting", "committing"} /\ pool \in Pools
      /\ log \in Seq(RowType) /\ index \in Nat /\ pool.start \in Nat /\ pool.start # 0
      /\ (pool.start - 1) + 1 = pool.start /\ pool.commit \in Nat
      /\ UNCHANGED <<environment, config, history, index, body, slot, answer, driver, grant, seen>>
  <2>1. at = "filling" /\ at' \in {"starting", "committing"}
    BY DEF Fill
  <2>2. pool \in Pools /\ log \in Seq(RowType) /\ index \in Nat /\ 1 <= index
    BY <1>1, <1>2 DEF TypeInv, RoundFacts
  <2>3. index <= pool.commit /\ pool.commit <= pool.start
    BY <1>1, <2>1 DEF PoolInv, Pooling
  <2>4. pool.start \in Nat /\ pool.commit \in Nat
    BY <2>2 DEF Pools
  <2>5. pool.start # 0 /\ (pool.start - 1) + 1 = pool.start
    BY <2>2, <2>3, <2>4
  <2> QED
    BY <2>1, <2>2, <2>4, <2>5 DEF Fill
<1>4. /\ Row("tool/call", pool.start, "none") \in RowType
      /\ Row("tool/call", pool.start, "none").kind = "tool/call"
  <2>1. "tool/call" \in Kinds /\ "none" \in Codes
    BY CodesAre
  <2> QED
    BY <1>3, <2>1, RowIs
<1>5. \/ /\ Room /\ at' = "starting" /\ pool' = pool
         /\ log' = Append(log, Row("tool/call", pool.start, "none"))
      \/ /\ at' = "committing" /\ log' = log
         /\ \E b \in BOOLEAN : pool' = [pool EXCEPT !.stop = @ \/ b]
  BY DEF Fill, Room
<1>6. /\ pool' \in Pools /\ pool'.start = pool.start /\ pool'.commit = pool.commit
      /\ pool'.end = pool.end /\ pool'.unresolved = pool.unresolved
      /\ pool.stop => pool'.stop
  <2>1. pool' = pool \/ \E b \in BOOLEAN : pool' = [pool EXCEPT !.stop = @ \/ b]
    BY <1>5
  <2> QED
    BY <1>3, <2>1 DEF Pools
<1>7. at' = "starting" => ~pool.stop /\ pool.start <= pool.end /\ pool.unresolved = 0
  BY <1>1, <1>3, <1>5 DEF Room, PoolInv, Pooling
<1>8. at' = "starting" => \A k \in DOMAIN log : ~StopRow(log[k])
  BY <1>1, <1>3, <1>7 DEF StopInv, Stopped, Pooling
<1>9. TypeInv'
  <2>1. at' \in Places
    BY <1>1, <1>2 DEF Fill, Places, Pooling
  <2>2. pool' \in Pools
    BY <1>6
  <2>3. log' \in Seq(RowType) /\ Len(log) <= Len(log')
    <3>1. /\ Append(log, Row("tool/call", pool.start, "none")) \in Seq(RowType)
          /\ Len(Append(log, Row("tool/call", pool.start, "none"))) = Len(log) + 1
      BY <1>3, <1>4, LogAppended
    <3>2. log' = log \/ log' = Append(log, Row("tool/call", pool.start, "none"))
      BY <1>5
    <3>3. Len(log) \in Nat /\ Len(log) <= Len(log) /\ Len(log) <= Len(log) + 1
      BY <1>2 DEF RoundFacts
    <3>4. CASE log' = log
      BY <1>3, <3>3, <3>4
    <3>5. CASE log' = Append(log, Row("tool/call", pool.start, "none"))
      BY <3>1, <3>3, <3>5
    <3> QED
      BY <3>2, <3>4, <3>5
  <2> QED
    BY <1>1, <1>2, <2>1, <2>2, <2>3 DEF TypeInv, Fill, Calls, config, environment, history
<1>10. LogInv'
  <2>1. CASE at' = "starting"
    <3>1. LogOk(log, pool.start - 1, pool.commit - 1)
      BY <1>1, <1>3, <1>7, <2>1 DEF LogInv
    <3>2. LogOk(Append(log, Row("tool/call", (pool.start - 1) + 1, "none")), (pool.start - 1) + 1, pool.commit - 1)
      BY <3>1, LogAnnounced
    <3>3. LogOk(log', pool'.start, pool'.commit - 1)
      BY <1>3, <1>5, <1>6, <2>1, <3>2
    <3> QED
      BY <2>1, <3>3 DEF LogInv, Alone
  <2>2. CASE at' = "committing"
    BY <1>1, <1>3, <1>5, <1>6, <2>2 DEF LogInv, Alone
  <2> QED
    BY <1>3, <2>1, <2>2
<1>11. PlaceInv'
  BY <1>1, <1>2 DEF Fill, PlaceInv, Calls, config, Alone, Pooling
<1>12. PoolInv'
  <2>1. /\ at \in Pooling /\ at' \in Pooling /\ at # "resting" /\ at' # "resting"
        /\ Calls' = Calls /\ round' = round
    BY <1>3 DEF Pooling, Calls, config
  <2> QED
    BY <1>1, <1>3, <1>6, <1>7, <2>1 DEF PoolInv, Mode
<1>13. WorkInv'
  BY <1>1, <1>2 DEF Fill, WorkInv, Calls, Mode, config, environment, history
<1>14. RanInv'
  BY <1>1, <1>3, <1>6 DEF RanInv, Alone, Pooling, history
<1>15. SeenInv'
  <2> SUFFICES ASSUME NEW i \in Calls, body[i] # "off" \/ slot[i].code = "prepared"
               PROVE  SeenCall(log', seen, i)
    BY <1>3 DEF SeenInv, Calls, config
  <2>1. SeenCall(log, seen, i)
    BY <1>1, <1>3 DEF SeenInv
  <2>2. seen \in 0 .. Len(log) /\ seen \in Nat /\ seen <= seen
    BY <1>1, <1>2 DEF TypeInv, RoundFacts
  <2>3. SeenCall(Append(log, Row("tool/call", pool.start, "none")), seen, i)
    BY <1>3, <1>4, <2>1, <2>2, SeenGrows
  <2> QED
    BY <1>5, <2>1, <2>3
<1>16. StopInv'
  <2>1. CASE at' = "starting"
    <3>1. ~StopRow(Row("tool/call", pool.start, "none"))
      BY <1>4 DEF StopRow
    <3>2. log' = Append(log, Row("tool/call", pool.start, "none"))
      BY <1>5, <2>1
    <3> SUFFICES ASSUME NEW k \in DOMAIN log', StopRow(log'[k])
                 PROVE  FALSE
      BY DEF StopInv
    <3> QED
      BY <1>3, <1>4, <1>8, <2>1, <3>1, <3>2, OldStops
  <2>2. CASE at' = "committing"
    <3> SUFFICES ASSUME NEW k \in DOMAIN log', StopRow(log'[k])
                 PROVE  Stopped(k)'
      BY DEF StopInv
    <3>1. log' = log /\ Stopped(k)
      BY <1>1, <1>5, <2>2 DEF StopInv
    <3> QED
      BY <1>3, <1>6, <2>2, <3>1 DEF Stopped, Halted, Pooling, Calls, config, history
  <2> QED
    BY <1>3, <2>1, <2>2
<1>17. GrantInv'
  <2>1. EarnedBy(log, ran, scoped, round.modes, index)
          => EarnedBy(log', ran, scoped, round.modes, index)
    <3>1. EarnedBy(log, ran, scoped, round.modes, index) =>
            EarnedBy(Append(log, Row("tool/call", pool.start, "none")), ran, scoped, round.modes, index)
      BY <1>2, <1>3, <1>4, QuietRow DEF RoundFacts
    <3> QED
      BY <1>5, <3>1
  <2> QED
    BY <1>1, <1>3, <2>1 DEF GrantInv, Paused, config, history
<1>18. ReleaseInv'
  BY <1>1, <1>2 DEF Fill, ReleaseInv, config
<1>19. HonestInv'
  <2>1. \A i \in Calls : Honest(log, ran, round.modes, i) =>
           Honest(Append(log, Row("tool/call", pool.start, "none")), ran, round.modes, i)
    BY <1>2, <1>3, <1>4, QuietRow DEF RoundFacts
  <2> QED
    BY <1>1, <1>3, <1>5, <2>1 DEF HonestInv, Calls, config, history
<1> QED
  BY <1>9, <1>10, <1>11, <1>12, <1>13, <1>14, <1>15, <1>16, <1>17, <1>18, <1>19 DEF RoundInv

\* A call of the pool is queued, or answered for the observer that is gone.
LEMMA DispatchInPoolStep ==
    ASSUME RoundInv, DispatchInPool
    PROVE  RoundInv'
<1>1. /\ TypeInv /\ LogInv /\ PlaceInv /\ PoolInv /\ WorkInv /\ RanInv /\ SeenInv /\ StopInv
      /\ GrantInv /\ ReleaseInv /\ HonestInv
  BY DEF RoundInv
<1>2. RoundFacts
  BY <1>1, RoundType
<1>3. /\ at = "starting" /\ at' = "filling" /\ pool \in Pools /\ pool.start \in Calls
      /\ pool.start \in Nat
      /\ pool.unresolved = 0 /\ pool.start <= pool.end /\ pool.commit \in Nat
      /\ pool.commit <= pool.start
      /\ body[pool.start] = "off" /\ slot[pool.start] = NoRun
      /\ LogOk(log, pool.start, pool.commit - 1)
      /\ UNCHANGED <<environment, config, history, index, answer, grant, log>>
  <2>1. /\ at = "starting" /\ at' = "filling"
        /\ UNCHANGED <<environment, config, history, index, answer, grant, log>>
    BY DEF DispatchInPool
  <2>2. /\ pool \in Pools /\ pool.unresolved = 0 /\ pool.start <= pool.end
        /\ pool.end <= Len(round.modes)
        /\ 1 <= index /\ index <= pool.commit /\ pool.commit <= pool.start
        /\ \A i \in Calls : body[i] # "off" \/ slot[i] # NoRun => i < pool.start
        /\ LogOk(log, pool.start, pool.commit - 1)
    BY <1>1, <2>1 DEF TypeInv, PoolInv, LogInv, Pooling
  <2>3. pool.start \in Nat /\ pool.commit \in Nat /\ pool.start \in Calls
    BY <1>2, <2>2 DEF Pools, RoundFacts
  <2> QED
    BY <2>1, <2>2, <2>3
<1>4. PICK run \in Runs :
        \/ /\ observerUp /\ body' = [body EXCEPT ![pool.start] = "queued"] /\ seen' = Len(log)
           /\ pool' = [pool EXCEPT !.start = @ + 1] /\ slot' = slot /\ driver' = driver
        \/ /\ ~observerUp /\ slot' = [slot EXCEPT ![pool.start] = run] /\ seen' = seen
           /\ pool' = [pool EXCEPT !.start = @ + 1, !.stop = TRUE] /\ body' = body
           /\ driver' = [driver EXCEPT !.unseen = TRUE]
           /\ run.code = "ABORTED_BEFORE_DISPATCH"
  <2>1. Prestart(pool.start, "ABORTED_BEFORE_DISPATCH", "none") = Run("ABORTED_BEFORE_DISPATCH", "none", FALSE)
    BY DEF Prestart
  <2>2. /\ Run("ABORTED_BEFORE_DISPATCH", "none", FALSE) \in Runs
        /\ Run("ABORTED_BEFORE_DISPATCH", "none", FALSE).code = "ABORTED_BEFORE_DISPATCH"
    BY RunIs, CodesAre
  <2> QED
    BY <2>1, <2>2 DEF DispatchInPool, Covered
<1>5. /\ pool' \in Pools /\ pool'.start = pool.start + 1 /\ pool'.commit = pool.commit
      /\ pool'.end = pool.end /\ pool'.unresolved = 0 /\ (pool.stop => pool'.stop)
  <2>1. \E b \in BOOLEAN : pool' = [end |-> pool.end, start |-> pool.start + 1, commit |-> pool.commit,
                                    stop |-> b, unresolved |-> pool.unresolved] /\ (pool.stop => b)
    BY <1>3, <1>4 DEF Pools
  <2>2. pool.end \in Nat /\ pool.start + 1 \in Nat /\ pool.commit \in Nat /\ pool.unresolved \in Nat
    BY <1>3 DEF Pools
  <2> QED
    BY <1>3, <2>1, <2>2 DEF Pools
<1>6. /\ \A i \in Calls : i # pool.start => body'[i] = body[i] /\ slot'[i] = slot[i]
      /\ body'[pool.start] # "off" \/ slot'[pool.start] # NoRun
      /\ slot'[pool.start].code # "prepared" /\ driver'.limit = driver.limit
  BY <1>1, <1>3, <1>4, RunIs DEF TypeInv, Drivers
<1>7. TypeInv'
  <2>1. at' \in Places
    BY <1>1, <1>2 DEF DispatchInPool, Places, Pooling
  <2>2. body' \in [Calls -> {"off", "queued", "on", "cleanup", "work"}]
    BY <1>1, <1>2 DEF DispatchInPool, TypeInv
  <2>3. slot' \in [Calls -> Runs]
    BY <1>1, <1>4 DEF TypeInv
  <2>4. driver' \in Drivers
    <3>1. driver' = driver \/ driver' = [driver EXCEPT !.unseen = TRUE]
      BY <1>4
    <3> QED
      BY <1>1, <3>1 DEF TypeInv, Drivers
  <2>5. pool' \in Pools
    BY <1>5
  <2>6. seen' \in 0 .. Len(log')
    BY <1>1, <1>2, <1>3, <1>4 DEF TypeInv, RoundFacts
  <2> QED
    BY <1>1, <1>2, <2>1, <2>2, <2>3, <2>4, <2>5, <2>6
      DEF TypeInv, DispatchInPool, Calls, config, environment, history
<1>8. LogInv'
  <2>1. LogOk(log', pool'.start - 1, pool'.commit - 1)
    BY <1>3, <1>5
  <2> QED
    BY <1>3, <1>5, <2>1 DEF LogInv, Alone
<1>9. PlaceInv'
  BY <1>1, <1>2
    DEF DispatchInPool, TypeInv, PlaceInv, Prestart, Calls, config, Run, Alone, Pooling
<1>10. PoolInv'
  <2>1. /\ index <= pool.commit /\ pool.end <= Len(round.modes) /\ 1 <= index /\ ~driver.limit
        /\ \A i \in index .. pool.end : Mode(i) = "parallel"
        /\ \A i \in Calls : body[i] # "off" \/ slot[i] # NoRun => pool.commit <= i /\ i < pool.start
        /\ \A i \in pool.commit .. pool.start - 1 : body[i] # "off" \/ slot[i] # NoRun
        /\ pool.end \in Nat /\ pool.end + 1 \in Nat
    BY <1>1, <1>3 DEF PoolInv, Pooling, Pools
  <2>2. /\ pool'.commit <= pool'.start /\ pool'.start <= pool'.end + 1
        /\ \A i \in Calls : i < pool.start => i < pool'.start
        /\ pool.start < pool'.start
    BY <1>2, <1>3, <1>5, <2>1 DEF RoundFacts
  <2>3. ASSUME NEW i \in Calls, body'[i] # "off" \/ slot'[i] # NoRun
        PROVE  pool'.commit <= i /\ i < pool'.start
    BY <1>3, <1>5, <1>6, <2>1, <2>2, <2>3
  <2>4. ASSUME NEW i \in pool'.commit .. pool'.start - 1
        PROVE  body'[i] # "off" \/ slot'[i] # NoRun
    <3>1. i \in Nat /\ i <= pool.start /\ pool.commit <= i
      BY <1>3, <1>5, <2>4
    <3>2. CASE i = pool.start
      BY <1>6, <3>2
    <3>3. CASE i # pool.start
      <4>1. i \in pool.commit .. pool.start - 1
        BY <1>3, <3>1, <3>3
      <4>2. i \in Calls
        BY <1>2, <1>3, <2>1, <3>1, <3>3 DEF RoundFacts
      <4> QED
        BY <1>6, <2>1, <3>3, <4>1, <4>2
    <3> QED
      BY <3>2, <3>3
  <2>5. at' = "filling" /\ Calls' = Calls /\ round' = round /\ index' = index /\ NoRun' = NoRun
    BY <1>3 DEF Calls, config, NoRun, Run
  <2> QED
    BY <1>5, <1>6, <2>1, <2>2, <2>3, <2>4, <2>5 DEF PoolInv, Mode
<1>11. WorkInv'
  BY <1>1, <1>2
    DEF DispatchInPool, TypeInv, WorkInv, RanInv, PoolInv, Prestart, NotStarted, Owned, Calls,
        Mode, config, environment, history, Run, Alone, Pooling, Quick, Paused
<1>12. RanInv'
  <2>1. \A i \in ran : i < pool'.start
    BY <1>1, <1>2, <1>3, <1>5 DEF RanInv, Pooling, RoundFacts
  <2> QED
    BY <1>3, <2>1 DEF RanInv, Alone, Pooling, history
<1>13. SeenInv'
  <2> SUFFICES ASSUME NEW i \in Calls, body'[i] # "off" \/ slot'[i].code = "prepared"
               PROVE  SeenCall(log, seen', i)
    BY <1>3 DEF SeenInv, Calls, config
  <2>1. \A j \in 1 .. pool.start : SeenCall(log, Len(log), j)
    BY <1>3, SeenAll
  <2>2. CASE i = pool.start
    <3>1. seen' = Len(log)
      BY <1>3, <1>4, <1>6, <2>2
    <3>2. i \in 1 .. pool.start
      BY <1>2, <1>3, <2>2 DEF RoundFacts
    <3> QED
      BY <2>1, <3>1, <3>2
  <2>3. CASE i # pool.start
    <3>1. SeenCall(log, seen, i)
      BY <1>1, <1>3, <1>6, <2>3 DEF SeenInv
    <3>2. seen' \in Nat /\ seen <= seen' /\ seen \in Nat
      BY <1>1, <1>2, <1>4 DEF TypeInv, RoundFacts
    <3>3. \A k \in 1 .. seen : k \in 1 .. seen'
      BY <3>2
    <3> QED
      BY <3>1, <3>3 DEF SeenCall
  <2> QED
    BY <2>2, <2>3
<1>14. StopInv'
  BY <1>1, <1>2 DEF DispatchInPool, StopInv, Stopped
<1>15. GrantInv'
  BY <1>1, <1>2 DEF DispatchInPool, GrantInv, config, history, Paused
<1>16. ReleaseInv'
  BY <1>1, <1>2 DEF DispatchInPool, ReleaseInv, config
<1>17. HonestInv'
  BY <1>1, <1>2 DEF DispatchInPool, HonestInv, Calls, config, history
<1> QED
  BY <1>7, <1>8, <1>9, <1>10, <1>11, <1>12, <1>13, <1>14, <1>15, <1>16, <1>17 DEF RoundInv

\* The next slot in the order of the message is answered.
LEMMA CommitInPoolStep ==
    ASSUME RoundInv, NEW i \in Calls, CommitInPool(i)
    PROVE  RoundInv'
<1>1. /\ TypeInv /\ LogInv /\ PlaceInv /\ PoolInv /\ WorkInv /\ RanInv /\ SeenInv /\ StopInv
      /\ GrantInv /\ ReleaseInv /\ HonestInv
  BY DEF RoundInv
<1>2. RoundFacts
  BY <1>1, RoundType
<1>3. /\ at = "committing" /\ at' = at /\ pool \in Pools /\ pool.unresolved = 0 /\ i = pool.commit
      /\ i \in Nat /\ i # 0 /\ i - 1 \in Nat /\ (i - 1) + 1 = i /\ (i + 1) - 1 = i
      /\ i <= pool.end /\ i < pool.start
      /\ pool.start \in Nat /\ pool.start - 1 \in Nat /\ i - 1 < pool.start - 1
      /\ index \in Nat /\ index <= i /\ slot[i] # NoRun /\ body[i] = "off"
      /\ slot[i] \in Runs /\ slot[i].code # "prepared" /\ log \in Seq(RowType) /\ ran \subseteq Nat
      /\ LogOk(log, pool.start - 1, i - 1) /\ slot' = [slot EXCEPT ![i] = NoRun]
      /\ driver' = AfterPoolRun(slot[i])
      /\ UNCHANGED <<environment, config, history, index, body, answer, grant, seen>>
  <2>1. /\ at = "committing" /\ at' = at /\ pool.unresolved = 0 /\ i = pool.commit /\ i <= pool.end
        /\ slot[i] # NoRun /\ body[i] = "off" /\ slot' = [slot EXCEPT ![i] = NoRun]
        /\ driver' = AfterPoolRun(slot[i])
        /\ UNCHANGED <<environment, config, history, index, body, answer, grant, seen>>
    BY DEF CommitInPool, Ready
  <2>2. /\ pool \in Pools /\ i < pool.start /\ index <= i /\ slot[i] \in Runs
        /\ slot[i].code # "prepared" /\ log \in Seq(RowType) /\ LogOk(log, pool.start - 1, i - 1)
    BY <1>1, <2>1 DEF TypeInv, PoolInv, LogInv, PlaceInv, Pooling
  <2>3. i \in Nat /\ i # 0 /\ index \in Nat /\ pool.start \in Nat /\ ran \subseteq Nat
    BY <1>2, <2>2 DEF RoundFacts, Pools
  <2>4. /\ i - 1 \in Nat /\ (i - 1) + 1 = i /\ (i + 1) - 1 = i /\ pool.start - 1 \in Nat
        /\ i - 1 < pool.start - 1
    BY <2>2, <2>3
  <2> QED
    BY <2>1, <2>2, <2>3, <2>4
<1>4. \/ /\ slot[i].code = "unknown" /\ ~round.durable /\ log' = log
         /\ pool' = [pool EXCEPT !.stop = TRUE, !.commit = @ + 1, !.unresolved = i]
      \/ /\ \E code \in SettledAs(i, slot[i]) : log' = Append(log, Row("tool/result", i, code))
         /\ pool' = [pool EXCEPT !.commit = @ + 1,
                                 !.stop = @ \/ slot[i].code = "unknown" \/ slot[i].stop # "none"]
  BY DEF CommitInPool
<1>5. /\ pool' \in Pools /\ pool'.commit = i + 1 /\ pool'.start = pool.start /\ pool'.end = pool.end
      /\ pool.stop => pool'.stop
      /\ slot[i].code = "unknown" \/ slot[i].stop # "none" => pool'.stop
      /\ \/ pool'.unresolved = i /\ slot[i].code = "unknown" /\ ~round.durable /\ log' = log
         \/ /\ pool'.unresolved = 0
            /\ \E code \in SettledAs(i, slot[i]) : log' = Append(log, Row("tool/result", i, code))
  <2>1. i + 1 \in Nat /\ pool.end \in Nat /\ pool.start \in Nat /\ pool.stop \in BOOLEAN
    BY <1>3 DEF Pools
  <2>2. CASE /\ slot[i].code = "unknown" /\ ~round.durable /\ log' = log
             /\ pool' = [pool EXCEPT !.stop = TRUE, !.commit = @ + 1, !.unresolved = i]
    <3>1. pool' = [end |-> pool.end, start |-> pool.start, commit |-> i + 1, stop |-> TRUE, unresolved |-> i]
      BY <1>3, <2>2 DEF Pools
    <3>2. pool' \in Pools
      BY <1>3, <2>1, <3>1 DEF Pools
    <3>3. /\ pool'.commit = i + 1 /\ pool'.start = pool.start /\ pool'.end = pool.end
          /\ pool'.stop = TRUE /\ pool'.unresolved = i
      BY <3>1
    <3> QED
      BY <2>2, <3>2, <3>3
  <2>3. CASE /\ \E code \in SettledAs(i, slot[i]) : log' = Append(log, Row("tool/result", i, code))
             /\ pool' = [pool EXCEPT !.commit = @ + 1,
                                     !.stop = @ \/ slot[i].code = "unknown" \/ slot[i].stop # "none"]
    <3>1. PICK b \in BOOLEAN :
            /\ pool' = [end |-> pool.end, start |-> pool.start, commit |-> i + 1, stop |-> b, unresolved |-> 0]
            /\ pool.stop => b
            /\ slot[i].code = "unknown" \/ slot[i].stop # "none" => b
      BY <1>3, <2>1, <2>3 DEF Pools
    <3>2. pool' \in Pools
      BY <2>1, <3>1 DEF Pools
    <3>3. /\ pool'.commit = i + 1 /\ pool'.start = pool.start /\ pool'.end = pool.end
          /\ pool'.stop = b /\ pool'.unresolved = 0
      BY <3>1
    <3>4. \E code \in SettledAs(i, slot[i]) : log' = Append(log, Row("tool/result", i, code))
      BY <2>3
    <3>5. pool.stop => pool'.stop
      BY <3>1, <3>3
    <3>6. slot[i].code = "unknown" \/ slot[i].stop # "none" => pool'.stop
      BY <3>1, <3>3
    <3> QED
      BY <3>2, <3>3, <3>4, <3>5, <3>6
  <2> QED
    BY <1>4, <2>2, <2>3
<1>6. \/ log' = log
      \/ \E code \in Codes :
           /\ log' = Append(log, Row("tool/result", i, code))
           /\ code \in {slot[i].code, "OVER_BUDGET"}
           /\ i \in ran /\ Mode(i) \notin Quick => code = slot[i].code
  <2>1. ASSUME NEW code \in SettledAs(i, slot[i])
        PROVE  /\ code \in Codes /\ code \in {slot[i].code, "OVER_BUDGET"}
               /\ i \in ran /\ Mode(i) \notin Quick => code = slot[i].code
    <3>1. code \in {slot[i].code, "OVER_BUDGET"} /\ (i \in ran /\ Mode(i) \notin Quick => code = slot[i].code)
      BY <2>1 DEF SettledAs, Quick
    <3>2. code \in Codes
      BY <1>3, <3>1, CodesAre DEF Runs
    <3> QED
      BY <3>1, <3>2
  <2> QED
    BY <1>4, <2>1
<1>7. ASSUME NEW code \in Codes
      PROVE  /\ Row("tool/result", i, code) \in RowType /\ Row("tool/result", i, code).code = code
             /\ Row("tool/result", i, code).kind = "tool/result"
             /\ Row("tool/result", i, code).call = i
  <2>1. "tool/result" \in Kinds /\ i \in Nat
    BY <1>3, CodesAre
  <2> QED
    BY <2>1, RowIs
<1>8. /\ ResultsOf(log, i) = {}
      /\ \A j : j # i => ResultsOf(log', j) = ResultsOf(log, j)
      /\ \/ ResultsOf(log', i) = {}
         \/ \E code \in {slot[i].code, "OVER_BUDGET"} :
              /\ ResultsOf(log', i) = {code}
              /\ i \in ran /\ Mode(i) \notin Quick => code = slot[i].code
  <2>1. ResultsOf(log, i) = {}
    BY <1>2, <1>3, Unanswered
  <2>2. CASE log' = log
    BY <2>1, <2>2
  <2>3. CASE \E code \in Codes :
               /\ log' = Append(log, Row("tool/result", i, code))
               /\ code \in {slot[i].code, "OVER_BUDGET"}
               /\ i \in ran /\ Mode(i) \notin Quick => code = slot[i].code
    <3>1. PICK code \in Codes :
            /\ log' = Append(log, Row("tool/result", i, code))
            /\ code \in {slot[i].code, "OVER_BUDGET"}
            /\ i \in ran /\ Mode(i) \notin Quick => code = slot[i].code
      BY <2>3
    <3>2. /\ ResultsOf(log', i) = ResultsOf(log, i) \cup {code}
          /\ \A j : j # i => ResultsOf(log', j) = ResultsOf(log, j)
      <4> DEFINE row == Row("tool/result", i, code)
      <4>1. row \in RowType /\ row.kind = "tool/result" /\ row.call = i /\ row.code = code
        BY <1>7, <3>1
      <4>2. log \in Seq(RowType) /\ log' = Append(log, row)
        BY <1>3, <3>1
      <4> HIDE DEF row
      <4> QED
        BY <4>1, <4>2, ResultsGrow
    <3> QED
      BY <2>1, <3>1, <3>2
  <2> QED
    BY <1>6, <2>2, <2>3
<1>9. /\ driver' \in Drivers /\ driver'.limit = driver.limit /\ driver'.unseen = driver.unseen
      /\ driver.cancelled => driver'.cancelled
      /\ driver.infra # "none" => driver'.infra # "none"
      /\ driver.latched # "none" => driver'.latched # "none"
      /\ slot[i].stop # "none"
           => driver'.latched # "none" /\ (driver'.cancelled \/ driver'.infra # "none")
      /\ slot[i].code = "unknown" => driver'.infra # "none"
  <2>1. /\ driver \in Drivers /\ slot[i].stop \in {"none", "cancelled", "timeout"}
        /\ Latch(driver.latched, slot[i].stop) \in Stops
        /\ driver.latched # "none" \/ slot[i].stop # "none"
             => Latch(driver.latched, slot[i].stop) # "none"
    <3>1. driver.latched \in Stops /\ slot[i].stop \in Stops /\ driver \in Drivers
      BY <1>1, <1>3 DEF TypeInv, Drivers, Runs
    <3> QED
      BY <3>1, StopIs DEF Stops
  <2>2. driver' = [driver EXCEPT
                     !.latched = Latch(@, slot[i].stop),
                     !.cancelled = @ \/ slot[i].stop = "cancelled",
                     !.infra = IF @ # "none" THEN @
                               ELSE IF slot[i].code = "unknown" THEN "executor"
                               ELSE IF slot[i].stop = "timeout" THEN "timeout" ELSE "none"]
    BY <1>3 DEF AfterPoolRun
  <2>3. driver' \in Drivers
    BY <2>1, <2>2 DEF Drivers
  <2> QED
    <3>1. /\ driver'.limit = driver.limit /\ driver'.unseen = driver.unseen
          /\ driver'.latched = Latch(driver.latched, slot[i].stop)
          /\ driver'.cancelled = (driver.cancelled \/ slot[i].stop = "cancelled")
      BY <2>1, <2>2 DEF Drivers
    <3>2. driver'.infra = IF driver.infra # "none" THEN driver.infra
                          ELSE IF slot[i].code = "unknown" THEN "executor"
                          ELSE IF slot[i].stop = "timeout" THEN "timeout" ELSE "none"
      BY <2>1, <2>2 DEF Drivers
    <3> QED
      BY <2>1, <2>3, <3>1, <3>2
<1>10. TypeInv'
  <2>1. slot' \in [Calls -> Runs]
    BY <1>1, <1>2, CodesAre, RunIs, PrestartIs, StopIs DEF CommitInPool, TypeInv
  <2>2. driver' \in Drivers
    BY <1>9
  <2>3. pool' \in Pools
    BY <1>5
  <2>4. log' \in Seq(RowType) /\ Len(log) <= Len(log')
    <3>1. Len(log) \in Nat /\ Len(log) <= Len(log) /\ Len(log) <= Len(log) + 1
      BY <1>2 DEF RoundFacts
    <3>2. CASE log' = log
      BY <1>3, <3>1, <3>2
    <3>3. CASE \E code \in Codes : log' = Append(log, Row("tool/result", i, code))
      <4>1. PICK code \in Codes : log' = Append(log, Row("tool/result", i, code))
        BY <3>3
      <4>2. log' \in Seq(RowType) /\ Len(log') = Len(log) + 1
        BY <1>3, <1>7, <4>1, LogAppended
      <4> QED
        BY <3>1, <4>2
    <3> QED
      BY <1>6, <3>2, <3>3
  <2> QED
    BY <1>1, <1>2, <2>1, <2>2, <2>3, <2>4
      DEF TypeInv, CommitInPool, Calls, config, environment, history
<1>11. LogInv'
  <2>1. CASE pool'.unresolved = i /\ log' = log
    <3>1. pool'.unresolved # 0 /\ LogOk(log', pool'.start - 1, pool'.unresolved - 1)
      BY <1>3, <1>5, <2>1
    <3> QED
      BY <1>3, <3>1 DEF LogInv, Alone
  <2>2. CASE pool'.unresolved = 0 /\ \E code \in Codes : log' = Append(log, Row("tool/result", i, code))
    <3>1. PICK code \in Codes : log' = Append(log, Row("tool/result", i, code))
      BY <2>2
    <3>2. LogOk(Append(log, Row("tool/result", (i - 1) + 1, code)), pool.start - 1, (i - 1) + 1)
      BY <1>3, LogAnswered
    <3>3. LogOk(log', pool'.start - 1, pool'.commit - 1)
      BY <1>3, <1>5, <3>1, <3>2
    <3> QED
      BY <1>3, <2>2, <3>3 DEF LogInv, Alone
  <2>3. \A code \in SettledAs(i, slot[i]) : code \in Codes
    BY <1>3, CodesAre DEF SettledAs, Runs
  <2> QED
    BY <1>5, <2>1, <2>2, <2>3
<1>12. PlaceInv'
  <2>1. at = "committing" /\ at' = "committing" /\ Calls' = Calls /\ body' = body /\ NoRun.code = "none"
    BY <1>3, RunIs DEF Calls, config
  <2>2. \A j \in Calls : slot'[j].code # "prepared" /\ body'[j] # "work"
    BY <1>1, <1>3, <2>1 DEF PlaceInv, Pooling, TypeInv
  <2> QED
    BY <2>1, <2>2 DEF PlaceInv, Alone, Pooling
<1>13. PoolInv'
  <2>1. /\ index <= pool.commit /\ pool.start <= pool.end + 1
        /\ pool.end <= Len(round.modes) /\ 1 <= index
        /\ ~driver.limit /\ \A j \in index .. pool.end : Mode(j) = "parallel"
        /\ \A j \in Calls : body[j] # "off" \/ slot[j] # NoRun => pool.commit <= j /\ j < pool.start
        /\ \A j \in pool.commit .. pool.start - 1 : body[j] # "off" \/ slot[j] # NoRun
    BY <1>1, <1>3 DEF PoolInv, Pooling
  <2>2. /\ index <= pool'.commit /\ pool'.commit <= pool'.start
        /\ pool'.commit = i + 1 /\ i \in Nat
    BY <1>3, <1>5
  <2>3. ASSUME NEW j \in Calls, body[j] # "off" \/ slot'[j] # NoRun
        PROVE  pool'.commit <= j /\ j < pool'.start
    <3>1. j # i /\ slot'[j] = slot[j]
      BY <1>1, <1>3, <2>3 DEF TypeInv
    <3>2. pool.commit <= j /\ j < pool.start /\ j \in Nat
      BY <1>2, <2>1, <2>3, <3>1 DEF RoundFacts
    <3> QED
      BY <1>3, <1>5, <3>1, <3>2
  <2>4. ASSUME NEW j \in pool'.commit .. pool'.start - 1
        PROVE  body[j] # "off" \/ slot'[j] # NoRun
    <3>1. j \in pool.commit .. pool.start - 1 /\ j # i
      BY <1>3, <1>5, <2>4
    <3>2. j \in Calls
      <4>1. pool.end \in Nat /\ pool.start \in Nat /\ i \in Nat /\ index \in Nat /\ i = pool.commit
        BY <1>3 DEF Pools
      <4>2. j \in Int /\ i <= j /\ j <= pool.start - 1
        BY <3>1, <4>1
      <4>3. /\ pool.start <= pool.end + 1 /\ pool.end <= Len(round.modes) /\ 1 <= index
            /\ index <= pool.commit /\ Len(round.modes) \in Nat
        BY <1>2, <2>1 DEF RoundFacts
      <4>4. 1 <= j /\ j <= Len(round.modes)
        BY <4>1, <4>2, <4>3
      <4> QED
        BY <1>2, <4>2, <4>4 DEF RoundFacts
    <3> QED
      BY <1>1, <1>3, <2>1, <3>1, <3>2 DEF TypeInv
  <2>5. ASSUME pool'.unresolved # 0
        PROVE  /\ pool'.unresolved = pool'.commit - 1 /\ pool'.unresolved >= index
               /\ ~round.durable /\ driver'.infra # "none" /\ pool'.stop
    BY <1>3, <1>5, <1>9, <2>5
  <2>6. at' = "committing" /\ Calls' = Calls /\ round' = round /\ index' = index /\ NoRun' = NoRun
        /\ body' = body
    BY <1>3 DEF Calls, config, NoRun, Run
  <2> QED
    BY <1>5, <1>9, <2>1, <2>2, <2>3, <2>4, <2>5, <2>6 DEF PoolInv, Mode
<1>14. WorkInv'
  <2>1. \A j \in Calls : slot'[j] = slot[j] \/ slot'[j] = NoRun
    BY <1>1, <1>3 DEF TypeInv
  <2>2. /\ at = "committing" /\ at' = "committing" /\ Calls' = Calls /\ body' = body /\ ran' = ran
        /\ round' = round /\ deadline' = deadline /\ driver'.limit = driver.limit /\ NoRun' = NoRun
    BY <1>3, <1>9 DEF Calls, config, history, environment
  <2>3. ASSUME NEW j \in Calls, slot'[j] = NoRun
        PROVE  /\ slot'[j].code = "none" /\ body[j] # "cleanup"
               /\ slot'[j].code \notin NotStarted \cup {"ok", "failed", "prepared", "ABORTED",
                    "TURN_TIMEOUT", "AGENT_TURN_TIMEOUT", "SESSION_LIMIT"}
    <3>1. slot'[j].code = "none"
      BY <2>3, RunIs
    <3>2. j = i \/ slot[j] = NoRun
      BY <1>1, <1>3, <2>3 DEF TypeInv
    <3>3. body[j] # "cleanup"
      BY <1>1, <1>3, <3>2, RunIs DEF WorkInv
    <3> QED
      BY <3>1, <3>3 DEF NotStarted
  <2> QED
    BY <1>1, <2>1, <2>2, <2>3 DEF WorkInv, Mode
<1>15. RanInv'
  BY <1>1, <1>3, <1>5 DEF RanInv, Alone, Pooling, history
<1>16. SeenInv'
  <2> SUFFICES ASSUME NEW j \in Calls, body[j] # "off" \/ slot'[j].code = "prepared"
               PROVE  SeenCall(log', seen, j)
    BY <1>3 DEF SeenInv, Calls, config
  <2>1. body[j] # "off" \/ slot[j].code = "prepared"
    BY <1>1, <1>3, RunIs DEF TypeInv
  <2>2. SeenCall(log, seen, j)
    BY <1>1, <1>3, <2>1 DEF SeenInv
  <2>3. seen \in 0 .. Len(log) /\ seen \in Nat /\ seen <= seen
    BY <1>1, <1>2 DEF TypeInv, RoundFacts
  <2>4. ASSUME NEW code \in Codes
        PROVE  SeenCall(Append(log, Row("tool/result", i, code)), seen, j)
    BY <1>3, <1>7, <2>2, <2>3, SeenGrows
  <2> QED
    BY <1>6, <2>2, <2>4
<1>17. StopInv'
  <2> SUFFICES ASSUME NEW k \in DOMAIN log', StopRow(log'[k])
               PROVE  Stopped(k)'
    BY DEF StopInv
  <2>1. /\ at = "committing" /\ at' = "committing" /\ Calls' = Calls /\ ran' = ran /\ body' = body
        /\ index' = index
    BY <1>3 DEF Calls, config, history
  <2>2. CASE k \in DOMAIN log /\ log'[k] = log[k] /\ \A j : Before(log, k, j) => Before(log', k, j)
    <3>1. Stopped(k)
      BY <1>1, <2>2 DEF StopInv
    <3> QED
      BY <1>5, <1>9, <2>1, <2>2, <3>1 DEF Stopped, Halted, Pooling
  <2>3. CASE log' = log
    BY <2>2, <2>3
  <2>4. CASE \E code \in Codes :
               /\ log' = Append(log, Row("tool/result", i, code))
               /\ code \in {slot[i].code, "OVER_BUDGET"}
    <3>1. PICK code \in Codes :
            log' = Append(log, Row("tool/result", i, code)) /\ code \in {slot[i].code, "OVER_BUDGET"}
      BY <2>4
    <3>2. /\ Len(log) \in Nat /\ DOMAIN log = 1 .. Len(log) /\ DOMAIN log' = 1 .. Len(log) + 1
          /\ \A h \in DOMAIN log : log'[h] = log[h]
          /\ log'[Len(log) + 1] = Row("tool/result", i, code)
      BY <1>3, <1>7, <3>1, LogAppended
    <3>3. CASE k \in DOMAIN log
      <4>1. \A j : Before(log, k, j) => Before(log', k, j)
        BY <1>3, <1>7, <3>1, <3>3, BeforeGrows
      <4> QED
        BY <2>2, <3>2, <3>3, <4>1
    <3>4. CASE k = Len(log) + 1
      <4>1. log'[k].code = code /\ code \in StopCodes \cup {"unknown", "SESSION_LIMIT"}
        BY <1>7, <3>2, <3>4 DEF StopRow
      <4>2. slot[i].code = code
        BY <3>1, <4>1 DEF StopCodes
      <4>3. /\ code # "SESSION_LIMIT"
            /\ code \in StopCodes => slot[i].stop # "none"
        BY <1>1, <1>3, <4>2 DEF WorkInv, PoolInv, Pooling, StopCodes
      <4>4. code = "unknown" \/ code \in StopCodes
        BY <4>1, <4>3
      <4>5. \A j \in Calls : j < pool.start => Before(log', k, j)
        <5>1. \A j \in Calls : j < pool.start => j \in 1 .. pool.start - 1
          BY <1>2, <1>3 DEF RoundFacts
        <5>2. \A j \in 1 .. pool.start - 1 : Before(log', k, j)
          BY <1>3, <1>7, <3>1, <3>4, BeforeLast
        <5> QED
          BY <5>1, <5>2
      <4>6. /\ \A j \in ran : Before(log', k, j)
            /\ \A j \in Calls : body[j] # "off" => Before(log', k, j)
        BY <1>1, <1>3, <4>5 DEF RanInv, PoolInv, TypeInv, Pooling
      <4>7. pool'.stop /\ Halted' /\ (log'[k].code \in StopCodes => driver'.latched # "none")
            /\ (log'[k].code \notin StopCodes => driver'.infra # "none")
        BY <1>5, <1>9, <4>1, <4>2, <4>3, <4>4 DEF Halted
      <4> QED
        BY <2>1, <4>6, <4>7 DEF Stopped, Pooling
    <3> QED
      BY <3>2, <3>3, <3>4
  <2> QED
    BY <1>6, <2>3, <2>4
<1>18. GrantInv'
  <2>1. EarnedBy(log, ran, scoped, round.modes, index)
          => EarnedBy(log', ran, scoped, round.modes, index)
    <3>1. \A k \in ran : k < index => ResultsOf(log', k) = ResultsOf(log, k)
      BY <1>3, <1>8
    <3> QED
      BY <1>3, <3>1, EarnedStill
  <2> QED
    BY <1>1, <1>3, <2>1 DEF GrantInv, Paused, config, history
<1>19. ReleaseInv'
  BY <1>1, <1>2 DEF CommitInPool, ReleaseInv, config
<1>20. HonestInv'
  <2> SUFFICES ASSUME NEW j \in Calls
               PROVE  Honest(log', ran, round.modes, j)
    BY <1>3 DEF HonestInv, Calls, config, history
  <2>1. CASE j # i
    BY <1>1, <1>8, <2>1 DEF HonestInv, Honest
  <2>2. CASE j = i
    <3>1. /\ slot[i].code \in {"ok", "failed"} => i \in ran
          /\ slot[i].code \in NotStarted => i \notin ran
      BY <1>1, <1>3 DEF WorkInv
    <3>2. slot[i].code # "OVER_BUDGET"
      BY <1>3 DEF Runs, RunCodes
    <3> QED
      BY <1>8, <2>2, <3>1, <3>2 DEF Honest, NotStarted, Mode
  <2> QED
    BY <2>1, <2>2
<1> QED
  BY <1>10, <1>11, <1>12, <1>13, <1>14, <1>15, <1>16, <1>17, <1>18, <1>19, <1>20 DEF RoundInv

\* The pool waits, goes on or comes to rest.
LEMMA CheckStep ==
    ASSUME RoundInv, Check
    PROVE  RoundInv'
<1>1. /\ TypeInv /\ LogInv /\ PlaceInv /\ PoolInv /\ WorkInv /\ RanInv /\ SeenInv /\ StopInv
      /\ GrantInv /\ ReleaseInv /\ HonestInv
  BY DEF RoundInv
<1>2. RoundFacts
  BY <1>1, RoundType
<1>3. /\ at = "committing" /\ at' \in {"awaiting", "resting", "filling"} /\ pool \in Pools
      /\ \A i \in Calls : ~Ready(i)
      /\ UNCHANGED <<environment, config, ran, scoped, index, body, slot, answer, grant, log, seen>>
  BY <1>1 DEF Check, TypeInv
<1>4. \E b \in BOOLEAN : /\ pool' = [pool EXCEPT !.stop = b] /\ (pool.stop => b)
                         /\ at' = "filling" => ~b
  BY <1>3 DEF Check, Pools
<1>5. /\ pool' \in Pools /\ pool'.start = pool.start /\ pool'.commit = pool.commit
      /\ pool'.end = pool.end /\ pool'.unresolved = pool.unresolved /\ (pool.stop => pool'.stop)
  BY <1>3, <1>4 DEF Pools
<1>6. ASSUME at' = "resting"
      PROVE  /\ \A i \in Calls : body[i] = "off"
             /\ pool.unresolved = 0 => pool.commit = pool.start /\ \A i \in Calls : slot[i] = NoRun
  <2>1. \A i \in Calls : body[i] = "off"
    <3>1. InFlight = {}
      BY <1>6 DEF Check
    <3>2. \A i \in Calls : body[i] \in {"off", "queued", "on", "cleanup", "work"} /\ body[i] # "work"
      BY <1>1, <1>3 DEF TypeInv, PlaceInv, Pooling
    <3> QED
      BY <3>1, <3>2 DEF InFlight
  <2>2. /\ pool.commit \in Nat /\ pool.start \in Nat /\ pool.end \in Nat /\ index \in Nat
        /\ 1 <= index /\ index <= pool.commit /\ pool.commit <= pool.start
        /\ pool.start <= pool.end + 1 /\ pool.end <= Len(round.modes)
        /\ \A i \in pool.commit .. pool.start - 1 : body[i] # "off" \/ slot[i] # NoRun
        /\ \A i \in Calls : body[i] # "off" \/ slot[i] # NoRun => pool.commit <= i /\ i < pool.start
    BY <1>1, <1>2, <1>3 DEF PoolInv, Pooling, Pools, RoundFacts
  <2>3. ASSUME pool.unresolved = 0
        PROVE  pool.commit = pool.start
    <3> SUFFICES ASSUME pool.commit # pool.start
                 PROVE  FALSE
      OBVIOUS
    <3>1. /\ pool.commit \in pool.commit .. pool.start - 1 /\ pool.commit <= pool.end
          /\ pool.commit \in Calls
      BY <1>2, <2>2 DEF RoundFacts
    <3>2. Ready(pool.commit)
      BY <2>1, <2>2, <2>3, <3>1 DEF Ready
    <3> QED
      BY <1>3, <3>1, <3>2
  <2>4. ASSUME pool.unresolved = 0, NEW i \in Calls
        PROVE  slot[i] = NoRun
    <3>1. i \in Nat /\ pool.commit = pool.start
      BY <1>2, <2>3, <2>4 DEF RoundFacts
    <3> QED
      BY <2>2, <3>1
  <2> QED
    BY <2>1, <2>3, <2>4
<1>7. /\ driver' \in Drivers /\ driver'.limit = driver.limit /\ driver'.unseen = driver.unseen
      /\ driver.cancelled => driver'.cancelled
      /\ driver.infra # "none" => driver'.infra # "none"
      /\ driver.latched # "none" => driver'.latched # "none"
  <2>1. /\ driver \in Drivers /\ Latch(driver.latched, Sample) \in Stops /\ token \in BOOLEAN
        /\ driver.latched # "none" => Latch(driver.latched, Sample) # "none"
    <3>1. driver.latched \in Stops /\ driver \in Drivers /\ token \in BOOLEAN
      BY <1>1 DEF TypeInv, Drivers
    <3> QED
      BY <3>1, StopIs
  <2>2. driver' = [driver EXCEPT
                    !.latched = Latch(@, Sample),
                    !.cancelled = @ \/ token,
                    !.infra = IF @ = "none" /\ Sample = "timeout" THEN "timeout" ELSE @]
    BY DEF Check
  <2>3. driver' \in Drivers
    BY <2>1, <2>2 DEF Drivers
  <2> QED
    BY <2>1, <2>2, <2>3 DEF Drivers
<1>8. TypeInv'
  <2>1. at' \in Places
    BY <1>1, <1>2 DEF Check, Places, Pooling
  <2>2. driver' \in Drivers
    BY <1>7
  <2>3. pool' \in Pools
    BY <1>5
  <2> QED
    BY <1>1, <1>2, <2>1, <2>2, <2>3 DEF TypeInv, Check, Calls, config, environment
<1>9. LogInv'
  BY <1>1, <1>3, <1>5, <1>6 DEF LogInv, Alone
<1>10. PlaceInv'
  BY <1>1, <1>2 DEF Check, TypeInv, PlaceInv, InFlight, Calls, config, Alone, Pooling
<1>11. PoolInv'
  <2>1. at \in Pooling /\ at # "resting" /\ at # "starting" /\ at' # "starting" /\ Calls' = Calls /\ round' = round /\ NoRun' = NoRun
    BY <1>3 DEF Pooling, Calls, config
  <2> QED
    BY <1>1, <1>3, <1>5, <1>6, <1>7, <2>1 DEF PoolInv, Mode
<1>12. WorkInv'
  BY <1>1, <1>2 DEF Check, WorkInv, Calls, Mode, config, environment
<1>13. RanInv'
  BY <1>1, <1>2 DEF Check, RanInv, Alone, Pooling
<1>14. SeenInv'
  BY <1>1, <1>2 DEF Check, SeenInv, Calls, config
<1>15. StopInv'
  <2> SUFFICES ASSUME NEW k \in DOMAIN log', StopRow(log'[k])
               PROVE  Stopped(k)'
    BY DEF StopInv
  <2>1. log' = log /\ Stopped(k)
    BY <1>1, <1>3 DEF StopInv
  <2> QED
    BY <1>3, <1>5, <1>7, <2>1 DEF Stopped, Halted, Pooling, Calls, config
<1>16. GrantInv'
  BY <1>1, <1>2 DEF Check, GrantInv, config, Paused
<1>17. ReleaseInv'
  BY <1>1, <1>2 DEF Check, ReleaseInv, config
<1>18. HonestInv'
  BY <1>1, <1>2 DEF Check, HonestInv, Calls, config
<1> QED
  BY <1>8, <1>9, <1>10, <1>11, <1>12, <1>13, <1>14, <1>15, <1>16, <1>17, <1>18 DEF RoundInv

\* A call that never started is announced and answered at once.
LEMMA RestStep ==
    ASSUME RoundInv, Rest
    PROVE  RoundInv'
<1>1. /\ TypeInv /\ LogInv /\ PlaceInv /\ PoolInv /\ WorkInv /\ RanInv /\ SeenInv /\ StopInv
      /\ GrantInv /\ ReleaseInv /\ HonestInv
  BY DEF RoundInv
<1>2. RoundFacts
  BY <1>1, RoundType
<1> DEFINE p == pool.start
           call == Row("tool/call", p, "none")
<1>3. /\ at = "resting" /\ at' = at /\ pool.unresolved = 0 /\ p <= pool.end
      /\ pool' = [pool EXCEPT !.start = @ + 1]
      /\ seen' = IF observerUp THEN Len(log) + 1 ELSE seen
      /\ UNCHANGED <<environment, config, history, index, body, slot, answer, driver, grant>>
  BY DEF Rest
<1>4. /\ pool \in Pools /\ p \in Nat /\ pool.end \in Nat /\ index \in Nat /\ 1 <= index
      /\ index <= p
      /\ pool.end <= Len(round.modes) /\ Len(round.modes) \in Nat /\ p - 1 \in Nat
      /\ (p - 1) + 1 = p
      /\ p \in Calls /\ p \notin ran /\ ran \subseteq Nat /\ index <= pool.commit
      /\ pool.commit <= p
      /\ ~driver.limit /\ \A i \in index .. pool.end : Mode(i) = "parallel"
      /\ \A i \in Calls : body[i] = "off" /\ slot[i] = NoRun
      /\ log \in Seq(RowType) /\ LogOk(log, p - 1, p - 1)
  <2>1. pool \in Pools /\ p \in Nat /\ pool.end \in Nat /\ pool.commit \in Nat
    BY <1>1 DEF TypeInv, Pools
  <2>2. /\ index <= pool.commit /\ pool.commit <= p /\ pool.end <= Len(round.modes)
        /\ ~driver.limit /\ \A i \in index .. pool.end : Mode(i) = "parallel"
        /\ \A i \in Calls : slot[i] = NoRun
    BY <1>1, <1>3 DEF PoolInv, Pooling
  <2>3. /\ \A i \in Calls : body[i] = "off"
        /\ log \in Seq(RowType) /\ LogOk(log, p - 1, p - 1)
    BY <1>1, <1>3 DEF PlaceInv, TypeInv, LogInv
  <2>4. index \in Nat /\ 1 <= index /\ Len(round.modes) \in Nat /\ ran \subseteq Nat
    BY <1>2 DEF RoundFacts
  <2>5. index <= p /\ p - 1 \in Nat /\ (p - 1) + 1 = p /\ p \in 1 .. Len(round.modes)
    BY <1>3, <2>1, <2>2, <2>4
  <2>6. \A i \in ran : i < p
    BY <1>1, <1>3 DEF RanInv, Pooling
  <2>7. p \notin ran /\ p \in Calls
    BY <1>2, <2>5, <2>6 DEF RoundFacts
  <2> QED
    BY <2>1, <2>2, <2>3, <2>4, <2>5, <2>7
<1> HIDE DEF p
<1>5. call \in RowType /\ call.kind = "tool/call"
  BY <1>4, RowIs, CodesAre
<1>6. PICK code \in {"ABORTED_BEFORE_DISPATCH", "OVER_BUDGET"} :
        log' = Append(Append(log, call), Row("tool/result", p, code))
  <2>1. PICK code \in SettledAs(p, Run("ABORTED_BEFORE_DISPATCH", "none", FALSE)) :
          log' = log \o <<call, Row("tool/result", p, code)>>
    BY DEF Rest, p
  <2>2. code \in {"ABORTED_BEFORE_DISPATCH", "OVER_BUDGET"}
    BY <2>1 DEF SettledAs, Run
  <2>3. code \in Codes
    BY <2>2, CodesAre
  <2>4. Row("tool/result", p, code) \in RowType
    BY <1>4, <2>3, RowIs, CodesAre
  <2>5. log' = Append(Append(log, call), Row("tool/result", p, code))
    BY <1>4, <1>5, <2>1, <2>4, TwoRows
  <2> QED
    BY <2>2, <2>5
<1> DEFINE m == Append(log, call)
           result == Row("tool/result", p, code)
<1>7. /\ code \in Codes /\ result \in RowType /\ result.kind = "tool/result"
      /\ result.call = p /\ result.code = code
      /\ ~StopRow(result) /\ ~StopRow(call) /\ log' = Append(m, result)
  <2>1. code \in Codes
    BY <1>6, CodesAre
  <2>2. result \in RowType /\ result.kind = "tool/result" /\ result.call = p /\ result.code = code
    BY <1>4, <2>1, RowIs, CodesAre
  <2>3. ~StopRow(result) /\ ~StopRow(call)
    BY <1>5, <1>6, <2>2 DEF StopRow, StopCodes
  <2> QED
    BY <1>6, <2>1, <2>2, <2>3
<1>8. /\ m \in Seq(RowType) /\ log' \in Seq(RowType) /\ Len(log) \in Nat /\ Len(m) = Len(log) + 1
      /\ Len(log') = Len(log) + 2 /\ LogOk(m, p, p - 1) /\ LogOk(log', p, p)
  <2>1. m \in Seq(RowType) /\ Len(log) \in Nat /\ Len(m) = Len(log) + 1
    BY <1>4, <1>5, LogAppended
  <2>2. log' \in Seq(RowType) /\ Len(log') = Len(m) + 1
    BY <1>7, <2>1, LogAppended
  <2>3. LogOk(m, p, p - 1)
    BY <1>4, LogAnnounced
  <2>4. LogOk(Append(m, Row("tool/result", (p - 1) + 1, code)), p, (p - 1) + 1)
    <3>1. p - 1 < p
      BY <1>4
    <3> QED
      BY <1>7, <2>3, <3>1, LogAnswered
  <2>5. LogOk(log', p, p)
    BY <1>4, <1>7, <2>4
  <2> QED
    BY <2>1, <2>2, <2>3, <2>5
<1>9. /\ pool' \in Pools /\ pool'.start = p + 1 /\ pool'.commit = pool.commit
      /\ pool'.end = pool.end
      /\ pool'.stop = pool.stop /\ pool'.unresolved = 0
  <2>1. pool' = [end |-> pool.end, start |-> p + 1, commit |-> pool.commit, stop |-> pool.stop, unresolved |-> 0]
    BY <1>3, <1>4 DEF Pools, p
  <2>2. p + 1 \in Nat /\ pool.stop \in BOOLEAN /\ pool.end \in Nat /\ pool.commit \in Nat
    BY <1>4 DEF Pools
  <2>3. pool' \in Pools
    BY <2>1, <2>2 DEF Pools
  <2> QED
    BY <2>1, <2>3
<1> HIDE DEF m, result, call
<1>10. /\ \A i \in ran : ResultsOf(log', i) = ResultsOf(log, i)
       /\ \A i : i # p => ResultsOf(log', i) = ResultsOf(log, i)
       /\ ResultsOf(log', p) = {code}
  <2>1. \A i : ResultsOf(m, i) = ResultsOf(log, i)
    BY <1>4, <1>5, ResultsGrow DEF m
  <2>2. \A i : i # p => ResultsOf(log', i) = ResultsOf(m, i)
    BY <1>7, <1>8, ResultsGrow
  <2>3. ResultsOf(log', p) = ResultsOf(m, p) \cup {code}
    BY <1>7, <1>8, ResultsGrow
  <2>4. ResultsOf(log, p) = {}
    <3>1. p \in Nat \ {0} /\ p > p - 1
      BY <1>4
    <3> QED
      BY <1>4, <3>1, LogHas
  <2> QED
    BY <1>4, <2>1, <2>2, <2>3, <2>4
<1>11. TypeInv'
  <2>1. pool' \in Pools
    BY <1>9
  <2>2. log' \in Seq(RowType) /\ Len(log) <= Len(log')
    BY <1>8
  <2>3. seen' \in 0 .. Len(log')
    BY <1>1, <1>3, <1>8 DEF TypeInv
  <2> QED
    BY <1>1, <1>2, <2>1, <2>2, <2>3 DEF TypeInv, Rest, Calls, config, environment, history
<1>12. LogInv'
  <2>1. LogOk(log', pool'.start - 1, pool'.start - 1)
    <3>1. pool'.start - 1 = p
      BY <1>4, <1>9
    <3> QED
      BY <1>8, <3>1
  <2> QED
    BY <1>3, <1>9, <2>1 DEF LogInv, Alone
<1>13. PlaceInv'
  BY <1>3, <1>4, RunIs DEF PlaceInv, Alone, Calls, config
<1>14. PoolInv'
  <2>1. pool'.commit <= pool'.start /\ pool'.start <= pool'.end + 1
    <3>1. pool.commit \in Nat /\ pool.start \in Nat /\ pool.end \in Nat /\ p \in Nat
      BY <1>3, <1>4 DEF Pools
    <3> QED
      BY <1>3, <1>4, <1>9, <3>1
  <2> QED
    BY <1>3, <1>4, <1>9, <2>1 DEF PoolInv, Calls, Mode, config
<1>15. WorkInv'
  BY <1>1, <1>3 DEF WorkInv, Calls, Mode, config, history, environment
<1>16. RanInv'
  <2>1. \A i \in ran : i < p + 1
    BY <1>1, <1>3, <1>4 DEF RanInv, Pooling, p
  <2> QED
    BY <1>3, <1>9, <2>1 DEF RanInv, Alone, Pooling, history
<1>17. SeenInv'
  BY <1>3, <1>4, RunIs DEF SeenInv, Calls, config
<1>18. StopInv'
  <2> SUFFICES ASSUME NEW k \in DOMAIN log', StopRow(log'[k])
               PROVE  Stopped(k)'
    BY DEF StopInv
  <2>1. /\ k \in DOMAIN m /\ log'[k] = m[k]
        /\ \A i : Before(m, k, i) => Before(log', k, i)
    BY <1>7, <1>8, OldStops
  <2>2. /\ k \in DOMAIN log /\ m[k] = log[k]
        /\ \A i : Before(log, k, i) => Before(m, k, i)
    BY <1>4, <1>5, <1>7, <2>1, OldStops DEF m
  <2>3. Stopped(k)
    BY <1>1, <2>1, <2>2 DEF StopInv
  <2> QED
    BY <1>3, <1>9, <2>1, <2>2, <2>3 DEF Stopped, Halted, Calls, config, history
<1>19. GrantInv'
  <2>1. EarnedBy(log, ran, scoped, round.modes, index)
          => EarnedBy(log', ran, scoped, round.modes, index)
    BY <1>4, <1>10, EarnedStill
  <2> QED
    BY <1>1, <1>3, <2>1 DEF GrantInv, Paused, config, history
<1>20. ReleaseInv'
  BY <1>1, <1>2 DEF Rest, ReleaseInv, config
<1>21. HonestInv'
  <2> SUFFICES ASSUME NEW i \in Calls
               PROVE  Honest(log', ran, round.modes, i)
    BY <1>3 DEF HonestInv, Calls, config, history
  <2>1. CASE i # p
    BY <1>1, <1>10, <2>1 DEF HonestInv, Honest
  <2>2. CASE i = p
    BY <1>4, <1>6, <1>10, <2>2 DEF Honest
  <2> QED
    BY <2>1, <2>2
<1> QED
  BY <1>11, <1>12, <1>13, <1>14, <1>15, <1>16, <1>17, <1>18, <1>19, <1>20, <1>21 DEF RoundInv

\* The group is over: the next call follows, or the claims behind a lost outcome are
\* given back.
LEMMA EndPoolStep ==
    ASSUME RoundInv, EndPool
    PROVE  RoundInv'
<1>1. /\ TypeInv /\ LogInv /\ PlaceInv /\ PoolInv /\ WorkInv /\ RanInv /\ SeenInv /\ StopInv
      /\ GrantInv /\ ReleaseInv /\ HonestInv
  BY DEF RoundInv
<1>2. RoundFacts
  BY <1>1, RoundType
<1>3. /\ at = "resting" /\ pool' = NoPool
      /\ \A i \in Calls : body[i] = "off" /\ slot[i].code # "prepared"
      /\ UNCHANGED <<environment, round, history, body, slot, answer, driver, grant, log, seen>>
  BY <1>1 DEF EndPool, PlaceInv, Pooling
<1>4. \/ /\ pool.unresolved # 0 /\ released' = ClaimsFrom(pool.unresolved) /\ at' = "done" /\ index' = index
      \/ /\ pool.unresolved = 0 /\ pool.start > pool.end /\ index' = pool.end + 1 /\ at' = "next"
         /\ released' = released
  BY DEF EndPool
<1>5. /\ pool \in Pools /\ pool.end \in Nat /\ pool.start \in Nat /\ pool.commit \in Nat
      /\ pool.unresolved \in Nat
      /\ index \in Nat /\ 1 <= index /\ index <= pool.commit /\ pool.commit <= pool.start
      /\ pool.start <= pool.end + 1 /\ pool.end <= Len(round.modes) /\ Len(round.modes) \in Nat
      /\ ~driver.limit /\ \A i \in index .. pool.end : Mode(i) = "parallel"
  <2>1. pool \in Pools
    BY <1>1 DEF TypeInv
  <2> QED
    BY <1>1, <1>2, <1>3, <2>1 DEF PoolInv, Pooling, Pools, RoundFacts
<1>6. ASSUME pool.unresolved = 0, pool.start > pool.end
      PROVE  /\ pool.start = pool.end + 1 /\ LogOk(log, pool.end, pool.end)
             /\ \A i \in Calls : slot[i] = NoRun
  <2>1. pool.start = pool.end + 1 /\ pool.start - 1 = pool.end
    BY <1>5, <1>6
  <2>2. LogOk(log, pool.start - 1, pool.start - 1) /\ \A i \in Calls : slot[i] = NoRun
    BY <1>1, <1>3, <1>6 DEF LogInv, PoolInv, Pooling
  <2> QED
    BY <2>1, <2>2
<1>7. ASSUME pool.unresolved # 0
      PROVE  /\ LogOk(log, pool.start - 1, pool.unresolved - 1)
             /\ pool.start - 1 \in 0 .. Len(round.modes)
             /\ pool.unresolved - 1 \in 0 .. Len(round.modes)
             /\ pool.unresolved <= pool.start - 1 /\ ~round.durable /\ driver.infra # "none"
  <2>1. /\ LogOk(log, pool.start - 1, pool.unresolved - 1) /\ pool.unresolved = pool.commit - 1
        /\ pool.unresolved >= index /\ ~round.durable /\ driver.infra # "none"
    BY <1>1, <1>3, <1>7 DEF LogInv, PoolInv, Pooling
  <2>2. /\ pool.unresolved \in Nat /\ pool.unresolved >= 1 /\ pool.unresolved <= pool.start - 1
        /\ pool.start - 1 \in Nat /\ pool.start - 1 <= Len(round.modes)
    <3>1. pool.unresolved = pool.commit - 1 /\ pool.unresolved # 0
      BY <1>7, <2>1
    <3> QED
      BY <1>5, <3>1
  <2>3. pool.start - 1 \in 0 .. Len(round.modes) /\ pool.unresolved - 1 \in 0 .. Len(round.modes)
    <3>1. pool.start - 1 \in 0 .. Len(round.modes)
      BY <2>2
    <3>2. pool.unresolved - 1 \in Nat /\ pool.unresolved - 1 <= Len(round.modes)
      BY <1>5, <2>2
    <3> QED
      BY <3>1, <3>2
  <2> QED
    BY <2>1, <2>2, <2>3
<1>8. TypeInv'
  <2>1. at' \in Places
    BY <1>1, <1>2 DEF EndPool, Places
  <2>2. pool' \in Pools
    BY <1>3 DEF NoPool, Pools
  <2>3. index' \in 1 .. Len(round.modes) + 1
    BY <1>1, <1>4, <1>5 DEF TypeInv
  <2> QED
    BY <1>1, <1>2, <2>1, <2>2, <2>3 DEF TypeInv, EndPool, Calls, environment, history
<1>9. LogInv'
  <2>1. CASE at' = "next"
    <3>1. LogOk(log', index' - 1, index' - 1)
      <4>1. index' - 1 = pool.end
        BY <1>4, <1>5, <2>1
      <4> QED
        BY <1>3, <1>4, <1>6, <2>1, <4>1
    <3> QED
      BY <2>1, <3>1 DEF LogInv, Alone
  <2>2. CASE at' = "done"
    BY <1>3, <1>4, <1>7, <2>2 DEF LogInv, Alone
  <2> QED
    BY <1>4, <2>1, <2>2
<1>10. PlaceInv'
  BY <1>3, <1>4, <1>6 DEF PlaceInv, Alone, Calls
<1>11. PoolInv'
  BY <1>4 DEF PoolInv, Pooling
<1>12. WorkInv'
  BY <1>1, <1>2 DEF EndPool, WorkInv, Calls, Mode, environment, history
<1>13. RanInv'
  <2>1. CASE at' = "next"
    <3>1. \A i \in ran : i < pool.start
      BY <1>1, <1>3 DEF RanInv, Pooling
    <3> QED
      BY <1>3, <1>4, <1>6, <2>1, <3>1 DEF RanInv, Alone, Pooling, history
  <2> QED
    BY <1>4, <2>1 DEF RanInv, Alone, Pooling
<1>14. SeenInv'
  BY <1>1, <1>2 DEF EndPool, SeenInv, Calls
<1>15. StopInv'
  <2> SUFFICES ASSUME NEW k \in DOMAIN log, StopRow(log[k])
               PROVE  Stopped(k)'
    BY <1>3 DEF StopInv
  <2>1. Stopped(k)
    BY <1>1 DEF StopInv
  <2> QED
    BY <1>3, <1>4, <2>1 DEF Stopped, Halted, Calls, history, Pooling
<1>16. GrantInv'
  <2>1. CASE at' = "next"
    <3>1. grant.held => round.policy = "ask" /\ EarnedBy(log, ran, scoped, round.modes, index)
      BY <1>1, <1>3 DEF GrantInv
    <3>2. ~grant.pending
      BY <1>1, <1>3 DEF GrantInv
    <3>3. ASSUME EarnedBy(log, ran, scoped, round.modes, index)
          PROVE  EarnedBy(log, ran, scoped, round.modes, pool.end + 1)
      <4>1. pool.end + 1 \in Nat /\ index <= pool.end + 1 /\ ran \subseteq Nat
        BY <1>2, <1>5 DEF RoundFacts
      <4>2. \A k \in ran : index <= k /\ k < pool.end + 1 /\ round.modes[k] = "action"
              => ResultsOf(log, k) = {"ok"}
        <5> SUFFICES ASSUME NEW k \in ran, index <= k, k < pool.end + 1
                     PROVE  round.modes[k] # "action"
          OBVIOUS
        <5>1. k \in index .. pool.end
          BY <1>5, <4>1
        <5> QED
          BY <1>5, <5>1 DEF Mode
      <4>3. /\ ran \subseteq ran /\ scoped \subseteq scoped
            /\ \A k \in ran : k < index => k \in ran /\ ResultsOf(log, k) = ResultsOf(log, k)
        OBVIOUS
      <4> QED
        BY <1>5, <3>3, <4>1, <4>2, <4>3, EarnedOn
    <3> QED
      BY <1>3, <1>4, <2>1, <3>1, <3>2, <3>3 DEF GrantInv, Paused, history
  <2> QED
    BY <1>4, <2>1 DEF GrantInv
<1>17. ReleaseInv'
  <2>1. CASE at' = "next"
    BY <1>1, <1>3, <1>4, <2>1 DEF ReleaseInv
  <2>2. CASE at' = "done"
    <3>1. /\ released' = ClaimsFrom(pool.unresolved) /\ pool.unresolved # 0
      BY <1>4, <2>2
    <3>2. /\ LogOk(log, pool.start - 1, pool.unresolved - 1)
          /\ pool.start - 1 \in 0 .. Len(round.modes)
          /\ pool.unresolved - 1 \in 0 .. Len(round.modes)
          /\ pool.unresolved <= pool.start - 1 /\ ~round.durable /\ driver.infra # "none"
      BY <1>7, <3>1
    <3>3. ASSUME NEW i \in Calls
          PROVE  /\ <<"tool/call", i>> \in released' <=> i > pool.start - 1
                 /\ <<"tool/result", i>> \in released' <=> i > pool.unresolved - 1
      <4>1. /\ i \in Nat \ {0} /\ i <= Len(round.modes)
            /\ Rows("tool/call", i) # {} <=> i <= pool.start - 1
        BY <1>2, <3>2, LogHas DEF RoundFacts
      <4>2. <<"tool/call", i>> \in ClaimsFrom(pool.unresolved) <=>
              i \in pool.unresolved .. Len(round.modes) /\ Rows("tool/call", i) = {}
        BY DEF ClaimsFrom
      <4>3. <<"tool/result", i>> \in ClaimsFrom(pool.unresolved) <=>
              i \in pool.unresolved .. Len(round.modes)
        BY DEF ClaimsFrom
      <4> QED
        BY <1>5, <3>1, <3>2, <4>1, <4>2, <4>3
    <3> QED
      BY <1>3, <2>2, <3>2, <3>3 DEF ReleaseInv, Calls
  <2> QED
    BY <1>4, <2>1, <2>2
<1>18. HonestInv'
  BY <1>1, <1>2 DEF EndPool, HonestInv, Calls, history
<1> QED
  BY <1>8, <1>9, <1>10, <1>11, <1>12, <1>13, <1>14, <1>15, <1>16, <1>17, <1>18 DEF RoundInv

\* Every call was answered.
LEMMA EndRoundStep ==
    ASSUME RoundInv, EndRound
    PROVE  RoundInv'
<1>1. /\ TypeInv /\ LogInv /\ PlaceInv /\ PoolInv /\ WorkInv /\ RanInv /\ SeenInv /\ StopInv
      /\ GrantInv /\ ReleaseInv /\ HonestInv
  BY DEF RoundInv
<1>2. RoundFacts
  BY <1>1, RoundType
<1>3. /\ at = "next" /\ at' = "done" /\ index = Len(round.modes) + 1
      /\ LogOk(log, index - 1, index - 1)
      /\ \A i \in Calls : body[i] = "off" /\ slot[i] = NoRun
      /\ UNCHANGED <<environment, config, history, index, pool, body, slot, answer, driver,
                     grant, log, seen>>
  <2>1. /\ at = "next" /\ at' = "done" /\ index \notin Calls
        /\ UNCHANGED <<environment, config, history, index, pool, body, slot, answer,
                       driver, grant, log, seen>>
    BY DEF EndRound
  <2>2. index = Len(round.modes) + 1
    BY <1>2, <2>1 DEF RoundFacts
  <2> QED
    BY <1>1, <2>1, <2>2 DEF LogInv, PlaceInv
<1>4. LogOk(log, Len(round.modes), Len(round.modes)) /\ Len(round.modes) \in 0 .. Len(round.modes)
  <2>1. Len(round.modes) \in Nat /\ index - 1 = Len(round.modes)
    BY <1>2, <1>3 DEF RoundFacts
  <2> QED
    BY <1>3, <2>1
<1>5. TypeInv'
  <2>1. at' \in Places
    BY <1>1, <1>2 DEF EndRound, Places
  <2> QED
    BY <1>1, <1>2, <2>1 DEF TypeInv, EndRound, Calls, config, environment, history
<1>6. LogInv'
  BY <1>3, <1>4 DEF LogInv, Alone, config
<1>7. PlaceInv'
  BY <1>1, <1>2 DEF EndRound, PlaceInv, Calls, config, Run, NoRun, Alone
<1>8. PoolInv'
  BY <1>1, <1>2 DEF EndRound, PoolInv, Pooling
<1>9. WorkInv'
  BY <1>1, <1>2 DEF EndRound, WorkInv, Calls, Mode, config, environment, history
<1>10. RanInv'
  BY <1>1, <1>2 DEF EndRound, RanInv, Alone, Pooling
<1>11. SeenInv'
  BY <1>1, <1>2 DEF EndRound, SeenInv, Calls, config
<1>12. StopInv'
  BY <1>1, <1>2 DEF EndRound, StopInv, Calls, config, history, Pooling, Halted, Stopped
<1>13. GrantInv'
  BY <1>1, <1>2 DEF EndRound, GrantInv
<1>14. ReleaseInv'
  <2>1. released = {}
    BY <1>1, <1>3 DEF ReleaseInv
  <2>2. \A i \in Calls : ~(i > Len(round.modes))
    BY <1>2 DEF RoundFacts
  <2> QED
    BY <1>3, <1>4, <2>1, <2>2 DEF ReleaseInv, Calls, config
<1>15. HonestInv'
  BY <1>1, <1>2 DEF EndRound, HonestInv, Calls, config, history
<1> QED
  BY <1>5, <1>6, <1>7, <1>8, <1>9, <1>10, <1>11, <1>12, <1>13, <1>14, <1>15 DEF RoundInv

\* The caller cancels.
LEMMA CallerCancelsStep ==
    ASSUME RoundInv, CallerCancels
    PROVE  RoundInv'
<1>1. /\ TypeInv /\ LogInv /\ PlaceInv /\ PoolInv /\ WorkInv /\ RanInv /\ SeenInv /\ StopInv
      /\ GrantInv /\ ReleaseInv /\ HonestInv
  BY DEF RoundInv
<1>2. RoundFacts
  BY <1>1, RoundType
<1>3. TypeInv'
  BY <1>1, <1>2 DEF CallerCancels, TypeInv, Calls, config, history
<1>4. LogInv'
  BY <1>1, <1>2 DEF CallerCancels, LogInv
<1>5. PlaceInv'
  BY <1>1, <1>2 DEF CallerCancels, PlaceInv, Calls, Mode, config
<1>6. PoolInv'
  BY <1>1, <1>2 DEF CallerCancels, PoolInv, Calls, Mode, config
<1>7. WorkInv'
  BY <1>1, <1>2 DEF CallerCancels, WorkInv, Calls, Mode, config, history
<1>8. RanInv'
  BY <1>1, <1>2 DEF CallerCancels, RanInv, history
<1>9. SeenInv'
  BY <1>1, <1>2 DEF CallerCancels, SeenInv, Calls, config
<1>10. StopInv'
  BY <1>1, <1>2 DEF CallerCancels, StopInv, Calls, config, history, Halted, Stopped
<1>11. GrantInv'
  BY <1>1, <1>2 DEF CallerCancels, GrantInv, Mode, config, history
<1>12. ReleaseInv'
  BY <1>1, <1>2 DEF CallerCancels, ReleaseInv, config
<1>13. HonestInv'
  BY <1>1, <1>2 DEF CallerCancels, HonestInv, Calls, config, history
<1> QED
  BY <1>3, <1>4, <1>5, <1>6, <1>7, <1>8, <1>9, <1>10, <1>11, <1>12, <1>13 DEF RoundInv

\* The turn's time is up.
LEMMA DeadlinePassesStep ==
    ASSUME RoundInv, DeadlinePasses
    PROVE  RoundInv'
<1>1. /\ TypeInv /\ LogInv /\ PlaceInv /\ PoolInv /\ WorkInv /\ RanInv /\ SeenInv /\ StopInv
      /\ GrantInv /\ ReleaseInv /\ HonestInv
  BY DEF RoundInv
<1>2. RoundFacts
  BY <1>1, RoundType
<1>3. TypeInv'
  BY <1>1, <1>2 DEF DeadlinePasses, TypeInv, Calls, config, history
<1>4. LogInv'
  BY <1>1, <1>2 DEF DeadlinePasses, LogInv
<1>5. PlaceInv'
  BY <1>1, <1>2 DEF DeadlinePasses, PlaceInv, Calls, Mode, config
<1>6. PoolInv'
  BY <1>1, <1>2 DEF DeadlinePasses, PoolInv, Calls, Mode, config
<1>7. WorkInv'
  BY <1>1, <1>2 DEF DeadlinePasses, WorkInv, Calls, Mode, config, history
<1>8. RanInv'
  BY <1>1, <1>2 DEF DeadlinePasses, RanInv, history
<1>9. SeenInv'
  BY <1>1, <1>2 DEF DeadlinePasses, SeenInv, Calls, config
<1>10. StopInv'
  BY <1>1, <1>2 DEF DeadlinePasses, StopInv, Calls, config, history, Halted, Stopped
<1>11. GrantInv'
  BY <1>1, <1>2 DEF DeadlinePasses, GrantInv, Mode, config, history
<1>12. ReleaseInv'
  BY <1>1, <1>2 DEF DeadlinePasses, ReleaseInv, config
<1>13. HonestInv'
  BY <1>1, <1>2 DEF DeadlinePasses, HonestInv, Calls, config, history
<1> QED
  BY <1>3, <1>4, <1>5, <1>6, <1>7, <1>8, <1>9, <1>10, <1>11, <1>12, <1>13 DEF RoundInv

\* Nobody watches the session any more.
LEMMA ObserverLeavesStep ==
    ASSUME RoundInv, ObserverLeaves
    PROVE  RoundInv'
<1>1. /\ TypeInv /\ LogInv /\ PlaceInv /\ PoolInv /\ WorkInv /\ RanInv /\ SeenInv /\ StopInv
      /\ GrantInv /\ ReleaseInv /\ HonestInv
  BY DEF RoundInv
<1>2. RoundFacts
  BY <1>1, RoundType
<1>3. TypeInv'
  BY <1>1, <1>2 DEF ObserverLeaves, TypeInv, Calls, config, history
<1>4. LogInv'
  BY <1>1, <1>2 DEF ObserverLeaves, LogInv
<1>5. PlaceInv'
  BY <1>1, <1>2 DEF ObserverLeaves, PlaceInv, Calls, Mode, config
<1>6. PoolInv'
  BY <1>1, <1>2 DEF ObserverLeaves, PoolInv, Calls, Mode, config
<1>7. WorkInv'
  BY <1>1, <1>2 DEF ObserverLeaves, WorkInv, Calls, Mode, config, history
<1>8. RanInv'
  BY <1>1, <1>2 DEF ObserverLeaves, RanInv, history
<1>9. SeenInv'
  BY <1>1, <1>2 DEF ObserverLeaves, SeenInv, Calls, config
<1>10. StopInv'
  BY <1>1, <1>2 DEF ObserverLeaves, StopInv, Calls, config, history, Halted, Stopped
<1>11. GrantInv'
  BY <1>1, <1>2 DEF ObserverLeaves, GrantInv, Mode, config, history
<1>12. ReleaseInv'
  BY <1>1, <1>2 DEF ObserverLeaves, ReleaseInv, config
<1>13. HonestInv'
  BY <1>1, <1>2 DEF ObserverLeaves, HonestInv, Calls, config, history
<1> QED
  BY <1>3, <1>4, <1>5, <1>6, <1>7, <1>8, <1>9, <1>10, <1>11, <1>12, <1>13 DEF RoundInv

\* A round begins with an empty log, nothing under way and no grant.
LEMMA RoundInit ==
    ASSUME Init
    PROVE  RoundInv
<1>1. /\ round \in Rounds /\ at = "next" /\ index = 1 /\ pool = NoPool
      /\ body = [i \in Calls |-> "off"] /\ slot = [i \in Calls |-> NoRun]
      /\ answer = NoAnswer /\ token = FALSE /\ deadline = FALSE /\ observerUp \in BOOLEAN
      /\ driver = [limit |-> FALSE, unseen |-> ~observerUp, cancelled |-> FALSE,
                   infra |-> "none", latched |-> "none"]
      /\ grant = [held |-> FALSE, candidate |-> FALSE, pending |-> FALSE]
      /\ log = <<>> /\ seen = 0 /\ released = {} /\ ran = {} /\ scoped = {}
  BY DEF Init
<1>2. Len(round.modes) \in Nat /\ Calls = 1 .. Len(round.modes)
  <2>1. round \in [modes : Seq(Modes), durable : BOOLEAN, policy : Policies]
    BY <1>1, RoundAssumption
  <2> QED
    BY <2>1 DEF Calls
<1>3. log \in Seq(RowType) /\ Len(log) = 0 /\ DOMAIN log = {}
  BY <1>1
<1>4. TypeInv
  <2>1. /\ at \in Places /\ index \in 1 .. Len(round.modes) + 1
        /\ body \in [Calls -> {"off", "queued", "on", "cleanup", "work"}]
        /\ seen \in 0 .. Len(log) /\ ran \subseteq Calls
    BY <1>1, <1>2, <1>3 DEF Places
  <2>2. slot \in [Calls -> Runs]
    BY <1>1, RunIs
  <2>3. answer \in [outcome : Outcomes, stop : Stops]
    BY <1>1 DEF NoAnswer, Outcomes, Stops
  <2>4. pool \in Pools
    BY <1>1 DEF NoPool, Pools
  <2>5. driver \in Drivers
    BY <1>1 DEF Drivers, Stops
  <2>6. grant \in Grants
    BY <1>1 DEF Grants
  <2> QED
    BY <1>1, <1>3, <2>1, <2>2, <2>3, <2>4, <2>5, <2>6 DEF TypeInv
<1>5. \A i \in Calls : body[i] = "off" /\ slot[i] = NoRun /\ slot[i].code = "none"
  BY <1>1, RunIs
<1>6. LogInv
  <2>1. LogOk(log, index - 1, index - 1)
    BY <1>1, <1>3 DEF LogOk
  <2> QED
    BY <1>1, <2>1 DEF LogInv, Alone
<1>7. PlaceInv /\ PoolInv /\ RanInv /\ StopInv /\ ReleaseInv
  BY <1>1, <1>3, <1>5 DEF PlaceInv, PoolInv, RanInv, StopInv, ReleaseInv, Alone, Pooling
<1>8. WorkInv /\ SeenInv
  BY <1>1, <1>5 DEF WorkInv, SeenInv, NotStarted
<1>9. GrantInv
  BY <1>1 DEF GrantInv, Paused
<1>10. HonestInv
  <2>1. \A i : ResultsOf(log, i) = {}
    BY <1>3 DEF ResultsOf
  <2> QED
    BY <1>1, <2>1 DEF HonestInv, Honest
<1> QED
  BY <1>4, <1>6, <1>7, <1>8, <1>9, <1>10 DEF RoundInv

\* Every step keeps the invariant.
LEMMA RoundStep ==
    ASSUME RoundInv, [Next]_vars
    PROVE  RoundInv'
<1>1. CASE CallerCancels \/ DeadlinePasses \/ ObserverLeaves \/ StorageFails
  BY <1>1, CallerCancelsStep, DeadlinePassesStep, ObserverLeavesStep, StorageFailsStep
<1>2. CASE WriteIntent \/ Dispatch \/ WriteState \/ Settle \/ SettleUnknown
  BY <1>2, WriteIntentStep, DispatchStep, WriteStateStep, SettleStep, SettleUnknownStep
<1>3. CASE Refuse \/ Proceed \/ Ask \/ Decide \/ Act
  BY <1>3, RefuseStep, ProceedStep, AskStep, DecideStep, ActStep
<1>4. CASE StartPool \/ Fill \/ DispatchInPool \/ Check \/ Rest \/ EndPool \/ EndRound
  BY <1>4, StartPoolStep, FillStep, DispatchInPoolStep, CheckStep, RestStep, EndPoolStep,
     EndRoundStep
<1>5. CASE \E i \in Calls : CommitInPool(i)
  BY <1>5, CommitInPoolStep
<1>6. CASE StopNoticed \/ SetUp \/ Answer \/ WorkTakesEffect \/ WorkEnds
  BY <1>6, StopNoticedStep, SetUpStep, AnswerStep, WorkTakesEffectStep, WorkEndsStep
<1>7. CASE \E i \in Calls : Bodies(i)
  <2>1. PICK i \in Calls : Bodies(i)
    BY <1>7
  <2> QED
    BY <2>1, BodyRefusedStep, BodyStartsStep, BodyEndsStep, BodyInterruptedStep, CleanupEndsStep
      DEF Bodies
<1>8. CASE UNCHANGED vars
  <2>1. /\ round' = round /\ token' = token /\ deadline' = deadline /\ observerUp' = observerUp
        /\ at' = at /\ index' = index /\ pool' = pool /\ body' = body /\ slot' = slot
        /\ answer' = answer /\ driver' = driver /\ grant' = grant /\ log' = log /\ seen' = seen
        /\ released' = released /\ ran' = ran /\ scoped' = scoped
    BY <1>8 DEF vars
  <2>2. Calls' = Calls /\ NoRun' = NoRun /\ \A i : Mode(i)' = Mode(i)
    BY <2>1 DEF Calls, NoRun, Run, Mode
  <2>3. TypeInv' /\ LogInv' /\ PlaceInv' /\ PoolInv' /\ WorkInv'
    BY <2>1, <2>2 DEF RoundInv, TypeInv, LogInv, PlaceInv, PoolInv, WorkInv
  <2>4. RanInv' /\ SeenInv' /\ StopInv' /\ GrantInv' /\ ReleaseInv' /\ HonestInv'
    BY <2>1, <2>2
      DEF RoundInv, RanInv, SeenInv, StopInv, Stopped, Halted, GrantInv, ReleaseInv, HonestInv
  <2> QED
    BY <2>3, <2>4 DEF RoundInv
<1> QED
  BY <1>1, <1>2, <1>3, <1>4, <1>5, <1>6, <1>7, <1>8 DEF Next, Drive

\* The invariant of the round: log, bodies, slots, pool, grant and flags agree.
THEOREM RoundIsSound == Spec => []RoundInv
<1>1. Init => RoundInv
  BY RoundInit
<1>2. RoundInv /\ [Next]_vars => RoundInv'
  BY RoundStep
<1> QED
  BY <1>1, <1>2, PTL DEF Spec

-----------------------------------------------------------------------------
(* What follows from it.                                                   *)

\* The log is in order wherever the driving future stands, after a storage error too.
LEMMA OrderOf ==
    ASSUME RoundInv
    PROVE  RowsInOrder
<1>1. RoundFacts /\ TypeInv /\ LogInv /\ PoolInv
  BY RoundType DEF RoundInv
<1>2. \E a, r : LogOk(log, a, r)
  BY <1>1 DEF LogInv, TypeInv, Places, Pooling
<1> QED
  BY <1>2 DEF LogOk, RowsInOrder

\* Every call is announced and answered in the order of the message, each once, and
\* when the round is over every claimed row was written or given back.
THEOREM CallsAreAnswered == Spec => []EveryCallAnswered
<1>1. ASSUME RoundInv
      PROVE  EveryCallAnswered
  <2>1. TypeInv /\ ReleaseInv /\ RoundFacts
    BY <1>1, RoundType DEF RoundInv
  <2>2. TypeOK /\ RowsInOrder
    BY <1>1, <2>1, TypesAreOK, OrderOf
  <2>3. ASSUME at = "done"
        PROVE  /\ round.durable => released = {}
               /\ \A i \in Calls, kind \in {"tool/call", "tool/result"} :
                    <<kind, i>> \in released <=> Rows(kind, i) = {}
    <3>1. PICK a, r \in 0 .. Len(round.modes) :
            /\ LogOk(log, a, r)
            /\ \A i \in Calls : /\ <<"tool/call", i>> \in released <=> i > a
                                /\ <<"tool/result", i>> \in released <=> i > r
      BY <2>1, <2>3 DEF ReleaseInv
    <3>2. ASSUME NEW i \in Calls
          PROVE  /\ <<"tool/call", i>> \in released <=> Rows("tool/call", i) = {}
                 /\ <<"tool/result", i>> \in released <=> Rows("tool/result", i) = {}
      <4>1. i \in Nat \ {0} /\ a \in Nat /\ r \in Nat
        BY <2>1, <3>1 DEF RoundFacts
      <4>2. (Rows("tool/call", i) # {} <=> i <= a) /\ (Rows("tool/result", i) # {} <=> i <= r)
        BY <3>1, <4>1, LogHas
      <4> QED
        BY <3>1, <4>1, <4>2
    <3> QED
      BY <2>1, <2>3, <3>2 DEF ReleaseInv
  <2> QED
    BY <2>2, <2>3 DEF EveryCallAnswered, EveryClaimUsed
<1> QED
  BY <1>1, RoundIsSound, PTL

\* The results of the log, as the invariant names them.
LEMMA ResultsAre ==
    \A i : Results(i) = ResultsOf(log, i)
BY DEF Results, Rows, ResultsOf

\* No result denies work that was started, is replaced by the short one when it must
\* not, or reports work that was not done.
THEOREM ResultsAreHonest == Spec => []ResultIsHonest
<1>1. ASSUME RoundInv
      PROVE  ResultIsHonest
  BY <1>1, ResultsAre DEF RoundInv, HonestInv, Honest, ResultIsHonest, Quick, Mode
<1> QED
  BY <1>1, RoundIsSound, PTL

\* Nothing announced behind a result that ends the round is started, and the turn
\* learns of every stop and every lost outcome.
THEOREM StopsAreReported == Spec => []StopIsReported
<1>1. ASSUME RoundInv
      PROVE  StopIsReported
  <2>1. TypeInv /\ StopInv /\ PlaceInv /\ ReleaseInv
    BY <1>1 DEF RoundInv
  <2>2. StoppedRoundStops
    <3> SUFFICES ASSUME NEW k \in DOMAIN log, NEW j \in ran, StopRow(log[k])
                 PROVE  \E h \in Rows("tool/call", j) : h < k
      BY DEF StoppedRoundStops, StopRow
    <3>1. Before(log, k, j)
      BY <2>1 DEF StopInv, Stopped
    <3>2. PICK h \in 1 .. k - 1 : log[h].kind = "tool/call" /\ log[h].call = j
      BY <3>1 DEF Before
    <3>3. DOMAIN log = 1 .. Len(log) /\ Len(log) \in Nat
      BY <2>1 DEF TypeInv
    <3>4. h \in DOMAIN log /\ h < k
      BY <3>2, <3>3
    <3> QED
      BY <3>2, <3>4 DEF Rows
  <2>3. ASSUME at = "done", NEW i \in Calls
        PROVE  /\ body[i] = "off"
               /\ Results(i) \cap StopCodes # {} => Outcome # "proceed" /\ driver.latched # "none"
               /\ \/ Results(i) \cap {"unknown", "SESSION_LIMIT"} # {}
                  \/ <<"tool/result", i>> \in released
                  => Outcome \notin {"proceed", "cancelled"}
    <3>1. body[i] = "off"
      BY <2>1, <2>3 DEF PlaceInv
    <3>2. Halted => Outcome # "proceed"
      <4>1. driver.infra \in {"none", "timeout", "executor"}
        BY <2>1 DEF TypeInv, Drivers
      <4> QED
        BY <4>1 DEF Halted, Outcome
    <3>3. driver.limit \/ driver.unseen \/ driver.infra # "none"
            => Outcome \notin {"proceed", "cancelled"}
      <4>1. driver.infra \in {"none", "timeout", "executor"}
        BY <2>1 DEF TypeInv, Drivers
      <4> QED
        BY <4>1 DEF Outcome
    <3>4. ASSUME Results(i) \cap StopCodes # {}
          PROVE  Outcome # "proceed" /\ driver.latched # "none"
      <4>1. PICK k \in DOMAIN log : log[k].kind = "tool/result" /\ log[k].code \in StopCodes
        BY <3>4 DEF Results, Rows
      <4>2. Stopped(k)
        BY <2>1, <4>1 DEF StopInv, StopRow
      <4> QED
        BY <2>3, <3>2, <4>1, <4>2 DEF Stopped
    <3>5. ASSUME Results(i) \cap {"unknown", "SESSION_LIMIT"} # {}
          PROVE  Outcome \notin {"proceed", "cancelled"}
      <4>1. PICK k \in DOMAIN log : log[k].kind = "tool/result" /\ log[k].code \in {"unknown", "SESSION_LIMIT"}
        BY <3>5 DEF Results, Rows
      <4>2. Stopped(k)
        BY <2>1, <4>1 DEF StopInv, StopRow
      <4>3. log[k].code \notin StopCodes
        BY <4>1 DEF StopCodes
      <4> QED
        BY <2>3, <3>3, <4>2, <4>3 DEF Stopped
    <3>6. ASSUME <<"tool/result", i>> \in released
          PROVE  Outcome \notin {"proceed", "cancelled"}
      BY <2>1, <2>3, <3>3, <3>6 DEF ReleaseInv
    <3> QED
      BY <3>1, <3>4, <3>5, <3>6
  <2> QED
    BY <2>2, <2>3 DEF StopIsReported, TurnLearns
<1> QED
  BY <1>1, RoundIsSound, PTL

\* Work starts only behind an announcement that was seen, and files change or commands
\* run only by the policy, by a stored and seen yes, or on a grant that was earned.
THEOREM StartsAreAllowed == Spec => StartsAllowed
<1> DEFINE Ok(i) == /\ Rows("tool/call", i) \cap 1..seen # {}
                    /\ Mode(i) \in {"mutation", "action"} =>
                         \/ round.policy = "allow"
                         \/ /\ round.policy = "ask"
                            /\ \/ \E k \in 1..seen : log[k] = Row("approval/decided", i, "AllowedOnce")
                               \/ Mode(i) = "action" /\ Earned(i)
           Good == \A i \in ran' \ ran : Ok(i)
<1>1. ASSUME RoundInv, [Next]_vars
      PROVE  [Good]_vars
  <2>1. /\ TypeInv /\ PlaceInv /\ WorkInv /\ SeenInv /\ GrantInv /\ RoundFacts
        /\ seen \in 0 .. Len(log) /\ DOMAIN log = 1 .. Len(log)
    BY <1>1, RoundType DEF RoundInv, TypeInv
  <2>2. ASSUME NEW i \in Calls, SeenCall(log, seen, i)
        PROVE  Rows("tool/call", i) \cap 1..seen # {}
    <3>1. PICK k \in 1 .. seen : log[k] = Row("tool/call", i, "none")
      BY <2>2 DEF SeenCall
    <3>2. k \in DOMAIN log
      BY <2>1, <3>1 DEF RoundFacts
    <3> QED
      BY <3>1, <3>2, RowIs DEF Rows
  <2>3. \A i : EarnedBy(log, ran, scoped, round.modes, i) => Earned(i)
    BY ResultsAre DEF EarnedBy, Earned, Mode
  <2>4. CASE WorkTakesEffect
    <3>1. at = "working" /\ ran' = ran \cup {index}
      BY <2>4 DEF WorkTakesEffect
    <3>2. index \in Calls /\ body[index] = "work"
      BY <2>1, <3>1 DEF PlaceInv, Alone
    <3>3. SeenCall(log, seen, index)
      BY <2>1, <3>1, <3>2 DEF SeenInv
    <3>4. \/ round.policy = "allow"
          \/ /\ round.policy = "ask"
             /\ \/ Allowed(log, seen, index)
                \/ Mode(index) = "action" /\ EarnedBy(log, ran, scoped, round.modes, index)
      BY <2>1, <3>1 DEF GrantInv
    <3>5. Ok(index)
      BY <2>2, <2>3, <3>2, <3>3, <3>4 DEF Allowed
    <3> QED
      BY <3>1, <3>5
  <2>5. CASE \E i \in Calls : BodyStarts(i)
    <3>1. PICK i \in Calls : BodyStarts(i)
      BY <2>5
    <3>2. /\ body[i] = "queued" /\ at # "fatal"
          /\ ran' = IF Mode(i) \in {"parallel", "plain"} THEN ran \cup {i} ELSE ran
      BY <3>1 DEF BodyStarts, Polled
    <3>3. SeenCall(log, seen, i)
      BY <2>1, <3>2 DEF SeenInv
    <3>4. CASE Mode(i) \in {"parallel", "plain"}
      <4>1. Ok(i)
        BY <2>2, <3>3, <3>4
      <4> QED
        BY <3>2, <3>4, <4>1
    <3> QED
      BY <3>2, <3>4
  <2>6. CASE WriteState \/ Settle
    <3>1. at = "settling"
      BY <2>6 DEF WriteState, Settle
    <3>2. \/ ran' = ran
          \/ ran' = ran \cup {index} /\ slot[index].code = "prepared"
      BY <2>6 DEF WriteState, Settle
    <3>3. CASE ran' = ran \cup {index} /\ slot[index].code = "prepared"
      <4>1. index \in Calls /\ Mode(index) \in {"state", "exit"}
        BY <2>1, <3>1, <3>3 DEF PlaceInv, Alone
      <4>2. SeenCall(log, seen, index)
        BY <2>1, <3>1, <3>3, <4>1 DEF SeenInv
      <4>3. Ok(index)
        BY <2>2, <4>1, <4>2
      <4> QED
        BY <3>3, <4>3
    <3> QED
      BY <3>2, <3>3
  <2>7. CASE UNCHANGED ran
    BY <2>7
  <2>8. \/ UNCHANGED ran \/ WorkTakesEffect \/ WriteState \/ Settle
        \/ \E i \in Calls : BodyStarts(i)
    <3>1. CASE CallerCancels \/ DeadlinePasses \/ ObserverLeaves \/ StorageFails
      BY <3>1 DEF CallerCancels, DeadlinePasses, ObserverLeaves, StorageFails, history
    <3>2. CASE WriteIntent \/ Dispatch \/ SettleUnknown \/ Refuse \/ Proceed \/ Ask \/ Decide \/ Act
      BY <3>2 DEF WriteIntent, Dispatch, SettleUnknown, Refuse, Proceed, Ask, Decide, Act, history
    <3>3. CASE StartPool \/ Fill \/ DispatchInPool \/ Check \/ Rest \/ EndPool \/ EndRound
      BY <3>3 DEF StartPool, Fill, DispatchInPool, Check, Rest, EndPool, EndRound, history
    <3>4. CASE StopNoticed \/ SetUp \/ Answer \/ WorkEnds
      BY <3>4 DEF StopNoticed, SetUp, Answer, WorkEnds
    <3>5. CASE \E i \in Calls : CommitInPool(i)
      BY <3>5 DEF CommitInPool, history
    <3>6. CASE \E i \in Calls : Bodies(i)
      <4>1. PICK i \in Calls : Bodies(i)
        BY <3>6
      <4> QED
        BY <4>1 DEF Bodies, BodyRefused, BodyEnds, BodyInterrupted, CleanupEnds, Deliver
    <3>7. CASE UNCHANGED vars
      BY <3>7 DEF vars
    <3> QED
      BY <1>1, <3>1, <3>2, <3>3, <3>4, <3>5, <3>6, <3>7 DEF Next, Drive
  <2> QED
    BY <2>4, <2>5, <2>6, <2>7, <2>8
<1>2. RoundInv /\ [Next]_vars => [Good]_vars
  BY <1>1
<1> QED
  BY <1>2, RoundIsSound, PTL DEF Spec, StartsAllowed

=============================================================================
