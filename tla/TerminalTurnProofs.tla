------------------------- MODULE TerminalTurnProofs -------------------------
(***************************************************************************)
(* Proofs about the terminal's turn, for any number of turns, approvals,   *)
(* keys and signals.  First the dialogue: what is put, shown, typed and    *)
(* answered belongs together.  Then the order: as long as nobody stops the *)
(* turn and nothing fails, rows, envelope and join fit, so that no join    *)
(* operation fails and the drain ends with nothing left.                   *)
(***************************************************************************)
EXTENDS TerminalTurn, SequenceTheorems, WellFoundedInduction, TLAPS

AgentType ==
    [pc : {"off", "start", "admit", "work", "asked", "asking", "decide", "ended", "ok", "err"},
     q : 0 .. Questions, stopped : BOOLEAN, late : BOOLEAN, admitted : BOOLEAN]
RowType ==
    [kind : {"start", "prompt", "asked", "decided", "end", "goal", "plan", "title"},
     q : 0 .. Questions, turn : Nat]
ReplyType ==
    [for : 0 .. Questions, by : {"none", "user", "unavailable"}, put : 0 .. Questions,
     prompting : Nat, seen : Nat]
JoinType ==
    [open : BOOLEAN, ended : BOOLEAN, asked : 0 .. Questions, envelope : 0 .. Questions,
     active : 0 .. Questions, awaiting : 0 .. Questions, decided : SUBSET (1 .. Questions)]
KeyType == [key : {"confirm", "move", "bad", "esc", "none"}, seen : Nat]
UiType ==
    [pc : {"idle", "top", "select", "await", "finish", "exited"}, turn : Nat, drain : BOOLEAN,
     frame : {"none", "writing", "written"}, after : {"none", "end", "fence", "accept"},
     mode : {"inactive", "arming", "rendering", "accepting"}, escape : KeyType, due : BOOLEAN,
     stop : {"none", "interrupt", "suspend", "eof", "exit", "failure", "broken"},
     ended : BOOLEAN, committed : BOOLEAN, prompting : Nat, put : 0 .. Questions,
     out : {"none", "continue", "eof", "signal", "failure"}]
WorldType == [keys : Nat, signals : Nat, fault : BOOLEAN, trouble : BOOLEAN, torn : BOOLEAN]

InQuestion == {"asked", "asking", "decide"}

Types ==
    /\ agent \in AgentType /\ envelope \in 0 .. Questions
    /\ reply \in ReplyType /\ join \in JoinType /\ ui \in UiType /\ cancelled \in BOOLEAN
    /\ tty \in Seq(KeyType) /\ shown \in Nat /\ world \in WorldType
    /\ sigs \subseteq {"interrupt", "suspend", "exit"}
    /\ heard \subseteq {"interrupt", "suspend", "exit", "eof"}
    /\ agent.pc \in InQuestion => agent.q > 0

\* Rows that process_event knows, in a turn of that number.
Takeable(s, turn) ==
    /\ s \in Seq(RowType)
    /\ \A k \in DOMAIN s :
         /\ s[k].turn <= turn
         /\ s[k].kind \in {"start", "prompt", "asked", "decided", "end"} \cup Foreign
         /\ s[k].kind \in {"asked", "decided"} => s[k].q > 0

LoopInv ==
    /\ Takeable(rows, ui.turn)
    /\ ui.stop = "broken" => ui.pc = "await"

\* A selector that accepts is on the screen, and what is typed or waits was typed there.
SelectorInv ==
    ui.mode = "accepting" =>
        /\ shown = ui.prompting
        /\ \A n \in DOMAIN tty : tty[n].seen = ui.prompting
        /\ ui.escape # NoKey => ui.escape.seen = ui.prompting
        /\ ui.due => ui.escape # NoKey

Fencing(u) == u.frame # "none" /\ u.after = "fence"

\* What is put, or about to be, is the active question.
PutInv ==
    /\ Fencing(ui) => ui.mode = "inactive"
    /\ ui.stop = "none" /\ (ui.mode # "inactive" \/ Fencing(ui)) =>
           join.active # 0 /\ ui.put = join.active
    /\ ui.drain => agent.pc = "ok" /\ InTurn

ReplyInv ==
    reply.by = "user" =>
        reply.for = agent.q /\ reply.put = agent.q /\ reply.seen = reply.prompting

DialogueInv == Types /\ LoopInv /\ SelectorInv /\ PutInv /\ ReplyInv


-----------------------------------------------------------------------------
(* Sequences.                                                              *)

LEMMA AppendRow ==
    ASSUME NEW S, NEW s \in Seq(S), NEW x \in S
    PROVE  /\ Append(s, x) \in Seq(S)
           /\ \A k \in DOMAIN Append(s, x) :
                (k \in DOMAIN s /\ Append(s, x)[k] = s[k]) \/ (k = Len(s) + 1 /\ Append(s, x)[k] = x)
           /\ \A k \in DOMAIN s : k \in DOMAIN Append(s, x) /\ Append(s, x)[k] = s[k] /\ k <= Len(s)
           /\ Len(s) \in Nat /\ Len(s) + 1 \in DOMAIN Append(s, x) /\ Append(s, x)[Len(s) + 1] = x
<1>1. /\ Append(s, x) \in Seq(S) /\ Len(Append(s, x)) = Len(s) + 1 /\ Len(s) \in Nat
      /\ \A i \in 1 .. Len(s) : Append(s, x)[i] = s[i]
      /\ Append(s, x)[Len(s) + 1] = x
  BY AppendProperties
<1>2. DOMAIN Append(s, x) = 1 .. Len(s) + 1 /\ DOMAIN s = 1 .. Len(s)
  BY <1>1
<1> QED
  BY <1>1, <1>2

LEMMA TailOf ==
    ASSUME NEW S, NEW s \in Seq(S), s # <<>>
    PROVE  /\ Head(s) \in S /\ Head(s) = s[1] /\ 1 \in DOMAIN s /\ Tail(s) \in Seq(S)
           /\ \A k \in DOMAIN Tail(s) : k \in Nat /\ k + 1 \in DOMAIN s /\ Tail(s)[k] = s[k + 1] /\ k >= 1
           /\ \A k \in DOMAIN s : k # 1 => k \in Nat /\ k - 1 \in DOMAIN Tail(s) /\ Tail(s)[k - 1] = s[k]
<1>1. /\ Tail(s) \in Seq(S) /\ Len(Tail(s)) = Len(s) - 1 /\ Len(s) \in Nat /\ Len(s) # 0
      /\ \A i \in 1 .. Len(Tail(s)) : Tail(s)[i] = s[i + 1]
      /\ Head(s) = s[1] /\ Head(s) \in S
  BY HeadTailProperties, EmptySeq
<1>2. DOMAIN Tail(s) = 1 .. Len(s) - 1 /\ DOMAIN s = 1 .. Len(s)
  BY <1>1
<1> QED
  BY <1>1, <1>2

LEMMA NoRows == <<>> \in Seq(RowType) /\ <<>> \in Seq(KeyType) /\ DOMAIN <<>> = {} /\ Len(<<>>) = 0
<1>1. <<>> \in Seq(RowType)
  OBVIOUS
<1>2. <<>> \in Seq(KeyType)
  OBVIOUS
<1> QED
  BY <1>1, <1>2

\* A set of numbers has a first one.
LEMMA FirstIs ==
    ASSUME NEW S, S \subseteq Nat, S # {}
    PROVE  (CHOOSE m \in S : \A k \in S : m <= k) \in S
<1>1. PICK x \in S : \A y \in S : ~(<<y, x>> \in OpToRel(<, Nat))
  BY NatLessThanWellFounded, WFMin
<1>2. ASSUME NEW y \in S  PROVE x <= y
  <2>1. ~(y < x)
    BY <1>1 DEF OpToRel
  <2> QED
    BY <2>1
<1> QED
  BY <1>2

-----------------------------------------------------------------------------
(* The parts of the steps.                                                 *)

LEMMA TypesOf ==
    ASSUME DialogueInv
    PROVE  /\ agent \in AgentType /\ Takeable(rows, ui.turn) /\ envelope \in 0 .. Questions
           /\ reply \in ReplyType /\ join \in JoinType /\ ui \in UiType /\ cancelled \in BOOLEAN
           /\ tty \in Seq(KeyType) /\ shown \in Nat /\ world \in WorldType
           /\ Questions \in Nat /\ ui.turn \in Nat /\ rows \in Seq(RowType)
           /\ agent.q \in 0 .. Questions /\ (agent.pc \in InQuestion => agent.q > 0)
           /\ sigs \subseteq {"interrupt", "suspend", "exit"}
           /\ heard \subseteq {"interrupt", "suspend", "exit", "eof"}
<1>1. /\ agent \in AgentType /\ Takeable(rows, ui.turn) /\ envelope \in 0 .. Questions
      /\ reply \in ReplyType /\ join \in JoinType /\ ui \in UiType /\ cancelled \in BOOLEAN
      /\ tty \in Seq(KeyType) /\ shown \in Nat /\ world \in WorldType
      /\ (agent.pc \in InQuestion => agent.q > 0)
      /\ sigs \subseteq {"interrupt", "suspend", "exit"}
      /\ heard \subseteq {"interrupt", "suspend", "exit", "eof"}
  BY DEF DialogueInv, Types, LoopInv
<1>2. ui.turn \in Nat
  BY <1>1 DEF UiType
<1>3. agent.q \in 0 .. Questions
  BY <1>1 DEF AgentType
<1>4. rows \in Seq(RowType)
  BY <1>1 DEF Takeable
<1> QED
  BY <1>1, <1>2, <1>3, <1>4, TerminalAssumption

LEMMA FailIs ==
    ASSUME NEW u \in UiType
    PROVE  /\ Fail(u) \in UiType /\ Fail(u).stop \in {"exit", "failure"} /\ Fail(u).frame = "none"
           /\ Fail(u).pc = "top" /\ Fail(u).mode = u.mode /\ Fail(u).escape = u.escape
           /\ Fail(u).due = u.due /\ Fail(u).turn = u.turn /\ Fail(u).drain = u.drain
           /\ Fail(u).prompting = u.prompting /\ Fail(u).put = u.put /\ Fail(u).ended = u.ended
           /\ Fail(u).committed = u.committed /\ Fail(u).out = u.out /\ Fail(u).after = u.after
           /\ Fail(u).stop = Failed(u.stop)
<1>1. Failed(u.stop) \in {"exit", "failure"}
  BY DEF Failed
<1>2. Fail(u) \in UiType
  BY <1>1, ZenonT(60) DEF Fail, UiType
<1>3. /\ Fail(u).stop = Failed(u.stop) /\ Fail(u).frame = "none"
      /\ Fail(u).pc = "top" /\ Fail(u).mode = u.mode /\ Fail(u).escape = u.escape
      /\ Fail(u).due = u.due /\ Fail(u).turn = u.turn
  BY DEF Fail, UiType
<1>4. /\ Fail(u).drain = u.drain
      /\ Fail(u).prompting = u.prompting /\ Fail(u).put = u.put /\ Fail(u).ended = u.ended
      /\ Fail(u).committed = u.committed /\ Fail(u).out = u.out /\ Fail(u).after = u.after
  BY DEF Fail, UiType
<1> QED
  BY <1>1, <1>2, <1>3, <1>4

LEMMA LatchedIs ==
    ASSUME NEW u \in UiType
    PROVE  Latched(u) = (IF world.fault THEN Fail(u) ELSE u) /\ Latched(u) \in UiType
BY FailIs DEF Latched

LEMMA ObserveIs ==
    ASSUME NEW stop \in {"none", "interrupt", "suspend", "eof", "exit", "failure", "broken"},
           NEW S, S \subseteq {"interrupt", "suspend", "exit"}
    PROVE  /\ Observe(stop, S) \in
                {"none", "interrupt", "suspend", "eof", "exit", "failure", "broken"}
           /\ Observe(stop, S) = "none" <=> stop = "none" /\ S = {}
           /\ Observe(stop, S) = "broken" => stop = "broken"
<1>1. S # {} => "exit" \in S \/ "suspend" \in S \/ "interrupt" \in S
  OBVIOUS
<1> QED
  BY <1>1 DEF Observe

LEMMA CancelIs ==
    ASSUME DialogueInv, NEW u \in UiType, Cancel(u)
    PROVE  cancelled' \in BOOLEAN
BY TypesOf DEF Cancel, UiType

LEMMA PublishIs ==
    ASSUME DialogueInv, NEW kind \in {"start", "prompt", "asked", "decided", "end"} \cup Foreign,
           NEW q \in 0 .. Questions, kind \in {"asked", "decided"} => q > 0,
           Publish(Row(kind, q))
    PROVE  Takeable(rows', ui.turn)
<1> DEFINE r == Row(kind, q)
<1>1. r \in RowType /\ r.kind = kind /\ r.q = q /\ r.turn = ui.turn /\ ui.turn \in Nat
  BY TypesOf, TerminalAssumption DEF Row, RowType
<1>2. rows' = rows \/ rows' = Append(rows, r)
  BY DEF Publish
<1>3. rows \in Seq(RowType) /\ Takeable(rows, ui.turn)
  BY TypesOf
<1>4. r.turn <= ui.turn
  BY <1>1
<1> HIDE DEF r
<1>5. /\ rows' \in Seq(RowType)
      /\ \A k \in DOMAIN rows' : (k \in DOMAIN rows /\ rows'[k] = rows[k]) \/ rows'[k] = r
  BY <1>1, <1>2, <1>3, AppendRow
<1> QED
  BY <1>1, <1>3, <1>4, <1>5 DEF Takeable

\* Rows of which the first is taken.
LEMMA RowsTaken ==
    ASSUME DialogueInv, rows # <<>>
    PROVE  /\ Takeable(Tail(rows), ui.turn)
           /\ Head(rows) \in RowType /\ Head(rows).turn <= ui.turn
           /\ Head(rows).kind \in {"start", "prompt", "asked", "decided", "end"} \cup Foreign
           /\ Head(rows).kind \in {"asked", "decided"} => Head(rows).q > 0
<1>1. rows \in Seq(RowType) /\ Takeable(rows, ui.turn)
  BY TypesOf
<1>2. /\ Head(rows) \in RowType /\ Head(rows) = rows[1] /\ 1 \in DOMAIN rows
      /\ Tail(rows) \in Seq(RowType)
      /\ \A k \in DOMAIN Tail(rows) : k + 1 \in DOMAIN rows /\ Tail(rows)[k] = rows[k + 1]
  BY <1>1, TailOf
<1> QED
  BY <1>1, <1>2 DEF Takeable

LEMMA RowsGrow ==
    ASSUME NEW s, NEW m \in Nat, NEW n \in Nat, m <= n, Takeable(s, m)
    PROVE  Takeable(s, n)
<1>1. \A k \in DOMAIN s : s[k] \in RowType
  BY DEF Takeable
<1>2. \A k \in DOMAIN s : s[k].turn \in Nat /\ s[k].turn <= m
  BY <1>1 DEF Takeable, RowType
<1>3. \A k \in DOMAIN s : s[k].turn <= n
  BY <1>2
<1> QED
  BY <1>3 DEF Takeable

-----------------------------------------------------------------------------
\* A step after which a selector is as it was, or is left.
LEMMA Carried ==
    ASSUME DialogueInv, Types', Takeable(rows', ui'.turn),
           ui'.stop = "broken" => ui'.pc = "await",
           shown' = shown, tty' = tty \/ tty' = <<>>,
           ui'.mode = ui.mode \/ ui'.mode = "inactive",
           ui'.prompting = ui.prompting, ui'.put = ui.put,
           ui'.escape = ui.escape, ui'.due = ui.due,
           Fencing(ui') => Fencing(ui),
           ui'.stop = "none" =>
               /\ ui.stop = "none"
               /\ \/ join'.active = join.active \/ join.active = 0
                  \/ ui'.mode = "inactive" /\ ~Fencing(ui'),
           ui'.drain => agent'.pc = "ok" /\ InTurn',
           agent'.q = agent.q, reply' = reply \/ reply'.by # "user"
    PROVE  DialogueInv'
<1>1. LoopInv'
  BY DEF LoopInv
<1>2. SelectorInv'
  <2>1. tty' = <<>> => DOMAIN tty' = {}
    BY NoRows
  <2> QED
    BY <2>1 DEF DialogueInv, SelectorInv
<1>3. PutInv'
  BY DEF DialogueInv, PutInv, Fencing
<1>4. ReplyInv'
  BY DEF DialogueInv, ReplyInv
<1> QED
  BY <1>1, <1>2, <1>3, <1>4 DEF DialogueInv

-----------------------------------------------------------------------------
(* The agent.                                                              *)

LEMMA AgentTurn ==
    ASSUME DialogueInv, AgentOnly, ~ui.drain, agent' \in AgentType, Takeable(rows', ui.turn),
           envelope' \in 0 .. Questions,
           agent'.pc \in InQuestion => agent'.q > 0,
           (reply' = reply /\ agent'.q = agent.q) \/ reply' = NoReply
    PROVE  DialogueInv'
<1>1. NoReply \in ReplyType /\ NoReply.by # "user"
  BY TerminalAssumption DEF NoReply, ReplyType
<1>2. Types'
  BY <1>1 DEF DialogueInv, Types, AgentOnly
<1>3. LoopInv' /\ SelectorInv' /\ PutInv'
  BY DEF DialogueInv, LoopInv, SelectorInv, PutInv, Fencing, AgentOnly
<1>4. ReplyInv'
  BY <1>1 DEF DialogueInv, ReplyInv
<1> QED
  BY <1>2, <1>3, <1>4 DEF DialogueInv

LEMMA AgentSteps ==
    ASSUME DialogueInv, AgentStep
    PROVE  DialogueInv'
<1>1. /\ agent \in AgentType /\ Questions \in Nat /\ envelope \in 0 .. Questions
      /\ agent.q \in 0 .. Questions /\ (agent.pc \in InQuestion => agent.q > 0)
      /\ Takeable(rows, ui.turn)
  BY TypesOf
<1>2. AgentOnly /\ ~ui.drain
  BY DEF AgentStep, AgentStarts, AgentAdmits, AgentAsks, AgentSends, AgentHears, AgentDecides,
         AgentEnds, AgentReturns, Polled
<1>3. Stopped \in BOOLEAN
  BY <1>1, TypesOf DEF Stopped, AgentType
<1>4. 0 \in 0 .. Questions
  BY <1>1
<1>5. CASE AgentStarts
  <2>1. agent' \in AgentType /\ agent'.q = agent.q /\ agent'.pc \notin InQuestion
    BY <1>1, <1>5 DEF AgentStarts, AgentType, InQuestion
  <2>2. Publish(Row("start", 0)) /\ envelope' = envelope /\ reply' = reply
    BY <1>5 DEF AgentStarts
  <2>3. Takeable(rows', ui.turn)
    BY <1>4, <2>2, PublishIs
  <2> QED
    BY <1>1, <1>2, <2>1, <2>2, <2>3, AgentTurn
<1>6. CASE AgentAdmits
  <2>1. agent' \in AgentType /\ agent'.q = agent.q /\ agent'.pc \notin InQuestion
    BY <1>1, <1>6 DEF AgentAdmits, AgentType, InQuestion
  <2>2. (rows' = rows \/ Publish(Row("prompt", 0))) /\ envelope' = envelope /\ reply' = reply
    BY <1>6 DEF AgentAdmits
  <2>3. Takeable(rows', ui.turn)
    BY <1>1, <1>4, <2>2, PublishIs
  <2> QED
    BY <1>1, <1>2, <2>1, <2>2, <2>3, AgentTurn
<1>7. CASE AgentAsks
  <2>1. agent.q + 1 \in 0 .. Questions /\ agent.q + 1 > 0
    BY <1>1, <1>7 DEF AgentAsks
  <2>2. agent' = [agent EXCEPT !.pc = "asked", !.q = agent.q + 1]
    BY <1>7 DEF AgentAsks
  <2>3. agent' \in AgentType /\ agent'.q = agent.q + 1
    BY <1>1, <2>1, <2>2 DEF AgentType
  <2>4. Publish(Row("asked", agent.q + 1)) /\ envelope' = envelope /\ reply' = NoReply
    BY <1>7 DEF AgentAsks
  <2>5. Takeable(rows', ui.turn)
    BY <2>1, <2>4, PublishIs
  <2> QED
    BY <1>1, <1>2, <2>1, <2>3, <2>4, <2>5, AgentTurn
<1>8. CASE AgentSends
  <2>1. agent.pc = "asked" /\ rows' = rows /\ reply' = reply
    BY <1>8 DEF AgentSends
  <2>2. /\ agent' \in AgentType /\ agent'.q = agent.q
    BY <1>1, <1>3, <1>8 DEF AgentSends, AgentType
  <2>3. envelope' = envelope \/ envelope' = agent.q
    BY <1>8 DEF AgentSends
  <2> QED
    BY <1>1, <1>2, <2>1, <2>2, <2>3, AgentTurn DEF InQuestion
<1>9. CASE AgentHears
  <2>1. agent.pc = "asking" /\ rows' = rows /\ reply' = reply /\ envelope' = envelope
    BY <1>9 DEF AgentHears
  <2>2. agent' \in AgentType /\ agent'.q = agent.q
    BY <1>1, <1>3, <1>9 DEF AgentHears, AgentType
  <2> QED
    BY <1>1, <1>2, <2>1, <2>2, AgentTurn DEF InQuestion
<1>10. CASE AgentDecides
  <2>1. agent' \in AgentType /\ agent'.q = agent.q /\ agent'.pc \notin InQuestion
    BY <1>1, <1>10 DEF AgentDecides, AgentType, InQuestion
  <2>2. agent.q > 0
    BY <1>1, <1>10 DEF AgentDecides, InQuestion
  <2>3. Publish(Row("decided", agent.q)) /\ envelope' = envelope /\ reply' = reply
    BY <1>10 DEF AgentDecides
  <2>4. Takeable(rows', ui.turn)
    BY <1>1, <2>2, <2>3, PublishIs
  <2> QED
    BY <1>1, <1>2, <2>1, <2>3, <2>4, AgentTurn
<1>11. CASE AgentEnds
  <2>1. agent' \in AgentType /\ agent'.q = agent.q /\ agent'.pc \notin InQuestion
    BY <1>1, <1>11 DEF AgentEnds, AgentType, InQuestion
  <2>2. Publish(Row("end", 0)) /\ envelope' = envelope /\ reply' = reply
    BY <1>11 DEF AgentEnds
  <2>3. Takeable(rows', ui.turn)
    BY <1>4, <2>2, PublishIs
  <2> QED
    BY <1>1, <1>2, <2>1, <2>2, <2>3, AgentTurn
<1>12. CASE AgentReturns
  <2>1. agent' \in AgentType /\ agent'.q = agent.q /\ agent'.pc \notin InQuestion
    BY <1>1, <1>12 DEF AgentReturns, AgentType, InQuestion
  <2>2. /\ rows' = rows \/ ("title" \in Foreign /\ Publish(Row("title", 0)))
        /\ envelope' = envelope /\ reply' = reply
    BY <1>12 DEF AgentReturns
  <2>3. Takeable(rows', ui.turn)
    BY <1>1, <1>4, <2>2, PublishIs
  <2> QED
    BY <1>1, <1>2, <2>1, <2>2, <2>3, AgentTurn
<1> QED
  BY <1>5, <1>6, <1>7, <1>8, <1>9, <1>10, <1>11, <1>12 DEF AgentStep

-----------------------------------------------------------------------------
(* What leaves the dialogue as it was.                                     *)

LEMMA TroubledIs ==
    ASSUME DialogueInv, Troubled
    PROVE  world' \in WorldType
BY TypesOf DEF Troubled, WorldType

LEMMA Fails ==
    ASSUME DialogueInv, ui' = Fail(ui), cancelled' \in BOOLEAN, world' \in WorldType,
           UNCHANGED <<agent, rows, envelope, reply, join, heard, tty, shown, sigs>>
    PROVE  DialogueInv'
<1>1. ui \in UiType
  BY TypesOf
<1>2. Types'
  BY <1>1, TypesOf, FailIs DEF Types, DialogueInv
<1>3. ui.drain => agent.pc = "ok"
  BY DEF DialogueInv, PutInv
<1>4. InTurn'
  BY <1>1, FailIs DEF InTurn
<1>5. Takeable(rows', ui'.turn)
  BY <1>1, TypesOf, FailIs
<1> QED
  BY <1>1, <1>2, <1>3, <1>4, <1>5, FailIs, Carried DEF Fencing

LEMMA FailingSteps ==
    ASSUME DialogueInv, TerminalFails \/ FrameExpires \/ EventsEnd \/ FinalDeadline
    PROVE  DialogueInv'
<1>1. /\ ui' = Fail(ui)
      /\ UNCHANGED <<agent, rows, envelope, reply, join, heard, tty, shown, sigs>>
      /\ Cancel(ui') \/ cancelled' = cancelled
      /\ Troubled \/ world' = world
  BY DEF TerminalFails, FrameExpires, EventsEnd, FinalDeadline, TopOnly
<1>2. ui \in UiType /\ world \in WorldType /\ cancelled \in BOOLEAN
  BY TypesOf
<1>3. ui' \in UiType
  BY <1>1, <1>2, FailIs
<1>4. cancelled' \in BOOLEAN /\ world' \in WorldType
  BY <1>1, <1>2, <1>3, CancelIs, TroubledIs
<1> QED
  BY <1>1, <1>4, Fails

\* A step that changes nothing of the loop.
LEMMA WorldTurns ==
    ASSUME DialogueInv, Types', Takeable(rows', ui.turn), agent'.q = agent.q,
           agent'.pc = agent.pc \/ ~ui.drain,
           UNCHANGED <<reply, join, ui, tty, shown>>
    PROVE  DialogueInv'
<1>1. /\ ui.drain => agent.pc = "ok" /\ InTurn
      /\ ui.stop = "broken" => ui.pc = "await"
  BY DEF DialogueInv, PutInv, LoopInv
<1>2. InTurn' <=> InTurn
  BY DEF InTurn
<1> QED
  BY <1>1, <1>2, Carried

LEMMA WorldSteps ==
    ASSUME DialogueInv,
           \/ AgentFails \/ IdleCommits \/ ObserverFails \/ TurnDeadline
           \/ \E s \in {"interrupt", "suspend", "exit"} : SignalComes(s)
    PROVE  DialogueInv'
<1>1. CASE AgentFails
  <2>1. agent' \in AgentType /\ agent'.q = agent.q /\ agent'.pc = "err" /\ ~ui.drain
    BY <1>1, TypesOf DEF AgentFails, AgentType, Polled
  <2>2. Types'
    BY <1>1, <2>1, TypesOf, TroubledIs DEF AgentFails, Types, InQuestion
  <2> QED
    BY <1>1, <2>1, <2>2, TypesOf, WorldTurns DEF AgentFails
<1>2. CASE IdleCommits
  <2>1. PICK kind \in Foreign : Publish(Row(kind, 0))
    BY <1>2 DEF IdleCommits
  <2>2. UNCHANGED <<agent, envelope, reply, join, ui, cancelled, tty, shown, sigs, world, heard>>
    BY <1>2 DEF IdleCommits, IdleOnly
  <2>3. 0 \in 0 .. Questions /\ kind \notin {"asked", "decided"}
    BY TypesOf, TerminalAssumption
  <2>4. Takeable(rows', ui.turn)
    BY <2>1, <2>3, PublishIs
  <2>5. Types'
    BY <2>2, TypesOf DEF Types, InQuestion
  <2> QED
    BY <2>2, <2>4, <2>5, WorldTurns
<1>3. CASE ObserverFails
  <2>1. world' \in WorldType
    BY <1>3, TypesOf DEF ObserverFails, WorldType
  <2>2. UNCHANGED <<agent, rows, envelope, reply, join, ui, cancelled, tty, shown, sigs, heard>>
    BY <1>3 DEF ObserverFails, OnlyWorld
  <2>3. Types'
    BY <2>1, <2>2, TypesOf DEF Types, InQuestion
  <2> QED
    BY <2>2, <2>3, TypesOf, WorldTurns
<1>4. CASE TurnDeadline
  <2>1. agent' \in AgentType /\ agent'.q = agent.q /\ agent'.pc = agent.pc
    BY <1>4, TypesOf DEF TurnDeadline, AgentType
  <2>2. UNCHANGED <<rows, envelope, reply, join, ui, cancelled, tty, shown, sigs, world, heard>>
    BY <1>4 DEF TurnDeadline
  <2>3. Types'
    BY <2>1, <2>2, TypesOf DEF Types, InQuestion
  <2> QED
    BY <2>1, <2>2, <2>3, TypesOf, WorldTurns
<1>5. ASSUME NEW s \in {"interrupt", "suspend", "exit"}, SignalComes(s)
      PROVE  DialogueInv'
  <2>1. world' \in WorldType
    BY <1>5, TypesOf DEF SignalComes, WorldType
  <2>2. /\ UNCHANGED <<agent, rows, envelope, reply, join, ui, cancelled, tty, shown, heard>>
        /\ sigs' \subseteq {"interrupt", "suspend", "exit"}
    BY <1>5, TypesOf DEF SignalComes, OnlyWorld
  <2>3. Types'
    BY <2>1, <2>2, TypesOf DEF Types, InQuestion
  <2> QED
    BY <2>2, <2>3, TypesOf, WorldTurns
<1> QED
  BY <1>1, <1>2, <1>3, <1>4, <1>5

\* A step of the loop that changes neither its dialogue nor its join.
LEMMA LoopTurns ==
    ASSUME DialogueInv, ui' \in UiType, ui'.turn = ui.turn,
           ui'.stop = "broken" => ui'.pc = "await",
           ui'.mode = ui.mode \/ ui'.mode = "inactive",
           ui'.prompting = ui.prompting, ui'.put = ui.put,
           ui'.escape = ui.escape, ui'.due = ui.due,
           Fencing(ui') => Fencing(ui), ui'.stop = "none" => ui.stop = "none",
           ui'.drain => ui.drain /\ InTurn',
           tty' = tty \/ tty' = <<>>, cancelled' \in BOOLEAN, world' \in WorldType,
           sigs' \subseteq {"interrupt", "suspend", "exit"},
           heard' \subseteq {"interrupt", "suspend", "exit", "eof"},
           UNCHANGED <<agent, rows, envelope, reply, join, shown>>
    PROVE  DialogueInv'
<1>1. tty' \in Seq(KeyType)
  BY TypesOf, NoRows
<1>2. Types'
  BY <1>1, TypesOf DEF Types, InQuestion
<1>3. ui.drain => agent.pc = "ok"
  BY DEF DialogueInv, PutInv
<1>4. Takeable(rows', ui'.turn)
  BY TypesOf
<1> QED
  BY <1>2, <1>3, <1>4, Carried

LEMMA QuietSteps ==
    ASSUME DialogueInv, Signalled \/ FrameWritten \/ ReadEnd \/ Breaks \/ Quit
    PROVE  DialogueInv'
<1>1. ui \in UiType /\ world \in WorldType /\ cancelled \in BOOLEAN
  BY TypesOf
<1>2. ui.stop = "broken" => ui.pc = "await"
  BY DEF DialogueInv, LoopInv
<1>3. ui.drain => InTurn
  BY DEF DialogueInv, PutInv
<1>4. CASE Signalled
  <2> PICK s \in sigs :
           /\ sigs' = sigs \ {s} /\ heard' = heard \cup {s}
           /\ ui' = [ui EXCEPT !.stop = Observe(ui.stop, {s}), !.frame = "none", !.pc = "top"]
    BY <1>4 DEF Signalled
  <2> DEFINE stop == Observe(ui.stop, {s})
  <2>1. /\ sigs' = sigs \ {s} /\ heard' = heard \cup {s}
        /\ ui' = [ui EXCEPT !.stop = stop, !.frame = "none", !.pc = "top"]
    OBVIOUS
  <2>2. /\ UNCHANGED <<agent, rows, envelope, reply, join, tty, shown, world>>
        /\ Cancel(ui') /\ ui.pc = "select"
    BY <1>4 DEF Signalled, BranchOnly
  <2>3. /\ stop \in {"none", "interrupt", "suspend", "eof", "exit", "failure", "broken"}
        /\ stop \notin {"none", "broken"}
    <3>1. /\ ui.stop \in {"none", "interrupt", "suspend", "eof", "exit", "failure", "broken"}
          /\ ui.stop # "broken"
      BY <1>1, <1>2, <2>2 DEF UiType
    <3>2. {s} \subseteq {"interrupt", "suspend", "exit"} /\ {s} # {}
      BY TypesOf
    <3> QED
      BY <3>1, <3>2, ObserveIs
  <2> HIDE DEF stop
  <2>4. ui' \in UiType
    <3>1. [ui EXCEPT !.stop = stop] \in UiType
      BY <1>1, <2>3 DEF UiType
    <3>2. ui' = [[ui EXCEPT !.stop = stop] EXCEPT !.frame = "none", !.pc = "top"]
      BY <2>1
    <3> QED
      BY <3>1, <3>2, ZenonT(60) DEF UiType
  <2>5. /\ ui'.stop = stop /\ ui'.frame = "none" /\ ui'.pc = "top"
        /\ ui'.turn = ui.turn /\ ui'.mode = ui.mode /\ ui'.prompting = ui.prompting
        /\ ui'.put = ui.put /\ ui'.escape = ui.escape /\ ui'.due = ui.due /\ ui'.drain = ui.drain
    BY <1>1, <2>1 DEF UiType
  <2>6. cancelled' \in BOOLEAN
    BY <2>2, <2>4, CancelIs
  <2>7. /\ sigs' \subseteq {"interrupt", "suspend", "exit"}
        /\ heard' \subseteq {"interrupt", "suspend", "exit", "eof"}
    BY <2>1, TypesOf
  <2>8. InTurn'
    BY <2>5 DEF InTurn
  <2> QED
    BY <1>1, <2>2, <2>3, <2>4, <2>5, <2>6, <2>7, <2>8, LoopTurns DEF Fencing
<1>5. CASE FrameWritten
  <2>1. /\ ui' = [ui EXCEPT !.frame = "written", !.pc = "top"]
        /\ UNCHANGED <<agent, rows, envelope, reply, join, tty, shown, world, cancelled, sigs, heard>>
        /\ ui.frame = "writing" /\ ui.stop = "none"
    BY <1>5 DEF FrameWritten, BranchOnly, Selecting
  <2>2. ui' \in UiType
    BY <1>1, <2>1 DEF UiType
  <2>3. /\ ui'.stop = ui.stop /\ ui'.frame = "written" /\ ui'.pc = "top" /\ ui'.after = ui.after
        /\ ui'.turn = ui.turn /\ ui'.mode = ui.mode /\ ui'.prompting = ui.prompting
        /\ ui'.put = ui.put /\ ui'.escape = ui.escape /\ ui'.due = ui.due /\ ui'.drain = ui.drain
    BY <1>1, <2>1 DEF UiType
  <2>4. InTurn'
    BY <2>3 DEF InTurn
  <2> QED
    BY <1>1, <2>1, <2>2, <2>3, <2>4, TypesOf, LoopTurns DEF Fencing
<1>6. CASE ReadEnd
  <2>1. /\ ui' = [ui EXCEPT !.stop = "eof", !.frame = "none", !.pc = "top"]
        /\ UNCHANGED <<agent, rows, envelope, reply, join, tty, shown, world, sigs>>
        /\ heard' = heard \cup {"eof"} /\ Cancel(ui')
    BY <1>6 DEF ReadEnd, BranchOnly
  <2>2. ui' \in UiType
    BY <1>1, <2>1, ZenonT(60) DEF UiType
  <2>3. /\ ui'.stop = "eof" /\ ui'.frame = "none" /\ ui'.pc = "top"
        /\ ui'.turn = ui.turn /\ ui'.mode = ui.mode /\ ui'.prompting = ui.prompting
        /\ ui'.put = ui.put /\ ui'.escape = ui.escape /\ ui'.due = ui.due /\ ui'.drain = ui.drain
    BY <1>1, <2>1 DEF UiType
  <2>4. InTurn' /\ cancelled' \in BOOLEAN
    BY <2>1, <2>2, <2>3, CancelIs DEF InTurn
  <2>5. heard' \subseteq {"interrupt", "suspend", "exit", "eof"}
    BY <2>1, TypesOf
  <2> QED
    BY <1>1, <2>1, <2>2, <2>3, <2>4, <2>5, TypesOf, LoopTurns DEF Fencing
<1>7. CASE Breaks
  <2>1. /\ ui' = [ui EXCEPT !.pc = "await", !.stop = "broken", !.frame = "none", !.mode = "inactive"]
        /\ UNCHANGED <<agent, rows, envelope, reply, join, tty, shown, sigs, heard>>
        /\ cancelled' = TRUE /\ Troubled
    BY <1>7 DEF Breaks, TopOnly
  <2>2. ui' \in UiType
    BY <1>1, <2>1, ZenonT(60) DEF UiType
  <2>3. /\ ui'.stop = "broken" /\ ui'.frame = "none" /\ ui'.pc = "await"
        /\ ui'.turn = ui.turn /\ ui'.mode = "inactive" /\ ui'.prompting = ui.prompting
        /\ ui'.put = ui.put /\ ui'.escape = ui.escape /\ ui'.due = ui.due /\ ui'.drain = ui.drain
    BY <1>1, <2>1 DEF UiType
  <2>4. InTurn'
    BY <2>3 DEF InTurn
  <2> QED
    BY <1>1, <2>1, <2>2, <2>3, <2>4, TypesOf, TroubledIs, LoopTurns DEF Fencing
<1>8. CASE Quit
  <2>1. /\ ui' = [ui EXCEPT !.pc = "exited", !.out = "eof"] /\ ui.pc = "idle"
        /\ UNCHANGED <<agent, rows, envelope, reply, join, tty, shown, sigs, heard, cancelled, world>>
    BY <1>8 DEF Quit, IdleOnly
  <2>2. ui' \in UiType
    BY <1>1, <2>1 DEF UiType
  <2>3. /\ ui'.stop = ui.stop /\ ui'.frame = ui.frame /\ ui'.pc = "exited" /\ ui'.after = ui.after
        /\ ui'.turn = ui.turn /\ ui'.mode = ui.mode /\ ui'.prompting = ui.prompting
        /\ ui'.put = ui.put /\ ui'.escape = ui.escape /\ ui'.due = ui.due /\ ui'.drain = ui.drain
    BY <1>1, <2>1 DEF UiType
  <2>4. ~ui.drain /\ ui.stop # "broken"
    BY <1>2, <1>3, <2>1 DEF InTurn
  <2> QED
    BY <1>1, <2>1, <2>2, <2>3, <2>4, TypesOf, LoopTurns DEF Fencing
<1> QED
  BY <1>4, <1>5, <1>6, <1>7, <1>8

\* What the user presses is kept with what is on the screen.
LEMMA PressStep ==
    ASSUME DialogueInv, NEW key \in Keys, Press(key)
    PROVE  DialogueInv'
<1> DEFINE k == [key |-> key, seen |-> shown]
<1>1. k \in KeyType /\ k.seen = shown
  BY TypesOf, TerminalAssumption DEF KeyType
<1>2. /\ tty' = Append(tty, k) /\ tty \in Seq(KeyType)
      /\ UNCHANGED <<agent, rows, envelope, reply, join, ui, cancelled, shown, sigs, heard>>
      /\ world' = [world EXCEPT !.keys = world.keys + 1]
  BY TypesOf DEF Press, OnlyWorld
<1> HIDE DEF k
<1>3. /\ tty' \in Seq(KeyType)
      /\ \A n \in DOMAIN tty' : (n \in DOMAIN tty /\ tty'[n] = tty[n]) \/ tty'[n] = k
  BY <1>1, <1>2, AppendRow
<1>4. world' \in WorldType
  BY <1>2, TypesOf, SMTT(30) DEF WorldType
<1>5. Types'
  BY <1>2, <1>3, <1>4, TypesOf DEF Types, InQuestion
<1>6. LoopInv' /\ PutInv' /\ ReplyInv'
  BY <1>2 DEF DialogueInv, LoopInv, PutInv, ReplyInv, Fencing, InTurn
<1>7. SelectorInv'
  BY <1>1, <1>2, <1>3 DEF DialogueInv, SelectorInv
<1> QED
  BY <1>5, <1>6, <1>7 DEF DialogueInv

-----------------------------------------------------------------------------
(* Rows and envelopes.                                                     *)

LEMMA JoinedIs ==
    ASSUME NEW j \in JoinType, NEW ok \in BOOLEAN
    PROVE  /\ Joined(j, ok).j = j /\ Joined(j, ok).ok = ok
           /\ Joined(j, ok).refused = 0
BY DEF Joined

LEMMA TryActivateIs ==
    ASSUME NEW j \in JoinType, NEW c \in BOOLEAN
    PROVE  /\ TryActivate(j, c).j \in JoinType
           /\ TryActivate(j, c).refused \in 0 .. Questions
<1> DEFINE taken == [j EXCEPT !.asked = 0, !.envelope = 0]
<1>1. Questions \in Nat /\ 0 \in 0 .. Questions
  BY TerminalAssumption
<1>2. taken \in JoinType /\ j.asked \in 0 .. Questions
  BY <1>1 DEF JoinType
<1>3. [taken EXCEPT !.active = j.asked] \in JoinType /\ [taken EXCEPT !.awaiting = j.asked] \in JoinType
  <2> HIDE DEF taken
  <2> QED
    BY <1>2 DEF JoinType
<1>4. \/ TryActivate(j, c) = Joined(j, TRUE)
      \/ TryActivate(j, c) = Joined(taken, FALSE)
      \/ TryActivate(j, c) = Joined([taken EXCEPT !.active = j.asked], TRUE)
      \/ TryActivate(j, c) = [j |-> [taken EXCEPT !.awaiting = j.asked], ok |-> TRUE,
                              refused |-> j.asked]
  BY DEF TryActivate
<1> HIDE DEF taken
<1> QED
  BY <1>1, <1>2, <1>3, <1>4 DEF Joined

LEMMA ReceiveIs ==
    ASSUME NEW j \in JoinType, NEW q \in 0 .. Questions, NEW closed, NEW c \in BOOLEAN
    PROVE  /\ Receive(j, q, closed, c).j \in JoinType
           /\ Receive(j, q, closed, c).refused \in 0 .. Questions
           /\ Receive(j, q, closed, c).j.active = j.active \/ j.active = 0
<1>1. [j EXCEPT !.envelope = q] \in JoinType /\ 0 \in 0 .. Questions
  BY TerminalAssumption DEF JoinType
<1>2. \/ Receive(j, q, closed, c) = Joined(j, TRUE)
      \/ Receive(j, q, closed, c) = Joined(j, FALSE)
      \/ /\ j.active = 0
         /\ Receive(j, q, closed, c) = TryActivate([j EXCEPT !.envelope = q], c)
  BY DEF Receive
<1>3. CASE \E ok \in BOOLEAN : Receive(j, q, closed, c) = Joined(j, ok)
  BY <1>1, <1>3, JoinedIs
<1>4. CASE j.active = 0 /\ Receive(j, q, closed, c) = TryActivate([j EXCEPT !.envelope = q], c)
  BY <1>1, <1>4, TryActivateIs
<1> QED
  BY <1>2, <1>3, <1>4

LEMMA ObserveAskedIs ==
    ASSUME NEW j \in JoinType, NEW q \in 0 .. Questions, NEW c \in BOOLEAN
    PROVE  /\ ObserveAsked(j, q, c).j \in JoinType
           /\ ObserveAsked(j, q, c).refused \in 0 .. Questions
           /\ ObserveAsked(j, q, c).j.active = j.active \/ j.active = 0
<1>1. [j EXCEPT !.asked = q] \in JoinType /\ 0 \in 0 .. Questions
  BY TerminalAssumption DEF JoinType
<1>2. \/ ObserveAsked(j, q, c) = Joined(j, FALSE)
      \/ j.active = 0 /\ ObserveAsked(j, q, c) = TryActivate([j EXCEPT !.asked = q], c)
  BY DEF ObserveAsked
<1> QED
  BY <1>1, <1>2, TryActivateIs, JoinedIs, ZenonT(60)

LEMMA ObserveDecidedIs ==
    ASSUME NEW j \in JoinType, NEW q \in 1 .. Questions
    PROVE  /\ ObserveDecided(j, q).j \in JoinType
           /\ ObserveDecided(j, q).refused = 0
<1>1. 0 \in 0 .. Questions
  BY TerminalAssumption
<1> DEFINE a == Without(j.active, q)
           b == Without(j.asked, q)
           d == Without(j.envelope, q)
           e == Without(j.awaiting, q)
           D == j.decided \cup {q}
<1>2. a \in 0 .. Questions /\ b \in 0 .. Questions /\ d \in 0 .. Questions /\ e \in 0 .. Questions
      /\ D \in SUBSET (1 .. Questions)
  BY <1>1 DEF Without, JoinType
<1>3. \/ ObserveDecided(j, q) = Joined(j, FALSE)
      \/ ObserveDecided(j, q) = Joined([j EXCEPT !.decided = D, !.active = a, !.asked = b,
                                                 !.envelope = d, !.awaiting = e], TRUE)
      \/ ObserveDecided(j, q) = Joined([NewJoin EXCEPT !.open = TRUE, !.decided = D], FALSE)
  BY DEF ObserveDecided
<1> HIDE DEF a, b, d, e, D
<1>4. [j EXCEPT !.decided = D, !.active = a, !.asked = b, !.envelope = d, !.awaiting = e] \in JoinType
  BY <1>2 DEF JoinType
<1>5. [NewJoin EXCEPT !.open = TRUE, !.decided = D] \in JoinType
  BY <1>1, <1>2 DEF JoinType, NewJoin
<1> QED
  BY <1>3, <1>4, <1>5 DEF Joined

\* What the loop takes of its two channels.
LEMMA TakeKeeps ==
    ASSUME DialogueInv, NEW done, NEW u \in UiType, Take(done, u),
           done.j \in JoinType, done.refused \in 0 .. Questions,
           ui.stop = "none", u.stop = "none", InTurn,
           u.turn = ui.turn, u.prompting = ui.prompting, u.put = ui.put,
           u.escape = ui.escape, u.due = ui.due, u.drain = ui.drain,
           u.mode = ui.mode \/ u.mode = "inactive",
           Fencing(u) => Fencing(ui),
           \/ done.j.active = join.active \/ join.active = 0
           \/ u.mode = "inactive" /\ ~Fencing(u),
           Takeable(rows', ui.turn), envelope' \in 0 .. Questions,
           UNCHANGED <<agent, shown, world, tty, sigs, heard>>
    PROVE  DialogueInv'
<1> DEFINE v == IF done.ok THEN [u EXCEPT !.pc = "top"] ELSE Fail(u)
<1>1. /\ join' = done.j /\ ui' = v /\ Cancel(ui')
      /\ \/ reply' = reply
         \/ reply' = [NoReply EXCEPT !.for = done.refused, !.by = "unavailable"]
  BY DEF Take
<1>2. /\ v \in UiType /\ v.turn = ui.turn /\ v.prompting = ui.prompting /\ v.put = ui.put
      /\ v.escape = ui.escape /\ v.due = ui.due /\ v.drain = ui.drain
      /\ v.mode = u.mode /\ v.pc = "top" /\ v.stop # "broken"
      /\ v.stop = "none" => v.frame = u.frame /\ v.after = u.after
      /\ v.frame = "none" \/ (v.frame = u.frame /\ v.after = u.after)
  <2>1. CASE done.ok
    <3>1. v = [u EXCEPT !.pc = "top"]
      BY <2>1
    <3> HIDE DEF v
    <3>2. v \in UiType
      BY <3>1 DEF UiType
    <3>3. /\ v.turn = u.turn /\ v.prompting = u.prompting /\ v.put = u.put
          /\ v.escape = u.escape /\ v.due = u.due /\ v.drain = u.drain /\ v.mode = u.mode
      BY <3>1 DEF UiType
    <3>4. /\ v.pc = "top" /\ v.stop = u.stop /\ v.frame = u.frame /\ v.after = u.after
      BY <3>1 DEF UiType
    <3> QED
      BY <3>2, <3>3, <3>4
  <2>2. CASE ~done.ok
    <3>1. v = Fail(u)
      BY <2>2
    <3> HIDE DEF v
    <3> QED
      BY <3>1, FailIs
  <2> QED
    BY <2>1, <2>2
<1> HIDE DEF v
<1>3. /\ reply' \in ReplyType /\ (reply' = reply \/ reply'.by # "user")
  <2>1. 0 \in 0 .. Questions /\ done.refused \in 0 .. Questions
    BY TypesOf
  <2>2. NoReply \in ReplyType
    BY <2>1 DEF NoReply, ReplyType
  <2>3. [NoReply EXCEPT !.for = done.refused, !.by = "unavailable"] \in ReplyType
    BY <2>1, <2>2 DEF ReplyType
  <2>4. [NoReply EXCEPT !.for = done.refused, !.by = "unavailable"].by # "user"
    BY <2>2 DEF ReplyType
  <2> QED
    BY <1>1, <2>3, <2>4, TypesOf
<1>4. cancelled' \in BOOLEAN
  BY <1>1, <1>2, CancelIs
<1>5. Types'
  BY <1>1, <1>2, <1>3, <1>4, TypesOf DEF Types, InQuestion
<1>6. ui.drain => agent.pc = "ok"
  BY DEF DialogueInv, PutInv
<1>7. InTurn'
  BY <1>1, <1>2 DEF InTurn
<1>8. Fencing(ui') => Fencing(u)
  BY <1>1, <1>2 DEF Fencing
<1> QED
  BY <1>1, <1>2, <1>3, <1>5, <1>6, <1>7, <1>8, Carried

LEMMA ProcessedIs ==
    ASSUME DialogueInv, NEW r \in RowType, NEW c \in BOOLEAN, r.turn <= ui.turn,
           r.kind \in {"start", "prompt", "asked", "decided", "end"} \cup Foreign,
           r.kind \in {"asked", "decided"} => r.q > 0
    PROVE  /\ Processed(r, ui, c).done.j \in JoinType
           /\ Processed(r, ui, c).done.refused \in 0 .. Questions
           /\ \/ Processed(r, ui, c).done.j.active = join.active \/ join.active = 0
              \/ Processed(r, ui, c).u.mode = "inactive"
           /\ \/ Processed(r, ui, c).u = ui
              \/ Processed(r, ui, c).u = [ui EXCEPT !.committed = TRUE]
              \/ Processed(r, ui, c).u = [ui EXCEPT !.mode = "inactive"]
              \/ Processed(r, ui, c).u = [ui EXCEPT !.ended = TRUE]
<1>1. ui \in UiType /\ join \in JoinType /\ Questions \in Nat /\ 0 \in 0 .. Questions /\ ui.turn \in Nat
  BY TypesOf
<1>2. r.turn \in Nat /\ r.q \in 0 .. Questions
  BY DEF RowType
<1>3. CASE r.turn < ui.turn
  <2>1. Processed(r, ui, c) = [u |-> ui, done |-> Joined(join, r.kind \in {"goal", "plan"})]
    BY <1>1, <1>2, <1>3 DEF Processed
  <2> QED
    BY <1>1, <2>1 DEF Joined
<1>4. CASE r.turn = ui.turn /\ r.kind = "prompt"
  <2>1. Processed(r, ui, c) = [u |-> [ui EXCEPT !.committed = TRUE], done |-> Joined(join, TRUE)]
    BY <1>1, <1>2, <1>4, TerminalAssumption DEF Processed
  <2> QED
    BY <1>1, <2>1 DEF Joined
<1>5. CASE r.turn = ui.turn /\ r.kind = "asked"
  <2>1. Processed(r, ui, c) = [u |-> ui, done |-> ObserveAsked(join, r.q, c)]
    BY <1>1, <1>2, <1>5, TerminalAssumption DEF Processed
  <2> QED
    BY <1>1, <1>2, <2>1, ObserveAskedIs
<1>6. CASE r.turn = ui.turn /\ r.kind = "decided"
  <2>1. Processed(r, ui, c) = [u |-> [ui EXCEPT !.mode = "inactive"], done |-> ObserveDecided(join, r.q)]
    BY <1>1, <1>2, <1>6, TerminalAssumption DEF Processed
  <2>2. r.q \in 1 .. Questions
    BY <1>1, <1>2, <1>6
  <2>3. [ui EXCEPT !.mode = "inactive"].mode = "inactive"
    BY <1>1 DEF UiType
  <2>4. /\ ObserveDecided(join, r.q).j \in JoinType
        /\ ObserveDecided(join, r.q).refused = 0
    BY <1>1, <2>2, ObserveDecidedIs
  <2>5. /\ Processed(r, ui, c).u = [ui EXCEPT !.mode = "inactive"]
        /\ Processed(r, ui, c).done = ObserveDecided(join, r.q)
    BY <2>1
  <2> QED
    BY <1>1, <2>3, <2>4, <2>5
<1>7. CASE r.turn = ui.turn /\ r.kind = "end"
  <2>1. Processed(r, ui, c) =
          [u |-> [ui EXCEPT !.ended = TRUE],
           done |-> Joined([join EXCEPT !.ended = TRUE], join.open /\ ~join.ended)]
    BY <1>1, <1>2, <1>7, TerminalAssumption DEF Processed
  <2>2. [join EXCEPT !.ended = TRUE] \in JoinType /\ [join EXCEPT !.ended = TRUE].active = join.active
    BY <1>1 DEF JoinType
  <2>3. /\ Processed(r, ui, c).u = [ui EXCEPT !.ended = TRUE]
        /\ Processed(r, ui, c).done.j = [join EXCEPT !.ended = TRUE]
        /\ Processed(r, ui, c).done.refused = 0
    <3> DEFINE v == [ui EXCEPT !.ended = TRUE]
               e == [join EXCEPT !.ended = TRUE]
               ok == join.open /\ ~join.ended
    <3>1. Processed(r, ui, c) = [u |-> v, done |-> [j |-> e, ok |-> ok, refused |-> 0]]
      BY <2>1 DEF Joined
    <3> HIDE DEF v, e, ok
    <3>2. /\ Processed(r, ui, c).u = v /\ Processed(r, ui, c).done.j = e
          /\ Processed(r, ui, c).done.refused = 0
      BY <3>1
    <3> QED
      BY <3>2 DEF v, e
  <2> QED
    BY <1>1, <2>2, <2>3
<1>8. CASE r.turn = ui.turn /\ r.kind \in {"start"} \cup Foreign
  <2>1. r.kind \notin {"prompt", "asked", "decided", "end"}
    BY <1>8, TerminalAssumption
  <2>2. Processed(r, ui, c) = [u |-> ui, done |-> Joined(join, TRUE)]
    BY <1>1, <1>2, <1>8, <2>1 DEF Processed
  <2> QED
    BY <1>1, <2>2 DEF Joined
<1> QED
  BY <1>1, <1>2, <1>3, <1>4, <1>5, <1>6, <1>7, <1>8

LEMMA TakeSteps ==
    ASSUME DialogueInv, TakeEnvelope \/ TakeEvent
    PROVE  DialogueInv'
<1>1. ui \in UiType /\ join \in JoinType /\ 0 \in 0 .. Questions /\ ui.turn \in Nat
      /\ envelope \in 0 .. Questions
  BY TypesOf
<1>2. ui.stop = "none" /\ InTurn /\ UNCHANGED <<agent, shown, world, tty, sigs, heard>>
  BY DEF TakeEnvelope, TakeEvent, Selecting, BranchOnly, InTurn
<1>3. CASE TakeEnvelope
  <2>1. PICK c \in BOOLEAN :
          Take(Receive(join, envelope, agent.pc # "asking" \/ agent.q # envelope, c), ui)
    BY <1>3 DEF TakeEnvelope
  <2>2. envelope' = 0 /\ rows' = rows
    BY <1>3 DEF TakeEnvelope
  <2> QED
    BY <1>1, <1>2, <2>1, <2>2, ReceiveIs, TypesOf, TakeKeeps
<1>4. CASE TakeEvent
  <2>1. ui.frame = "none" /\ rows # <<>> /\ rows' = Tail(rows) /\ envelope' = envelope
    BY <1>4 DEF TakeEvent
  <2> DEFINE r == Head(rows)
             after == IF r.kind = "end" THEN "end" ELSE "none"
  <2>2. PICK c \in BOOLEAN :
          Take(Processed(r, ui, c).done,
               IF Draws(r) THEN [Processed(r, ui, c).u EXCEPT !.frame = "writing", !.after = after]
               ELSE Processed(r, ui, c).u)
    BY <1>4 DEF TakeEvent
  <2> DEFINE p == Processed(r, ui, c)
             u == IF Draws(r) THEN [p.u EXCEPT !.frame = "writing", !.after = after] ELSE p.u
  <2>3. /\ Takeable(rows', ui.turn) /\ r \in RowType /\ r.turn <= ui.turn
        /\ r.kind \in {"start", "prompt", "asked", "decided", "end"} \cup Foreign
        /\ r.kind \in {"asked", "decided"} => r.q > 0
    BY <2>1, RowsTaken
  <2>4. /\ p.done.j \in JoinType /\ p.done.refused \in 0 .. Questions
        /\ p.done.j.active = join.active \/ join.active = 0 \/ p.u.mode = "inactive"
        /\ \/ p.u = ui \/ p.u = [ui EXCEPT !.committed = TRUE]
           \/ p.u = [ui EXCEPT !.mode = "inactive"] \/ p.u = [ui EXCEPT !.ended = TRUE]
    <3> HIDE DEF r
    <3> QED
      BY <2>3, ProcessedIs
  <2>5. Take(p.done, u)
    BY <2>2
  <2>6. after \in {"none", "end"} /\ (u = p.u \/ u = [p.u EXCEPT !.frame = "writing", !.after = after])
    OBVIOUS
  <2> HIDE DEF p, u, r, after
  <2>7. p.u \in UiType
    <3>1. \/ p.u = ui \/ p.u = [ui EXCEPT !.committed = TRUE]
          \/ p.u = [ui EXCEPT !.mode = "inactive"] \/ p.u = [ui EXCEPT !.ended = TRUE]
      BY <2>4
    <3>2. ui \in UiType
      BY <1>1
    <3>3. [ui EXCEPT !.committed = TRUE] \in UiType
      BY <3>2 DEF UiType
    <3>4. [ui EXCEPT !.mode = "inactive"] \in UiType
      BY <3>2 DEF UiType
    <3>5. [ui EXCEPT !.ended = TRUE] \in UiType
      BY <3>2 DEF UiType
    <3> QED
      BY <3>1, <3>2, <3>3, <3>4, <3>5
  <2>8. /\ p.u.turn = ui.turn /\ p.u.prompting = ui.prompting /\ p.u.put = ui.put
        /\ p.u.escape = ui.escape /\ p.u.due = ui.due /\ p.u.drain = ui.drain
        /\ p.u.frame = ui.frame /\ p.u.after = ui.after /\ p.u.stop = ui.stop
        /\ p.u.mode = ui.mode \/ p.u.mode = "inactive"
    BY <1>1, <2>4 DEF UiType
  <2>9. u \in UiType
    BY <2>6, <2>7, ZenonT(60) DEF UiType
  <2>10. /\ u.turn = p.u.turn /\ u.prompting = p.u.prompting /\ u.put = p.u.put
         /\ u.escape = p.u.escape /\ u.due = p.u.due /\ u.drain = p.u.drain
         /\ u.mode = p.u.mode /\ u.stop = p.u.stop
         /\ u.frame = p.u.frame \/ u.after \in {"none", "end"}
    BY <2>6, <2>7 DEF UiType
  <2>11. ~Fencing(u)
    BY <2>1, <2>8, <2>10 DEF Fencing
  <2> QED
    BY <1>1, <1>2, <2>1, <2>3, <2>4, <2>5, <2>8, <2>9, <2>10, <2>11, TakeKeeps
<1> QED
  BY <1>3, <1>4

-----------------------------------------------------------------------------
(* What precedes the select.                                               *)

\* What a frame that is written leaves behind.
CompletedAs(u, c) ==
    LET v == [u EXCEPT !.frame = "none", !.after = "none"]
    IN  \/ u.frame # "written" /\ c = u
        \/ u.frame = "written" /\ u.after \in {"none", "end"} /\ c = v
        \/ u.frame = "written" /\ u.after = "fence" /\ u.mode = "inactive"
             /\ c = [v EXCEPT !.mode = "arming"]
        \/ u.frame = "written" /\ u.after = "fence" /\ u.mode # "inactive" /\ c = Fail(v)
        \/ u.frame = "written" /\ u.after = "accept" /\ u.mode = "rendering" /\ c = Accepting(v)
        \/ u.frame = "written" /\ u.after = "accept" /\ u.mode # "rendering"
             /\ c = Fail([v EXCEPT !.mode = "inactive"])

LEMMA CompletedIs ==
    ASSUME NEW u \in UiType
    PROVE  CompletedAs(u, Completed(u))
<1>1. u.after \in {"none", "end", "fence", "accept"}
  BY DEF UiType
<1>2. CASE u.frame # "written" \/ u.after \in {"none", "end"}
  BY <1>2 DEF Completed, CompletedAs
<1>3. CASE u.frame = "written" /\ u.after = "fence"
  BY <1>3 DEF Completed, CompletedAs
<1>4. CASE u.frame = "written" /\ u.after = "accept"
  BY <1>4 DEF Completed, CompletedAs
<1> QED
  BY <1>1, <1>2, <1>3, <1>4

\* The loop's own view of what it leaves, before it puts a question.
LEMMA CompletedView ==
    ASSUME NEW u \in UiType, NEW c, CompletedAs(u, c)
    PROVE  /\ c \in UiType /\ c.turn = u.turn /\ c.drain = u.drain
           /\ c.prompting = u.prompting /\ c.put = u.put
           /\ c.stop = u.stop \/ c.stop \in {"exit", "failure"}
           /\ c.pc = u.pc \/ c.pc = "top"
           /\ \/ /\ u.frame # "written" /\ c = u
              \/ /\ u.frame = "written" /\ u.after \in {"none", "end"} /\ c.frame = "none"
                 /\ c.mode = u.mode /\ c.stop = u.stop
                 /\ c.escape = u.escape /\ c.due = u.due
              \/ /\ u.frame = "written" /\ u.after = "fence" /\ c.frame = "none"
                 /\ c.mode = "arming" /\ c.stop = u.stop
              \/ /\ c.frame = "none" /\ c.stop \in {"exit", "failure"}
                 /\ c.mode = u.mode \/ c.mode = "inactive"
                 /\ c.escape = u.escape /\ c.due = u.due
              \/ /\ u.frame = "written" /\ u.after = "accept" /\ c.frame = "none"
                 /\ c.mode = "accepting" /\ u.mode = "rendering" /\ c.stop = u.stop
                 /\ c.escape = NoKey /\ c.due = FALSE
<1> DEFINE v == [u EXCEPT !.frame = "none", !.after = "none"]
<1>1. v \in UiType
  BY DEF UiType
<1>2. /\ v.turn = u.turn /\ v.drain = u.drain /\ v.prompting = u.prompting /\ v.put = u.put
      /\ v.stop = u.stop /\ v.pc = u.pc /\ v.frame = "none" /\ v.after = "none"
      /\ v.mode = u.mode /\ v.escape = u.escape /\ v.due = u.due
  BY DEF UiType
<1>3. /\ [v EXCEPT !.mode = "arming"] \in UiType /\ [v EXCEPT !.mode = "inactive"] \in UiType
      /\ [v EXCEPT !.mode = "inactive"].mode = "inactive"
  <2> HIDE DEF v
  <2> QED
    BY <1>1 DEF UiType
<1>4. CASE u.frame # "written" /\ c = u
  BY <1>4
<1>5. CASE u.frame = "written" /\ u.after \in {"none", "end"} /\ c = v
  <2> HIDE DEF v
  <2> QED
    BY <1>1, <1>2, <1>5
<1>6. CASE u.frame = "written" /\ u.after = "fence" /\ c = [v EXCEPT !.mode = "arming"]
  <2> HIDE DEF v
  <2>1. /\ c.turn = v.turn /\ c.drain = v.drain /\ c.prompting = v.prompting /\ c.put = v.put
        /\ c.stop = v.stop /\ c.pc = v.pc /\ c.frame = v.frame /\ c.mode = "arming"
    BY <1>1, <1>6 DEF UiType
  <2> QED
    BY <1>2, <1>3, <1>6, <2>1
<1>7. CASE c = Fail(v)
  <2> HIDE DEF v
  <2> QED
    BY <1>1, <1>2, <1>7, FailIs
<1>8. CASE u.frame = "written" /\ u.after = "accept" /\ u.mode = "rendering" /\ c = Accepting(v)
  <2> HIDE DEF v
  <2>1. NoKey \in KeyType
    BY DEF NoKey, KeyType
  <2>2. /\ c \in UiType /\ c.turn = v.turn /\ c.drain = v.drain /\ c.prompting = v.prompting
        /\ c.put = v.put
    BY <1>1, <1>8, <2>1 DEF UiType, Accepting
  <2>3. /\ c.stop = v.stop /\ c.pc = v.pc /\ c.frame = v.frame /\ c.mode = "accepting"
        /\ c.escape = NoKey /\ c.due = FALSE
    BY <1>1, <1>8, <2>1 DEF UiType, Accepting
  <2> QED
    BY <1>2, <1>8, <2>2, <2>3
<1>9. CASE c = Fail([v EXCEPT !.mode = "inactive"])
  <2> DEFINE w == [v EXCEPT !.mode = "inactive"]
  <2> HIDE DEF v
  <2>1. /\ w \in UiType /\ w.turn = v.turn /\ w.drain = v.drain /\ w.prompting = v.prompting
        /\ w.put = v.put /\ w.mode = "inactive" /\ w.escape = v.escape /\ w.due = v.due
    BY <1>1, <1>3 DEF UiType
  <2>2. c = Fail(w)
    BY <1>9
  <2> HIDE DEF w
  <2> QED
    BY <1>2, <2>1, <2>2, FailIs
<1> QED
  BY <1>4, <1>5, <1>6, <1>7, <1>8, <1>9 DEF CompletedAs

LEMMA PutIs ==
    ASSUME DialogueInv, NEW u \in UiType
    PROVE  /\ PutQuestion(u) \in UiType /\ PutQuestion(u).turn = u.turn
           /\ PutQuestion(u).drain = u.drain /\ PutQuestion(u).stop = u.stop
           /\ PutQuestion(u).mode = u.mode /\ PutQuestion(u).pc = u.pc
           /\ PutQuestion(u).escape = u.escape /\ PutQuestion(u).due = u.due
           /\ PutQuestion(u).put = join.active /\ PutQuestion(u).prompting = u.prompting + 1
           /\ PutQuestion(u).frame = "writing" /\ PutQuestion(u).after = "fence"
<1> DEFINE n == u.prompting + 1
<1>1. n \in Nat
  BY DEF UiType
<1>2. PutQuestion(u) = [u EXCEPT !.frame = "writing", !.after = "fence", !.prompting = n,
                                 !.put = join.active]
  BY DEF PutQuestion
<1>3. join.active \in 0 .. Questions
  BY TypesOf DEF JoinType
<1> HIDE DEF n
<1>4. PutQuestion(u) \in UiType
  BY <1>1, <1>2, <1>3 DEF UiType
<1>5. /\ PutQuestion(u).turn = u.turn /\ PutQuestion(u).drain = u.drain
      /\ PutQuestion(u).stop = u.stop /\ PutQuestion(u).mode = u.mode
      /\ PutQuestion(u).pc = u.pc /\ PutQuestion(u).escape = u.escape
  BY <1>2 DEF UiType
<1>6. /\ PutQuestion(u).due = u.due
      /\ PutQuestion(u).put = join.active /\ PutQuestion(u).prompting = n
      /\ PutQuestion(u).frame = "writing" /\ PutQuestion(u).after = "fence"
  BY <1>2 DEF UiType
<1> QED
  BY <1>4, <1>5, <1>6 DEF n

\* What the loop does before it waits leaves the dialogue, or puts the active question.
LEMMA PreparedIs ==
    ASSUME DialogueInv, NEW c \in UiType
    PROVE  /\ Prepared(c) \in UiType /\ Prepared(c).turn = c.turn
           /\ Prepared(c).drain = c.drain /\ Prepared(c).stop = c.stop
           /\ Prepared(c).pc \in {"select", "finish"} /\ Prepared(c).mode = c.mode
           /\ Prepared(c).escape = c.escape /\ Prepared(c).due = c.due
           /\ \/ /\ Prepared(c).prompting = c.prompting /\ Prepared(c).put = c.put
                 /\ Prepared(c).frame = c.frame /\ Prepared(c).after = c.after
              \/ /\ c.frame = "none" /\ c.mode = "inactive" /\ join.active # 0
                 /\ Prepared(c).put = join.active
<1>2. CASE c.drain
  <2>1. PICK pc \in {"select", "finish"} : Prepared(c) = [c EXCEPT !.pc = pc]
    BY <1>2 DEF Prepared
  <2>2. Prepared(c) \in UiType
    BY <2>1 DEF UiType
  <2> QED
    BY <2>1, <2>2 DEF UiType
<1>3. CASE ~c.drain /\ ~(c.frame = "none" /\ join.active # 0 /\ c.mode = "inactive")
  <2>1. Prepared(c) = [c EXCEPT !.pc = "select"]
    BY <1>3 DEF Prepared
  <2>2. Prepared(c) \in UiType
    BY <2>1 DEF UiType
  <2> QED
    BY <2>1, <2>2 DEF UiType
<1>4. CASE ~c.drain /\ c.frame = "none" /\ join.active # 0 /\ c.mode = "inactive"
  <2> DEFINE v == PutQuestion(c)
  <2>2. Prepared(c) = [v EXCEPT !.pc = "select"]
    BY <1>4 DEF Prepared
  <2>3. v \in UiType
    BY PutIs
  <2>4. /\ v.turn = c.turn /\ v.drain = c.drain /\ v.stop = c.stop /\ v.mode = c.mode
        /\ v.escape = c.escape /\ v.due = c.due /\ v.put = join.active
    BY PutIs
  <2> HIDE DEF v
  <2>5. Prepared(c) \in UiType
    BY <2>2, <2>3 DEF UiType
  <2>6. /\ Prepared(c).turn = v.turn /\ Prepared(c).drain = v.drain /\ Prepared(c).stop = v.stop
        /\ Prepared(c).mode = v.mode /\ Prepared(c).escape = v.escape /\ Prepared(c).due = v.due
        /\ Prepared(c).put = v.put /\ Prepared(c).pc = "select"
    BY <2>2, <2>3 DEF UiType
  <2> QED
    BY <1>4, <2>4, <2>5, <2>6
<1> QED
  BY <1>2, <1>3, <1>4

LEMMA TopStep ==
    ASSUME DialogueInv, Top
    PROVE  DialogueInv'
<1> DEFINE u == Latched(ui)
           c == Completed(u)
<1>1. /\ ui \in UiType /\ world \in WorldType /\ cancelled \in BOOLEAN /\ tty \in Seq(KeyType)
      /\ shown \in Nat /\ ui.turn \in Nat /\ ui.prompting \in Nat
      /\ (ui.drain => agent.pc = "ok") /\ join.active \in 0 .. Questions
  BY TypesOf DEF UiType, DialogueInv, PutInv, JoinType
<1>2. /\ UNCHANGED <<agent, rows, envelope, reply, join, heard, sigs, world>>
      /\ Cancel(ui') /\ ui.pc = "top"
  BY DEF Top, TopOnly
<1>3. ui.stop # "broken" /\ InTurn
  BY <1>2 DEF DialogueInv, LoopInv, InTurn
<1>4. /\ u = (IF world.fault THEN Fail(ui) ELSE ui) /\ u \in UiType
  BY <1>1, LatchedIs
<1>5. CASE u.stop # "none"
  <2> DEFINE pc == IF u.drain THEN "finish" ELSE "select"
             mode == IF u.drain THEN u.mode ELSE "inactive"
             frame == IF u.drain THEN "none" ELSE u.frame
  <2>1. /\ ui' = [u EXCEPT !.pc = pc, !.mode = mode, !.frame = frame]
        /\ UNCHANGED <<tty, shown>>
    BY <1>5 DEF Top
  <2>2. /\ u.turn = ui.turn /\ u.prompting = ui.prompting /\ u.put = ui.put
        /\ u.escape = ui.escape /\ u.due = ui.due /\ u.drain = ui.drain /\ u.mode = ui.mode
        /\ u.stop # "broken" /\ (u.frame = "none" \/ (u.frame = ui.frame /\ u.after = ui.after))
    <3> HIDE DEF u
    <3> QED
      BY <1>1, <1>3, <1>4, FailIs
  <2> HIDE DEF u
  <2>3. /\ pc \in {"finish", "select"} /\ mode \in {u.mode, "inactive"}
        /\ frame \in {u.frame, "none"}
    OBVIOUS
  <2> HIDE DEF pc, mode, frame
  <2>4. ui' \in UiType
    <3>1. /\ pc \in {"idle", "top", "select", "await", "finish", "exited"}
          /\ mode \in {"inactive", "arming", "rendering", "accepting"}
          /\ frame \in {"none", "writing", "written"} /\ u \in UiType
      BY <1>4, <2>3 DEF UiType
    <3> QED
      BY <2>1, <3>1 DEF UiType
  <2>5. /\ ui'.turn = u.turn /\ ui'.prompting = u.prompting /\ ui'.put = u.put
        /\ ui'.escape = u.escape /\ ui'.due = u.due /\ ui'.drain = u.drain
        /\ ui'.mode = mode /\ ui'.pc = pc /\ ui'.stop = u.stop /\ ui'.frame = frame
        /\ ui'.after = u.after
    BY <1>4, <2>1 DEF UiType
  <2>6. cancelled' \in BOOLEAN /\ InTurn'
    BY <1>2, <2>3, <2>4, <2>5, CancelIs DEF InTurn
  <2>7. Fencing(ui') => Fencing(ui)
    BY <2>2, <2>3, <2>5 DEF Fencing
  <2> QED
    BY <1>1, <1>2, <1>5, <2>1, <2>2, <2>3, <2>4, <2>5, <2>6, <2>7, TypesOf, LoopTurns
<1>6. CASE u.stop = "none"
  <2>1. u = ui /\ ui.stop = "none"
    <3> HIDE DEF u
    <3> QED
      BY <1>1, <1>4, <1>6, FailIs
  <2>2. /\ ui' = IF c.stop # "none" THEN c ELSE Prepared(c)
        /\ IF ui.frame = "written" /\ ui.after \in {"fence", "accept"}
           THEN tty' = <<>> ELSE tty' = tty
        /\ shown' = IF c.mode = "accepting" /\ ui.mode # "accepting" THEN c.prompting ELSE shown
    BY <1>6, <2>1 DEF Top, FlushedInput
  <2>3. CompletedAs(ui, c)
    BY <1>1, <2>1, CompletedIs
  <2> HIDE DEF c, u
  <2>4. c \in UiType
    BY <1>1, <2>3, CompletedView
  <2>5. /\ c.turn = ui.turn /\ c.drain = ui.drain
        /\ c.prompting = ui.prompting /\ c.put = ui.put
        /\ c.stop \in {"none", "exit", "failure"} /\ c.pc = "top"
        /\ \/ /\ ui.frame # "written" /\ c = ui
           \/ /\ ui.frame = "written" /\ ui.after \in {"none", "end"} /\ c.frame = "none"
              /\ c.mode = ui.mode /\ c.stop = "none" /\ c.escape = ui.escape /\ c.due = ui.due
           \/ /\ ui.frame = "written" /\ ui.after = "fence" /\ c.frame = "none"
              /\ c.mode = "arming" /\ c.stop = "none"
           \/ /\ c.frame = "none" /\ c.stop # "none"
              /\ c.mode = ui.mode \/ c.mode = "inactive"
              /\ c.escape = ui.escape /\ c.due = ui.due
           \/ /\ ui.frame = "written" /\ ui.after = "accept" /\ c.frame = "none"
              /\ c.mode = "accepting" /\ ui.mode = "rendering" /\ c.stop = "none"
              /\ c.escape = NoKey /\ c.due = FALSE
    <3>1. /\ c.turn = ui.turn /\ c.drain = ui.drain
          /\ c.prompting = ui.prompting /\ c.put = ui.put
          /\ c.stop = ui.stop \/ c.stop \in {"exit", "failure"}
          /\ c.pc = ui.pc \/ c.pc = "top"
      BY <1>1, <2>3, CompletedView
    <3>2. \/ /\ ui.frame # "written" /\ c = ui
          \/ /\ ui.frame = "written" /\ ui.after \in {"none", "end"} /\ c.frame = "none"
             /\ c.mode = ui.mode /\ c.stop = ui.stop
             /\ c.escape = ui.escape /\ c.due = ui.due
          \/ /\ ui.frame = "written" /\ ui.after = "fence" /\ c.frame = "none"
             /\ c.mode = "arming" /\ c.stop = ui.stop
          \/ /\ c.frame = "none" /\ c.stop \in {"exit", "failure"}
             /\ c.mode = ui.mode \/ c.mode = "inactive"
             /\ c.escape = ui.escape /\ c.due = ui.due
          \/ /\ ui.frame = "written" /\ ui.after = "accept" /\ c.frame = "none"
             /\ c.mode = "accepting" /\ ui.mode = "rendering" /\ c.stop = ui.stop
             /\ c.escape = NoKey /\ c.due = FALSE
      BY <1>1, <2>3, CompletedView
    <3> QED
      BY <1>2, <2>1, <3>1, <3>2
  <2>6. \/ c.stop # "none" /\ ui' = c
        \/ /\ c.stop = "none" /\ ui'.pc \in {"select", "finish"} /\ ui'.stop = "none"
           /\ ui'.turn = c.turn /\ ui'.drain = c.drain /\ ui'.mode = c.mode
           /\ ui'.escape = c.escape /\ ui'.due = c.due
           /\ \/ /\ ui'.prompting = c.prompting /\ ui'.put = c.put
                 /\ ui'.frame = c.frame /\ ui'.after = c.after
              \/ /\ c.frame = "none" /\ c.mode = "inactive" /\ join.active # 0
                 /\ ui'.put = join.active
    BY <2>2, <2>4, PreparedIs
  <2>7. ui' \in UiType
    BY <2>2, <2>4, PreparedIs
  <2>8. /\ tty' \in Seq(KeyType) /\ cancelled' \in BOOLEAN
        /\ (tty' = tty \/ (tty' = <<>> /\ DOMAIN tty' = {}))
    BY <1>1, <1>2, <2>2, <2>7, NoRows, CancelIs
  <2>9. shown' \in Nat
    BY <1>1, <2>2, <2>5
  <2>10. Types'
    BY <1>2, <2>7, <2>8, <2>9, TypesOf DEF Types, InQuestion
  <2>11. LoopInv'
    BY <1>2, <2>5, <2>6, TypesOf DEF LoopInv
  <2>12. SelectorInv'
    <3>1. ASSUME ui'.mode = "accepting"
          PROVE  /\ ui'.prompting = ui.prompting /\ c.mode = "accepting"
                 /\ ui'.escape = c.escape /\ ui'.due = c.due
      BY <2>5, <2>6, <3>1
    <3>2. CASE ui'.mode = "accepting" /\ ui.mode = "accepting"
      <4>1. ui'.escape = ui.escape /\ ui'.due = ui.due /\ shown' = shown
        BY <2>2, <2>5, <3>1, <3>2
      <4> QED
        BY <2>8, <3>1, <3>2, <4>1 DEF DialogueInv, SelectorInv
    <3>3. CASE ui'.mode = "accepting" /\ ui.mode # "accepting"
      <4>1. /\ ui'.escape = NoKey /\ ~ui'.due /\ shown' = ui'.prompting
            /\ tty' = <<>> /\ DOMAIN tty' = {}
        BY <2>2, <2>5, <2>8, <3>1, <3>3, NoRows
      <4> QED
        BY <4>1 DEF SelectorInv
    <3> QED
      BY <3>2, <3>3 DEF SelectorInv
  <2>13. PutInv'
    <3>1. /\ (ui.mode # "inactive" \/ Fencing(ui)) => (join.active # 0 /\ ui.put = join.active)
          /\ Fencing(ui) => ui.mode = "inactive"
      BY <2>1 DEF DialogueInv, PutInv
    <3>2. Fencing(ui)' => ui'.mode = "inactive"
      BY <2>5, <2>6, <3>1 DEF Fencing
    <3>3. ui'.stop = "none" /\ (ui'.mode # "inactive" \/ Fencing(ui)')
            => join.active # 0 /\ ui'.put = join.active
      BY <2>5, <2>6, <3>1 DEF Fencing
    <3>4. ui'.drain => agent.pc = "ok" /\ InTurn'
      BY <1>1, <2>5, <2>6 DEF InTurn
    <3> QED
      BY <1>2, <3>2, <3>3, <3>4 DEF PutInv
  <2>14. ReplyInv'
    BY <1>2 DEF DialogueInv, ReplyInv
  <2> QED
    BY <2>10, <2>11, <2>12, <2>13, <2>14 DEF DialogueInv
<1> QED
  BY <1>5, <1>6

-----------------------------------------------------------------------------
(* The dialogue.                                                           *)

LEMMA ArmedStep ==
    ASSUME DialogueInv, Armed
    PROVE  DialogueInv'
<1> DEFINE v == [ui EXCEPT !.mode = "rendering"]
<1>1. /\ ui \in UiType /\ ui.turn \in Nat /\ join.active # 0 /\ ui.stop = "none"
      /\ ui.mode = "arming" /\ tty' = <<>> /\ Cancel(ui')
      /\ UNCHANGED <<agent, shown, world, rows, envelope, reply, join, sigs, heard>>
  BY TypesOf DEF Armed, BranchOnly, FlushedInput, Selecting
<1>2. ui.put = join.active /\ (ui.drain => agent.pc = "ok") /\ ~Fencing(ui)
  BY <1>1 DEF DialogueInv, PutInv
<1>3. v \in UiType /\ v.mode = "rendering" /\ v.turn = ui.turn /\ v.put = ui.put /\ v.drain = ui.drain
  BY <1>1 DEF UiType
<1>4. \/ ui' = Fail(v)
      \/ ui' = [v EXCEPT !.frame = "writing", !.after = "accept", !.pc = "top"]
  BY <1>1 DEF Armed
<1> HIDE DEF v
<1>5. /\ ui' \in UiType /\ ui'.turn = ui.turn /\ ui'.mode = "rendering" /\ ui'.pc = "top"
      /\ ui'.put = ui.put /\ ui'.drain = ui.drain /\ ui'.stop # "broken" /\ ~Fencing(ui')
  <2>1. CASE ui' = Fail(v)
    BY <1>3, <2>1, FailIs DEF Fencing
  <2>2. CASE ui' = [v EXCEPT !.frame = "writing", !.after = "accept", !.pc = "top"]
    <3>1. v.stop = "none"
      BY <1>1 DEF v, UiType
    <3>2. ui' \in UiType
      BY <1>3, <2>2 DEF UiType
    <3>3. /\ ui'.turn = v.turn /\ ui'.mode = v.mode /\ ui'.pc = "top" /\ ui'.put = v.put
          /\ ui'.drain = v.drain /\ ui'.stop = v.stop /\ ui'.after = "accept"
      BY <1>3, <2>2 DEF UiType
    <3> QED
      BY <1>3, <3>1, <3>2, <3>3 DEF Fencing
  <2> QED
    BY <1>4, <2>1, <2>2
<1>6. tty' \in Seq(KeyType) /\ cancelled' \in BOOLEAN
  BY <1>1, <1>5, NoRows, CancelIs
<1>7. Types'
  BY <1>1, <1>5, <1>6, TypesOf DEF Types, InQuestion
<1>8. LoopInv' /\ SelectorInv' /\ ReplyInv'
  BY <1>1, <1>5, TypesOf DEF DialogueInv, LoopInv, SelectorInv, ReplyInv
<1>9. PutInv'
  BY <1>1, <1>2, <1>5 DEF PutInv, InTurn
<1> QED
  BY <1>7, <1>8, <1>9 DEF DialogueInv

\* An answer is given by a key that was pressed at the selector of the active question.
LEMMA Answers ==
    ASSUME DialogueInv, NEW k \in KeyType, Answer(ui, k), k.seen = ui.prompting,
           ui.stop = "none", ui.mode = "accepting", InTurn,
           tty' \in Seq(KeyType), Cancel(ui'),
           sigs' \subseteq {"interrupt", "suspend", "exit"},
           heard' \subseteq {"interrupt", "suspend", "exit", "eof"},
           UNCHANGED <<agent, shown, world, rows, envelope>>
    PROVE  DialogueInv'
<1>1. /\ ui \in UiType /\ join \in JoinType /\ 0 \in 0 .. Questions
      /\ join.active \in 0 .. Questions /\ ui.prompting \in Nat /\ k.seen \in Nat
      /\ ui.put \in 0 .. Questions /\ reply \in ReplyType
  BY TypesOf DEF JoinType, UiType, KeyType
<1>2. /\ ui.put = join.active /\ (ui.drain => agent.pc = "ok") /\ ~Fencing(ui)
  BY DEF DialogueInv, PutInv
<1>3. /\ join' = [join EXCEPT !.active = 0, !.awaiting = join.active]
      /\ ui' = [ui EXCEPT !.mode = "inactive", !.pc = "top"]
      /\ \/ reply' = reply
         \/ /\ agent.q = join.active
            /\ reply' = [for |-> join.active, by |-> "user", put |-> ui.put,
                         prompting |-> ui.prompting, seen |-> k.seen]
  BY DEF Answer
<1>4. join' \in JoinType
  BY <1>1, <1>3 DEF JoinType
<1>5. ui' \in UiType
  BY <1>1, <1>3 DEF UiType
<1>6. /\ ui'.mode = "inactive" /\ ui'.pc = "top" /\ ui'.turn = ui.turn /\ ui'.drain = ui.drain
      /\ ui'.stop = "none" /\ ~Fencing(ui')
  BY <1>1, <1>2, <1>3 DEF UiType, Fencing
<1>7. ReplyInv' /\ reply' \in ReplyType
  <2>1. CASE reply' = reply
    BY <1>1, <2>1 DEF DialogueInv, ReplyInv
  <2>2. CASE /\ agent.q = join.active
             /\ reply' = [for |-> join.active, by |-> "user", put |-> ui.put,
                          prompting |-> ui.prompting, seen |-> k.seen]
    <3>1. /\ reply'.for = join.active /\ reply'.put = ui.put /\ reply'.seen = k.seen
          /\ reply'.prompting = ui.prompting
      BY <2>2
    <3>2. reply' \in ReplyType
      BY <1>1, <2>2 DEF ReplyType
    <3> QED
      BY <1>2, <2>2, <3>1, <3>2 DEF ReplyInv
  <2> QED
    BY <1>3, <2>1, <2>2
<1>8. cancelled' \in BOOLEAN
  BY <1>5, CancelIs
<1>9. Types'
  BY <1>4, <1>5, <1>7, <1>8, TypesOf DEF Types, InQuestion
<1>10. LoopInv' /\ SelectorInv'
  BY <1>6, TypesOf DEF LoopInv, SelectorInv
<1>11. PutInv'
  BY <1>2, <1>6 DEF PutInv, InTurn
<1> QED
  BY <1>7, <1>9, <1>10, <1>11 DEF DialogueInv

LEMMA EscapeStep ==
    ASSUME DialogueInv, EscapeExpires
    PROVE  DialogueInv'
<1>1. /\ ui.mode = "accepting" /\ ui.due /\ Cancel(ui') /\ ui.stop = "none" /\ InTurn
      /\ UNCHANGED <<agent, shown, world, rows, envelope, tty, sigs, heard>>
  BY DEF EscapeExpires, BranchOnly, Selecting, InTurn
<1>2. CASE ui' = Fail(ui) /\ UNCHANGED <<join, reply>>
  <2>1. cancelled' \in BOOLEAN /\ world' \in WorldType
    BY <1>1, <1>2, TypesOf, FailIs, CancelIs
  <2> QED
    BY <1>1, <1>2, <2>1, Fails
<1>3. CASE Answer(ui, ui.escape)
  <2>1. ui.escape \in KeyType /\ ui.escape.seen = ui.prompting
    BY <1>1, TypesOf DEF DialogueInv, SelectorInv, UiType
  <2> QED
    BY <1>1, <1>3, <2>1, TypesOf, Answers
<1> QED
  BY <1>2, <1>3 DEF EscapeExpires

\* What keys that wait do in a selector.
LEMMA FeedStep ==
    ASSUME DialogueInv, Feed, tty # <<>>, tty' = <<>>, Cancel(ui'), join.active # 0,
           ui.stop = "none", ui.mode = "accepting", InTurn,
           sigs' \subseteq {"interrupt", "suspend", "exit"},
           heard' \subseteq {"interrupt", "suspend", "exit", "eof"},
           UNCHANGED <<agent, shown, world, rows, envelope>>
    PROVE  DialogueInv'
<1>1. /\ ui \in UiType /\ tty \in Seq(KeyType) /\ tty' \in Seq(KeyType) /\ DOMAIN tty' = {}
      /\ Len(tty) \in DOMAIN tty /\ DOMAIN tty \subseteq Nat
      /\ \A n \in DOMAIN tty : tty[n] \in KeyType /\ tty[n].seen = ui.prompting
      /\ (ui.drain => agent.pc = "ok") /\ ~Fencing(ui) /\ ui.put = join.active
      /\ shown = ui.prompting
  <2>1. tty \in Seq(KeyType) /\ ui \in UiType
    BY TypesOf
  <2>2. Len(tty) \in DOMAIN tty /\ DOMAIN tty \subseteq Nat /\ \A n \in DOMAIN tty : tty[n] \in KeyType
    BY <2>1
  <2> QED
    BY <2>1, <2>2, NoRows DEF DialogueInv, PutInv, SelectorInv
<1>2. CASE Finals # {} /\ \E n \in Finals : Answer(ui, tty[n])
  <2>1. PICK n \in DOMAIN tty : Answer(ui, tty[n])
    BY <1>2 DEF Finals
  <2> QED
    BY <1>1, <2>1, Answers
<1>3. CASE /\ ui' = [PutQuestion(ui) EXCEPT !.mode = "inactive", !.pc = "top"]
           /\ UNCHANGED <<join, reply>>
  <2> DEFINE v == PutQuestion(ui)
  <2>1. /\ v \in UiType /\ v.turn = ui.turn /\ v.drain = ui.drain /\ v.stop = "none"
        /\ v.put = join.active
    BY <1>1, PutIs
  <2>2. ui' = [v EXCEPT !.mode = "inactive", !.pc = "top"]
    BY <1>3
  <2> HIDE DEF v
  <2>3. ui' \in UiType
    BY <2>1, <2>2 DEF UiType
  <2>4. /\ ui'.turn = v.turn /\ ui'.drain = v.drain /\ ui'.stop = v.stop /\ ui'.put = v.put
        /\ ui'.mode = "inactive" /\ ui'.pc = "top"
    BY <2>1, <2>2 DEF UiType
  <2>5. cancelled' \in BOOLEAN
    BY <2>3, CancelIs
  <2>6. Types'
    BY <1>1, <1>3, <2>3, <2>5, TypesOf DEF Types, InQuestion
  <2>7. LoopInv' /\ SelectorInv' /\ ReplyInv'
    BY <1>3, <2>1, <2>4, TypesOf DEF DialogueInv, LoopInv, SelectorInv, ReplyInv
  <2>8. PutInv'
    BY <1>1, <1>3, <2>1, <2>4 DEF PutInv, InTurn
  <2> QED
    BY <2>6, <2>7, <2>8 DEF DialogueInv
<1>4. CASE Finals = {}
  <2> DEFINE redraw == \E n \in DOMAIN tty : tty[n].key = "move"
             escape == IF Last(tty).key = "esc" THEN Last(tty) ELSE NoKey
             due == ~redraw /\ escape # NoKey
             frame == IF redraw THEN "writing" ELSE ui.frame
             after == IF redraw THEN "none" ELSE ui.after
  <2>1. /\ ui' = [ui EXCEPT !.escape = escape, !.due = due, !.frame = frame, !.after = after,
                            !.pc = "top"]
        /\ UNCHANGED <<join, reply>>
    BY <1>4 DEF Feed
  <2>2. Last(tty) \in KeyType /\ Last(tty).seen = ui.prompting
    BY <1>1 DEF Last
  <2>3. NoKey \in KeyType
    BY DEF NoKey, KeyType
  <2>4. /\ escape \in KeyType /\ (escape # NoKey => escape.seen = ui.prompting)
        /\ due \in BOOLEAN /\ (due => escape # NoKey)
    <3> HIDE DEF redraw
    <3> QED
      BY <2>2, <2>3
  <2>5. (frame = "writing" /\ after = "none") \/ (frame = ui.frame /\ after = ui.after)
    <3> HIDE DEF redraw
    <3> QED
      OBVIOUS
  <2> HIDE DEF escape, due, frame, after, redraw
  <2>6. /\ frame \in {"none", "writing", "written"} /\ after \in {"none", "end", "fence", "accept"}
    BY <1>1, <2>5 DEF UiType
  <2>7. ui' \in UiType
    BY <1>1, <2>1, <2>4, <2>6, ZenonT(60) DEF UiType
  <2>8. /\ ui'.turn = ui.turn /\ ui'.drain = ui.drain /\ ui'.stop = "none" /\ ui'.put = ui.put
        /\ ui'.mode = "accepting" /\ ui'.pc = "top" /\ ui'.prompting = ui.prompting
    BY <1>1, <2>1 DEF UiType
  <2>9. /\ ui'.escape = escape /\ ui'.due = due /\ ui'.frame = frame /\ ui'.after = after
    BY <1>1, <2>1 DEF UiType
  <2>10. cancelled' \in BOOLEAN
    BY <2>7, CancelIs
  <2>11. Types'
    BY <1>1, <2>1, <2>7, <2>10, TypesOf DEF Types, InQuestion
  <2>12. LoopInv' /\ ReplyInv'
    BY <2>1, <2>8, TypesOf DEF DialogueInv, LoopInv, ReplyInv
  <2>13. SelectorInv'
    BY <1>1, <2>4, <2>8, <2>9 DEF SelectorInv
  <2>14. PutInv'
    <3>1. ~Fencing(ui')
      BY <1>1, <2>5, <2>9 DEF Fencing
    <3> QED
      BY <1>1, <2>1, <2>8, <3>1 DEF PutInv, InTurn
  <2> QED
    BY <2>11, <2>12, <2>13, <2>14 DEF DialogueInv
<1>5. Finals # {} => (CHOOSE m \in Finals : \A k \in Finals : m <= k) \in Finals
  BY <1>1, FirstIs DEF Finals
<1> QED
  BY <1>2, <1>3, <1>4, <1>5 DEF Feed

LEMMA ReadStep ==
    ASSUME DialogueInv, Read
    PROVE  DialogueInv'
<1> DEFINE signals == IF ui.drain THEN {} ELSE sigs
           u == [ui EXCEPT !.stop = Observe(ui.stop, signals)]
           v == IF ui.drain THEN u ELSE Latched(u)
<1>1. /\ ui \in UiType /\ ui.turn \in Nat /\ world \in WorldType
      /\ sigs \subseteq {"interrupt", "suspend", "exit"}
      /\ heard \subseteq {"interrupt", "suspend", "exit", "eof"}
  BY TypesOf
<1>2. /\ tty # <<>> /\ tty' = <<>> /\ Cancel(ui') /\ ui.stop = "none" /\ ui.pc = "select" /\ InTurn
      /\ UNCHANGED <<agent, shown, world, rows, envelope>>
      /\ sigs' = sigs \ signals /\ heard' = heard \cup signals
      /\ \/ /\ v.stop # "none" /\ ui' = [v EXCEPT !.frame = "none", !.pc = "top"]
            /\ UNCHANGED <<join, reply>>
         \/ /\ ui' = [ui EXCEPT !.pc = "top"]
            /\ UNCHANGED <<join, reply>>
         \/ /\ ui' = Fail(ui)
            /\ UNCHANGED <<join, reply>>
         \/ /\ ui.mode = "accepting" /\ join.active # 0 /\ Feed
  BY DEF Read, BranchOnly, ReadEnabled, Selecting, InTurn
<1>3. signals \subseteq {"interrupt", "suspend", "exit"}
  BY <1>1
<1>4. /\ sigs' \subseteq {"interrupt", "suspend", "exit"}
      /\ heard' \subseteq {"interrupt", "suspend", "exit", "eof"}
  BY <1>1, <1>2, <1>3
<1> HIDE DEF signals
<1>5. /\ v \in UiType /\ v.turn = ui.turn /\ v.drain = ui.drain
      /\ v.prompting = ui.prompting /\ v.put = ui.put /\ v.escape = ui.escape /\ v.due = ui.due
      /\ v.mode = ui.mode /\ v.stop # "broken"
  <2> DEFINE stop == Observe(ui.stop, signals)
  <2>1. /\ stop \in {"none", "interrupt", "suspend", "eof", "exit", "failure", "broken"}
        /\ stop # "broken"
    BY <1>2, <1>3, ObserveIs
  <2> HIDE DEF stop
  <2>2. u = [ui EXCEPT !.stop = stop]
    BY DEF stop
  <2> HIDE DEF u
  <2>3. u \in UiType
    BY <1>1, <2>1, <2>2 DEF UiType
  <2>4. /\ u.turn = ui.turn /\ u.drain = ui.drain
        /\ u.prompting = ui.prompting /\ u.put = ui.put /\ u.escape = ui.escape
        /\ u.due = ui.due /\ u.mode = ui.mode /\ u.stop = stop
    BY <1>1, <2>2 DEF UiType
  <2>5. v = u \/ v = Fail(u)
    BY <2>3, LatchedIs
  <2> HIDE DEF v
  <2> QED
    BY <2>1, <2>3, <2>4, <2>5, FailIs
<1> HIDE DEF v, u
<1>6. ui.drain => agent.pc = "ok"
  BY DEF DialogueInv, PutInv
<1>7. CASE v.stop # "none" /\ ui' = [v EXCEPT !.frame = "none", !.pc = "top"] /\ UNCHANGED <<join, reply>>
  <2>1. ui' \in UiType
    BY <1>5, <1>7 DEF UiType
  <2>2. /\ ui'.turn = v.turn /\ ui'.drain = v.drain /\ ui'.stop = v.stop /\ ui'.mode = v.mode
        /\ ui'.prompting = v.prompting /\ ui'.put = v.put /\ ui'.escape = v.escape
        /\ ui'.due = v.due /\ ui'.pc = "top" /\ ui'.frame = "none"
    BY <1>5, <1>7 DEF UiType
  <2>3. cancelled' \in BOOLEAN /\ InTurn' /\ ~Fencing(ui')
    BY <1>2, <2>1, <2>2, CancelIs DEF InTurn, Fencing
  <2> QED
    BY <1>1, <1>2, <1>4, <1>5, <1>7, <2>1, <2>2, <2>3, LoopTurns
<1>8. CASE ui' = [ui EXCEPT !.pc = "top"] /\ UNCHANGED <<join, reply>>
  <2>1. ui' \in UiType
    BY <1>1, <1>8 DEF UiType
  <2>2. /\ ui'.turn = ui.turn /\ ui'.drain = ui.drain /\ ui'.stop = "none" /\ ui'.mode = ui.mode
        /\ ui'.prompting = ui.prompting /\ ui'.put = ui.put /\ ui'.escape = ui.escape
        /\ ui'.due = ui.due /\ ui'.pc = "top" /\ ui'.frame = ui.frame /\ ui'.after = ui.after
    BY <1>1, <1>2, <1>8 DEF UiType
  <2>3. cancelled' \in BOOLEAN /\ InTurn'
    BY <1>2, <2>1, <2>2, CancelIs DEF InTurn
  <2>4. Fencing(ui') => Fencing(ui)
    BY <2>2 DEF Fencing
  <2> QED
    BY <1>1, <1>2, <1>4, <1>8, <2>1, <2>2, <2>3, <2>4, LoopTurns
<1>9. CASE ui' = Fail(ui) /\ UNCHANGED <<join, reply>>
  <2>1. /\ ui' \in UiType /\ ui'.turn = ui.turn /\ ui'.drain = ui.drain
        /\ ui'.stop \notin {"none", "broken"} /\ ui'.mode = ui.mode
        /\ ui'.prompting = ui.prompting /\ ui'.put = ui.put /\ ui'.escape = ui.escape
        /\ ui'.due = ui.due /\ ui'.pc = "top" /\ ui'.frame = "none"
    BY <1>1, <1>9, FailIs
  <2>2. cancelled' \in BOOLEAN /\ InTurn' /\ ~Fencing(ui')
    BY <1>2, <2>1, CancelIs DEF InTurn, Fencing
  <2> QED
    BY <1>1, <1>2, <1>4, <1>9, <2>1, <2>2, LoopTurns
<1>10. CASE ui.mode = "accepting" /\ join.active # 0 /\ Feed
  BY <1>2, <1>4, <1>10, FeedStep
<1> QED
  BY <1>2, <1>7, <1>8, <1>9, <1>10

-----------------------------------------------------------------------------
(* The ends of a turn.                                                     *)

LEMMA ReadyStep ==
    ASSUME DialogueInv, TurnReady
    PROVE  DialogueInv'
<1> DEFINE stop == Observe(ui.stop, sigs)
           u == [ui EXCEPT !.stop = stop]
           v == Latched(u)
           last == IF agent.pc = "err" THEN Failed(v.stop) ELSE v.stop
           drain == last = "none"
           pc == IF last = "none" THEN "top" ELSE "finish"
<1>1. /\ ui \in UiType /\ ui.turn \in Nat /\ world \in WorldType
      /\ sigs \subseteq {"interrupt", "suspend", "exit"}
      /\ heard \subseteq {"interrupt", "suspend", "exit", "eof"}
      /\ ui.stop \in {"none", "interrupt", "suspend", "eof", "exit", "failure", "broken"}
  BY TypesOf DEF UiType
<1>2. /\ ui.pc = "select" /\ agent.pc \in {"ok", "err"}
      /\ ui' = [v EXCEPT !.stop = last, !.mode = "inactive", !.drain = drain, !.pc = pc]
      /\ world' = world \/ world' = [world EXCEPT !.torn = TRUE]
      /\ heard' = heard \cup sigs /\ sigs' = {}
      /\ UNCHANGED <<agent, rows, envelope, reply, join, cancelled, tty, shown>>
  BY DEF TurnReady, Ready
<1>3. ui.stop # "broken"
  BY <1>2 DEF DialogueInv, LoopInv
<1>4. /\ stop \in {"none", "interrupt", "suspend", "eof", "exit", "failure", "broken"}
      /\ stop # "broken" /\ (stop = "none" => ui.stop = "none")
  BY <1>1, <1>3, ObserveIs
<1> HIDE DEF stop
<1>5. u \in UiType
  BY <1>1, <1>4 DEF UiType
<1>6. /\ u.turn = ui.turn /\ u.prompting = ui.prompting /\ u.put = ui.put /\ u.escape = ui.escape
      /\ u.due = ui.due /\ u.mode = ui.mode /\ u.stop = stop /\ u.frame = ui.frame
      /\ u.after = ui.after
  BY <1>1 DEF UiType
<1> HIDE DEF u
<1>7. v \in UiType /\ (v = u \/ v = Fail(u))
  BY <1>5, LatchedIs
<1> HIDE DEF v
<1>8. /\ v.turn = ui.turn /\ v.prompting = ui.prompting /\ v.put = ui.put /\ v.escape = ui.escape
      /\ v.due = ui.due /\ v.stop # "broken" /\ (v.stop = "none" => ui.stop = "none")
      /\ v.frame = "none" \/ (v.frame = ui.frame /\ v.after = ui.after)
      /\ v.stop \in {"none", "interrupt", "suspend", "eof", "exit", "failure", "broken"}
  BY <1>4, <1>5, <1>6, <1>7, FailIs DEF UiType
<1>9. /\ last \in {"none", "interrupt", "suspend", "eof", "exit", "failure", "broken"}
      /\ last # "broken" /\ (last = "none" => v.stop = "none" /\ agent.pc # "err")
      /\ drain \in BOOLEAN /\ pc \in {"top", "finish"} /\ (drain => last = "none")
  BY <1>8 DEF Failed
<1> HIDE DEF last, drain, pc
<1>10. ui' \in UiType
  <2>1. [v EXCEPT !.stop = last] \in UiType
    BY <1>7, <1>9 DEF UiType
  <2>2. ui' = [[v EXCEPT !.stop = last] EXCEPT !.mode = "inactive", !.drain = drain, !.pc = pc]
    BY <1>2
  <2> QED
    BY <1>9, <2>1, <2>2, ZenonT(60) DEF UiType
<1>11. /\ ui'.turn = v.turn /\ ui'.prompting = v.prompting /\ ui'.put = v.put
       /\ ui'.escape = v.escape /\ ui'.due = v.due /\ ui'.mode = "inactive"
       /\ ui'.stop = last /\ ui'.drain = drain /\ ui'.pc = pc
       /\ ui'.frame = v.frame /\ ui'.after = v.after
  BY <1>2, <1>7 DEF UiType
<1>12. /\ world' \in WorldType /\ sigs' \subseteq {"interrupt", "suspend", "exit"}
       /\ heard' \subseteq {"interrupt", "suspend", "exit", "eof"}
  BY <1>1, <1>2 DEF WorldType
<1>13. Types'
  BY <1>2, <1>10, <1>12, TypesOf DEF Types, InQuestion
<1>14. Takeable(rows', ui'.turn)
  BY <1>2, <1>8, <1>11, TypesOf
<1>15. /\ Fencing(ui') => Fencing(ui)
       /\ ui'.drain => agent'.pc = "ok" /\ InTurn'
  BY <1>2, <1>8, <1>9, <1>11 DEF Fencing, InTurn
<1> QED
  BY <1>2, <1>8, <1>9, <1>11, <1>13, <1>14, <1>15, Carried

\* A turn that is left.
LEMMA FinishedStep ==
    ASSUME DialogueInv, NEW u \in UiType, NEW out \in {"continue", "eof", "signal", "failure"},
           Finished(u, out), u.turn = ui.turn, Takeable(rows', ui.turn), world' \in WorldType,
           sigs' \subseteq {"interrupt", "suspend", "exit"},
           heard' \subseteq {"interrupt", "suspend", "exit", "eof"}
    PROVE  DialogueInv'
<1>1. /\ Questions \in Nat /\ 0 \in 0 .. Questions /\ agent \in AgentType /\ tty \in Seq(KeyType)
  BY TypesOf
<1> DEFINE pc == IF out = "continue" THEN "idle" ELSE "exited"
           new == NewUi(u.turn)
<1>2. pc \in {"idle", "exited"}
  OBVIOUS
<1>3. ui' = [new EXCEPT !.pc = pc, !.committed = u.committed, !.out = out]
  BY DEF Finished
<1>4. NoKey \in KeyType
  BY DEF NoKey, KeyType
<1>5. u.turn \in Nat /\ u.committed \in BOOLEAN
  BY DEF UiType
<1>6. new \in UiType /\ new.turn = u.turn /\ new.mode = "inactive" /\ new.stop = "none"
      /\ new.frame = "none" /\ new.drain = FALSE
  BY <1>1, <1>4, <1>5 DEF NewUi, UiType
<1> HIDE DEF new, pc
<1>7. ui' \in UiType
  <2> DEFINE committed == u.committed
  <2>1. /\ committed \in BOOLEAN /\ out \in {"none", "continue", "eof", "signal", "failure"}
        /\ pc \in {"idle", "top", "select", "await", "finish", "exited"}
    BY <1>2, <1>5
  <2>2. ui' = [new EXCEPT !.pc = pc, !.committed = committed, !.out = out]
    BY <1>3
  <2>3. new \in UiType
    BY <1>6
  <2> DEFINE left == [new EXCEPT !.pc = pc, !.committed = committed]
  <2> HIDE DEF committed
  <2>4. left \in UiType
    BY <2>1, <2>3, ZenonT(60) DEF UiType
  <2>5. ui' = [left EXCEPT !.out = out]
    BY <2>2
  <2>6. out \in {"none", "continue", "eof", "signal", "failure"}
    BY <2>1
  <2> HIDE DEF left
  <2> QED
    BY <2>4, <2>5, <2>6 DEF UiType
<1>8. /\ ui'.turn = u.turn /\ ui'.mode = "inactive" /\ ui'.stop = "none" /\ ui'.frame = "none"
      /\ ~ui'.drain
  BY <1>3, <1>6 DEF UiType
<1>9. /\ NewJoin \in JoinType /\ NoReply \in ReplyType /\ NoReply.by # "user"
  BY <1>1 DEF NewJoin, JoinType, NoReply, ReplyType
<1>10. agent' = [Off EXCEPT !.q = agent.q] /\ agent.q \in 0 .. Questions /\ Off \in AgentType
  BY <1>1 DEF Finished, Off, AgentType
<1>11. agent' \in AgentType /\ agent'.pc = "off"
  <2>1. agent' \in AgentType
    BY <1>10 DEF AgentType
  <2>2. agent'.pc = Off.pc
    BY <1>10 DEF AgentType
  <2> QED
    BY <2>1, <2>2 DEF Off
<1>12. tty' \in Seq(KeyType)
  <2>1. tty' = [n \in DOMAIN tty |-> [tty[n] EXCEPT !.seen = 0]]
    BY DEF Finished
  <2>2. Len(tty) \in Nat /\ DOMAIN tty = 1 .. Len(tty) /\ \A n \in DOMAIN tty : tty[n] \in KeyType
    BY <1>1
  <2>3. \A n \in 1 .. Len(tty) : tty'[n] \in KeyType
    BY <2>1, <2>2 DEF KeyType
  <2>4. tty' = [n \in 1 .. Len(tty) |-> tty'[n]]
    BY <2>1, <2>2
  <2> QED
    BY <2>2, <2>3, <2>4, IsASeq
<1>13. join' = NewJoin /\ envelope' = 0 /\ reply' = NoReply /\ cancelled' = FALSE /\ shown' = 0
  BY DEF Finished
<1>14. Types'
  BY <1>1, <1>7, <1>9, <1>11, <1>12, <1>13 DEF Types, InQuestion
<1>15. LoopInv' /\ SelectorInv' /\ ReplyInv'
  BY <1>8, <1>9, <1>13 DEF LoopInv, SelectorInv, ReplyInv
<1>16. PutInv'
  BY <1>8 DEF PutInv, Fencing
<1> QED
  BY <1>14, <1>15, <1>16 DEF DialogueInv

LEMMA FinishStep ==
    ASSUME DialogueInv, Finish
    PROVE  DialogueInv'
<1> DEFINE stop == Observe(ui.stop, sigs)
           u0 == [ui EXCEPT !.stop = stop]
           u == Latched(u0)
           w == [u EXCEPT !.committed = u.committed \/ HasPrompt]
<1>1. /\ ui \in UiType /\ ui.turn \in Nat /\ world \in WorldType
      /\ sigs \subseteq {"interrupt", "suspend", "exit"}
      /\ heard \subseteq {"interrupt", "suspend", "exit", "eof"}
      /\ ui.stop \in {"none", "interrupt", "suspend", "eof", "exit", "failure", "broken"}
  BY TypesOf DEF UiType
<1>2. /\ ui.pc = "finish" /\ sigs' = {} /\ heard' = heard \cup sigs
      /\ \/ /\ u.stop = "none" /\ rows' = rows /\ world' = world
            /\ \E out \in {"continue", "failure"} : Finished(u, out)
         \/ /\ u.stop # "none" /\ rows' = <<>>
            /\ \/ /\ world' = world
                  /\ Finished(w, Disposition(u.stop)) \/ Finished(w, "failure")
               \/ /\ Troubled /\ Finished(w, "failure")
  BY DEF Finish
<1>3. ui.stop # "broken"
  BY <1>2 DEF DialogueInv, LoopInv
<1>4. /\ stop \in {"none", "interrupt", "suspend", "eof", "exit", "failure", "broken"}
      /\ stop # "broken"
  BY <1>1, <1>3, ObserveIs
<1> HIDE DEF stop
<1>5. u0 \in UiType /\ u0.turn = ui.turn /\ u0.stop = stop
  BY <1>1, <1>4 DEF UiType
<1> HIDE DEF u0
<1>6. /\ u \in UiType /\ u.turn = ui.turn /\ u.committed \in BOOLEAN
      /\ u.stop \in {"none", "interrupt", "suspend", "eof", "exit", "failure"}
  <2>1. u \in UiType /\ (u = u0 \/ u = Fail(u0))
    BY <1>5, LatchedIs
  <2> HIDE DEF u
  <2> QED
    BY <1>4, <1>5, <2>1, FailIs DEF UiType
<1> HIDE DEF u
<1>7. w \in UiType /\ w.turn = ui.turn
  <2> DEFINE committed == u.committed \/ HasPrompt
  <2>1. committed \in BOOLEAN
    OBVIOUS
  <2>2. w = [u EXCEPT !.committed = committed]
    OBVIOUS
  <2> HIDE DEF committed, w
  <2> QED
    BY <1>6, <2>1, <2>2 DEF UiType
<1> HIDE DEF w
<1>8. u.stop # "none" => Disposition(u.stop) \in {"continue", "eof", "signal", "failure"}
  BY <1>6 DEF Disposition
<1>9. Takeable(rows', ui.turn)
  <2>1. Takeable(<<>>, ui.turn)
    BY NoRows DEF Takeable
  <2> QED
    BY <1>2, <2>1, TypesOf
<1>10. world' \in WorldType
  BY <1>1, <1>2, TroubledIs
<1>11. /\ sigs' \subseteq {"interrupt", "suspend", "exit"}
       /\ heard' \subseteq {"interrupt", "suspend", "exit", "eof"}
  BY <1>1, <1>2
<1> QED
  BY <1>2, <1>6, <1>7, <1>8, <1>9, <1>10, <1>11, FinishedStep

LEMMA BrokenStep ==
    ASSUME DialogueInv, BrokenEnds
    PROVE  DialogueInv'
BY TypesOf, FinishedStep DEF BrokenEnds

\* The next turn.
LEMMA StartStep ==
    ASSUME DialogueInv, StartTurn
    PROVE  DialogueInv'
<1>1. /\ ui \in UiType /\ ui.turn \in Nat /\ agent \in AgentType /\ join \in JoinType
      /\ 0 \in 0 .. Questions /\ tty \in Seq(KeyType) /\ Questions \in Nat
  BY TypesOf
<1>2. /\ ui.pc = "idle" /\ UNCHANGED <<rows, envelope, reply, cancelled, shown, sigs, world>>
  BY DEF StartTurn
<1>3. ~ui.drain /\ ui.stop # "broken"
  BY <1>2 DEF DialogueInv, PutInv, LoopInv, InTurn
<1>4. CASE /\ ui' = [ui EXCEPT !.pc = "exited", !.out = "failure"]
           /\ UNCHANGED <<agent, join, tty, heard>>
  <2>1. ui' \in UiType
    BY <1>1, <1>4, ZenonT(60) DEF UiType
  <2>2. /\ ui'.stop = ui.stop /\ ui'.frame = ui.frame /\ ui'.after = ui.after
        /\ ui'.turn = ui.turn /\ ui'.mode = ui.mode /\ ui'.prompting = ui.prompting
        /\ ui'.put = ui.put /\ ui'.escape = ui.escape /\ ui'.due = ui.due /\ ui'.drain = ui.drain
    BY <1>1, <1>4 DEF UiType
  <2>3. Fencing(ui') => Fencing(ui)
    BY <2>2 DEF Fencing
  <2> QED
    BY <1>1, <1>2, <1>3, <1>4, <2>1, <2>2, <2>3, TypesOf, LoopTurns
<1>5. CASE /\ ui' = NewUi(ui.turn + 1) /\ join' = [join EXCEPT !.open = TRUE]
           /\ agent' = [Off EXCEPT !.pc = "start", !.q = agent.q]
           /\ heard' = {} /\ (tty' = tty \/ tty' = <<>>)
  <2>1. NoKey \in KeyType /\ ui.turn + 1 \in Nat
    BY <1>1 DEF NoKey, KeyType
  <2>2. ui' \in UiType /\ ui'.turn = ui.turn + 1 /\ ui'.mode = "inactive" /\ ui'.stop = "none"
        /\ ui'.frame = "none" /\ ~ui'.drain
    BY <1>1, <1>5, <2>1 DEF NewUi, UiType
  <2>3. join' \in JoinType
    BY <1>1, <1>5 DEF JoinType
  <2>4. Off \in AgentType /\ agent.q \in 0 .. Questions
    BY <1>1 DEF Off, AgentType
  <2>5. agent' \in AgentType /\ agent'.pc = "start" /\ agent'.q = agent.q
    BY <1>5, <2>4 DEF AgentType
  <2>6. tty' \in Seq(KeyType)
    BY <1>1, <1>5, NoRows
  <2>7. Types'
    BY <1>2, <1>5, <2>2, <2>3, <2>5, <2>6, TypesOf DEF Types, InQuestion
  <2>8. Takeable(rows', ui'.turn)
    BY <1>1, <1>2, <2>1, <2>2, TypesOf, RowsGrow
  <2>9. LoopInv' /\ SelectorInv' /\ ReplyInv'
    BY <1>2, <2>2, <2>5, <2>8 DEF DialogueInv, LoopInv, SelectorInv, ReplyInv
  <2>10. PutInv'
    BY <2>2 DEF PutInv, Fencing
  <2> QED
    BY <2>7, <2>9, <2>10 DEF DialogueInv
<1> QED
  BY <1>4, <1>5 DEF StartTurn

-----------------------------------------------------------------------------
LEMMA DialogueStarts == Init => DialogueInv
<1> SUFFICES ASSUME Init PROVE DialogueInv
  OBVIOUS
<1>1. Questions \in Nat /\ 0 \in 0 .. Questions /\ NoKey \in KeyType
  BY TerminalAssumption DEF NoKey, KeyType
<1> DEFINE new == NewUi(0)
<1>2. /\ new \in UiType /\ new.turn = 0 /\ new.mode = "inactive" /\ new.stop = "none"
      /\ new.frame = "none" /\ new.drain = FALSE
  BY <1>1 DEF NewUi, UiType
<1>3. ui = [new EXCEPT !.pc = "idle"]
  BY DEF Init
<1> HIDE DEF new
<1>4. /\ ui \in UiType /\ ui.turn = 0 /\ ui.mode = "inactive" /\ ui.stop = "none"
      /\ ui.frame = "none" /\ ~ui.drain
  BY <1>2, <1>3 DEF UiType
<1>5. /\ NewJoin \in JoinType /\ NoReply \in ReplyType /\ NoReply.by # "user" /\ Off \in AgentType
      /\ Off.pc = "off"
  BY <1>1 DEF NewJoin, JoinType, NoReply, ReplyType, Off, AgentType
<1>6. world \in WorldType
  BY DEF Init, WorldType
<1>7. Types
  BY <1>1, <1>4, <1>5, <1>6, NoRows DEF Init, Types, InQuestion
<1>8. LoopInv /\ SelectorInv /\ PutInv /\ ReplyInv
  BY <1>4, <1>5, NoRows DEF Init, LoopInv, Takeable, SelectorInv, PutInv, Fencing, ReplyInv
<1> QED
  BY <1>7, <1>8 DEF DialogueInv

LEMMA DialogueStays == DialogueInv /\ [Next]_vars => DialogueInv'
<1> SUFFICES ASSUME DialogueInv, [Next]_vars PROVE DialogueInv'
  OBVIOUS
<1>1. CASE UNCHANGED vars
  BY <1>1 DEF vars, DialogueInv, Types, InQuestion, LoopInv, Takeable, SelectorInv, PutInv, Fencing,
     InTurn, ReplyInv
<1>2. CASE Loop
  BY <1>2, TopStep, QuietSteps, FailingSteps, ArmedStep, TakeSteps, ReadStep, EscapeStep, ReadyStep,
     FinishStep, BrokenStep DEF Loop
<1>3. CASE Next /\ ~Loop
  BY <1>3, AgentSteps, WorldSteps, FailingSteps, QuietSteps, StartStep, PressStep DEF Next
<1> QED
  BY <1>1, <1>2, <1>3

LEMMA TypesAreRight == DialogueInv => TypeOK
<1> SUFFICES ASSUME DialogueInv PROVE TypeOK
  OBVIOUS
<1>1. /\ agent \in AgentType /\ envelope \in 0 .. Questions /\ join \in JoinType /\ ui \in UiType
      /\ sigs \subseteq {"interrupt", "suspend", "exit"} /\ Questions \in Nat
      /\ heard \subseteq {"interrupt", "suspend", "exit", "eof"}
  BY TypesOf
<1>2. Halves(join) \subseteq 1 .. Questions
  BY <1>1 DEF Halves, JoinType
<1>3. /\ agent.pc \in {"off", "start", "admit", "work", "asked", "asking", "decide", "ended",
                       "ok", "err"}
      /\ agent.q \in 0 .. Questions
  BY <1>1 DEF AgentType
<1>4. /\ ui.pc \in {"idle", "top", "select", "await", "finish", "exited"}
      /\ ui.stop \in {"none", "interrupt", "suspend", "eof", "exit", "failure", "broken"}
      /\ ui.mode \in {"inactive", "arming", "rendering", "accepting"}
      /\ ui.frame \in {"none", "writing", "written"}
  BY <1>1 DEF UiType
<1> QED
  BY <1>1, <1>2, <1>3, <1>4 DEF TypeOK

LEMMA DialogueHolds == Spec => []DialogueInv
<1>1. Init => DialogueInv
  BY DialogueStarts
<1>2. DialogueInv /\ [Next]_vars => DialogueInv'
  BY DialogueStays
<1> QED
  BY <1>1, <1>2, PTL DEF Spec

\* An answer that is the user's was given by a key that was pressed when the selector of
\* this very question was complete on the screen (approval.rs, approval_join.rs): however
\* many turns, questions, keys and signals there are, and whatever fails.
THEOREM AnswersAreMeant == Spec => []AnswerIsMeant
<1>1. DialogueInv => AnswerIsMeant
  BY TypesAreRight DEF DialogueInv, ReplyInv, AnswerIsMeant
<1> QED
  BY <1>1, DialogueHolds, PTL

-----------------------------------------------------------------------------
(* The order of things in a turn that nobody has stopped.                  *)

\* The order in which the rows of a turn are committed.
Rank(r) ==
    CASE r.kind = "goal" -> 0
      [] r.kind = "start" -> 1
      [] r.kind = "prompt" -> 2
      [] r.kind = "asked" -> 2 * r.q + 1
      [] r.kind = "decided" -> 2 * r.q + 2
      [] OTHER -> 2 * Questions + 3

\* The rank of the last row that the agent may have committed.
LastRank(a) ==
    CASE a.pc = "start" -> 0
      [] a.pc = "admit" -> 1
      [] a.pc = "work" -> 2 * a.q + 2
      [] a.pc \in InQuestion -> 2 * a.q + 1
      [] OTHER -> 2 * Questions + 3
Committed == LastRank(agent)

InQ == agent.pc \in InQuestion
Ranks == {Rank(rows[k]) : k \in DOMAIN rows}
Ordered == \A j, k \in DOMAIN rows : j < k => Rank(rows[j]) < Rank(rows[k])

\* The row that asks a question, or that says it is decided, is on its way.
Asked(q) == q # 0 /\ 2 * q + 1 \in Ranks
Decided(q) == 2 * q + 2 \in Ranks

RowOrder == Ordered /\ \A x \in Ranks : x <= Committed

\* What the join knows of was asked, and not yet decided.
Known == {join.asked, join.active, join.awaiting} \ {0}
KnownInv ==
    \A h \in Known :
        /\ Decided(h) \/ (h = agent.q /\ InQ)
        /\ \A x \in Ranks : x > 2 * h + 1

AskedInv ==
    /\ \A q \in 1 .. Questions : Asked(q) => q = agent.q /\ (InQ \/ Decided(q))
    /\ InQ => Asked(agent.q) \/ agent.q \in Known

DecidedInv == \A d \in join.decided : 2 * d + 2 <= Committed /\ \A x \in Ranks : x > 2 * d + 2

HalfInv ==
    /\ join.asked \in {0, agent.q} /\ join.active \in {0, agent.q}
    /\ join.active # 0 => join.asked = 0 /\ join.envelope = 0
    /\ join.asked # 0 => join.envelope = 0
    /\ join.awaiting # 0 => join.asked = 0 /\ join.active = 0
    /\ join.envelope # 0 => join.envelope = agent.q /\ Asked(agent.q)

EndedInv ==
    /\ join.open /\ join.ended = ui.ended
    /\ join.ended => Ranks = {} /\ agent.pc \in {"ended", "ok"} /\ Halves(join) = {}

JoinInv == RowOrder /\ KnownInv /\ AskedInv /\ DecidedInv /\ HalfInv /\ EndedInv

\* The question is neither on its way to the user nor with him.
Dealt == join.active = 0 /\ join.asked = 0 /\ join.envelope = 0 /\ ~Asked(agent.q)

ChannelInv ==
    /\ envelope # 0 =>
        /\ envelope = agent.q /\ join.active = 0 /\ join.envelope = 0
        /\ agent.pc = "asking" \/ agent.late
    /\ agent.pc \in {"work", "decide"} /\ ~agent.late /\ ~agent.stopped => Dealt
    /\ agent.pc = "asking" /\ reply # NoReply => Dealt /\ envelope = 0
    /\ agent.pc = "asked" => join.active = 0 /\ join.envelope = 0 /\ reply = NoReply

FrameInv ==
    /\ ui.mode = "arming" => ui.frame = "none"
    /\ ui.mode = "rendering" => ui.frame # "none" /\ ui.after = "accept"
    /\ ui.frame # "none" /\ ui.after = "accept" => ui.mode = "rendering" \/ world.torn

\* What a turn that nobody has stopped is like, as long as there was no trouble.
Smooth == InTurn /\ ui.stop = "none" /\ ~world.trouble
TurnInv == Smooth => JoinInv /\ ChannelInv /\ FrameInv

\* Rows of the turn, and of the gap before it.
RowsInv ==
    /\ InTurn => \A k \in DOMAIN rows :
          IF rows[k].kind = "goal" THEN rows[k].turn < ui.turn ELSE rows[k].turn = ui.turn
    /\ ui.pc = "idle" => \A k \in DOMAIN rows : rows[k].kind = "goal"
    /\ ui.pc = "idle" => Len(rows) <= 1 /\ join = NewJoin /\ envelope = 0 /\ ~cancelled
    /\ InTurn => agent.admitted = (ui.committed \/ HasPrompt)
    /\ InTurn /\ agent.pc \in {"start", "admit"} => ~agent.admitted

\* Who has stopped the turn, and where trouble has left its mark.
StopInv ==
    /\ InTurn => agent.pc # "off" /\ ui.out = "none"
    /\ ~InTurn => ui.stop = "none"
    /\ ui.pc = "finish" => Ready
    /\ ui.pc = "finish" /\ ui.stop = "none" => ui.drain /\ ui.ended
    /\ ui.pc = "finish" /\ agent.pc = "err" => ui.stop \in {"exit", "failure"}
    /\ ui.pc = "await" <=> ui.stop = "broken"
    /\ cancelled => ui.stop # "none"

TroubleInv ==
    /\ world.fault => world.trouble
    /\ ui.pc = "idle" => ~world.trouble /\ ui.out # "failure"
    /\ InTurn /\ world.fault => agent.pc \notin {"start", "admit"}
    /\ InTurn /\ world.trouble =>
           world.fault \/ agent.pc = "err" \/ ui.stop \in {"exit", "failure", "broken"}
    /\ agent.pc = "err" \/ ui.stop = "broken" => world.trouble

\* The stop that stands for what was heard.
Hears(stop, H) ==
    /\ "exit" \in H <=> stop = "exit"
    /\ stop = "eof" => "eof" \in H
    /\ "eof" \in H => stop \in {"eof", "exit", "failure"}

HeardInv == InTurn => Hears(ui.stop, heard)

OrderInv == RowsInv /\ StopInv /\ TroubleInv /\ HeardInv /\ TurnInv /\ OnlyTroubleFails

-----------------------------------------------------------------------------
\* Ranks tell the rows apart.
LEMMA RankIs ==
    ASSUME NEW r \in RowType
    PROVE  /\ Rank(r) \in Nat /\ Rank(r) <= 2 * Questions + 3
           /\ r.kind = "goal" => Rank(r) = 0
           /\ r.kind = "start" => Rank(r) = 1
           /\ r.kind = "prompt" => Rank(r) = 2
           /\ r.kind = "asked" => Rank(r) = 2 * r.q + 1
           /\ r.kind = "decided" => Rank(r) = 2 * r.q + 2
           /\ r.kind \in {"end", "plan", "title"} => Rank(r) = 2 * Questions + 3
<1>1. Questions \in Nat /\ r.q \in 0 .. Questions
  BY TerminalAssumption DEF RowType
<1>2. r.kind = "goal" => Rank(r) = 0
  BY DEF Rank
<1>3. r.kind = "start" => Rank(r) = 1
  BY DEF Rank
<1>4. r.kind = "prompt" => Rank(r) = 2
  BY DEF Rank
<1>5. r.kind = "asked" => Rank(r) = 2 * r.q + 1
  BY DEF Rank
<1>6. r.kind = "decided" => Rank(r) = 2 * r.q + 2
  BY DEF Rank
<1>7. r.kind \in {"end", "plan", "title"} => Rank(r) = 2 * Questions + 3
  BY DEF Rank
<1>8. r.kind \in {"start", "prompt", "asked", "decided", "end", "goal", "plan", "title"}
  BY DEF RowType
<1>9. 2 * r.q + 1 \in Nat /\ 2 * r.q + 2 \in Nat /\ 2 * Questions + 3 \in Nat
      /\ 2 * r.q + 2 <= 2 * Questions + 3
  BY <1>1
<1> QED
  BY <1>1, <1>2, <1>3, <1>4, <1>5, <1>6, <1>7, <1>8, <1>9

LEMMA LastRankIs ==
    ASSUME NEW a \in AgentType
    PROVE  /\ a.pc = "start" => LastRank(a) = 0
           /\ a.pc = "admit" => LastRank(a) = 1
           /\ a.pc = "work" => LastRank(a) = 2 * a.q + 2
           /\ a.pc \in InQuestion => LastRank(a) = 2 * a.q + 1
           /\ a.pc \in {"ended", "ok", "err", "off"} => LastRank(a) = 2 * Questions + 3
           /\ LastRank(a) \in Nat /\ LastRank(a) <= 2 * Questions + 3
<1>1. Questions \in Nat /\ a.q \in 0 .. Questions
  BY TerminalAssumption DEF AgentType
<1>2. a.pc = "start" => LastRank(a) = 0
  BY DEF LastRank, InQuestion
<1>3. a.pc = "admit" => LastRank(a) = 1
  BY DEF LastRank, InQuestion
<1>4. a.pc = "work" => LastRank(a) = 2 * a.q + 2
  BY DEF LastRank, InQuestion
<1>5. a.pc \in InQuestion => LastRank(a) = 2 * a.q + 1
  BY DEF LastRank, InQuestion
<1>6. a.pc \in {"ended", "ok", "err", "off"} => LastRank(a) = 2 * Questions + 3
  BY DEF LastRank, InQuestion
<1>7. a.pc \in {"start", "admit", "work"} \cup InQuestion \cup {"ended", "ok", "err", "off"}
  BY DEF AgentType, InQuestion
<1>8. 2 * a.q + 1 \in Nat /\ 2 * a.q + 2 \in Nat /\ 2 * Questions + 3 \in Nat
      /\ 2 * a.q + 1 <= 2 * Questions + 3 /\ 2 * a.q + 2 <= 2 * Questions + 3
      /\ 0 <= 2 * Questions + 3 /\ 1 <= 2 * Questions + 3 /\ 0 \in Nat /\ 1 \in Nat
      /\ 2 * Questions + 3 <= 2 * Questions + 3
  BY <1>1
<1>9. LastRank(a) \in {0, 1, 2 * a.q + 1, 2 * a.q + 2, 2 * Questions + 3}
  BY <1>2, <1>3, <1>4, <1>5, <1>6, <1>7
<1> QED
  BY <1>2, <1>3, <1>4, <1>5, <1>6, <1>8, <1>9

LEMMA CommittedIs ==
    ASSUME DialogueInv, agent' \in AgentType
    PROVE  /\ Committed = LastRank(agent) /\ Committed' = LastRank(agent')
           /\ Committed \in Nat /\ Committed' \in Nat
           /\ InQ => Committed = 2 * agent.q + 1
<1>1. agent \in AgentType
  BY TypesOf
<1>2. Committed = LastRank(agent) /\ Committed' = LastRank(agent')
  BY DEF Committed, LastRank, InQuestion
<1> QED
  BY <1>1, <1>2, LastRankIs DEF InQ

LEMMA RanksAreNumbers ==
    ASSUME DialogueInv
    PROVE  Ranks \subseteq Nat /\ (Ranks = {} <=> rows = <<>>)
<1>1. rows \in Seq(RowType)
  BY TypesOf
<1>2. \A k \in DOMAIN rows : rows[k] \in RowType
  BY <1>1
<1>3. rows = <<>> <=> DOMAIN rows = {}
  BY <1>1
<1> QED
  BY <1>2, <1>3, RankIs DEF Ranks

\* A row is committed: its rank is the greatest.
LEMMA RankGrows ==
    ASSUME DialogueInv, RowOrder, NEW r \in RowType, rows' = Append(rows, r), Rank(r) > Committed
    PROVE  /\ Ranks' = Ranks \cup {Rank(r)} /\ Ordered'
           /\ \A x \in Ranks : x < Rank(r)
<1>1. /\ rows \in Seq(RowType) /\ rows' \in Seq(RowType)
      /\ \A k \in DOMAIN rows' : \/ k \in DOMAIN rows /\ rows'[k] = rows[k]
                                 \/ k = Len(rows) + 1 /\ rows'[k] = r
      /\ \A k \in DOMAIN rows : k \in DOMAIN rows' /\ rows'[k] = rows[k] /\ k <= Len(rows)
      /\ Len(rows) \in Nat /\ Len(rows) + 1 \in DOMAIN rows' /\ rows'[Len(rows) + 1] = r
  BY TypesOf, AppendRow
<1>2. /\ Committed \in Nat /\ Rank(r) \in Nat /\ Ranks \subseteq Nat
      /\ \A k \in DOMAIN rows : Rank(rows[k]) \in Ranks /\ k \in Nat
  <2>1. Committed \in Nat
    BY TypesOf, LastRankIs DEF Committed
  <2>2. Rank(r) \in Nat /\ Ranks \subseteq Nat
    BY RankIs, RanksAreNumbers
  <2>3. \A k \in DOMAIN rows : Rank(rows[k]) \in Ranks
    BY DEF Ranks
  <2>4. \A k \in DOMAIN rows : k \in Nat
    BY <1>1
  <2> QED
    BY <2>1, <2>2, <2>3, <2>4
<1>3. \A x \in Ranks : x < Rank(r)
  BY <1>2 DEF RowOrder
<1>4. Ranks' = Ranks \cup {Rank(r)}
  <2>1. Ranks' = {Rank(rows'[k]) : k \in DOMAIN rows'}
    BY DEF Ranks, Rank
  <2>2. {Rank(rows'[k]) : k \in DOMAIN rows'} = Ranks \cup {Rank(r)}
    BY <1>1 DEF Ranks
  <2> QED
    BY <2>1, <2>2
<1>5. \A j, k \in DOMAIN rows' : j < k => Rank(rows'[j]) < Rank(rows'[k])
  <2>1. ASSUME NEW j \in DOMAIN rows', NEW k \in DOMAIN rows', j < k
        PROVE  Rank(rows'[j]) < Rank(rows'[k])
    <3>1. j \in DOMAIN rows /\ rows'[j] = rows[j]
      BY <1>1, <1>2, <2>1
    <3>2. CASE k \in DOMAIN rows /\ rows'[k] = rows[k]
      BY <2>1, <3>1, <3>2 DEF RowOrder, Ordered
    <3>3. CASE rows'[k] = r
      BY <1>2, <1>3, <3>1, <3>3
    <3> QED
      BY <1>1, <3>2, <3>3
  <2> QED
    BY <2>1
<1> QED
  BY <1>3, <1>4, <1>5 DEF Ordered, Rank

\* The first row is taken: its rank was the least.
LEMMA RankFalls ==
    ASSUME DialogueInv, Ordered, rows # <<>>, rows' = Tail(rows)
    PROVE  /\ Ranks' = Ranks \ {Rank(Head(rows))} /\ Ordered'
           /\ Rank(Head(rows)) \in Ranks
           /\ \A x \in Ranks' : x > Rank(Head(rows))
           /\ \A x \in Ranks : x >= Rank(Head(rows))
<1> DEFINE r == Head(rows)
<1>1. /\ r \in RowType /\ r = rows[1] /\ 1 \in DOMAIN rows /\ rows \in Seq(RowType)
      /\ rows' \in Seq(RowType)
      /\ \A k \in DOMAIN rows' : k \in Nat /\ k + 1 \in DOMAIN rows /\ rows'[k] = rows[k + 1] /\ k >= 1
      /\ \A k \in DOMAIN rows : k # 1 => k \in Nat /\ k - 1 \in DOMAIN rows' /\ rows'[k - 1] = rows[k]
  BY TypesOf, TailOf
<1>2. \A k \in DOMAIN rows : rows[k] \in RowType /\ k \in Nat /\ k >= 1
  BY <1>1
<1>3. Rank(r) \in Nat /\ \A k \in DOMAIN rows : Rank(rows[k]) \in Nat
  BY <1>1, <1>2, RankIs
<1>4. \A k \in DOMAIN rows : k # 1 => Rank(r) < Rank(rows[k])
  BY <1>1, <1>2 DEF Ordered
<1>5. \A k \in DOMAIN rows' : Rank(r) < Rank(rows'[k])
  <2>1. ASSUME NEW k \in DOMAIN rows'  PROVE Rank(r) < Rank(rows'[k])
    <3>1. k + 1 \in DOMAIN rows /\ rows'[k] = rows[k + 1] /\ k + 1 # 1
      BY <1>1
    <3> QED
      BY <1>4, <3>1
  <2> QED
    BY <2>1
<1>6. {Rank(rows'[k]) : k \in DOMAIN rows'} = Ranks \ {Rank(r)}
  <2>1. ASSUME NEW k \in DOMAIN rows'  PROVE Rank(rows'[k]) \in Ranks \ {Rank(r)}
    <3>1. Rank(rows'[k]) \in Ranks
      BY <1>1 DEF Ranks
    <3>2. Rank(rows'[k]) # Rank(r)
      <4>1. k + 1 \in DOMAIN rows /\ rows'[k] = rows[k + 1]
        BY <1>1
      <4> QED
        BY <1>3, <1>5, <4>1
    <3> QED
      BY <3>1, <3>2
  <2>2. ASSUME NEW k \in DOMAIN rows, Rank(rows[k]) # Rank(r)
        PROVE  \E n \in DOMAIN rows' : rows'[n] = rows[k]
    BY <1>1, <2>2
  <2> QED
    BY <2>1, <2>2 DEF Ranks
<1>7. Ranks' = {Rank(rows'[k]) : k \in DOMAIN rows'}
  BY DEF Ranks, Rank
<1>8. \A j, k \in DOMAIN rows' : j < k => Rank(rows'[j]) < Rank(rows'[k])
  <2>1. ASSUME NEW j \in DOMAIN rows', NEW k \in DOMAIN rows', j < k
        PROVE  Rank(rows'[j]) < Rank(rows'[k])
    <3>1. /\ j + 1 \in DOMAIN rows /\ k + 1 \in DOMAIN rows /\ j + 1 < k + 1
          /\ rows'[j] = rows[j + 1] /\ rows'[k] = rows[k + 1]
      BY <1>1, <2>1
    <3> QED
      BY <3>1 DEF Ordered
  <2> QED
    BY <2>1
<1>9. \A x \in Ranks' : x > Rank(r)
  BY <1>5, <1>7
<1>10. Rank(r) \in Ranks /\ \A x \in Ranks : x >= Rank(r)
  BY <1>1, <1>3, <1>4 DEF Ranks
<1> QED
  BY <1>6, <1>7, <1>8, <1>9, <1>10 DEF Ordered, Rank

LEMMA Hearing ==
    ASSUME NEW stop \in {"none", "interrupt", "suspend", "eof", "exit", "failure"},
           NEW H, Hears(stop, H)
    PROVE  /\ \A S \in SUBSET {"interrupt", "suspend", "exit"} : Hears(Observe(stop, S), H \cup S)
           /\ Hears(Failed(stop), H)
<1>1. Hears(Failed(stop), H)
  BY DEF Hears, Failed
<1>2. ASSUME NEW S \in SUBSET {"interrupt", "suspend", "exit"}
      PROVE  Hears(Observe(stop, S), H \cup S)
  <2>1. Observe(stop, S) = "exit" <=> stop = "exit" \/ "exit" \in S
    BY DEF Observe
  <2>2. Observe(stop, S) \in {stop, "exit", "suspend", "interrupt"}
    BY DEF Observe
  <2>3. stop \in {"eof", "failure"} => Observe(stop, S) \in {stop, "exit"}
    BY DEF Observe
  <2>4. "eof" \notin S
    OBVIOUS
  <2> QED
    BY <2>1, <2>2, <2>3, <2>4 DEF Hears
<1> QED
  BY <1>1, <1>2

-----------------------------------------------------------------------------
(* The agent commits rows in order.                                        *)

\* What a row that is committed leaves as it was.
LEMMA RowCommitted ==
    ASSUME DialogueInv, JoinInv, NEW r \in RowType, rows' = Append(rows, r), agent' \in AgentType,
           Rank(r) > Committed, Rank(r) <= Committed', join' = join
    PROVE  /\ Ranks' = Ranks \cup {Rank(r)} /\ RowOrder' /\ DecidedInv' /\ Known' = Known
           /\ Rank(r) \in Nat /\ Ranks \subseteq Nat
           /\ \A q \in 0 .. Questions : (Asked(q) => Asked(q)') /\ (Decided(q) => Decided(q)')
           /\ \A h \in Known : \A x \in Ranks' : x > 2 * h + 1
<1>1. /\ agent \in AgentType /\ join \in JoinType /\ Questions \in Nat
      /\ agent.q \in 0 .. Questions /\ Rank(r) \in Nat /\ Ranks \subseteq Nat
  BY TypesOf, RankIs, RanksAreNumbers
<1>2. RowOrder /\ KnownInv /\ DecidedInv
  BY DEF JoinInv
<1>3. Ranks' = Ranks \cup {Rank(r)} /\ Ordered' /\ \A x \in Ranks : x < Rank(r)
  BY <1>2, RankGrows
<1>4. Committed \in Nat /\ Committed' \in Nat
      /\ (InQ => Committed = 2 * agent.q + 1)
  BY CommittedIs
<1>5. Known' = Known /\ Known \subseteq 1 .. Questions /\ join.decided \subseteq 1 .. Questions
  BY <1>1 DEF Known, JoinType
<1>6. RowOrder'
  <2>1. \A x \in Ranks : x <= Committed'
    BY <1>1, <1>3, <1>4
  <2> QED
    BY <1>3, <2>1 DEF RowOrder
<1>7. \A h \in Known : \A x \in Ranks' : x > 2 * h + 1
  <2>1. ASSUME NEW h \in Known  PROVE Rank(r) > 2 * h + 1
    <3>1. h \in Nat
      BY <1>5
    <3>2. CASE Decided(h)
      <4>1. 2 * h + 2 <= Committed
        BY <1>2, <3>2 DEF Decided, RowOrder
      <4> QED
        BY <1>1, <1>4, <3>1, <4>1
    <3>3. CASE h = agent.q /\ InQ
      BY <1>1, <1>4, <3>3
    <3> QED
      BY <1>2, <2>1, <3>2, <3>3 DEF KnownInv
  <2> QED
    BY <1>2, <1>3, <2>1 DEF KnownInv
<1>8. DecidedInv'
  <2>1. ASSUME NEW d \in join.decided
        PROVE  2 * d + 2 <= Committed' /\ \A x \in Ranks' : x > 2 * d + 2
    <3>1. 2 * d + 2 <= Committed /\ \A x \in Ranks : x > 2 * d + 2
      BY <1>2, <2>1 DEF DecidedInv
    <3>2. d \in Nat
      BY <1>5, <2>1
    <3> QED
      BY <1>1, <1>3, <1>4, <3>1, <3>2
  <2> QED
    BY <2>1 DEF DecidedInv
<1>9. \A q \in 0 .. Questions : (Asked(q) => Asked(q)') /\ (Decided(q) => Decided(q)')
  BY <1>3 DEF Asked, Decided
<1> QED
  BY <1>1, <1>3, <1>5, <1>6, <1>7, <1>8, <1>9

\* A step that commits nothing.
LEMMA NothingCommitted ==
    ASSUME DialogueInv, JoinInv, rows' = rows, agent' \in AgentType,
           Committed <= Committed', join' = join
    PROVE  /\ Ranks' = Ranks /\ RowOrder' /\ DecidedInv' /\ Known' = Known
           /\ \A q \in 0 .. Questions : (Asked(q)' <=> Asked(q)) /\ (Decided(q)' <=> Decided(q))
<1>1. Ranks' = Ranks /\ Known' = Known
  BY DEF Ranks, Rank, Known
<1>2. /\ Committed \in Nat /\ Committed' \in Nat /\ Ranks \subseteq Nat
      /\ join.decided \subseteq 1 .. Questions /\ Questions \in Nat
  BY TypesOf, CommittedIs, RanksAreNumbers DEF JoinType
<1>3. RowOrder'
  <2>1. Ordered'
    BY DEF JoinInv, RowOrder, Ordered, Rank
  <2>2. \A x \in Ranks : x <= Committed
    BY DEF JoinInv, RowOrder
  <2> QED
    BY <1>1, <1>2, <2>1, <2>2 DEF RowOrder
<1>4. DecidedInv'
  <2>1. ASSUME NEW d \in join.decided
        PROVE  2 * d + 2 <= Committed' /\ \A x \in Ranks' : x > 2 * d + 2
    <3>1. d \in Nat /\ 2 * d + 2 <= Committed
      BY <1>2, <2>1 DEF JoinInv, DecidedInv
    <3> QED
      BY <1>1, <1>2, <2>1, <3>1 DEF JoinInv, DecidedInv
  <2> QED
    BY <2>1 DEF DecidedInv
<1> QED
  BY <1>1, <1>3, <1>4 DEF Asked, Decided

\* What the other steps of the agent ask of the join.
LEMMA JoinCarried ==
    ASSUME DialogueInv, JoinInv, ui' = ui, join' = join, RowOrder', DecidedInv',
           \A h \in Known : \A x \in Ranks' : x > 2 * h + 1,
           \A q \in 0 .. Questions : (Asked(q) => Asked(q)') /\ (Decided(q) => Decided(q)'),
           \A q \in 1 .. Questions : Asked(q)' => Asked(q),
           agent'.q = agent.q, InQ' => InQ,
           InQ => InQ' \/ Decided(agent.q)',
           join.ended => agent'.pc \in {"ended", "ok"} /\ Ranks' = {}
    PROVE  JoinInv'
<1>1. /\ agent \in AgentType /\ join \in JoinType /\ Questions \in Nat
      /\ agent.q \in 0 .. Questions /\ (InQ => agent.q \in 1 .. Questions)
  BY TypesOf DEF InQ
<1>2. Known' = Known /\ Known \subseteq 1 .. Questions /\ Halves(join)' = Halves(join)
  BY <1>1 DEF Known, JoinType, Halves
<1>3. KnownInv'
  <2>1. ASSUME NEW h \in Known  PROVE Decided(h)' \/ (h = agent'.q /\ InQ')
    BY <1>1, <1>2, <2>1 DEF JoinInv, KnownInv
  <2> QED
    BY <1>2, <2>1 DEF KnownInv
<1>4. AskedInv'
  <2>1. ASSUME NEW q \in 1 .. Questions, Asked(q)'
        PROVE  q = agent'.q /\ (InQ' \/ Decided(q)')
    <3>1. q = agent.q /\ (InQ \/ Decided(q))
      BY <2>1 DEF JoinInv, AskedInv
    <3> QED
      BY <1>1, <3>1
  <2>2. (InQ => Asked(agent.q) \/ agent.q \in Known)'
    BY <1>1, <1>2 DEF JoinInv, AskedInv
  <2> QED
    BY <2>1, <2>2 DEF AskedInv
<1>5. HalfInv'
  BY <1>1 DEF JoinInv, HalfInv
<1>6. EndedInv'
  BY <1>2 DEF JoinInv, EndedInv
<1> QED
  BY <1>3, <1>4, <1>5, <1>6 DEF JoinInv

-----------------------------------------------------------------------------
(* The steps of the agent in a turn that nobody has stopped.               *)

LEMMA SmoothIs ==
    ASSUME DialogueInv, OrderInv, Smooth
    PROVE  /\ JoinInv /\ ChannelInv /\ FrameInv /\ ~world.fault /\ ~cancelled
           /\ Stopped = agent.late /\ agent.pc \notin {"err", "off"} /\ InTurn /\ ui.stop = "none"
           /\ agent \in AgentType /\ agent.q \in 0 .. Questions /\ Questions \in Nat
           /\ agent.late \in BOOLEAN /\ join \in JoinType /\ ui.turn \in Nat
<1>1. /\ agent \in AgentType /\ agent.q \in 0 .. Questions /\ Questions \in Nat
      /\ agent.late \in BOOLEAN /\ join \in JoinType /\ ui.turn \in Nat /\ world \in WorldType
  BY TypesOf DEF AgentType
<1>2. JoinInv /\ ChannelInv /\ FrameInv
  BY DEF OrderInv, TurnInv
<1>3. /\ ~world.fault /\ ~cancelled /\ agent.pc \notin {"err", "off"} /\ InTurn
      /\ ui.stop = "none"
  BY DEF OrderInv, Smooth, TroubleInv, StopInv
<1>4. Stopped = agent.late
  BY <1>1, <1>3 DEF Stopped
<1> QED
  BY <1>1, <1>2, <1>3, <1>4

LEMMA RowIs ==
    ASSUME DialogueInv, ~world.fault,
           NEW kind \in {"start", "prompt", "asked", "decided", "end"}, NEW q \in 0 .. Questions,
           Publish(Row(kind, q))
    PROVE  /\ rows' = Append(rows, Row(kind, q)) /\ Row(kind, q) \in RowType
           /\ Row(kind, q).kind = kind /\ Row(kind, q).q = q /\ Row(kind, q).turn = ui.turn
BY TypesOf DEF Publish, Row, RowType

LEMMA StartsOrder ==
    ASSUME DialogueInv, OrderInv, Smooth, AgentStarts
    PROVE  JoinInv' /\ ChannelInv'
<1> DEFINE r == Row("start", 0)
<1>1. /\ JoinInv /\ ChannelInv /\ ~world.fault /\ agent \in AgentType
      /\ agent.q \in 0 .. Questions /\ Questions \in Nat /\ 0 \in 0 .. Questions
  BY SmoothIs
<1>2. /\ agent.pc = "start" /\ Publish(r) /\ agent' = [agent EXCEPT !.pc = "admit"]
      /\ UNCHANGED <<envelope, reply, join, ui>>
  BY DEF AgentStarts, AgentOnly
<1>3. /\ agent' \in AgentType /\ agent'.pc = "admit" /\ agent'.q = agent.q
      /\ agent'.late = agent.late
  BY <1>1, <1>2 DEF AgentType
<1>4. rows' = Append(rows, r) /\ r \in RowType /\ r.kind = "start"
  BY <1>1, <1>2, RowIs
<1> HIDE DEF r
<1>5. Rank(r) = 1 /\ Committed = 0 /\ Committed' = 1
  BY <1>1, <1>2, <1>3, <1>4, RankIs, LastRankIs, CommittedIs
<1>6. /\ Ranks' = Ranks \cup {1} /\ RowOrder' /\ DecidedInv'
      /\ \A q \in 0 .. Questions : (Asked(q) => Asked(q)') /\ (Decided(q) => Decided(q)')
      /\ \A h \in Known : \A x \in Ranks' : x > 2 * h + 1
  BY <1>1, <1>2, <1>3, <1>4, <1>5, RowCommitted
<1>7. \A q \in 1 .. Questions : Asked(q)' => Asked(q)
  BY <1>1, <1>6 DEF Asked
<1>8. ~InQ /\ ~InQ' /\ ~join.ended
  BY <1>1, <1>2, <1>3 DEF InQ, InQuestion, JoinInv, EndedInv
<1>9. JoinInv'
  BY <1>1, <1>2, <1>3, <1>6, <1>7, <1>8, JoinCarried
<1>10. ChannelInv'
  BY <1>1, <1>2, <1>3 DEF ChannelInv
<1> QED
  BY <1>9, <1>10

\* Before the first question nothing waits.
LEMMA NothingAsked ==
    ASSUME DialogueInv, JoinInv, agent.pc \in {"start", "admit"}
    PROVE  Dealt /\ Known = {}
<1>1. /\ agent \in AgentType /\ agent.q \in 0 .. Questions /\ Questions \in Nat /\ join \in JoinType
      /\ Ranks \subseteq Nat /\ agent' = agent' /\ ~InQ
  BY TypesOf, RanksAreNumbers DEF InQ, InQuestion
<1>2. Committed \in {0, 1}
  BY <1>1, LastRankIs DEF Committed
<1>3. \A x \in Ranks : x \in Nat /\ x <= 1
  BY <1>1, <1>2 DEF JoinInv, RowOrder
<1>4. \A q \in 0 .. Questions : ~Asked(q) /\ ~Decided(q)
  <2>1. ASSUME NEW q \in 0 .. Questions, Decided(q)  PROVE FALSE
    BY <1>1, <1>3, <2>1 DEF Decided
  <2>2. ASSUME NEW q \in 0 .. Questions, Asked(q)  PROVE FALSE
    BY <1>1, <1>3, <2>2 DEF Asked
  <2> QED
    BY <2>1, <2>2
<1>5. Known \subseteq 1 .. Questions
  BY <1>1 DEF Known, JoinType
<1>6. Known = {}
  BY <1>1, <1>4, <1>5 DEF JoinInv, KnownInv
<1>7. join.envelope = 0
  BY <1>1, <1>4 DEF JoinInv, HalfInv
<1> QED
  BY <1>1, <1>4, <1>6, <1>7 DEF Dealt, Known

LEMMA AdmitsOrder ==
    ASSUME DialogueInv, OrderInv, Smooth, AgentAdmits
    PROVE  JoinInv' /\ ChannelInv'
<1> DEFINE r == Row("prompt", 0)
<1>1. /\ JoinInv /\ ChannelInv /\ ~world.fault /\ agent \in AgentType
      /\ agent.q \in 0 .. Questions /\ Questions \in Nat /\ 0 \in 0 .. Questions
  BY SmoothIs
<1>2. /\ agent.pc = "admit" /\ (rows' = rows \/ Publish(r))
      /\ \/ agent' = [agent EXCEPT !.pc = "work", !.stopped = TRUE]
         \/ agent' = [agent EXCEPT !.pc = "work", !.admitted = TRUE]
      /\ UNCHANGED <<envelope, reply, join, ui>>
  BY DEF AgentAdmits, AgentOnly
<1>3. /\ agent' \in AgentType /\ agent'.pc = "work" /\ agent'.q = agent.q
      /\ agent'.late = agent.late
  BY <1>1, <1>2 DEF AgentType
<1>4. Committed = 1 /\ Committed' = 2 * agent.q + 2
  BY <1>1, <1>2, <1>3, LastRankIs, CommittedIs
<1>5. /\ RowOrder' /\ DecidedInv'
      /\ \A q \in 0 .. Questions : (Asked(q) => Asked(q)') /\ (Decided(q) => Decided(q)')
      /\ \A h \in Known : \A x \in Ranks' : x > 2 * h + 1
      /\ \A q \in 0 .. Questions : Asked(q)' => Asked(q)
  <2>1. CASE rows' = rows
    <3>1. /\ Ranks' = Ranks /\ RowOrder' /\ DecidedInv'
          /\ \A q \in 0 .. Questions : (Asked(q)' <=> Asked(q)) /\ (Decided(q)' <=> Decided(q))
      BY <1>1, <1>2, <1>3, <1>4, <2>1, NothingCommitted
    <3> QED
      BY <1>1, <3>1 DEF JoinInv, KnownInv
  <2>2. CASE Publish(r)
    <3>1. rows' = Append(rows, r) /\ r \in RowType /\ r.kind = "prompt"
      BY <1>1, <2>2, RowIs
    <3> HIDE DEF r
    <3>2. Rank(r) = 2
      BY <3>1, RankIs
    <3>3. /\ Ranks' = Ranks \cup {2} /\ RowOrder' /\ DecidedInv'
          /\ \A q \in 0 .. Questions : (Asked(q) => Asked(q)') /\ (Decided(q) => Decided(q)')
          /\ \A h \in Known : \A x \in Ranks' : x > 2 * h + 1
      BY <1>1, <1>2, <1>3, <1>4, <3>1, <3>2, RowCommitted
    <3>4. \A q \in 0 .. Questions : Asked(q)' => Asked(q)
      BY <1>1, <3>3 DEF Asked
    <3> QED
      BY <3>3, <3>4
  <2> QED
    BY <1>2, <2>1, <2>2
<1>6. ~InQ /\ ~InQ' /\ ~join.ended
  BY <1>1, <1>2, <1>3 DEF InQ, InQuestion, JoinInv, EndedInv
<1>7. JoinInv'
  BY <1>1, <1>2, <1>3, <1>5, <1>6, JoinCarried
<1>8. Dealt
  BY <1>1, <1>2, NothingAsked
<1>9. (Asked(agent.q))' => Asked(agent.q)
  BY <1>1, <1>3, <1>5 DEF Asked
<1>10. Dealt'
  BY <1>2, <1>8, <1>9 DEF Dealt
<1>11. ChannelInv'
  BY <1>1, <1>2, <1>3, <1>10 DEF ChannelInv
<1> QED
  BY <1>7, <1>11

LEMMA AsksOrder ==
    ASSUME DialogueInv, OrderInv, Smooth, AgentAsks
    PROVE  JoinInv' /\ ChannelInv'
<1>1. /\ JoinInv /\ ChannelInv /\ ~world.fault /\ agent \in AgentType /\ Stopped = agent.late
      /\ agent.q \in 0 .. Questions /\ Questions \in Nat /\ 0 \in 0 .. Questions /\ join \in JoinType
  BY SmoothIs
<1>2. agent.pc = "work" /\ agent.q < Questions /\ ~agent.stopped /\ ~agent.late
  BY <1>1 DEF AgentAsks
<1>3. PICK n \in 1 .. Questions : n = agent.q + 1
  BY <1>1, <1>2
<1> DEFINE r == Row("asked", n)
<1>4. /\ Publish(r) /\ agent' = [agent EXCEPT !.pc = "asked", !.q = n]
       /\ UNCHANGED <<envelope, join, ui>> /\ reply' = NoReply
  BY <1>3 DEF AgentAsks, AgentOnly
<1>5. n \in 0 .. Questions
  BY <1>3
<1>6. /\ agent' \in AgentType /\ agent'.pc = "asked" /\ agent'.q = n
  BY <1>1, <1>4, <1>5 DEF AgentType
<1>7. rows' = Append(rows, r) /\ r \in RowType /\ r.kind = "asked" /\ r.q = n
  BY <1>1, <1>4, <1>5, RowIs
<1> HIDE DEF r
<1>8. Dealt
  BY <1>1, <1>2 DEF ChannelInv
<1>9. Rank(r) = 2 * n + 1 /\ Committed = 2 * agent.q + 2 /\ Committed' = 2 * n + 1
  BY <1>1, <1>2, <1>3, <1>6, <1>7, RankIs, LastRankIs, CommittedIs DEF InQuestion
<1>10. /\ Ranks' = Ranks \cup {2 * n + 1} /\ RowOrder' /\ DecidedInv'
      /\ \A q \in 0 .. Questions : (Asked(q) => Asked(q)') /\ (Decided(q) => Decided(q)')
  BY <1>1, <1>4, <1>3, <1>6, <1>7, <1>9, RowCommitted
<1>11. Known \subseteq 1 .. Questions /\ ~InQ /\ InQ'
  BY <1>1, <1>2, <1>6 DEF Known, JoinType, InQ, InQuestion
<1>12. KnownInv'
  <2>1. ASSUME NEW h \in Known  PROVE Decided(h)'
    <3>1. Decided(h) /\ h \in 0 .. Questions
      BY <1>1, <1>11, <2>1 DEF JoinInv, KnownInv
    <3> QED
      BY <1>10, <3>1
  <2>2. Known' = Known /\ \A h \in Known : \A x \in Ranks' : x > 2 * h + 1
    BY <1>1, <1>4, <1>3, <1>6, <1>7, <1>9, RowCommitted
  <2> QED
    BY <2>1, <2>2 DEF KnownInv
<1>13. AskedInv'
  <2>1. ASSUME NEW q \in 1 .. Questions, Asked(q)  PROVE FALSE
    <3>1. q = agent.q /\ ~Asked(agent.q)
      BY <1>1, <1>8, <2>1 DEF JoinInv, AskedInv, Dealt
    <3> QED
      BY <2>1, <3>1
  <2>2. ASSUME NEW q \in 1 .. Questions, Asked(q)'  PROVE q = n
    BY <1>3, <1>10, <2>1, <2>2 DEF Asked
  <2>3. Asked(n)'
    BY <1>3, <1>10 DEF Asked
  <2>4. (InQ => Asked(agent.q) \/ agent.q \in Known)'
    BY <1>6, <2>3 DEF Asked
  <2> QED
    BY <1>6, <1>11, <2>2, <2>4 DEF AskedInv
<1>14. HalfInv'
  BY <1>2, <1>4, <1>8 DEF HalfInv, Dealt
<1>15. EndedInv'
  BY <1>1, <1>2, <1>4 DEF JoinInv, EndedInv
<1>16. JoinInv'
  BY <1>10, <1>12, <1>13, <1>14, <1>15 DEF JoinInv
<1>17. ChannelInv'
  BY <1>1, <1>2, <1>4, <1>6, <1>8 DEF ChannelInv, Dealt
<1> QED
  BY <1>16, <1>17

\* A step of the agent in a question that is not its decision.
LEMMA QuestionCarried ==
    ASSUME DialogueInv, JoinInv, agent \in AgentType, agent' \in AgentType,
           agent.pc \in InQuestion, agent'.pc \in InQuestion, agent'.q = agent.q,
           UNCHANGED <<rows, join, ui>>
    PROVE  /\ JoinInv' /\ (Dealt' <=> Dealt)
<1>1. /\ agent.q \in 0 .. Questions /\ Questions \in Nat
  BY TypesOf
<1>2. Committed' = Committed /\ Committed \in Nat
  BY LastRankIs, CommittedIs
<1>3. /\ Ranks' = Ranks /\ RowOrder' /\ DecidedInv' /\ Known' = Known
      /\ \A q \in 0 .. Questions : (Asked(q)' <=> Asked(q)) /\ (Decided(q)' <=> Decided(q))
  BY <1>2, NothingCommitted
<1>4. InQ /\ InQ' /\ ~join.ended
  BY DEF InQ, InQuestion, JoinInv, EndedInv
<1>5. \A h \in Known : \A x \in Ranks' : x > 2 * h + 1
  BY <1>3 DEF JoinInv, KnownInv
<1>6. JoinInv'
  BY <1>3, <1>4, <1>5, JoinCarried
<1>7. Dealt' <=> Dealt
  BY <1>3 DEF Dealt, Asked
<1> QED
  BY <1>6, <1>7

LEMMA SendsOrder ==
    ASSUME DialogueInv, OrderInv, Smooth, AgentSends \/ AgentHears
    PROVE  JoinInv' /\ ChannelInv'
<1>1. /\ JoinInv /\ ChannelInv /\ ~world.fault /\ agent \in AgentType /\ Stopped = agent.late
      /\ agent.late \in BOOLEAN
  BY SmoothIs
<1>2. UNCHANGED <<rows, reply, join, ui>>
  BY DEF AgentSends, AgentHears, AgentOnly
<1>3. CASE AgentSends /\ (agent.late \/ envelope # 0)
  <2>1. /\ agent.pc = "asked" /\ envelope' = envelope
        /\ agent' = [agent EXCEPT !.pc = "decide", !.stopped = agent.late]
    BY <1>1, <1>3 DEF AgentSends
  <2>2. /\ agent' \in AgentType /\ agent'.pc = "decide" /\ agent'.q = agent.q
        /\ agent'.late = agent.late /\ agent'.stopped = agent.late
    BY <1>1, <2>1 DEF AgentType
  <2>3. JoinInv'
    BY <1>1, <1>2, <2>1, <2>2, QuestionCarried DEF InQuestion
  <2>4. agent.late
    BY <1>1, <1>3, <2>1 DEF ChannelInv
  <2> QED
    BY <1>1, <1>2, <2>1, <2>2, <2>3, <2>4 DEF ChannelInv
<1>4. CASE AgentSends /\ ~agent.late /\ envelope = 0
  <2>1. /\ agent.pc = "asked" /\ envelope' = agent.q /\ agent' = [agent EXCEPT !.pc = "asking"]
    BY <1>1, <1>4 DEF AgentSends
  <2>2. /\ agent' \in AgentType /\ agent'.pc = "asking" /\ agent'.q = agent.q
        /\ agent'.late = agent.late
    BY <1>1, <2>1 DEF AgentType
  <2>3. JoinInv'
    BY <1>1, <1>2, <2>1, <2>2, QuestionCarried DEF InQuestion
  <2> QED
    BY <1>1, <1>2, <2>1, <2>2, <2>3 DEF ChannelInv
<1>5. CASE AgentHears
  <2>1. /\ agent.pc = "asking" /\ (agent.late \/ reply # NoReply) /\ envelope' = envelope
        /\ agent' = [agent EXCEPT !.pc = "decide", !.stopped = agent.late]
    BY <1>1, <1>5 DEF AgentHears
  <2>2. /\ agent' \in AgentType /\ agent'.pc = "decide" /\ agent'.q = agent.q
        /\ agent'.late = agent.late /\ agent'.stopped = agent.late
    BY <1>1, <2>1 DEF AgentType
  <2>3. JoinInv' /\ (Dealt' <=> Dealt)
    BY <1>1, <1>2, <2>1, <2>2, QuestionCarried DEF InQuestion
  <2> QED
    BY <1>1, <1>2, <2>1, <2>2, <2>3 DEF ChannelInv
<1> QED
  BY <1>1, <1>3, <1>4, <1>5

LEMMA DecidesOrder ==
    ASSUME DialogueInv, OrderInv, Smooth, AgentDecides
    PROVE  JoinInv' /\ ChannelInv'
<1> DEFINE r == Row("decided", agent.q)
<1>1. /\ JoinInv /\ ChannelInv /\ ~world.fault /\ agent \in AgentType
      /\ agent.q \in 0 .. Questions /\ Questions \in Nat /\ join \in JoinType
  BY SmoothIs
<1>2. /\ agent.pc = "decide" /\ Publish(r) /\ agent' = [agent EXCEPT !.pc = "work"]
      /\ UNCHANGED <<envelope, reply, join, ui>>
  BY DEF AgentDecides, AgentOnly
<1>3. /\ agent' \in AgentType /\ agent'.pc = "work" /\ agent'.q = agent.q
      /\ agent'.late = agent.late /\ agent'.stopped = agent.stopped
  BY <1>1, <1>2 DEF AgentType
<1>4. rows' = Append(rows, r) /\ r \in RowType /\ r.kind = "decided" /\ r.q = agent.q
  BY <1>1, <1>2, RowIs
<1> HIDE DEF r
<1>5. Rank(r) = 2 * agent.q + 2 /\ Committed = 2 * agent.q + 1 /\ Committed' = 2 * agent.q + 2
  BY <1>1, <1>2, <1>3, <1>4, RankIs, LastRankIs, CommittedIs DEF InQuestion
<1>6. /\ Ranks' = Ranks \cup {2 * agent.q + 2} /\ RowOrder' /\ DecidedInv'
      /\ \A q \in 0 .. Questions : (Asked(q) => Asked(q)') /\ (Decided(q) => Decided(q)')
      /\ \A h \in Known : \A x \in Ranks' : x > 2 * h + 1
  BY <1>1, <1>2, <1>3, <1>4, <1>5, RowCommitted
<1>7. \A q \in 0 .. Questions : Asked(q)' => Asked(q)
  <2>1. ASSUME NEW q \in 0 .. Questions, Asked(q)'  PROVE Asked(q)
    <3>1. 2 * q + 1 # 2 * agent.q + 2
      BY <1>1
    <3> QED
      BY <1>6, <2>1, <3>1 DEF Asked
  <2> QED
    BY <2>1
<1>8. InQ /\ ~InQ' /\ ~join.ended
  BY <1>1, <1>2, <1>3 DEF InQ, InQuestion, JoinInv, EndedInv
<1>9. Decided(agent.q)'
  BY <1>3, <1>6 DEF Decided
<1>10. JoinInv'
  BY <1>1, <1>2, <1>3, <1>6, <1>7, <1>8, <1>9, JoinCarried
<1>11. (Asked(agent.q))' => Asked(agent.q)
  BY <1>1, <1>3, <1>7 DEF Asked
<1>12. Dealt => Dealt'
  BY <1>2, <1>11 DEF Dealt
<1>13. ChannelInv'
  BY <1>1, <1>2, <1>3, <1>12 DEF ChannelInv
<1> QED
  BY <1>10, <1>13

LEMMA EndsOrder ==
    ASSUME DialogueInv, OrderInv, Smooth, AgentEnds
    PROVE  JoinInv' /\ ChannelInv'
<1> DEFINE r == Row("end", 0)
<1>1. /\ JoinInv /\ ChannelInv /\ ~world.fault /\ agent \in AgentType
      /\ agent.q \in 0 .. Questions /\ Questions \in Nat /\ join \in JoinType /\ 0 \in 0 .. Questions
  BY SmoothIs
<1>2. /\ agent.pc = "work" /\ Publish(r) /\ agent' = [agent EXCEPT !.pc = "ended"]
      /\ UNCHANGED <<envelope, reply, join, ui>>
  BY DEF AgentEnds, AgentOnly
<1>3. /\ agent' \in AgentType /\ agent'.pc = "ended" /\ agent'.q = agent.q
      /\ agent'.late = agent.late
  BY <1>1, <1>2 DEF AgentType
<1>4. rows' = Append(rows, r) /\ r \in RowType /\ r.kind = "end"
  BY <1>1, <1>2, RowIs
<1> HIDE DEF r
<1>5. /\ Rank(r) = 2 * Questions + 3 /\ Committed = 2 * agent.q + 2 /\ Committed' = 2 * Questions + 3
  BY <1>1, <1>2, <1>3, <1>4, RankIs, LastRankIs, CommittedIs
<1>6. /\ Ranks' = Ranks \cup {2 * Questions + 3} /\ RowOrder' /\ DecidedInv'
      /\ \A q \in 0 .. Questions : (Asked(q) => Asked(q)') /\ (Decided(q) => Decided(q)')
      /\ \A h \in Known : \A x \in Ranks' : x > 2 * h + 1
  <2>1. Rank(r) > Committed /\ Rank(r) <= Committed'
    BY <1>1, <1>5
  <2> QED
    BY <1>1, <1>2, <1>3, <1>4, <1>5, <2>1, RowCommitted
<1>7. \A q \in 1 .. Questions : Asked(q)' => Asked(q)
  BY <1>1, <1>6 DEF Asked
<1>8. ~InQ /\ ~InQ' /\ ~join.ended
  BY <1>1, <1>2, <1>3 DEF InQ, InQuestion, JoinInv, EndedInv
<1>9. JoinInv'
  BY <1>1, <1>2, <1>3, <1>6, <1>7, <1>8, JoinCarried
<1>10. ChannelInv'
  BY <1>1, <1>2, <1>3 DEF ChannelInv
<1> QED
  BY <1>9, <1>10

LEMMA ReturnsOrder ==
    ASSUME DialogueInv, OrderInv, Smooth, AgentReturns, Foreign \subseteq {"goal"}
    PROVE  JoinInv' /\ ChannelInv'
<1>1. /\ JoinInv /\ ChannelInv /\ agent \in AgentType
  BY SmoothIs
<1>2. /\ agent.pc = "ended" /\ agent' = [agent EXCEPT !.pc = "ok"]
      /\ UNCHANGED <<rows, envelope, reply, join, ui>>
  BY DEF AgentReturns, AgentOnly
<1>3. /\ agent' \in AgentType /\ agent'.pc = "ok" /\ agent'.q = agent.q
      /\ agent'.late = agent.late
  BY <1>1, <1>2 DEF AgentType
<1>4. Committed' = Committed /\ Committed \in Nat
  BY <1>1, <1>2, <1>3, LastRankIs, CommittedIs
<1>5. /\ Ranks' = Ranks /\ RowOrder' /\ DecidedInv' /\ Known' = Known
      /\ \A q \in 0 .. Questions : (Asked(q)' <=> Asked(q)) /\ (Decided(q)' <=> Decided(q))
  BY <1>1, <1>2, <1>3, <1>4, NothingCommitted
<1>6. ~InQ /\ ~InQ'
  BY <1>2, <1>3 DEF InQ, InQuestion
<1>7. \A q \in 1 .. Questions : Asked(q)' => Asked(q)
  BY <1>5
<1>8. (\A h \in Known : \A x \in Ranks' : x > 2 * h + 1) /\ (join.ended => Ranks' = {})
  BY <1>1, <1>5 DEF JoinInv, KnownInv, EndedInv
<1>9. JoinInv'
  BY <1>1, <1>2, <1>3, <1>5, <1>6, <1>7, <1>8, JoinCarried
<1>10. ChannelInv'
  BY <1>1, <1>2, <1>3 DEF ChannelInv
<1> QED
  BY <1>9, <1>10

\* What is committed in a turn, and whether the prompt was.
LEMMA RowsFollow ==
    ASSUME DialogueInv, RowsInv, InTurn, NEW r \in RowType, ui'.turn = ui.turn, ui'.pc = ui.pc,
           rows' = rows \/ (rows' = Append(rows, r) /\ r.kind # "goal" /\ r.turn = ui.turn)
    PROVE  /\ \A k \in DOMAIN rows' :
                IF rows'[k].kind = "goal" THEN rows'[k].turn < ui.turn ELSE rows'[k].turn = ui.turn
           /\ HasPrompt' <=> HasPrompt \/ (rows' # rows /\ r.kind = "prompt")
<1>1. rows \in Seq(RowType) /\ ui.turn \in Nat
  BY TypesOf
<1>2. \A k \in DOMAIN rows :
          IF rows[k].kind = "goal" THEN rows[k].turn < ui.turn ELSE rows[k].turn = ui.turn
  BY DEF RowsInv
<1>3. CASE rows' = rows
  BY <1>2, <1>3 DEF HasPrompt, Old
<1>4. CASE rows' = Append(rows, r) /\ r.kind # "goal" /\ r.turn = ui.turn
  <2>1. /\ \A k \in DOMAIN rows' : \/ k \in DOMAIN rows /\ rows'[k] = rows[k]
                                   \/ k = Len(rows) + 1 /\ rows'[k] = r
        /\ \A k \in DOMAIN rows : k \in DOMAIN rows' /\ rows'[k] = rows[k] /\ k <= Len(rows)
        /\ Len(rows) \in Nat /\ Len(rows) + 1 \in DOMAIN rows' /\ rows'[Len(rows) + 1] = r
    BY <1>1, <1>4, AppendRow
  <2>2. rows' # rows
    <3>1. Len(rows) + 1 \notin DOMAIN rows
      BY <1>1
    <3> QED
      BY <2>1, <3>1
  <2>3. ~(r.turn < ui.turn)
    BY <1>1, <1>4
  <2>4. HasPrompt' <=> HasPrompt \/ r.kind = "prompt"
    <3>1. HasPrompt' <=> \E k \in DOMAIN rows' : ~(rows'[k].turn < ui.turn) /\ rows'[k].kind = "prompt"
      BY DEF HasPrompt, Old
    <3>2. HasPrompt <=> \E k \in DOMAIN rows : ~(rows[k].turn < ui.turn) /\ rows[k].kind = "prompt"
      BY DEF HasPrompt, Old
    <3> QED
      BY <2>1, <2>3, <3>1, <3>2
  <2>5. \A k \in DOMAIN rows' :
          IF rows'[k].kind = "goal" THEN rows'[k].turn < ui.turn ELSE rows'[k].turn = ui.turn
    BY <1>2, <1>4, <2>1
  <2> QED
    BY <2>2, <2>4, <2>5
<1> QED
  BY <1>3, <1>4

LEMMA AgentView ==
    ASSUME DialogueInv, AgentStep, Foreign \subseteq {"goal"}
    PROVE  /\ AgentOnly /\ Polled /\ agent.pc \notin {"err", "ok", "off"} /\ agent' \in AgentType
           /\ agent'.pc \notin {"err", "off", "start"} /\ agent'.q \in 0 .. Questions
           /\ agent'.pc = "admit" => agent.pc = "start"
           /\ \/ /\ agent'.admitted = agent.admitted
                 /\ \/ rows' = rows
                    \/ \E kind \in {"start", "asked", "decided", "end"}, q \in 0 .. Questions :
                           Publish(Row(kind, q))
              \/ agent.pc = "admit" /\ agent'.admitted /\ Publish(Row("prompt", 0))
<1>1. /\ agent \in AgentType /\ Questions \in Nat /\ agent.q \in 0 .. Questions /\ 0 \in 0 .. Questions
      /\ Stopped \in BOOLEAN
  BY TypesOf DEF Stopped, AgentType
<1>2. CASE AgentStarts
  BY <1>1, <1>2 DEF AgentStarts, AgentType
<1>3. CASE AgentAdmits
  <2>1. /\ AgentOnly /\ Polled /\ agent.pc = "admit"
        /\ \/ agent' = [agent EXCEPT !.pc = "work", !.stopped = TRUE] /\ rows' = rows
           \/ agent' = [agent EXCEPT !.pc = "work", !.admitted = TRUE] /\ Publish(Row("prompt", 0))
    BY <1>3 DEF AgentAdmits
  <2>2. agent' \in AgentType /\ agent'.pc = "work" /\ agent'.q = agent.q
    BY <1>1, <2>1 DEF AgentType
  <2>3. \/ agent'.admitted = agent.admitted /\ rows' = rows
        \/ agent'.admitted /\ Publish(Row("prompt", 0))
    BY <1>1, <2>1 DEF AgentType
  <2> QED
    BY <1>1, <2>1, <2>2, <2>3
<1>4. CASE AgentAsks
  <2>1. PICK n \in 0 .. Questions : n = agent.q + 1
    BY <1>1, <1>4 DEF AgentAsks
  <2>2. /\ AgentOnly /\ Polled /\ agent.pc = "work" /\ Publish(Row("asked", n))
        /\ agent' = [agent EXCEPT !.pc = "asked", !.q = n]
    BY <1>4, <2>1 DEF AgentAsks
  <2>3. /\ agent' \in AgentType /\ agent'.pc = "asked" /\ agent'.q = n
        /\ agent'.admitted = agent.admitted
    BY <1>1, <2>2 DEF AgentType
  <2> QED
    BY <2>2, <2>3
<1>5. CASE AgentSends
  BY <1>1, <1>5 DEF AgentSends, AgentType
<1>6. CASE AgentHears
  BY <1>1, <1>6 DEF AgentHears, AgentType
<1>7. CASE AgentDecides
  BY <1>1, <1>7 DEF AgentDecides, AgentType
<1>8. CASE AgentEnds
  BY <1>1, <1>8 DEF AgentEnds, AgentType
<1>9. CASE AgentReturns
  BY <1>1, <1>9 DEF AgentReturns, AgentType
<1> QED
  BY <1>2, <1>3, <1>4, <1>5, <1>6, <1>7, <1>8, <1>9 DEF AgentStep

\* A step of the agent keeps the order.
LEMMA AgentKeepsOrder ==
    ASSUME DialogueInv, OrderInv, AgentStep, Foreign \subseteq {"goal"}
    PROVE  OrderInv'
<1>1. /\ AgentOnly /\ Polled /\ agent.pc \notin {"err", "ok", "off"} /\ agent' \in AgentType
      /\ agent'.pc \notin {"err", "off", "start"} /\ agent'.q \in 0 .. Questions
      /\ agent'.pc = "admit" => agent.pc = "start"
  BY AgentView
<1>2. /\ \/ /\ agent'.admitted = agent.admitted
            /\ \/ rows' = rows
               \/ \E kind \in {"start", "asked", "decided", "end"}, q \in 0 .. Questions :
                      Publish(Row(kind, q))
         \/ agent.pc = "admit" /\ agent'.admitted /\ Publish(Row("prompt", 0))
  BY AgentView
<1>3. InTurn /\ InTurn' /\ ui.pc \in {"select", "await"}
      /\ UNCHANGED <<join, ui, cancelled, tty, shown, sigs, world, heard>>
  BY <1>1 DEF Polled, InTurn, AgentOnly
<1>4. StopInv' /\ TroubleInv' /\ HeardInv' /\ OnlyTroubleFails'
  <2>1. StopInv'
    BY <1>1, <1>3 DEF OrderInv, StopInv
  <2>2. TroubleInv'
    BY <1>1, <1>3 DEF OrderInv, TroubleInv
  <2>3. HeardInv' /\ OnlyTroubleFails'
    BY <1>3 DEF OrderInv, HeardInv, OnlyTroubleFails
  <2> QED
    BY <2>1, <2>2, <2>3
<1>5. RowsInv'
  <2>1. RowsInv
    BY DEF OrderInv
  <2>2. 0 \in 0 .. Questions
    BY TypesOf
  <2>3. CASE /\ agent'.admitted = agent.admitted
             /\ \/ rows' = rows
                \/ \E kind \in {"start", "asked", "decided", "end"}, q \in 0 .. Questions :
                       Publish(Row(kind, q))
    <3>1. PICK r \in RowType : /\ r.kind \notin {"goal", "prompt"} /\ r.turn = ui.turn
                               /\ rows' = rows \/ rows' = Append(rows, r)
      <4>1. CASE rows' = rows
        <5>1. Row("end", 0) \in RowType /\ Row("end", 0).kind = "end" /\ Row("end", 0).turn = ui.turn
          BY TypesOf, <2>2 DEF Row, RowType
        <5> QED
          BY <4>1, <5>1
      <4>2. CASE \E kind \in {"start", "asked", "decided", "end"}, q \in 0 .. Questions :
                       Publish(Row(kind, q))
        <5>1. PICK kind \in {"start", "asked", "decided", "end"}, q \in 0 .. Questions :
                       Publish(Row(kind, q))
          BY <4>2
        <5>2. Row(kind, q) \in RowType /\ Row(kind, q).kind = kind /\ Row(kind, q).turn = ui.turn
          BY TypesOf DEF Row, RowType
        <5> QED
          BY <5>1, <5>2 DEF Publish
      <4> QED
        BY <2>3, <4>1, <4>2
    <3>2. /\ \A k \in DOMAIN rows' :
                IF rows'[k].kind = "goal" THEN rows'[k].turn < ui.turn ELSE rows'[k].turn = ui.turn
          /\ HasPrompt' <=> HasPrompt
      BY <1>3, <2>1, <3>1, RowsFollow
    <3> QED
      BY <1>1, <1>3, <2>1, <2>3, <3>2 DEF RowsInv
  <2>4. CASE agent.pc = "admit" /\ agent'.admitted /\ Publish(Row("prompt", 0))
    <3>1. ~world.fault
      BY <1>3, <2>4 DEF OrderInv, TroubleInv
    <3> DEFINE r == Row("prompt", 0)
    <3>2. r \in RowType /\ r.kind = "prompt" /\ r.turn = ui.turn /\ rows' = Append(rows, r)
      BY <2>2, <2>4, <3>1, TypesOf DEF Row, RowType, Publish
    <3> HIDE DEF r
    <3>3. rows \in Seq(RowType)
      BY TypesOf
    <3>4. rows' # rows
      <4>1. Len(rows) \in Nat /\ Len(rows) + 1 \in DOMAIN rows' /\ Len(rows) + 1 \notin DOMAIN rows
        BY <3>2, <3>3, AppendRow
      <4> QED
        BY <4>1
    <3>5. /\ \A k \in DOMAIN rows' :
                IF rows'[k].kind = "goal" THEN rows'[k].turn < ui.turn ELSE rows'[k].turn = ui.turn
          /\ HasPrompt'
      BY <1>3, <2>1, <3>2, <3>4, RowsFollow
    <3> QED
      BY <1>1, <1>3, <2>4, <3>5 DEF RowsInv, AgentType
  <2> QED
    BY <1>2, <2>3, <2>4
<1>6. TurnInv'
  <2>1. Smooth' => Smooth
    BY <1>3 DEF Smooth, InTurn
  <2>2. ASSUME Smooth  PROVE JoinInv' /\ ChannelInv' /\ FrameInv'
    <3>1. JoinInv' /\ ChannelInv'
      BY <2>2, StartsOrder, AdmitsOrder, AsksOrder, SendsOrder, DecidesOrder, EndsOrder, ReturnsOrder
         DEF AgentStep
    <3>2. FrameInv'
      BY <1>3, <2>2, SmoothIs DEF FrameInv
    <3> QED
      BY <3>1, <3>2
  <2> QED
    BY <2>1, <2>2 DEF TurnInv
<1> QED
  BY <1>4, <1>5, <1>6 DEF OrderInv

-----------------------------------------------------------------------------
(* The steps of the loop that leave the channels and the join.             *)

LEMMA JoinStays ==
    ASSUME UNCHANGED <<agent, rows, envelope, reply, join>>, ui'.ended = ui.ended,
           JoinInv, ChannelInv
    PROVE  JoinInv' /\ ChannelInv'
<1>1. /\ Ranks' = Ranks /\ (Ordered <=> Ordered') /\ Committed' = Committed /\ (InQ' <=> InQ)
      /\ Known' = Known
  BY DEF Ranks, Rank, Ordered, Committed, LastRank, InQuestion, InQ, Known
<1>2. RowOrder' /\ KnownInv' /\ AskedInv' /\ DecidedInv'
  BY <1>1 DEF JoinInv, RowOrder, KnownInv, AskedInv, DecidedInv, Asked, Decided
<1>3. HalfInv' /\ EndedInv'
  BY <1>1 DEF JoinInv, HalfInv, EndedInv, Asked, Halves
<1>4. ChannelInv'
  BY <1>1 DEF ChannelInv, Dealt, Asked
<1> QED
  BY <1>2, <1>3, <1>4 DEF JoinInv

LEMMA OrderCarried ==
    ASSUME DialogueInv, OrderInv, UNCHANGED <<agent, rows, envelope, reply, join>>,
           InTurn, InTurn', ui'.turn = ui.turn, ui'.ended = ui.ended,
           ui'.committed = ui.committed, ui'.out = ui.out,
           ui'.stop = "none" => ui.stop = "none",
           ui'.pc = "await" <=> ui'.stop = "broken",
           ui'.pc = "finish" =>
               /\ Ready /\ (agent.pc = "err" => ui'.stop \in {"exit", "failure"})
               /\ ui'.stop = "none" => ui'.drain /\ ui.ended,
           cancelled' => cancelled \/ ui'.stop # "none",
           world'.fault = world.fault, world.trouble => world'.trouble, world.torn => world'.torn,
           world'.trouble => world.trouble \/ ui'.stop \in {"exit", "failure", "broken"},
           ui.stop \in {"exit", "failure", "broken"} => ui'.stop \in {"exit", "failure", "broken"},
           ui'.stop = "broken" => world'.trouble,
           ui'.stop = "failure" => ui.stop = "failure" \/ world'.trouble \/ world'.torn,
           Hears(ui'.stop, heard'),
           Smooth /\ Smooth' => FrameInv'
    PROVE  OrderInv'
<1>1. RowsInv'
  <2>1. HasPrompt' <=> HasPrompt
    BY DEF HasPrompt, Old
  <2> QED
    BY <2>1 DEF OrderInv, RowsInv, InTurn
<1>2. StopInv'
  BY DEF OrderInv, StopInv, Ready, InTurn
<1>3. TroubleInv'
  BY DEF OrderInv, TroubleInv, InTurn
<1>4. HeardInv'
  BY DEF HeardInv
<1>5. TurnInv'
  <2>1. Smooth' => Smooth
    BY DEF Smooth
  <2>2. ASSUME Smooth, Smooth'  PROVE JoinInv' /\ ChannelInv' /\ FrameInv'
    BY <2>2, SmoothIs, JoinStays
  <2> QED
    BY <2>1, <2>2 DEF TurnInv
<1>6. OnlyTroubleFails'
  BY DEF OrderInv, OnlyTroubleFails, StopInv
<1> QED
  BY <1>1, <1>2, <1>3, <1>4, <1>5, <1>6 DEF OrderInv

\* The stops of a turn, as the loop finds them.
LEMMA StopIs ==
    ASSUME DialogueInv, OrderInv, InTurn, ui.pc # "await"
    PROVE  /\ ui.stop \in {"none", "interrupt", "suspend", "eof", "exit", "failure"}
           /\ Hears(ui.stop, heard) /\ ui \in UiType /\ world \in WorldType
           /\ world.fault => world.trouble
           /\ ui.stop = "failure" => world.trouble \/ world.torn
<1>1. ui \in UiType /\ world \in WorldType
  BY TypesOf
<1>2. ui.stop # "broken" /\ Hears(ui.stop, heard) /\ (world.fault => world.trouble)
      /\ (ui.stop = "failure" => world.trouble \/ world.torn)
  BY DEF OrderInv, StopInv, HeardInv, TroubleInv, OnlyTroubleFails
<1> QED
  BY <1>1, <1>2 DEF UiType

\* The loop fails, at trouble.
LEMMA FailsOrder ==
    ASSUME DialogueInv, OrderInv, InTurn, ui.pc # "await", ui' = Fail(ui),
           UNCHANGED <<agent, rows, envelope, reply, join, heard>>,
           cancelled' => cancelled \/ ui'.stop # "none",
           world'.fault = world.fault, world.trouble => world'.trouble,
           world.torn => world'.torn, world'.trouble \/ world'.torn
    PROVE  OrderInv'
<1>1. /\ ui.stop \in {"none", "interrupt", "suspend", "eof", "exit", "failure"}
      /\ Hears(ui.stop, heard) /\ ui \in UiType
  BY StopIs
<1>2. /\ ui'.stop \in {"exit", "failure"} /\ ui'.pc = "top" /\ ui'.turn = ui.turn
      /\ ui'.drain = ui.drain /\ ui'.ended = ui.ended /\ ui'.committed = ui.committed
      /\ ui'.out = ui.out /\ ui'.stop = Failed(ui.stop)
  BY <1>1, FailIs
<1>3. Hears(ui'.stop, heard')
  BY <1>1, <1>2, Hearing
<1>4. InTurn' /\ ~Smooth'
  BY <1>2 DEF InTurn, Smooth
<1> QED
  BY <1>1, <1>2, <1>3, <1>4, OrderCarried

LEMMA FailingOrder ==
    ASSUME DialogueInv, OrderInv, TerminalFails \/ FrameExpires \/ EventsEnd \/ FinalDeadline
    PROVE  OrderInv'
<1>1. /\ ui' = Fail(ui) /\ ui.pc = "select"
      /\ UNCHANGED <<agent, rows, envelope, reply, join, heard, tty, shown, sigs>>
      /\ Cancel(ui') \/ cancelled' = cancelled
      /\ Troubled \/ (world' = world /\ world.fault)
  BY DEF TerminalFails, FrameExpires, EventsEnd, FinalDeadline, TopOnly, Selecting
<1>2. InTurn
  BY <1>1 DEF InTurn
<1>3. world \in WorldType /\ (world.fault => world.trouble)
  BY <1>1, <1>2, StopIs
<1>4. /\ world'.fault = world.fault /\ world'.torn = world.torn /\ world'.trouble
  BY <1>1, <1>3 DEF Troubled, WorldType
<1>5. cancelled' => cancelled \/ ui'.stop # "none"
  BY <1>1 DEF Cancel
<1> QED
  BY <1>1, <1>2, <1>4, <1>5, FailsOrder

LEMMA QuietOrder ==
    ASSUME DialogueInv, OrderInv, Signalled \/ FrameWritten \/ ReadEnd \/ Breaks
    PROVE  OrderInv'
<1>1. /\ ui.pc = "select" /\ InTurn
      /\ UNCHANGED <<agent, rows, envelope, reply, join>>
  BY DEF Signalled, FrameWritten, ReadEnd, Breaks, Selecting, ReadEnabled, InTurn, BranchOnly, TopOnly
<1>2. /\ ui.stop \in {"none", "interrupt", "suspend", "eof", "exit", "failure"}
      /\ Hears(ui.stop, heard) /\ ui \in UiType /\ world \in WorldType
      /\ ui.stop = "failure" => world.trouble \/ world.torn
  BY <1>1, StopIs
<1>3. CASE Signalled
  <2> PICK s \in sigs :
           /\ heard' = heard \cup {s}
           /\ ui' = [ui EXCEPT !.stop = Observe(ui.stop, {s}), !.frame = "none", !.pc = "top"]
    BY <1>3 DEF Signalled
  <2> DEFINE stop == Observe(ui.stop, {s})
  <2>1. /\ Cancel(ui') /\ world' = world
        /\ ui' = [ui EXCEPT !.stop = stop, !.frame = "none", !.pc = "top"]
    BY <1>3 DEF Signalled, BranchOnly
  <2>2. {s} \in SUBSET {"interrupt", "suspend", "exit"}
    BY TypesOf
  <2>3. Hears(stop, heard')
    BY <1>2, <2>2, Hearing
  <2>4. /\ stop \in {ui.stop, "exit", "suspend", "interrupt"} /\ stop # "none"
        /\ ui.stop \in {"exit", "failure"} => stop \in {"exit", "failure"}
    BY <2>2 DEF Observe
  <2> HIDE DEF stop
  <2>5. /\ ui'.stop = stop /\ ui'.pc = "top" /\ ui'.turn = ui.turn
        /\ ui'.ended = ui.ended /\ ui'.committed = ui.committed /\ ui'.out = ui.out
    BY <1>2, <2>1 DEF UiType
  <2>6. InTurn' /\ ~Smooth'
    BY <2>4, <2>5 DEF InTurn, Smooth
  <2>7. cancelled' => cancelled \/ ui'.stop # "none"
    BY <2>1 DEF Cancel
  <2> QED
    BY <1>1, <1>2, <2>1, <2>3, <2>4, <2>5, <2>6, <2>7, OrderCarried
<1>4. CASE FrameWritten
  <2>1. /\ ui' = [ui EXCEPT !.frame = "written", !.pc = "top"] /\ ui.frame = "writing"
        /\ UNCHANGED <<cancelled, world, heard>>
    BY <1>4 DEF FrameWritten, BranchOnly
  <2>2. /\ ui'.stop = ui.stop /\ ui'.pc = "top" /\ ui'.turn = ui.turn
        /\ ui'.ended = ui.ended /\ ui'.committed = ui.committed /\ ui'.out = ui.out
        /\ ui'.mode = ui.mode /\ ui'.frame = "written" /\ ui'.after = ui.after
    BY <1>2, <2>1 DEF UiType
  <2>3. InTurn'
    BY <2>2 DEF InTurn
  <2>4. Smooth => FrameInv'
    BY <2>1, <2>2, SmoothIs DEF FrameInv
  <2> QED
    BY <1>1, <1>2, <2>1, <2>2, <2>3, <2>4, OrderCarried
<1>5. CASE ReadEnd
  <2>1. /\ ui' = [ui EXCEPT !.stop = "eof", !.frame = "none", !.pc = "top"]
        /\ heard' = heard \cup {"eof"} /\ Cancel(ui') /\ world' = world /\ ui.stop = "none"
    BY <1>5 DEF ReadEnd, BranchOnly, ReadEnabled, Selecting
  <2>2. /\ ui'.stop = "eof" /\ ui'.pc = "top" /\ ui'.turn = ui.turn
        /\ ui'.ended = ui.ended /\ ui'.committed = ui.committed /\ ui'.out = ui.out
    BY <1>2, <2>1 DEF UiType
  <2>3. InTurn' /\ ~Smooth' /\ (cancelled' => cancelled \/ ui'.stop # "none")
    BY <2>1, <2>2 DEF InTurn, Smooth, Cancel
  <2>4. Hears(ui'.stop, heard')
    BY <1>2, <2>1, <2>2 DEF Hears
  <2> QED
    BY <1>1, <1>2, <2>1, <2>2, <2>3, <2>4, OrderCarried
<1>6. CASE Breaks
  <2>1. /\ ui' = [ui EXCEPT !.pc = "await", !.stop = "broken", !.frame = "none", !.mode = "inactive"]
        /\ heard' = heard /\ Troubled /\ ui.stop = "none"
    BY <1>6 DEF Breaks, TopOnly, Selecting
  <2>2. /\ ui'.stop = "broken" /\ ui'.pc = "await" /\ ui'.turn = ui.turn
        /\ ui'.ended = ui.ended /\ ui'.committed = ui.committed /\ ui'.out = ui.out
    BY <1>2, <2>1 DEF UiType
  <2>3. world'.trouble /\ world'.fault = world.fault /\ world'.torn = world.torn
    BY <1>2, <2>1 DEF Troubled, WorldType
  <2>4. InTurn' /\ ~Smooth' /\ Hears(ui'.stop, heard')
    BY <1>2, <2>1, <2>2 DEF InTurn, Smooth, Hears
  <2> QED
    BY <1>1, <1>2, <2>1, <2>2, <2>3, <2>4, OrderCarried
<1> QED
  BY <1>3, <1>4, <1>5, <1>6

-----------------------------------------------------------------------------
(* The environment, and the prompt.                                        *)

LEMMA WorldOrder ==
    ASSUME DialogueInv, OrderInv,
           \/ AgentFails \/ ObserverFails \/ TurnDeadline
           \/ \E key \in Keys : Press(key)
           \/ \E s \in {"interrupt", "suspend", "exit"} : SignalComes(s)
    PROVE  OrderInv'
<1>1. InTurn /\ InTurn'
  BY DEF AgentFails, Polled, ObserverFails, OnlyWorld, TurnDeadline, Press, SignalComes, Waiting, InTurn
<1>2. /\ agent \in AgentType /\ world \in WorldType /\ Hears(ui.stop, heard)
      /\ agent.pc # "off"
  BY <1>1, TypesOf DEF OrderInv, HeardInv, StopInv
<1>3. CASE AgentFails
  <2>1. /\ ui.pc \in {"select", "await"} /\ agent' = [agent EXCEPT !.pc = "err"] /\ Troubled
        /\ UNCHANGED <<rows, envelope, reply, join, ui, cancelled, tty, shown, sigs, heard>>
    BY <1>3 DEF AgentFails, Polled
  <2>2. agent'.pc = "err" /\ agent'.admitted = agent.admitted
    BY <1>2, <2>1 DEF AgentType
  <2>3. world'.trouble /\ world'.fault = world.fault /\ world'.torn = world.torn
    BY <1>2, <2>1 DEF Troubled, WorldType
  <2>4. HasPrompt' <=> HasPrompt
    BY <2>1 DEF HasPrompt, Old
  <2>5. RowsInv'
    BY <1>1, <2>1, <2>2, <2>4 DEF OrderInv, RowsInv
  <2>6. StopInv' /\ TroubleInv' /\ HeardInv' /\ OnlyTroubleFails'
    <3>1. StopInv'
      BY <1>1, <2>1, <2>2 DEF OrderInv, StopInv
    <3>2. TroubleInv'
      BY <1>1, <2>1, <2>2, <2>3 DEF OrderInv, TroubleInv
    <3>3. HeardInv' /\ OnlyTroubleFails'
      BY <1>1, <2>1, <2>3 DEF OrderInv, HeardInv, OnlyTroubleFails
    <3> QED
      BY <3>1, <3>2, <3>3
  <2>7. TurnInv'
    BY <2>3 DEF TurnInv, Smooth
  <2> QED
    BY <2>5, <2>6, <2>7 DEF OrderInv
<1>4. CASE ObserverFails
  <2>1. /\ agent.pc \in {"work", "asked", "decide"}
        /\ world' = [world EXCEPT !.fault = TRUE, !.trouble = TRUE]
        /\ UNCHANGED <<agent, rows, envelope, reply, join, ui, cancelled, heard>>
    BY <1>4 DEF ObserverFails, OnlyWorld
  <2>2. world'.trouble /\ world'.fault /\ world'.torn = world.torn
    BY <1>2, <2>1 DEF WorldType
  <2>3. HasPrompt' <=> HasPrompt
    BY <2>1 DEF HasPrompt, Old
  <2>4. RowsInv'
    BY <1>1, <2>1, <2>3 DEF OrderInv, RowsInv
  <2>5. StopInv' /\ TroubleInv' /\ HeardInv' /\ OnlyTroubleFails'
    <3>1. StopInv'
      BY <1>1, <2>1 DEF OrderInv, StopInv, Ready
    <3>2. TroubleInv'
      BY <1>1, <2>1, <2>2 DEF OrderInv, TroubleInv, InTurn
    <3>3. HeardInv' /\ OnlyTroubleFails'
      BY <1>1, <2>1, <2>2 DEF OrderInv, HeardInv, OnlyTroubleFails
    <3> QED
      BY <3>1, <3>2, <3>3
  <2>6. TurnInv'
    BY <2>2 DEF TurnInv, Smooth
  <2> QED
    BY <2>4, <2>5, <2>6 DEF OrderInv
<1>5. CASE TurnDeadline
  <2>1. /\ agent' = [agent EXCEPT !.late = TRUE]
        /\ agent.pc \in {"start", "admit", "work", "asked", "asking", "decide"}
        /\ UNCHANGED <<rows, envelope, reply, join, ui, cancelled, tty, shown, sigs, world, heard>>
    BY <1>5 DEF TurnDeadline
  <2>2. /\ agent'.pc = agent.pc /\ agent'.q = agent.q /\ agent'.admitted = agent.admitted
        /\ agent'.stopped = agent.stopped /\ agent'.late /\ agent' \in AgentType
    BY <1>2, <2>1 DEF AgentType
  <2>3. HasPrompt' <=> HasPrompt
    BY <2>1 DEF HasPrompt, Old
  <2>4. RowsInv'
    BY <1>1, <2>1, <2>2, <2>3 DEF OrderInv, RowsInv
  <2>5. StopInv' /\ TroubleInv' /\ HeardInv' /\ OnlyTroubleFails'
    <3>1. StopInv'
      BY <1>1, <2>1, <2>2 DEF OrderInv, StopInv, Ready
    <3>2. TroubleInv'
      BY <1>1, <2>1, <2>2 DEF OrderInv, TroubleInv, InTurn
    <3>3. HeardInv' /\ OnlyTroubleFails'
      BY <1>1, <2>1, <2>2 DEF OrderInv, HeardInv, OnlyTroubleFails
    <3> QED
      BY <3>1, <3>2, <3>3
  <2>6. ASSUME Smooth  PROVE JoinInv' /\ ChannelInv' /\ FrameInv'
    <3>1. JoinInv /\ ChannelInv /\ FrameInv /\ agent.q \in 0 .. Questions
      BY <2>6, SmoothIs
    <3>2. /\ Ranks' = Ranks /\ (Ordered <=> Ordered') /\ Committed' = Committed /\ (InQ' <=> InQ)
          /\ Known' = Known
      BY <2>1, <2>2 DEF Ranks, Rank, Ordered, Committed, LastRank, InQuestion, InQ, Known
    <3>3. RowOrder' /\ KnownInv' /\ AskedInv' /\ DecidedInv'
      BY <2>1, <2>2, <3>1, <3>2
         DEF JoinInv, RowOrder, KnownInv, AskedInv, DecidedInv, Asked, Decided
    <3>4. HalfInv' /\ EndedInv'
      BY <2>1, <2>2, <3>1, <3>2 DEF JoinInv, HalfInv, EndedInv, Asked, Halves
    <3>5. ChannelInv'
      BY <2>1, <2>2, <3>1, <3>2 DEF ChannelInv, Dealt, Asked
    <3>6. FrameInv'
      BY <2>1, <3>1 DEF FrameInv
    <3> QED
      BY <3>3, <3>4, <3>5, <3>6 DEF JoinInv
  <2>7. TurnInv'
    BY <2>1, <2>6 DEF TurnInv, Smooth, InTurn
  <2> QED
    BY <2>4, <2>5, <2>7 DEF OrderInv
<1>6. ASSUME UNCHANGED <<agent, rows, envelope, reply, join, ui, cancelled, heard>>,
             world'.fault = world.fault, world'.trouble = world.trouble, world'.torn = world.torn
      PROVE  OrderInv'
  <2>1. /\ ui.pc = "await" <=> ui.stop = "broken"
        /\ ui.pc = "finish" =>
               /\ Ready /\ (agent.pc = "err" => ui.stop \in {"exit", "failure"})
               /\ ui.stop = "none" => ui.drain /\ ui.ended
        /\ ui.stop = "broken" => world.trouble
    BY <1>1 DEF OrderInv, StopInv, TroubleInv
  <2>2. Smooth => FrameInv'
    BY <1>6, SmoothIs DEF FrameInv
  <2> QED
    BY <1>1, <1>2, <1>6, <2>1, <2>2, OrderCarried
<1>7. ASSUME NEW key \in Keys, Press(key)  PROVE OrderInv'
  <2>1. world' = [world EXCEPT !.keys = world.keys + 1]
    BY <1>7 DEF Press
  <2>2. world'.fault = world.fault /\ world'.trouble = world.trouble /\ world'.torn = world.torn
    BY <1>2, <2>1 DEF WorldType
  <2> QED
    BY <1>6, <1>7, <2>2 DEF Press, OnlyWorld
<1>8. ASSUME NEW s \in {"interrupt", "suspend", "exit"}, SignalComes(s)  PROVE OrderInv'
  <2>1. world' = [world EXCEPT !.signals = world.signals + 1]
    BY <1>8 DEF SignalComes
  <2>2. world'.fault = world.fault /\ world'.trouble = world.trouble /\ world'.torn = world.torn
    BY <1>2, <2>1 DEF WorldType
  <2> QED
    BY <1>6, <1>8, <2>2 DEF SignalComes, OnlyWorld
<1> QED
  BY <1>3, <1>4, <1>5, <1>7, <1>8

LEMMA IdleOrder ==
    ASSUME DialogueInv, OrderInv, IdleCommits \/ Quit, Foreign \subseteq {"goal"}
    PROVE  OrderInv'
<1>1. /\ ui.pc = "idle" /\ ~InTurn /\ ui \in UiType /\ rows \in Seq(RowType)
      /\ UNCHANGED <<agent, envelope, reply, join, cancelled, shown, world, heard>>
  BY TypesOf DEF IdleCommits, Quit, IdleOnly, InTurn
<1>2. /\ ui.stop = "none" /\ ~world.trouble /\ ~world.fault /\ ui.out # "failure" /\ ~cancelled
      /\ agent.pc # "err" /\ Len(rows) <= 1 /\ join = NewJoin /\ envelope = 0
      /\ \A k \in DOMAIN rows : rows[k].kind = "goal"
  BY <1>1 DEF OrderInv, StopInv, TroubleInv, RowsInv
<1>3. CASE IdleCommits
  <2>1. ui' = ui /\ \A k \in DOMAIN rows : rows[k].kind \notin Foreign
    BY <1>3 DEF IdleCommits
  <2>2. PICK kind \in Foreign : Publish(Row(kind, 0))
    BY <1>3 DEF IdleCommits
  <2> DEFINE r == Row(kind, 0)
  <2>3. kind = "goal" /\ Foreign = {"goal"}
    BY <2>2
  <2>4. r \in RowType /\ r.kind = "goal" /\ rows' = Append(rows, r)
    BY <1>2, <2>2, <2>3, TypesOf DEF Publish, Row, RowType
  <2> HIDE DEF r
  <2>5. DOMAIN rows = {} /\ Len(rows) = 0
    <3>1. DOMAIN rows = {}
      BY <1>2, <2>1, <2>3
    <3>2. Len(rows) \in Nat /\ DOMAIN rows = 1 .. Len(rows)
      BY <1>1
    <3> QED
      BY <3>1, <3>2
  <2>6. /\ \A k \in DOMAIN rows' : rows'[k].kind = "goal"
        /\ Len(rows') = 1
    <3>1. \A k \in DOMAIN rows' : (k \in DOMAIN rows /\ rows'[k] = rows[k]) \/ rows'[k] = r
      BY <1>1, <2>4, AppendRow
    <3>2. Len(rows') = Len(rows) + 1
      BY <1>1, <2>4, AppendProperties
    <3> QED
      BY <2>4, <2>5, <3>1, <3>2
  <2>7. RowsInv'
    BY <1>1, <1>2, <2>1, <2>6 DEF RowsInv, InTurn
  <2>8. StopInv' /\ TroubleInv' /\ HeardInv' /\ OnlyTroubleFails' /\ TurnInv'
    BY <1>1, <1>2, <2>1 DEF StopInv, TroubleInv, HeardInv, OnlyTroubleFails, TurnInv, Smooth, InTurn
  <2> QED
    BY <2>7, <2>8 DEF OrderInv
<1>4. CASE Quit
  <2>1. ui' = [ui EXCEPT !.pc = "exited", !.out = "eof"]
    BY <1>4 DEF Quit
  <2>2. ui'.pc = "exited" /\ ui'.out = "eof" /\ ui'.stop = "none"
    BY <1>1, <1>2, <2>1 DEF UiType
  <2> QED
    BY <1>1, <1>2, <2>2 DEF OrderInv, RowsInv, StopInv, TroubleInv, HeardInv, OnlyTroubleFails, TurnInv,
       Smooth, InTurn
<1> QED
  BY <1>3, <1>4

\* A turn starts with what the commands at the prompt have left.
LEMMA StartOrder ==
    ASSUME DialogueInv, OrderInv, StartTurn
    PROVE  OrderInv'
<1>1. /\ ui.pc = "idle" /\ ~InTurn /\ rows \in Seq(RowType) /\ ui.turn \in Nat
      /\ Questions \in Nat /\ agent \in AgentType /\ Takeable(rows, ui.turn)
      /\ UNCHANGED <<rows, envelope, reply, cancelled, shown, sigs, world>>
  BY TypesOf DEF StartTurn, InTurn
<1>2. /\ ~world.trouble /\ ~world.fault /\ ~cancelled
      /\ Len(rows) <= 1 /\ join = NewJoin /\ envelope = 0
      /\ \A k \in DOMAIN rows : rows[k].kind = "goal"
  BY <1>1 DEF OrderInv, StopInv, TroubleInv, RowsInv
<1>3. /\ ui' = NewUi(ui.turn + 1) /\ join' = [NewJoin EXCEPT !.open = TRUE] /\ heard' = {}
      /\ agent' = [Off EXCEPT !.pc = "start", !.q = agent.q]
  BY <1>2 DEF StartTurn
<1>4. /\ ui'.pc = "top" /\ ui'.turn = ui.turn + 1 /\ ui'.stop = "none" /\ ui'.out = "none"
      /\ ui'.ended = FALSE /\ ui'.committed = FALSE /\ ui'.mode = "inactive" /\ ui'.frame = "none"
  BY <1>3 DEF NewUi
<1>5. /\ join'.open /\ join'.ended = FALSE /\ join'.asked = 0 /\ join'.envelope = 0 /\ join'.active = 0
      /\ join'.awaiting = 0 /\ join'.decided = {}
  BY <1>3 DEF NewJoin
<1>6. /\ agent'.pc = "start" /\ agent'.admitted = FALSE /\ agent'.q = agent.q
  BY <1>3 DEF Off
<1>7. \A k \in DOMAIN rows : rows[k] \in RowType /\ rows[k].turn < ui.turn + 1 /\ k \in Nat /\ k = 1
  <2>1. \A k \in DOMAIN rows : rows[k] \in RowType /\ k \in Nat /\ k = 1
    BY <1>1, <1>2
  <2>2. \A k \in DOMAIN rows : rows[k].turn <= ui.turn /\ rows[k].turn \in Nat
    BY <1>1, <2>1 DEF Takeable, RowType
  <2>3. \A k \in DOMAIN rows : rows[k].turn < ui.turn + 1
    BY <1>1, <2>2
  <2> QED
    BY <2>1, <2>3
<1>8. RowsInv'
  <2>1. ~HasPrompt'
    BY <1>1, <1>2 DEF HasPrompt
  <2> QED
    BY <1>1, <1>2, <1>4, <1>6, <1>7, <2>1 DEF RowsInv, InTurn
<1>9. StopInv' /\ TroubleInv' /\ HeardInv' /\ OnlyTroubleFails'
  <2>1. StopInv' /\ TroubleInv'
    BY <1>1, <1>2, <1>4, <1>6 DEF StopInv, TroubleInv, InTurn
  <2>2. HeardInv' /\ OnlyTroubleFails'
    BY <1>3, <1>4 DEF HeardInv, Hears, OnlyTroubleFails
  <2> QED
    BY <2>1, <2>2
<1>10. JoinInv'
  <2>1. Ranks' \subseteq {0} /\ Ordered'
    <3>1. \A k \in DOMAIN rows : Rank(rows[k]) = 0
      BY <1>2, <1>7, RankIs
    <3>2. Ranks' = {Rank(rows[k]) : k \in DOMAIN rows}
      BY <1>1 DEF Ranks, Rank
    <3>3. \A j, k \in DOMAIN rows : ~(j < k)
      BY <1>7
    <3> QED
      BY <1>1, <3>1, <3>2, <3>3 DEF Ordered
  <2>2. Committed' = 0
    BY <1>6 DEF Committed, LastRank, InQuestion
  <2>3. RowOrder'
    BY <2>1, <2>2 DEF RowOrder
  <2>4. Known' = {} /\ Halves(join)' = {}
    BY <1>5 DEF Known, Halves
  <2>5. ~InQ' /\ \A q \in 1 .. Questions : ~Asked(q)'
    BY <1>1, <1>6, <2>1 DEF InQ, InQuestion, Asked
  <2>6. KnownInv' /\ AskedInv' /\ DecidedInv'
    BY <1>5, <2>4, <2>5 DEF KnownInv, AskedInv, DecidedInv
  <2>7. HalfInv' /\ EndedInv'
    BY <1>4, <1>5 DEF HalfInv, EndedInv
  <2> QED
    BY <2>3, <2>6, <2>7 DEF JoinInv
<1>11. ChannelInv' /\ FrameInv'
  BY <1>1, <1>2, <1>4, <1>6 DEF ChannelInv, FrameInv
<1> QED
  BY <1>8, <1>9, <1>10, <1>11 DEF OrderInv, TurnInv

-----------------------------------------------------------------------------
(* The turns of the loop that draw.                                        *)

\* What completing a frame leaves alone, and when it fails.
LEMMA CompletedOrder ==
    ASSUME NEW u \in UiType, NEW c, CompletedAs(u, c)
    PROVE  /\ c.ended = u.ended /\ c.committed = u.committed /\ c.out = u.out
           /\ \/ c.stop = u.stop
              \/ /\ c.stop = Failed(u.stop) /\ u.frame = "written"
                 /\ \/ u.after = "fence" /\ u.mode # "inactive"
                    \/ u.after = "accept" /\ u.mode # "rendering"
<1> DEFINE v == [u EXCEPT !.frame = "none", !.after = "none"]
<1>1. v \in UiType
  BY DEF UiType
<1>2. /\ v.ended = u.ended /\ v.committed = u.committed /\ v.out = u.out /\ v.stop = u.stop
  BY DEF UiType
<1>3. [v EXCEPT !.mode = "inactive"] \in UiType
  <2> HIDE DEF v
  <2> QED
    BY <1>1 DEF UiType
<1>4. CASE c = u \/ c = v
  BY <1>2, <1>4
<1>5. CASE c = [v EXCEPT !.mode = "arming"]
  <2> HIDE DEF v
  <2>1. c.ended = v.ended /\ c.committed = v.committed /\ c.out = v.out /\ c.stop = v.stop
    BY <1>1, <1>5 DEF UiType
  <2> QED
    BY <1>2, <2>1
<1>6. CASE c = Accepting(v)
  <2> HIDE DEF v
  <2>1. c.ended = v.ended /\ c.committed = v.committed /\ c.out = v.out /\ c.stop = v.stop
    BY <1>1, <1>6 DEF UiType, Accepting
  <2> QED
    BY <1>2, <2>1
<1>7. CASE u.frame = "written" /\ u.after = "fence" /\ u.mode # "inactive" /\ c = Fail(v)
  <2> HIDE DEF v
  <2>1. /\ c.ended = v.ended /\ c.committed = v.committed /\ c.out = v.out
        /\ c.stop = Failed(v.stop)
    BY <1>1, <1>7, FailIs
  <2> QED
    BY <1>2, <1>7, <2>1
<1>8. CASE /\ u.frame = "written" /\ u.after = "accept" /\ u.mode # "rendering"
           /\ c = Fail([v EXCEPT !.mode = "inactive"])
  <2> DEFINE w == [v EXCEPT !.mode = "inactive"]
  <2> HIDE DEF v
  <2>1. w.ended = v.ended /\ w.committed = v.committed /\ w.out = v.out /\ w.stop = v.stop
    BY <1>1 DEF UiType
  <2>2. w \in UiType /\ c = Fail(w)
    BY <1>3, <1>8
  <2> HIDE DEF w
  <2>3. /\ c.ended = w.ended /\ c.committed = w.committed /\ c.out = w.out
        /\ c.stop = Failed(w.stop)
    BY <2>2, FailIs
  <2> QED
    BY <1>2, <1>8, <2>1, <2>3
<1> QED
  BY <1>4, <1>5, <1>6, <1>7, <1>8 DEF CompletedAs

LEMMA PreparedOrder ==
    ASSUME DialogueInv, NEW c \in UiType
    PROVE  /\ Prepared(c).ended = c.ended /\ Prepared(c).committed = c.committed
           /\ Prepared(c).out = c.out
           /\ Prepared(c).pc = "finish" => c.drain /\ c.ended
           /\ \/ Prepared(c).frame = c.frame /\ Prepared(c).after = c.after
              \/ /\ c.frame = "none" /\ c.mode = "inactive"
                 /\ Prepared(c).frame = "writing" /\ Prepared(c).after = "fence"
<1>1. CASE c.drain
  <2>1. PICK pc \in {"select", "finish"} : /\ Prepared(c) = [c EXCEPT !.pc = pc]
                                           /\ pc = "finish" => c.ended
    BY <1>1 DEF Prepared
  <2> QED
    BY <1>1, <2>1 DEF UiType
<1>2. CASE ~c.drain /\ ~(c.frame = "none" /\ join.active # 0 /\ c.mode = "inactive")
  <2>1. Prepared(c) = [c EXCEPT !.pc = "select"]
    BY <1>2 DEF Prepared
  <2> QED
    BY <2>1 DEF UiType
<1>3. CASE ~c.drain /\ c.frame = "none" /\ join.active # 0 /\ c.mode = "inactive"
  <2> DEFINE v == PutQuestion(c)
  <2>1. Prepared(c) = [v EXCEPT !.pc = "select"]
    BY <1>3 DEF Prepared
  <2>2. v \in UiType /\ v.frame = "writing" /\ v.after = "fence"
    BY PutIs
  <2>3. v.ended = c.ended /\ v.committed = c.committed /\ v.out = c.out
    BY DEF PutQuestion, UiType
  <2> HIDE DEF v
  <2>4. /\ Prepared(c).ended = v.ended /\ Prepared(c).committed = v.committed
        /\ Prepared(c).out = v.out /\ Prepared(c).pc = "select"
        /\ Prepared(c).frame = v.frame /\ Prepared(c).after = v.after
    BY <2>1, <2>2 DEF UiType
  <2> QED
    BY <1>3, <2>2, <2>3, <2>4
<1> QED
  BY <1>1, <1>2, <1>3

\* What the loop finds once it has looked for a fault of the observer.
LEMMA LatchedOrder ==
    ASSUME NEW u \in UiType
    PROVE  /\ Latched(u) \in UiType /\ Latched(u).turn = u.turn /\ Latched(u).ended = u.ended
           /\ Latched(u).committed = u.committed /\ Latched(u).out = u.out
           /\ Latched(u).drain = u.drain /\ Latched(u).mode = u.mode
           /\ \/ ~world.fault /\ Latched(u) = u
              \/ /\ world.fault /\ Latched(u).stop = Failed(u.stop)
                 /\ Latched(u).stop \in {"exit", "failure"}
BY FailIs DEF Latched

LEMMA TopOrder ==
    ASSUME DialogueInv, OrderInv, Top
    PROVE  OrderInv'
<1> DEFINE u == Latched(ui)
           c == Completed(u)
<1>1. /\ UNCHANGED <<agent, rows, envelope, reply, join, heard, sigs, world>>
      /\ Cancel(ui') /\ ui.pc = "top"
  BY DEF Top, TopOnly
<1>2. InTurn
  BY <1>1 DEF InTurn
<1>3. /\ ui.stop \in {"none", "interrupt", "suspend", "eof", "exit", "failure"}
      /\ Hears(ui.stop, heard) /\ ui \in UiType /\ world \in WorldType
      /\ world.fault => world.trouble
      /\ ui.stop = "failure" => world.trouble \/ world.torn
  BY <1>1, <1>2, StopIs
<1>4. ui.drain => agent.pc = "ok"
  BY DEF DialogueInv, PutInv
<1>5. cancelled' => cancelled \/ ui'.stop # "none"
  BY <1>1 DEF Cancel
<1>6. /\ u \in UiType /\ u.turn = ui.turn /\ u.ended = ui.ended
      /\ u.committed = ui.committed /\ u.out = ui.out /\ u.drain = ui.drain /\ u.mode = ui.mode
      /\ \/ ~world.fault /\ u = ui
         \/ /\ world.fault /\ u.stop = Failed(ui.stop) /\ u.stop \in {"exit", "failure"}
  BY <1>3, LatchedOrder
<1>7. CASE u.stop # "none"
  <2> DEFINE pc == IF u.drain THEN "finish" ELSE "select"
             mode == IF u.drain THEN u.mode ELSE "inactive"
             frame == IF u.drain THEN "none" ELSE u.frame
  <2>1. /\ ui' = [u EXCEPT !.pc = pc, !.mode = mode, !.frame = frame]
        /\ pc \in {"finish", "select"} /\ (pc = "finish" => u.drain)
    BY <1>7 DEF Top
  <2> HIDE DEF u, pc, mode, frame
  <2>2. /\ ui'.turn = u.turn /\ ui'.ended = u.ended /\ ui'.committed = u.committed
        /\ ui'.out = u.out /\ ui'.pc = pc /\ ui'.stop = u.stop
    BY <1>6, <2>1 DEF UiType
  <2>3. InTurn' /\ ~Smooth'
    BY <1>7, <2>1, <2>2 DEF InTurn, Smooth
  <2>4. Hears(ui'.stop, heard')
    BY <1>1, <1>3, <1>6, <2>2, Hearing
  <2>5. /\ ui'.stop \notin {"none", "broken"}
        /\ ui.stop \in {"exit", "failure"} => ui'.stop \in {"exit", "failure"}
        /\ ui'.stop = "failure" => world.trouble \/ world.torn
    BY <1>3, <1>6, <1>7, <2>2
  <2>6. ui'.pc = "finish" => Ready /\ agent.pc # "err"
    BY <1>4, <1>6, <2>1, <2>2 DEF Ready
  <2> QED
    BY <1>1, <1>2, <1>3, <1>5, <1>6, <2>1, <2>2, <2>3, <2>4, <2>5, <2>6, OrderCarried
<1>8. CASE u.stop = "none"
  <2>1. u = ui /\ ui.stop = "none"
    <3> HIDE DEF u
    <3> QED
      BY <1>6, <1>8
  <2>2. ui' = IF c.stop # "none" THEN c ELSE Prepared(c)
    BY <1>8, <2>1 DEF Top
  <2>3. CompletedAs(ui, c)
    BY <1>3, <2>1, CompletedIs
  <2> HIDE DEF c, u
  <2>4. c \in UiType /\ c.turn = ui.turn /\ c.drain = ui.drain /\ c.pc = "top"
    BY <1>1, <1>3, <2>3, CompletedView
  <2>5. /\ c.ended = ui.ended /\ c.committed = ui.committed /\ c.out = ui.out
        /\ \/ c.stop = "none"
           \/ /\ c.stop = Failed("none") /\ ui.frame = "written"
              /\ \/ ui.after = "fence" /\ ui.mode # "inactive"
                 \/ ui.after = "accept" /\ ui.mode # "rendering"
    BY <1>3, <2>1, <2>3, CompletedOrder
  <2>6. CASE c.stop # "none"
    <3>1. ui' = c /\ c.stop = "failure"
      BY <2>2, <2>5, <2>6 DEF Failed
    <3>2. world.trouble \/ world.torn
      <4>1. Fencing(ui) => ui.mode = "inactive"
        BY DEF DialogueInv, PutInv
      <4>2. ui.frame = "written" /\ ui.after = "accept" /\ ui.mode # "rendering"
        BY <2>5, <2>6, <4>1 DEF Fencing
      <4>3. Smooth => world.torn
        BY <4>2, SmoothIs DEF FrameInv
      <4> QED
        BY <1>2, <2>1, <4>3 DEF Smooth
    <3>3. InTurn' /\ ~Smooth'
      BY <2>4, <3>1 DEF InTurn, Smooth
    <3>4. Hears(ui'.stop, heard')
      <4>1. Hears(Failed(ui.stop), heard)
        BY <1>3, Hearing
      <4> QED
        BY <1>1, <2>1, <2>5, <2>6, <3>1, <4>1
    <3> QED
      BY <1>1, <1>2, <1>3, <1>5, <2>1, <2>4, <2>5, <3>1, <3>2, <3>3, <3>4, OrderCarried
  <2>7. CASE c.stop = "none"
    <3>1. ui' = Prepared(c)
      BY <2>2, <2>7
    <3>2. /\ ui'.turn = c.turn /\ ui'.drain = c.drain /\ ui'.stop = "none"
          /\ ui'.pc \in {"select", "finish"} /\ ui'.mode = c.mode
      BY <2>4, <2>7, <3>1, PreparedIs
    <3>3. /\ ui'.ended = c.ended /\ ui'.committed = c.committed /\ ui'.out = c.out
          /\ ui'.pc = "finish" => c.drain /\ c.ended
          /\ \/ ui'.frame = c.frame /\ ui'.after = c.after
             \/ /\ c.frame = "none" /\ c.mode = "inactive"
                /\ ui'.frame = "writing" /\ ui'.after = "fence"
      BY <2>4, <3>1, PreparedOrder
    <3>4. InTurn'
      BY <3>2 DEF InTurn
    <3>5. ASSUME Smooth  PROVE FrameInv'
      <4>1. FrameInv
        BY <3>5, SmoothIs
      <4>2. \/ /\ ui.frame # "written" /\ c = ui
            \/ /\ ui.frame = "written" /\ ui.after \in {"none", "end"} /\ c.frame = "none"
               /\ c.mode = ui.mode
            \/ c.frame = "none" /\ c.mode = "arming"
            \/ c.frame = "none" /\ c.mode = "accepting"
        BY <1>3, <2>3, <2>7, CompletedView
      <4>3. /\ c.mode = "arming" => c.frame = "none"
            /\ c.mode = "rendering" => c.frame # "none" /\ c.after = "accept"
            /\ c.frame # "none" /\ c.after = "accept" => c.mode = "rendering" \/ world.torn
        BY <4>1, <4>2 DEF FrameInv
      <4> QED
        BY <1>1, <3>2, <3>3, <4>3 DEF FrameInv
    <3>6. ui'.pc = "finish" => /\ Ready /\ agent.pc # "err" /\ ui'.drain /\ ui.ended
      BY <1>4, <2>4, <2>5, <3>2, <3>3 DEF Ready
    <3> QED
      BY <1>1, <1>2, <1>3, <1>5, <2>1, <2>4, <2>5, <3>2, <3>3, <3>4, <3>5, <3>6, OrderCarried
  <2> QED
    BY <2>6, <2>7
<1> QED
  BY <1>7, <1>8

-----------------------------------------------------------------------------
(* The branches of the select.                                             *)

\* A branch that changes the channels, or the join.
LEMMA BranchCarried ==
    ASSUME DialogueInv, OrderInv, ui.pc = "select", ui.stop = "none", RowsInv',
           UNCHANGED <<agent, heard, world>>,
           ui'.pc = "top", ui'.out = ui.out, ui'.stop \in {"none", "failure"},
           cancelled' => cancelled \/ ui'.stop # "none",
           Smooth => ui'.stop = "none" /\ JoinInv' /\ ChannelInv' /\ FrameInv'
    PROVE  OrderInv'
<1>1. InTurn /\ InTurn'
  BY DEF InTurn
<1>2. Hears("none", heard)
  BY <1>1 DEF OrderInv, HeardInv
<1>3. StopInv'
  BY <1>1 DEF OrderInv, StopInv
<1>4. TroubleInv'
  BY <1>1 DEF OrderInv, TroubleInv
<1>5. HeardInv'
  BY <1>2 DEF HeardInv, Hears
<1>6. TurnInv'
  <2>1. Smooth' => Smooth
    BY <1>1 DEF Smooth
  <2> QED
    BY <2>1 DEF TurnInv
<1>7. OnlyTroubleFails'
  <2>1. ui'.stop = "failure" => world.trouble
    BY <1>1 DEF Smooth
  <2>2. ui'.out # "failure"
    BY <1>1 DEF OrderInv, StopInv
  <2> QED
    BY <2>1, <2>2 DEF OnlyTroubleFails
<1> QED
  BY <1>3, <1>4, <1>5, <1>6, <1>7 DEF OrderInv

LEMMA RowsStay ==
    ASSUME OrderInv, InTurn, InTurn', UNCHANGED <<agent, rows>>, ui'.turn = ui.turn,
           ui'.committed = ui.committed
    PROVE  RowsInv'
<1>1. HasPrompt' <=> HasPrompt
  BY DEF HasPrompt, Old
<1> QED
  BY <1>1 DEF OrderInv, RowsInv, InTurn

LEMMA ArmedOrder ==
    ASSUME DialogueInv, OrderInv, Armed
    PROVE  OrderInv'
<1> DEFINE v == [ui EXCEPT !.mode = "rendering"]
<1>1. /\ ui \in UiType /\ join.active # 0 /\ ui.stop = "none" /\ ui.pc = "select"
      /\ ui.mode = "arming" /\ Cancel(ui')
      /\ UNCHANGED <<agent, shown, world, rows, envelope, reply, join, sigs, heard>>
  BY TypesOf DEF Armed, BranchOnly, Selecting
<1>2. /\ v \in UiType /\ v.mode = "rendering" /\ v.turn = ui.turn /\ v.ended = ui.ended
      /\ v.committed = ui.committed /\ v.out = ui.out /\ v.stop = "none"
  BY <1>1 DEF UiType
<1>3. \/ ui.frame # "none" /\ ui' = Fail(v)
      \/ ui' = [v EXCEPT !.frame = "writing", !.after = "accept", !.pc = "top"]
  BY <1>1 DEF Armed
<1> HIDE DEF v
<1>4. InTurn
  BY <1>1 DEF InTurn
<1>5. /\ ui'.pc = "top" /\ ui'.turn = ui.turn /\ ui'.ended = ui.ended /\ ui'.out = ui.out
      /\ ui'.committed = ui.committed
      /\ \/ ui'.stop = "failure" /\ ui.frame # "none"
         \/ /\ ui'.stop = "none" /\ ui'.mode = "rendering" /\ ui'.frame = "writing"
            /\ ui'.after = "accept"
  <2>1. CASE ui.frame # "none" /\ ui' = Fail(v)
    BY <1>2, <2>1, FailIs DEF Failed
  <2>2. CASE ui' = [v EXCEPT !.frame = "writing", !.after = "accept", !.pc = "top"]
    <3>1. /\ ui'.turn = v.turn /\ ui'.ended = v.ended /\ ui'.out = v.out /\ ui'.stop = v.stop
          /\ ui'.mode = v.mode
      BY <1>2, <2>2 DEF UiType
    <3>2. /\ ui'.committed = v.committed
          /\ ui'.frame = "writing" /\ ui'.after = "accept" /\ ui'.pc = "top"
      BY <1>2, <2>2 DEF UiType
    <3> QED
      BY <1>2, <3>1, <3>2
  <2> QED
    BY <1>3, <2>1, <2>2
<1>6. InTurn' /\ RowsInv'
  BY <1>1, <1>4, <1>5, RowsStay DEF InTurn
<1>7. ASSUME Smooth  PROVE ui'.stop = "none" /\ JoinInv' /\ ChannelInv' /\ FrameInv'
  <2>1. ui'.stop = "none" /\ FrameInv'
    BY <1>1, <1>5, <1>7, SmoothIs DEF FrameInv
  <2>2. JoinInv' /\ ChannelInv'
    BY <1>1, <1>5, <1>7, SmoothIs, JoinStays
  <2> QED
    BY <2>1, <2>2
<1>8. cancelled' => cancelled \/ ui'.stop # "none"
  BY <1>1 DEF Cancel
<1> QED
  BY <1>1, <1>5, <1>6, <1>7, <1>8, BranchCarried

\* An answer of the user: his question was active, and is now awaited.
LEMMA AnswerOrder ==
    ASSUME DialogueInv, OrderInv, Smooth, NEW k, Answer(ui, k), ui.mode = "accepting",
           UNCHANGED <<agent, world, rows, envelope>>
    PROVE  JoinInv' /\ ChannelInv' /\ FrameInv'
<1> DEFINE q == agent.q
<1>1. /\ JoinInv /\ ChannelInv /\ FrameInv /\ ui.stop = "none" /\ join \in JoinType
      /\ Questions \in Nat /\ q \in 0 .. Questions /\ ui \in UiType /\ Ranks \subseteq Nat
  BY SmoothIs, TypesOf, RanksAreNumbers
<1>2. join.active # 0
  BY <1>1 DEF DialogueInv, PutInv
<1>3. /\ join.active = q /\ q # 0 /\ join.asked = 0 /\ join.envelope = 0 /\ join.awaiting = 0
  BY <1>1, <1>2 DEF JoinInv, HalfInv
<1>4. /\ join' = [join EXCEPT !.active = 0, !.awaiting = join.active]
      /\ ui' = [ui EXCEPT !.mode = "inactive", !.pc = "top"]
  BY DEF Answer
<1>5. /\ join'.active = 0 /\ join'.awaiting = q /\ join'.asked = 0 /\ join'.envelope = 0
      /\ join'.decided = join.decided /\ join'.open = join.open /\ join'.ended = join.ended
  BY <1>1, <1>3, <1>4 DEF JoinType
<1>6. /\ ui'.mode = "inactive" /\ ui'.frame = ui.frame /\ ui'.after = ui.after
      /\ ui'.ended = ui.ended
  BY <1>1, <1>4 DEF UiType
<1>7. /\ Ranks' = Ranks /\ (Ordered <=> Ordered') /\ Committed' = Committed /\ (InQ' <=> InQ)
  BY DEF Ranks, Rank, Ordered, Committed, LastRank, InQuestion, InQ
<1>8. Known = {q} /\ Known' = {q}
  <2>1. Known = {q}
    BY <1>3 DEF Known
  <2>2. Known' = {join'.asked, join'.active, join'.awaiting} \ {0}
    BY DEF Known
  <2> QED
    BY <1>3, <1>5, <2>1, <2>2
<1>9. ~Asked(q)
  <2>1. \A x \in Ranks : x > 2 * q + 1
    BY <1>1, <1>8 DEF JoinInv, KnownInv
  <2> QED
    BY <1>1, <2>1 DEF Asked
<1>10. RowOrder' /\ KnownInv' /\ AskedInv' /\ DecidedInv'
  BY <1>1, <1>5, <1>7, <1>8 DEF JoinInv, RowOrder, KnownInv, AskedInv, DecidedInv, Asked, Decided
<1>11. HalfInv'
  BY <1>5 DEF HalfInv
<1>12. EndedInv'
  <2>1. join.active \in Halves(join)
    BY <1>2 DEF Halves
  <2>2. ~join.ended /\ join.open /\ join.ended = ui.ended
    BY <1>1, <2>1 DEF JoinInv, EndedInv
  <2> QED
    BY <1>5, <1>6, <2>2 DEF EndedInv
<1>13. Dealt' /\ envelope' = 0
  <2>1. envelope = 0
    BY <1>1, <1>2 DEF ChannelInv
  <2>2. Asked(agent.q)' <=> Asked(q)
    BY <1>7 DEF Asked
  <2> QED
    BY <1>5, <1>9, <2>1, <2>2 DEF Dealt
<1>14. agent.pc # "asked"
  BY <1>1, <1>2 DEF ChannelInv
<1>15. ChannelInv'
  BY <1>13, <1>14 DEF ChannelInv
<1>16. FrameInv'
  BY <1>1, <1>6 DEF FrameInv
<1> QED
  BY <1>10, <1>11, <1>12, <1>15, <1>16 DEF JoinInv

LEMMA EscapeOrder ==
    ASSUME DialogueInv, OrderInv, EscapeExpires
    PROVE  OrderInv'
<1>1. /\ ui.mode = "accepting" /\ Cancel(ui') /\ ui.stop = "none" /\ ui.pc = "select" /\ InTurn
      /\ UNCHANGED <<agent, shown, world, rows, envelope, tty, sigs, heard>> /\ ui \in UiType
  BY TypesOf DEF EscapeExpires, BranchOnly, Selecting, InTurn
<1>2. Answer(ui, ui.escape)
  <2>1. join.active # 0
    BY <1>1 DEF DialogueInv, PutInv
  <2> QED
    BY <2>1 DEF EscapeExpires
<1>3. ui' = [ui EXCEPT !.mode = "inactive", !.pc = "top"]
  BY <1>2 DEF Answer
<1>4. /\ ui'.pc = "top" /\ ui'.out = ui.out /\ ui'.stop = "none" /\ ui'.turn = ui.turn
      /\ ui'.committed = ui.committed
  BY <1>1, <1>3 DEF UiType
<1>5. InTurn' /\ RowsInv'
  BY <1>1, <1>4, RowsStay DEF InTurn
<1>6. cancelled' => cancelled \/ ui'.stop # "none"
  BY <1>1 DEF Cancel
<1>7. Smooth => JoinInv' /\ ChannelInv' /\ FrameInv'
  BY <1>1, <1>2, AnswerOrder
<1> QED
  BY <1>1, <1>4, <1>5, <1>6, <1>7, BranchCarried

\* What keys that wait do in a selector.
LEMMA FeedOrder ==
    ASSUME DialogueInv, OrderInv, Feed, tty # <<>>, Cancel(ui'), ui.pc = "select",
           ui.stop = "none", ui.mode = "accepting", ui.frame = "none",
           UNCHANGED <<agent, world, rows, envelope, heard>>
    PROVE  OrderInv'
<1>1. /\ ui \in UiType /\ tty \in Seq(KeyType) /\ DOMAIN tty \subseteq Nat /\ InTurn
  <2>1. ui \in UiType /\ tty \in Seq(KeyType) /\ InTurn
    BY TypesOf DEF InTurn
  <2> QED
    BY <2>1
<1>2. cancelled' => cancelled \/ ui'.stop # "none"
  BY DEF Cancel
<1>3. CASE \E n \in Finals : Answer(ui, tty[n])
  <2>1. PICK n \in Finals : Answer(ui, tty[n])
    BY <1>3
  <2>2. ui' = [ui EXCEPT !.mode = "inactive", !.pc = "top"]
    BY <2>1 DEF Answer
  <2>3. /\ ui'.pc = "top" /\ ui'.out = ui.out /\ ui'.stop = "none" /\ ui'.turn = ui.turn
        /\ ui'.committed = ui.committed
    BY <1>1, <2>2 DEF UiType
  <2>4. InTurn' /\ RowsInv'
    BY <1>1, <2>3, RowsStay DEF InTurn
  <2>5. Smooth => JoinInv' /\ ChannelInv' /\ FrameInv'
    BY <2>1, AnswerOrder
  <2> QED
    BY <1>2, <2>3, <2>4, <2>5, BranchCarried
<1>4. ASSUME UNCHANGED <<join, reply>>, ui'.pc = "top", ui'.out = ui.out, ui'.stop = "none",
             ui'.turn = ui.turn, ui'.committed = ui.committed, ui'.ended = ui.ended,
             ui'.mode \in {"inactive", "accepting"},
             ui'.frame = "none" \/ ui'.after \in {"none", "fence"}
      PROVE  OrderInv'
  <2>1. InTurn' /\ RowsInv'
    BY <1>1, <1>4, RowsStay DEF InTurn
  <2>2. ASSUME Smooth  PROVE JoinInv' /\ ChannelInv' /\ FrameInv'
    <3>1. JoinInv' /\ ChannelInv'
      BY <1>4, <2>2, SmoothIs, JoinStays
    <3>2. FrameInv'
      BY <1>4 DEF FrameInv
    <3> QED
      BY <3>1, <3>2
  <2> QED
    BY <1>2, <1>4, <2>1, <2>2, BranchCarried
<1>5. CASE /\ ui' = [PutQuestion(ui) EXCEPT !.mode = "inactive", !.pc = "top"]
           /\ UNCHANGED <<join, reply>>
  <2> DEFINE v == PutQuestion(ui)
  <2>1. /\ v \in UiType /\ v.turn = ui.turn /\ v.stop = "none" /\ v.frame = "writing"
        /\ v.after = "fence"
    BY <1>1, PutIs
  <2>2. v.ended = ui.ended /\ v.committed = ui.committed /\ v.out = ui.out
    BY <1>1 DEF PutQuestion, UiType
  <2>3. ui' = [v EXCEPT !.mode = "inactive", !.pc = "top"]
    BY <1>5
  <2> HIDE DEF v
  <2>4. /\ ui'.turn = v.turn /\ ui'.stop = v.stop /\ ui'.after = v.after /\ ui'.ended = v.ended
        /\ ui'.committed = v.committed
    BY <2>1, <2>3 DEF UiType
  <2>5. ui'.out = v.out /\ ui'.mode = "inactive" /\ ui'.pc = "top"
    BY <2>1, <2>3 DEF UiType
  <2> QED
    BY <1>4, <1>5, <2>1, <2>2, <2>4, <2>5
<1>6. CASE Finals = {}
  <2> DEFINE redraw == \E n \in DOMAIN tty : tty[n].key = "move"
             escape == IF Last(tty).key = "esc" THEN Last(tty) ELSE NoKey
             due == ~redraw /\ escape # NoKey
             frame == IF redraw THEN "writing" ELSE ui.frame
             after == IF redraw THEN "none" ELSE ui.after
  <2>1. /\ ui' = [ui EXCEPT !.escape = escape, !.due = due, !.frame = frame, !.after = after,
                            !.pc = "top"]
        /\ UNCHANGED <<join, reply>>
    BY <1>6 DEF Feed
  <2>2. frame = "none" \/ after = "none"
    <3> HIDE DEF redraw
    <3> QED
      OBVIOUS
  <2> HIDE DEF escape, due, frame, after, redraw
  <2>3. /\ ui'.turn = ui.turn /\ ui'.stop = "none" /\ ui'.mode = "accepting" /\ ui'.pc = "top"
        /\ ui'.ended = ui.ended
    BY <1>1, <2>1 DEF UiType
  <2>4. /\ ui'.committed = ui.committed /\ ui'.out = ui.out
        /\ ui'.frame = frame /\ ui'.after = after
    BY <1>1, <2>1 DEF UiType
  <2> QED
    BY <1>4, <2>1, <2>2, <2>3, <2>4
<1>7. Finals # {} => (CHOOSE m \in Finals : \A k \in Finals : m <= k) \in Finals
  BY <1>1, FirstIs DEF Finals
<1> QED
  BY <1>3, <1>5, <1>6, <1>7 DEF Feed

LEMMA ReadOrder ==
    ASSUME DialogueInv, OrderInv, Read
    PROVE  OrderInv'
<1> DEFINE signals == IF ui.drain THEN {} ELSE sigs
           stop == Observe(ui.stop, signals)
           u == [ui EXCEPT !.stop = stop]
           v == IF ui.drain THEN u ELSE Latched(u)
<1>1. /\ ui.stop = "none" /\ ui.pc = "select" /\ InTurn /\ tty # <<>> /\ Cancel(ui')
      /\ ui.frame = "none" \/ ui.mode # "accepting"
      /\ UNCHANGED <<agent, shown, world, rows, envelope>> /\ heard' = heard \cup signals
      /\ \/ /\ v.stop # "none" /\ ui' = [v EXCEPT !.frame = "none", !.pc = "top"]
            /\ UNCHANGED <<join, reply>>
         \/ /\ v.stop = "none" /\ ui' = [ui EXCEPT !.pc = "top"]
            /\ UNCHANGED <<join, reply>>
         \/ /\ v.stop = "none" /\ ui.mode = "accepting" /\ join.active = 0
         \/ /\ v.stop = "none" /\ ui.mode = "accepting" /\ join.active # 0 /\ Feed
  BY DEF Read, BranchOnly, ReadEnabled, Selecting, InTurn
<1>2. /\ Hears("none", heard) /\ ui \in UiType /\ world \in WorldType
      /\ world.fault => world.trouble
  BY <1>1, StopIs
<1>3. signals \in SUBSET {"interrupt", "suspend", "exit"}
  BY TypesOf
<1> HIDE DEF signals
<1>4. /\ stop \in {"none", "interrupt", "suspend", "exit"} /\ Hears(stop, heard')
      /\ (stop = "none" => signals = {})
  <2>1. stop \in {"none", "interrupt", "suspend", "exit"} /\ (stop = "none" => signals = {})
    BY <1>1, <1>3 DEF Observe
  <2>2. Hears(stop, heard')
    BY <1>1, <1>2, <1>3, Hearing
  <2> QED
    BY <2>1, <2>2
<1> HIDE DEF stop
<1>5. /\ u \in UiType /\ u.stop = stop /\ u.turn = ui.turn /\ u.ended = ui.ended
      /\ u.committed = ui.committed /\ u.out = ui.out
  BY <1>2, <1>4 DEF UiType
<1> HIDE DEF u
<1>6. /\ v \in UiType /\ v.turn = ui.turn /\ v.ended = ui.ended
      /\ v.committed = ui.committed /\ v.out = ui.out
      /\ v.stop = stop \/ (world.fault /\ v.stop = Failed(stop))
  BY <1>5, LatchedOrder
<1> HIDE DEF v
<1>7. /\ v.stop = "none" => stop = "none" /\ heard' = heard
      /\ v.stop \in {"none", "interrupt", "suspend", "exit", "failure"}
      /\ v.stop = "failure" => world.trouble
      /\ Hears(v.stop, heard')
  BY <1>1, <1>2, <1>4, <1>6, Hearing DEF Failed
<1>8. cancelled' => cancelled \/ ui'.stop # "none"
  BY <1>1 DEF Cancel
<1>9. CASE v.stop # "none" /\ ui' = [v EXCEPT !.frame = "none", !.pc = "top"] /\ UNCHANGED <<join, reply>>
  <2>1. /\ ui'.turn = v.turn /\ ui'.ended = v.ended /\ ui'.committed = v.committed
        /\ ui'.out = v.out /\ ui'.pc = "top" /\ ui'.stop = v.stop
    BY <1>6, <1>9 DEF UiType
  <2>2. InTurn' /\ ~Smooth'
    BY <1>9, <2>1 DEF InTurn, Smooth
  <2> QED
    BY <1>1, <1>6, <1>7, <1>8, <1>9, <2>1, <2>2, OrderCarried
<1>10. CASE v.stop = "none" /\ ui' = [ui EXCEPT !.pc = "top"] /\ UNCHANGED <<join, reply>>
  <2>1. /\ ui'.turn = ui.turn /\ ui'.ended = ui.ended /\ ui'.committed = ui.committed
        /\ ui'.out = ui.out /\ ui'.pc = "top" /\ ui'.stop = "none" /\ ui'.mode = ui.mode
        /\ ui'.frame = ui.frame /\ ui'.after = ui.after
    BY <1>1, <1>2, <1>10 DEF UiType
  <2>2. InTurn' /\ RowsInv'
    BY <1>1, <2>1, RowsStay DEF InTurn
  <2>3. ASSUME Smooth  PROVE JoinInv' /\ ChannelInv' /\ FrameInv'
    <3>1. JoinInv' /\ ChannelInv'
      BY <1>1, <1>10, <2>1, <2>3, SmoothIs, JoinStays
    <3>2. FrameInv'
      BY <1>1, <2>1, <2>3, SmoothIs DEF FrameInv
    <3> QED
      BY <3>1, <3>2
  <2> QED
    BY <1>1, <1>7, <1>8, <1>10, <2>1, <2>2, <2>3, BranchCarried
<1>11. CASE v.stop = "none" /\ ui.mode = "accepting" /\ join.active = 0
  BY <1>1, <1>11 DEF DialogueInv, PutInv
<1>12. CASE v.stop = "none" /\ ui.mode = "accepting" /\ join.active # 0 /\ Feed
  BY <1>1, <1>7, <1>12, FeedOrder
<1> QED
  BY <1>1, <1>9, <1>10, <1>11, <1>12

-----------------------------------------------------------------------------
(* What the join makes of an envelope.                                     *)

\* The effect of Take.
LEMMA TakeView ==
    ASSUME DialogueInv, NEW done, NEW u \in UiType, Take(done, u)
    PROVE  /\ join' = done.j
           /\ done.ok => ui' = [u EXCEPT !.pc = "top"]
           /\ ui'.pc = "top" /\ ui'.out = u.out /\ ui'.turn = u.turn /\ ui'.ended = u.ended
           /\ ui'.committed = u.committed /\ ui'.mode = u.mode /\ ui'.after = u.after
           /\ done.ok => ui'.stop = u.stop /\ ui'.frame = u.frame
           /\ ui'.stop = u.stop \/ ui'.stop = Failed(u.stop)
           /\ cancelled' => cancelled \/ ui'.stop # "none"
           /\ reply' = reply \/ (done.refused # 0 /\ agent.pc = "asking" /\ agent.q = done.refused)
<1>1. /\ join' = done.j /\ ui' = (IF done.ok THEN [u EXCEPT !.pc = "top"] ELSE Fail(u))
      /\ cancelled' => cancelled \/ ui'.stop # "none"
      /\ reply' = reply \/ (done.refused # 0 /\ agent.pc = "asking" /\ agent.q = done.refused)
  BY DEF Take, Cancel
<1>2. CASE done.ok
  <2>1. ui' = [u EXCEPT !.pc = "top"]
    BY <1>1, <1>2
  <2>2. /\ ui'.pc = "top" /\ ui'.out = u.out /\ ui'.turn = u.turn /\ ui'.ended = u.ended
        /\ ui'.committed = u.committed
    BY <2>1 DEF UiType
  <2>3. /\ ui'.mode = u.mode /\ ui'.stop = u.stop /\ ui'.frame = u.frame
        /\ ui'.after = u.after
    BY <2>1 DEF UiType
  <2> QED
    BY <1>1, <1>2, <2>1, <2>2, <2>3
<1>3. CASE ~done.ok
  BY <1>1, <1>3, FailIs
<1> QED
  BY <1>2, <1>3

\* Both halves of a question are there: it is active, or it is refused at once.
LEMMA Activated ==
    ASSUME NEW j \in JoinType, NEW c \in BOOLEAN, j.asked = j.envelope, j.asked # 0
    PROVE  LET d == TryActivate(j, c)
           IN  /\ d.ok /\ d.j.open = j.open /\ d.j.ended = j.ended /\ d.j.decided = j.decided
               /\ d.j.asked = 0 /\ d.j.envelope = 0
               /\ \/ d.j.active = j.asked /\ d.j.awaiting = j.awaiting /\ d.refused = 0
                  \/ d.j.active = j.active /\ d.j.awaiting = j.asked /\ d.refused = j.asked
<1> DEFINE q == j.asked
           d == TryActivate(j, c)
           n == [j EXCEPT !.asked = 0, !.envelope = 0]
<1>1. d = IF c THEN [j |-> [n EXCEPT !.active = q], ok |-> TRUE, refused |-> 0]
          ELSE [j |-> [n EXCEPT !.awaiting = q], ok |-> TRUE, refused |-> q]
  BY DEF TryActivate, Joined
<1>2. /\ n.open = j.open /\ n.ended = j.ended /\ n.decided = j.decided /\ n.asked = 0
      /\ n.envelope = 0 /\ n.active = j.active /\ n.awaiting = j.awaiting
  BY DEF JoinType
<1>3. n \in JoinType /\ q \in 0 .. Questions
  <2>1. 0 \in 0 .. Questions
    BY TerminalAssumption
  <2>2. n \in JoinType
    BY <2>1 DEF JoinType
  <2>3. q \in 0 .. Questions
    BY DEF JoinType
  <2> QED
    BY <2>2, <2>3
<1> HIDE DEF n, q, d
<1>4. CASE c
  <2>1. /\ d.j = [n EXCEPT !.active = q] /\ d.ok /\ d.refused = 0
    BY <1>1, <1>4
  <2>2. /\ d.j.open = n.open /\ d.j.ended = n.ended /\ d.j.decided = n.decided
        /\ d.j.asked = n.asked /\ d.j.envelope = n.envelope
    BY <1>3, <2>1 DEF JoinType
  <2>3. d.j.active = q /\ d.j.awaiting = n.awaiting
    BY <1>3, <2>1 DEF JoinType
  <2> QED
    BY <1>2, <2>1, <2>2, <2>3 DEF d, q
<1>5. CASE ~c
  <2>1. /\ d.j = [n EXCEPT !.awaiting = q] /\ d.ok /\ d.refused = q
    BY <1>1, <1>5
  <2>2. /\ d.j.open = n.open /\ d.j.ended = n.ended /\ d.j.decided = n.decided
        /\ d.j.asked = n.asked /\ d.j.envelope = n.envelope
    BY <1>3, <2>1 DEF JoinType
  <2>3. d.j.active = n.active /\ d.j.awaiting = q
    BY <1>3, <2>1 DEF JoinType
  <2> QED
    BY <1>2, <2>1, <2>2, <2>3 DEF d, q
<1> QED
  BY <1>4, <1>5

LEMMA Received ==
    ASSUME NEW c \in BOOLEAN, join \in JoinType, envelope \in 1 .. Questions,
           join.open, join.active = 0, join.envelope = 0, join.asked \in {0, envelope},
           join.asked # 0 => join.awaiting = 0
    PROVE  LET closed == agent.pc # "asking" \/ agent.q # envelope
               d == Receive(join, envelope, closed, c)
           IN  /\ d.ok /\ d.j.open = join.open /\ d.j.ended = join.ended
               /\ d.j.decided = join.decided
               /\ \/ d.j = join /\ d.refused = 0
                  \/ /\ ~closed /\ join.asked = 0 /\ join.awaiting # envelope /\ ~join.ended
                     /\ d.refused = 0 /\ d.j.asked = 0 /\ d.j.envelope = envelope
                     /\ d.j.active = 0 /\ d.j.awaiting = join.awaiting
                  \/ /\ ~closed /\ join.asked = envelope /\ ~join.ended
                     /\ d.j.asked = 0 /\ d.j.envelope = 0
                     /\ \/ d.j.active = envelope /\ d.j.awaiting = 0 /\ d.refused = 0
                        \/ d.j.active = 0 /\ d.j.awaiting = envelope /\ d.refused = envelope
<1> DEFINE closed == agent.pc # "asking" \/ agent.q # envelope
           d == Receive(join, envelope, closed, c)
           n == [join EXCEPT !.envelope = envelope]
<1> HIDE DEF closed
<1>1. \/ d = Joined(join, TRUE)
      \/ /\ ~closed /\ ~join.ended /\ join.awaiting # envelope /\ d = TryActivate(n, c)
  BY DEF Receive
<1>2. /\ n.open = join.open /\ n.ended = join.ended /\ n.decided = join.decided
      /\ n.asked = join.asked /\ n.envelope = envelope /\ n.active = join.active
      /\ n.awaiting = join.awaiting
  BY DEF JoinType
<1>3. n \in JoinType /\ envelope # 0
  BY TerminalAssumption DEF JoinType
<1> HIDE DEF n, d
<1>4. CASE d = Joined(join, TRUE)
  BY <1>4, JoinedIs DEF d, closed
<1>5. CASE ~closed /\ ~join.ended /\ join.awaiting # envelope /\ d = TryActivate(n, c) /\ join.asked = 0
  <2>1. d = Joined(n, TRUE)
    BY <1>2, <1>5 DEF TryActivate
  <2>2. d.j = n /\ d.ok /\ d.refused = 0
    BY <1>3, <2>1, JoinedIs
  <2> QED
    BY <1>2, <1>5, <2>2 DEF d, closed
<1>6. CASE ~closed /\ ~join.ended /\ d = TryActivate(n, c) /\ join.asked = envelope
  <2> DEFINE t == TryActivate(n, c)
  <2>1. n.asked = n.envelope /\ n.asked # 0
    BY <1>2, <1>3, <1>6
  <2>2. /\ t.ok /\ t.j.open = n.open /\ t.j.ended = n.ended /\ t.j.decided = n.decided
        /\ t.j.asked = 0 /\ t.j.envelope = 0
        /\ \/ t.j.active = n.asked /\ t.j.awaiting = n.awaiting /\ t.refused = 0
           \/ t.j.active = n.active /\ t.j.awaiting = n.asked /\ t.refused = n.asked
    BY <1>3, <2>1, Activated
  <2>3. d = t
    BY <1>6
  <2> HIDE DEF t
  <2> QED
    BY <1>2, <1>3, <1>6, <2>2, <2>3 DEF d, closed
<1> QED
  BY <1>1, <1>4, <1>5, <1>6

\* A half of a question that the join comes by.
LEMMA EnvelopeTaken ==
    ASSUME DialogueInv, OrderInv, Smooth, NEW c \in BOOLEAN, envelope # 0, envelope' = 0,
           Take(Receive(join, envelope, agent.pc # "asking" \/ agent.q # envelope, c), ui),
           UNCHANGED <<agent, world, rows>>
    PROVE  ui'.stop = "none" /\ JoinInv' /\ ChannelInv' /\ FrameInv'
<1> DEFINE q == agent.q
           closed == agent.pc # "asking" \/ agent.q # envelope
           d == Receive(join, envelope, closed, c)
<1>1. /\ JoinInv /\ ChannelInv /\ FrameInv /\ ui.stop = "none" /\ join \in JoinType
      /\ Questions \in Nat /\ q \in 0 .. Questions /\ ui \in UiType /\ Ranks \subseteq Nat
  BY SmoothIs, TypesOf, RanksAreNumbers
<1>2. /\ envelope = q /\ q \in 1 .. Questions /\ join.active = 0 /\ join.envelope = 0
      /\ closed \in BOOLEAN /\ closed = (agent.pc # "asking")
  BY <1>1 DEF ChannelInv
<1>3. /\ join.open /\ join.asked \in {0, q} /\ (join.asked # 0 => join.awaiting = 0)
      /\ join.ended = ui.ended
  BY <1>1 DEF JoinInv, HalfInv, EndedInv
<1>4. /\ join' = d.j /\ (d.ok => ui'.stop = "none" /\ ui'.frame = ui.frame)
      /\ ui'.mode = ui.mode /\ ui'.after = ui.after /\ ui'.ended = ui.ended
      /\ reply' = reply \/ (d.refused # 0 /\ agent.pc = "asking")
  BY <1>1, TakeView
<1>5. /\ d.ok /\ d.j.open = join.open /\ d.j.ended = join.ended /\ d.j.decided = join.decided
      /\ \/ d.j = join /\ d.refused = 0
         \/ /\ ~closed /\ join.asked = 0 /\ join.awaiting # q /\ ~join.ended /\ d.refused = 0
            /\ d.j.asked = 0 /\ d.j.envelope = q /\ d.j.active = 0
            /\ d.j.awaiting = join.awaiting
         \/ /\ ~closed /\ join.asked = q /\ ~join.ended
            /\ d.j.asked = 0 /\ d.j.envelope = 0
            /\ \/ d.j.active = q /\ d.j.awaiting = 0 /\ d.refused = 0
               \/ d.j.active = 0 /\ d.j.awaiting = q /\ d.refused = q
  <2>1. /\ envelope \in 1 .. Questions /\ join.asked \in {0, envelope} /\ q = envelope
        /\ (join.asked # 0 => join.awaiting = 0) /\ closed \in BOOLEAN /\ join \in JoinType
        /\ join.open /\ join.active = 0 /\ join.envelope = 0
    BY <1>1, <1>2, <1>3
  <2>2. /\ d.ok /\ d.j.open = join.open /\ d.j.ended = join.ended /\ d.j.decided = join.decided
        /\ \/ d.j = join /\ d.refused = 0
           \/ /\ ~closed /\ join.asked = 0 /\ join.awaiting # envelope /\ ~join.ended
              /\ d.refused = 0
              /\ d.j.asked = 0 /\ d.j.envelope = envelope /\ d.j.active = 0
              /\ d.j.awaiting = join.awaiting
           \/ /\ ~closed /\ join.asked = envelope /\ ~join.ended
              /\ d.j.asked = 0 /\ d.j.envelope = 0
              /\ \/ d.j.active = envelope /\ d.j.awaiting = 0 /\ d.refused = 0
                 \/ d.j.active = 0 /\ d.j.awaiting = envelope /\ d.refused = envelope
    BY <2>1, Received
  <2> HIDE DEF d, q, closed
  <2> QED
    BY <2>1, <2>2
<1> HIDE DEF d, closed
<1>6. /\ Ranks' = Ranks /\ (Ordered <=> Ordered') /\ Committed' = Committed /\ (InQ' <=> InQ)
      /\ \A p : (Asked(p)' <=> Asked(p)) /\ (Decided(p)' <=> Decided(p))
  BY DEF Ranks, Rank, Ordered, Committed, LastRank, InQuestion, InQ, Asked, Decided
<1>7. ui'.stop = "none" /\ FrameInv'
  BY <1>1, <1>4, <1>5 DEF FrameInv
<1>8. RowOrder' /\ DecidedInv'
  BY <1>1, <1>4, <1>5, <1>6 DEF JoinInv, RowOrder, DecidedInv
<1>9. CASE join' = join /\ d.refused = 0
  <2>1. reply' = reply
    BY <1>4, <1>9
  <2>2. Known' = Known
    BY <1>9 DEF Known
  <2>3. KnownInv' /\ AskedInv'
    BY <1>1, <1>6, <2>2 DEF JoinInv, KnownInv, AskedInv
  <2>4. HalfInv' /\ EndedInv'
    BY <1>1, <1>4, <1>6, <1>9 DEF JoinInv, HalfInv, EndedInv, Halves
  <2>5. ChannelInv'
    BY <1>1, <1>6, <1>9, <2>1 DEF ChannelInv, Dealt
  <2> QED
    BY <1>7, <1>8, <2>3, <2>4, <2>5 DEF JoinInv
<1>10. ASSUME ~closed  PROVE InQ /\ reply = NoReply /\ agent.pc = "asking"
  BY <1>1, <1>2, <1>10 DEF ChannelInv, InQ, InQuestion
<1>11. CASE /\ ~closed /\ join.asked = 0 /\ join.awaiting # q /\ ~join.ended /\ d.refused = 0
            /\ d.j.asked = 0 /\ d.j.envelope = q /\ d.j.active = 0
            /\ d.j.awaiting = join.awaiting
  <2>1. Known = {join.awaiting} \ {0} /\ Known' = Known
    <3>1. Known' = {join'.asked, join'.active, join'.awaiting} \ {0}
      BY DEF Known
    <3> QED
      BY <1>2, <1>4, <1>11, <3>1 DEF Known
  <2>2. Asked(q)
    BY <1>1, <1>10, <1>11, <2>1 DEF JoinInv, AskedInv
  <2>3. KnownInv' /\ AskedInv'
    BY <1>1, <1>6, <2>1 DEF JoinInv, KnownInv, AskedInv
  <2>4. HalfInv'
    BY <1>4, <1>6, <1>11, <2>2 DEF HalfInv
  <2>5. EndedInv'
    BY <1>3, <1>4, <1>5, <1>11 DEF EndedInv
  <2>6. ChannelInv'
    BY <1>4, <1>10, <1>11 DEF ChannelInv
  <2> QED
    BY <1>7, <1>8, <2>3, <2>4, <2>5, <2>6 DEF JoinInv
<1>12. CASE /\ ~closed /\ join.asked = q /\ ~join.ended
            /\ d.j.asked = 0 /\ d.j.envelope = 0
            /\ \/ d.j.active = q /\ d.j.awaiting = 0 /\ d.refused = 0
               \/ d.j.active = 0 /\ d.j.awaiting = q /\ d.refused = q
  <2>1. Known = {q} /\ Known' = {q}
    <3>1. Known' = {join'.asked, join'.active, join'.awaiting} \ {0}
      BY DEF Known
    <3>2. Known = {q}
      BY <1>2, <1>3, <1>12 DEF Known
    <3> QED
      BY <1>2, <1>4, <1>12, <3>1, <3>2
  <2>2. ~Asked(q)
    <3>1. \A x \in Ranks : x > 2 * q + 1
      BY <1>1, <2>1 DEF JoinInv, KnownInv
    <3> QED
      BY <1>1, <3>1 DEF Asked
  <2>3. KnownInv' /\ AskedInv'
    BY <1>1, <1>6, <2>1 DEF JoinInv, KnownInv, AskedInv
  <2>4. HalfInv'
    BY <1>4, <1>6, <1>12 DEF HalfInv
  <2>5. EndedInv'
    BY <1>3, <1>4, <1>5, <1>12 DEF EndedInv
  <2>6. ChannelInv'
    <3>1. CASE d.j.active = q /\ d.j.awaiting = 0 /\ d.refused = 0
      <4>1. reply' = NoReply
        BY <1>4, <1>10, <1>12, <3>1
      <4> QED
        BY <1>10, <1>12, <4>1 DEF ChannelInv
    <3>2. CASE d.j.active = 0 /\ d.j.awaiting = q /\ d.refused = q
      <4>1. Dealt'
        BY <1>4, <1>6, <1>12, <2>2, <3>2 DEF Dealt
      <4> QED
        BY <1>10, <1>12, <4>1 DEF ChannelInv
    <3> QED
      BY <1>12, <3>1, <3>2
  <2> QED
    BY <1>7, <1>8, <2>3, <2>4, <2>5, <2>6 DEF JoinInv
<1> QED
  BY <1>4, <1>5, <1>9, <1>11, <1>12

LEMMA EnvelopeOrder ==
    ASSUME DialogueInv, OrderInv, TakeEnvelope
    PROVE  OrderInv'
<1>1. /\ ui.stop = "none" /\ ui.pc = "select" /\ InTurn /\ envelope # 0 /\ envelope' = 0
      /\ UNCHANGED <<agent, shown, world, rows, tty, sigs, heard>> /\ ui \in UiType
  BY TypesOf DEF TakeEnvelope, BranchOnly, Selecting, InTurn
<1>2. PICK c \in BOOLEAN :
          Take(Receive(join, envelope, agent.pc # "asking" \/ agent.q # envelope, c), ui)
  BY DEF TakeEnvelope
<1>3. /\ ui'.pc = "top" /\ ui'.out = ui.out /\ ui'.turn = ui.turn /\ ui'.committed = ui.committed
      /\ ui'.stop \in {"none", "failure"} /\ (cancelled' => cancelled \/ ui'.stop # "none")
  BY <1>1, <1>2, TakeView DEF Failed
<1>4. InTurn' /\ RowsInv'
  BY <1>1, <1>3, RowsStay DEF InTurn
<1>5. Smooth => ui'.stop = "none" /\ JoinInv' /\ ChannelInv' /\ FrameInv'
  BY <1>1, <1>2, EnvelopeTaken
<1> QED
  BY <1>1, <1>3, <1>4, <1>5, BranchCarried

-----------------------------------------------------------------------------
(* What the join makes of a row.                                           *)

LEMMA AskedOutcome ==
    ASSUME NEW c \in BOOLEAN, NEW q \in 1 .. Questions, join \in JoinType, join.open, ~join.ended,
           q \notin join.decided, join.asked = 0, join.active = 0, join.awaiting = 0,
           join.envelope \in {0, q}
    PROVE  LET d == ObserveAsked(join, q, c)
           IN  /\ d.ok /\ d.j.open = join.open /\ d.j.ended = join.ended
               /\ d.j.decided = join.decided /\ d.j.envelope = 0
               /\ \/ /\ join.envelope = 0 /\ d.refused = 0
                     /\ d.j.asked = q /\ d.j.active = 0 /\ d.j.awaiting = 0
                  \/ /\ join.envelope = q /\ d.j.asked = 0
                     /\ \/ d.j.active = q /\ d.j.awaiting = 0 /\ d.refused = 0
                        \/ d.j.active = 0 /\ d.j.awaiting = q /\ d.refused = q
<1> DEFINE d == ObserveAsked(join, q, c)
           n == [join EXCEPT !.asked = q]
<1>1. d = TryActivate(n, c)
  BY DEF ObserveAsked
<1>2. /\ n.open = join.open /\ n.ended = join.ended /\ n.decided = join.decided
      /\ n.asked = q /\ n.envelope = join.envelope /\ n.active = 0 /\ n.awaiting = 0
  BY DEF JoinType
<1>3. n \in JoinType /\ q # 0
  BY TerminalAssumption DEF JoinType
<1> HIDE DEF n, d
<1>4. CASE join.envelope = 0
  <2>1. d = Joined(n, TRUE)
    BY <1>1, <1>2, <1>4 DEF TryActivate
  <2>2. d.j = n /\ d.ok /\ d.refused = 0
    BY <1>3, <2>1, JoinedIs
  <2> QED
    BY <1>2, <1>4, <2>2 DEF d
<1>5. CASE join.envelope = q
  <2> DEFINE t == TryActivate(n, c)
  <2>1. n.asked = n.envelope /\ n.asked # 0
    BY <1>2, <1>3, <1>5
  <2>2. /\ t.ok /\ t.j.open = n.open /\ t.j.ended = n.ended /\ t.j.decided = n.decided
        /\ t.j.asked = 0 /\ t.j.envelope = 0
        /\ \/ t.j.active = n.asked /\ t.j.awaiting = n.awaiting /\ t.refused = 0
           \/ t.j.active = n.active /\ t.j.awaiting = n.asked /\ t.refused = n.asked
    BY <1>3, <2>1, Activated
  <2>3. d = t
    BY <1>1
  <2> HIDE DEF t
  <2> QED
    BY <1>2, <1>5, <2>2, <2>3 DEF d
<1> QED
  BY <1>4, <1>5

LEMMA DecidedOutcome ==
    ASSUME NEW q \in 1 .. Questions, join \in JoinType, join.open, ~join.ended,
           {join.active, join.asked, join.awaiting} \subseteq {0, q}
    PROVE  LET d == ObserveDecided(join, q)
           IN  /\ d.ok /\ d.j.open = join.open /\ d.j.ended = join.ended
               /\ d.j.decided = join.decided \cup {q} /\ d.refused = 0
               /\ d.j.asked = 0 /\ d.j.active = 0 /\ d.j.awaiting = 0
               /\ d.j.envelope \in {0, join.envelope}
               /\ join.envelope # q => d.j.envelope = join.envelope
<1> DEFINE d == ObserveDecided(join, q)
           envelopeOf == Without(join.envelope, q)
           D == join.decided \cup {q}
           n == [join EXCEPT !.decided = D, !.active = 0, !.asked = 0, !.envelope = envelopeOf,
                             !.awaiting = 0]
<1>1. Without(join.active, q) = 0 /\ Without(join.asked, q) = 0 /\ Without(join.awaiting, q) = 0
  BY DEF Without
<1>2. d = Joined([join EXCEPT !.decided = join.decided \cup {q},
                    !.active = Without(join.active, q), !.asked = Without(join.asked, q),
                    !.envelope = Without(join.envelope, q),
                    !.awaiting = Without(join.awaiting, q)], TRUE)
  BY DEF ObserveDecided
<1>3. d = Joined(n, TRUE)
  BY <1>1, <1>2
<1>4. envelopeOf \in {0, join.envelope} /\ (join.envelope # q => envelopeOf = join.envelope)
  BY DEF Without
<1> HIDE DEF envelopeOf, D
<1>5. /\ n.open = join.open /\ n.ended = join.ended /\ n.decided = D
      /\ n.asked = 0 /\ n.active = 0
  BY DEF JoinType
<1>6. n.awaiting = 0 /\ n.envelope = envelopeOf
  BY DEF JoinType
<1> HIDE DEF n, d
<1>7. d.j = n /\ d.ok /\ d.refused = 0
  BY <1>3 DEF Joined
<1> QED
  BY <1>4, <1>5, <1>6, <1>7 DEF D, d

\* process_event, for a row of the turn or of the gap before it.
LEMMA ProcessedAs ==
    ASSUME DialogueInv, NEW r \in RowType, NEW c \in BOOLEAN, Foreign \subseteq {"goal"},
           IF r.kind = "goal" THEN r.turn < ui.turn ELSE r.turn = ui.turn
    PROVE  /\ r.kind \in {"goal", "start"} =>
                Processed(r, ui, c) = [u |-> ui, done |-> Joined(join, TRUE)]
           /\ r.kind = "prompt" =>
                Processed(r, ui, c) = [u |-> [ui EXCEPT !.committed = TRUE], done |-> Joined(join, TRUE)]
           /\ r.kind = "asked" =>
                Processed(r, ui, c) = [u |-> ui, done |-> ObserveAsked(join, r.q, c)]
           /\ r.kind = "decided" =>
                Processed(r, ui, c) =
                    [u |-> [ui EXCEPT !.mode = "inactive"], done |-> ObserveDecided(join, r.q)]
           /\ r.kind = "end" =>
                Processed(r, ui, c) =
                    [u |-> [ui EXCEPT !.ended = TRUE],
                     done |-> Joined([join EXCEPT !.ended = TRUE], join.open /\ ~join.ended)]
<1>1. ui.turn \in Nat /\ r.turn \in Nat
  BY TypesOf DEF RowType
<1>2. r.turn = ui.turn => ~(r.turn < ui.turn)
  BY <1>1
<1>3. CASE r.kind = "goal"
  BY <1>3 DEF Processed
<1>4. CASE r.kind = "start"
  BY <1>2, <1>4 DEF Processed
<1>5. CASE r.kind = "prompt"
  BY <1>2, <1>5 DEF Processed
<1>6. CASE r.kind = "asked"
  BY <1>2, <1>6 DEF Processed
<1>7. CASE r.kind = "decided"
  BY <1>2, <1>7 DEF Processed
<1>8. CASE r.kind = "end"
  BY <1>2, <1>8 DEF Processed
<1> QED
  BY <1>3, <1>4, <1>5, <1>6, <1>7, <1>8

\* A row leaves the channel: the prompt that it holds has been seen.
LEMMA RowsFall ==
    ASSUME DialogueInv, OrderInv, InTurn, InTurn', rows # <<>>, rows' = Tail(rows), agent' = agent,
           ui'.turn = ui.turn, ui'.committed = (ui.committed \/ Head(rows).kind = "prompt")
    PROVE  RowsInv'
<1>1. /\ \A k \in DOMAIN rows' : k \in Nat /\ k + 1 \in DOMAIN rows /\ rows'[k] = rows[k + 1]
      /\ \A k \in DOMAIN rows : k # 1 => k \in Nat /\ k - 1 \in DOMAIN rows' /\ rows'[k - 1] = rows[k]
      /\ Head(rows) = rows[1] /\ 1 \in DOMAIN rows /\ ui.turn \in Nat
      /\ rows[1] \in RowType
  BY TypesOf, TailOf
<1>2. /\ \A k \in DOMAIN rows :
            IF rows[k].kind = "goal" THEN rows[k].turn < ui.turn ELSE rows[k].turn = ui.turn
      /\ agent.admitted = (ui.committed \/ HasPrompt)
      /\ agent.pc \in {"start", "admit"} => ~agent.admitted
  BY DEF OrderInv, RowsInv
<1>3. \A k \in DOMAIN rows' :
          IF rows'[k].kind = "goal" THEN rows'[k].turn < ui.turn ELSE rows'[k].turn = ui.turn
  BY <1>1, <1>2
<1>4. HasPrompt <=> \E k \in DOMAIN rows : ~(rows[k].turn < ui.turn) /\ rows[k].kind = "prompt"
  BY DEF HasPrompt, Old
<1>5. HasPrompt' <=> \E k \in DOMAIN rows' : ~(rows'[k].turn < ui.turn) /\ rows'[k].kind = "prompt"
  BY DEF HasPrompt, Old
<1>6. HasPrompt <=> HasPrompt' \/ Head(rows).kind = "prompt"
  <2>1. Head(rows).kind = "prompt" => HasPrompt
    <3>1. rows[1].kind = "prompt" => rows[1].turn = ui.turn /\ ~(ui.turn < ui.turn)
      BY <1>1, <1>2
    <3> QED
      BY <1>1, <1>4, <3>1
  <2>2. HasPrompt' => HasPrompt
    BY <1>1, <1>4, <1>5
  <2>3. HasPrompt /\ Head(rows).kind # "prompt" => HasPrompt'
    BY <1>1, <1>4, <1>5, ZenonT(60)
  <2> QED
    BY <2>1, <2>2, <2>3
<1>7. agent.admitted = (ui'.committed \/ HasPrompt')
  BY <1>2, <1>6
<1>8. ui'.pc # "idle"
  BY DEF InTurn
<1> QED
  BY <1>2, <1>3, <1>7, <1>8 DEF RowsInv

\* What TakeEvent does with its row, in terms of the join.
LEMMA EventView ==
    ASSUME DialogueInv, OrderInv, TakeEvent, Foreign \subseteq {"goal"}
    PROVE  LET r == Head(rows)
           IN  /\ r \in RowType /\ r.kind \in {"goal", "start", "prompt", "asked", "decided", "end"}
               /\ r.kind \in {"asked", "decided"} => r.q \in 1 .. Questions
               /\ \E done : \E w \in UiType, c \in BOOLEAN :
                    /\ Take(done, w) /\ w.turn = ui.turn /\ w.out = ui.out /\ w.stop = "none"
                    /\ w.committed = (ui.committed \/ r.kind = "prompt")
                    /\ w.ended = (ui.ended \/ r.kind = "end")
                    /\ w.mode = IF r.kind = "decided" THEN "inactive" ELSE ui.mode
                    /\ w.frame = "none" \/ w.after \in {"none", "end"}
                    /\ r.kind \in {"goal", "start", "prompt"} => done = Joined(join, TRUE)
                    /\ r.kind = "asked" => done = ObserveAsked(join, r.q, c)
                    /\ r.kind = "decided" => done = ObserveDecided(join, r.q)
                    /\ r.kind = "end" =>
                           done = Joined([join EXCEPT !.ended = TRUE], join.open /\ ~join.ended)
<1> DEFINE r == Head(rows)
           after == IF r.kind = "end" THEN "end" ELSE "none"
<1>1. /\ ui \in UiType /\ ui.stop = "none" /\ InTurn /\ ui.frame = "none" /\ rows # <<>>
      /\ Questions \in Nat
  BY TypesOf DEF TakeEvent, Selecting, InTurn
<1>2. /\ r \in RowType /\ r.kind \in {"goal", "start", "prompt", "asked", "decided", "end"}
      /\ r.kind \in {"asked", "decided"} => r.q > 0
  BY <1>1, RowsTaken
<1>3. r.q \in 0 .. Questions
  BY <1>2 DEF RowType
<1>4. r.kind \in {"asked", "decided"} => r.q \in 1 .. Questions
  BY <1>1, <1>2, <1>3
<1>5. IF r.kind = "goal" THEN r.turn < ui.turn ELSE r.turn = ui.turn
  <2>1. r = rows[1] /\ 1 \in DOMAIN rows
    BY <1>1, TypesOf, TailOf
  <2> QED
    BY <1>1, <2>1 DEF OrderInv, RowsInv
<1>6. PICK c \in BOOLEAN :
        Take(Processed(r, ui, c).done,
             IF Draws(r) THEN [Processed(r, ui, c).u EXCEPT !.frame = "writing", !.after = after]
             ELSE Processed(r, ui, c).u)
  BY DEF TakeEvent
<1> DEFINE v == Processed(r, ui, c).u
           done == Processed(r, ui, c).done
           w == IF Draws(r) THEN [v EXCEPT !.frame = "writing", !.after = after] ELSE v
<1>7. Take(done, w) /\ after \in {"none", "end"}
      /\ (w = v \/ w = [v EXCEPT !.frame = "writing", !.after = after])
  BY <1>6
<1> HIDE DEF r, after
<1>8. /\ r.kind \in {"goal", "start"} => v = ui /\ done = Joined(join, TRUE)
      /\ r.kind = "prompt" => v = [ui EXCEPT !.committed = TRUE] /\ done = Joined(join, TRUE)
      /\ r.kind = "asked" => v = ui /\ done = ObserveAsked(join, r.q, c)
      /\ r.kind = "decided" => v = [ui EXCEPT !.mode = "inactive"] /\ done = ObserveDecided(join, r.q)
      /\ r.kind = "end" =>
             v = [ui EXCEPT !.ended = TRUE]
             /\ done = Joined([join EXCEPT !.ended = TRUE], join.open /\ ~join.ended)
  <2> DEFINE p == Processed(r, ui, c)
             same == Joined(join, TRUE)
             last == Joined([join EXCEPT !.ended = TRUE], join.open /\ ~join.ended)
             asked == ObserveAsked(join, r.q, c)
             decided == ObserveDecided(join, r.q)
             seen == [ui EXCEPT !.committed = TRUE]
             quiet == [ui EXCEPT !.mode = "inactive"]
             ended == [ui EXCEPT !.ended = TRUE]
  <2>1. /\ r.kind \in {"goal", "start"} => p = [u |-> ui, done |-> same]
        /\ r.kind = "prompt" => p = [u |-> seen, done |-> same]
        /\ r.kind = "asked" => p = [u |-> ui, done |-> asked]
        /\ r.kind = "decided" => p = [u |-> quiet, done |-> decided]
        /\ r.kind = "end" => p = [u |-> ended, done |-> last]
    BY <1>2, <1>5, ProcessedAs
  <2>2. v = p.u /\ done = p.done
    OBVIOUS
  <2> HIDE DEF p, same, last, asked, decided, seen, quiet, ended, v, done
  <2>3. /\ r.kind \in {"goal", "start"} => v = ui /\ done = same
        /\ r.kind = "prompt" => v = seen /\ done = same
        /\ r.kind = "asked" => v = ui /\ done = asked
        /\ r.kind = "decided" => v = quiet /\ done = decided
        /\ r.kind = "end" => v = ended /\ done = last
    BY <2>1, <2>2
  <2> QED
    BY <2>3 DEF same, last, asked, decided, seen, quiet, ended
<1> HIDE DEF v, done, w
<1>9. /\ v \in UiType /\ v.turn = ui.turn /\ v.out = ui.out /\ v.stop = "none"
      /\ v.committed = (ui.committed \/ r.kind = "prompt")
      /\ v.ended = (ui.ended \/ r.kind = "end")
      /\ v.mode = IF r.kind = "decided" THEN "inactive" ELSE ui.mode
      /\ v.frame = "none"
  <2>1. CASE r.kind \in {"goal", "start", "asked"}
    BY <1>1, <1>8, <2>1 DEF UiType
  <2>2. CASE r.kind = "prompt"
    <3>1. v = [ui EXCEPT !.committed = TRUE]
      BY <1>8, <2>2
    <3>2. v \in UiType
      BY <1>1, <3>1 DEF UiType
    <3> QED
      BY <1>1, <2>2, <3>1, <3>2 DEF UiType
  <2>3. CASE r.kind = "decided"
    <3>1. v = [ui EXCEPT !.mode = "inactive"]
      BY <1>8, <2>3
    <3>2. v \in UiType
      BY <1>1, <3>1 DEF UiType
    <3> QED
      BY <1>1, <2>3, <3>1, <3>2 DEF UiType
  <2>4. CASE r.kind = "end"
    <3>1. v = [ui EXCEPT !.ended = TRUE]
      BY <1>8, <2>4
    <3>2. v \in UiType
      BY <1>1, <3>1 DEF UiType
    <3> QED
      BY <1>1, <2>4, <3>1, <3>2 DEF UiType
  <2> QED
    BY <1>2, <2>1, <2>2, <2>3, <2>4
<1>10. /\ w \in UiType /\ w.turn = v.turn /\ w.out = v.out /\ w.stop = v.stop
       /\ w.committed = v.committed /\ w.ended = v.ended /\ w.mode = v.mode
       /\ w.frame = v.frame \/ w.after \in {"none", "end"}
  <2>1. CASE w = v
    BY <1>9, <2>1
  <2>2. CASE w = [v EXCEPT !.frame = "writing", !.after = after]
    <3>1. w \in UiType
      BY <1>7, <1>9, <2>2 DEF UiType
    <3>2. /\ w.turn = v.turn /\ w.out = v.out /\ w.stop = v.stop
          /\ w.committed = v.committed
      BY <1>9, <2>2 DEF UiType
    <3>3. w.ended = v.ended /\ w.mode = v.mode /\ w.after = after
      BY <1>9, <2>2 DEF UiType
    <3> QED
      BY <1>7, <3>1, <3>2, <3>3
  <2> QED
    BY <1>7, <2>1, <2>2
<1>11. \E d : \E x \in UiType, b \in BOOLEAN :
         /\ Take(d, x) /\ x.turn = ui.turn /\ x.out = ui.out /\ x.stop = "none"
         /\ x.committed = (ui.committed \/ r.kind = "prompt")
         /\ x.ended = (ui.ended \/ r.kind = "end")
         /\ x.mode = IF r.kind = "decided" THEN "inactive" ELSE ui.mode
         /\ x.frame = "none" \/ x.after \in {"none", "end"}
         /\ r.kind \in {"goal", "start", "prompt"} => d = Joined(join, TRUE)
         /\ r.kind = "asked" => d = ObserveAsked(join, r.q, b)
         /\ r.kind = "decided" => d = ObserveDecided(join, r.q)
         /\ r.kind = "end" =>
                d = Joined([join EXCEPT !.ended = TRUE], join.open /\ ~join.ended)
  <2>1. /\ Take(done, w) /\ w.turn = ui.turn /\ w.out = ui.out /\ w.stop = "none"
        /\ w.committed = (ui.committed \/ r.kind = "prompt")
        /\ w.ended = (ui.ended \/ r.kind = "end")
        /\ w.mode = IF r.kind = "decided" THEN "inactive" ELSE ui.mode
        /\ w.frame = "none" \/ w.after \in {"none", "end"}
    BY <1>7, <1>9, <1>10
  <2>2. /\ r.kind \in {"goal", "start", "prompt"} => done = Joined(join, TRUE)
        /\ r.kind = "asked" => done = ObserveAsked(join, r.q, c)
        /\ r.kind = "decided" => done = ObserveDecided(join, r.q)
        /\ r.kind = "end" =>
               done = Joined([join EXCEPT !.ended = TRUE], join.open /\ ~join.ended)
    BY <1>8
  <2>3. w \in UiType
    BY <1>10
  <2> QED
    BY <2>1, <2>2, <2>3
<1> QED
  BY <1>2, <1>4, <1>11 DEF r

LEMMA RowTaken ==
    ASSUME DialogueInv, OrderInv, Smooth, rows # <<>>, rows' = Tail(rows), agent' = agent
    PROVE  /\ RowOrder' /\ Ranks' = Ranks \ {Rank(Head(rows))} /\ Rank(Head(rows)) \in Ranks
           /\ \A x \in Ranks' : x > Rank(Head(rows))
           /\ \A x \in Ranks : x >= Rank(Head(rows))
           /\ Ranks \subseteq Nat /\ Rank(Head(rows)) \in Nat /\ Rank(Head(rows)) <= Committed
           /\ Committed' = Committed /\ Committed \in Nat /\ (InQ' <=> InQ)
           /\ join.open /\ ~join.ended /\ join.ended = ui.ended
           /\ Known \subseteq 1 .. Questions /\ join.decided \subseteq 1 .. Questions
<1>1. /\ JoinInv /\ join \in JoinType /\ Ranks \subseteq Nat /\ Questions \in Nat
      /\ agent \in AgentType
  BY SmoothIs, TypesOf, RanksAreNumbers
<1>2. Ordered /\ \A x \in Ranks : x <= Committed
  BY <1>1 DEF JoinInv, RowOrder
<1>3. /\ Ranks' = Ranks \ {Rank(Head(rows))} /\ Ordered' /\ Rank(Head(rows)) \in Ranks
      /\ \A x \in Ranks' : x > Rank(Head(rows))
      /\ \A x \in Ranks : x >= Rank(Head(rows))
  BY <1>2, RankFalls
<1>4. Committed' = Committed /\ (InQ' <=> InQ)
  BY DEF Committed, LastRank, InQuestion, InQ
<1>5. RowOrder'
  BY <1>2, <1>3, <1>4 DEF RowOrder
<1>6. join.open /\ ~join.ended /\ join.ended = ui.ended
  BY <1>1, <1>3 DEF JoinInv, EndedInv
<1>7. Known \subseteq 1 .. Questions /\ join.decided \subseteq 1 .. Questions
  BY <1>1 DEF Known, JoinType
<1>8. Committed \in Nat
  BY <1>1, LastRankIs DEF Committed
<1> QED
  BY <1>1, <1>2, <1>3, <1>4, <1>5, <1>6, <1>7, <1>8

\* The rows that precede the questions: no question is known yet.
LEMMA FirstRows ==
    ASSUME DialogueInv, OrderInv, Smooth, rows # <<>>, rows' = Tail(rows),
           Head(rows).kind \in {"goal", "start", "prompt"},
           UNCHANGED <<agent, join, envelope, reply>>, ui'.ended = ui.ended
    PROVE  JoinInv' /\ ChannelInv' /\ join.active = 0
<1> DEFINE x == Rank(Head(rows))
<1>1. /\ JoinInv /\ ChannelInv /\ Questions \in Nat /\ agent.q \in 0 .. Questions
      /\ join \in JoinType /\ InQ => agent.q > 0
  BY SmoothIs, TypesOf DEF InQ
<1>2. /\ RowOrder' /\ Ranks' = Ranks \ {x} /\ x \in Ranks
      /\ Ranks \subseteq Nat /\ x \in Nat
      /\ Committed' = Committed /\ (InQ' <=> InQ)
      /\ join.open /\ ~join.ended /\ join.ended = ui.ended
      /\ Known \subseteq 1 .. Questions /\ join.decided \subseteq 1 .. Questions
  BY RowTaken
<1>3. x \in {0, 1, 2}
  <2>1. Head(rows) \in RowType
    BY TypesOf, TailOf
  <2> QED
    BY <2>1, RankIs
<1> HIDE DEF x
<1>4. Known = {}
  <2>1. ASSUME NEW h \in Known  PROVE FALSE
    <3>1. x > 2 * h + 1
      BY <1>1, <1>2, <2>1 DEF JoinInv, KnownInv
    <3>2. h \in Nat /\ h >= 1
      BY <1>1, <1>2, <2>1
    <3> QED
      BY <1>3, <3>1, <3>2
  <2> QED
    BY <2>1
<1>5. Known' = {}
  BY <1>4 DEF Known
<1>6. \A q \in 1 .. Questions : (Asked(q)' <=> Asked(q)) /\ (Decided(q)' <=> Decided(q))
  <2>1. ASSUME NEW q \in 1 .. Questions  PROVE 2 * q + 1 # x /\ 2 * q + 2 # x
    BY <1>1, <1>3
  <2> QED
    BY <1>2, <2>1 DEF Asked, Decided
<1>7. Asked(agent.q)' <=> Asked(agent.q)
  <2>1. CASE agent.q = 0
    BY <2>1 DEF Asked
  <2>2. CASE agent.q # 0
    <3>1. agent.q \in 1 .. Questions
      BY <1>1, <2>2
    <3> QED
      BY <1>6, <3>1
  <2> QED
    BY <2>1, <2>2
<1>8. KnownInv'
  BY <1>5 DEF KnownInv
<1>9. AskedInv'
  <2>1. \A q \in 1 .. Questions : Asked(q)' => q = agent'.q /\ (InQ' \/ Decided(q)')
    BY <1>1, <1>2, <1>6 DEF JoinInv, AskedInv
  <2>2. (InQ => Asked(agent.q))'
    BY <1>1, <1>2, <1>4, <1>7 DEF JoinInv, AskedInv
  <2> QED
    BY <2>1, <2>2 DEF AskedInv
<1>10. DecidedInv'
  BY <1>1, <1>2 DEF JoinInv, DecidedInv
<1>11. HalfInv'
  BY <1>1, <1>7 DEF JoinInv, HalfInv
<1>12. EndedInv'
  BY <1>2 DEF EndedInv
<1>13. ChannelInv'
  BY <1>1, <1>7 DEF ChannelInv, Dealt
<1>14. join.active = 0
  BY <1>4 DEF Known
<1> QED
  BY <1>2, <1>8, <1>9, <1>10, <1>11, <1>12, <1>13, <1>14 DEF JoinInv

\* A row that asks: the question is the agent's, and no other is known.
LEMMA AskedRow ==
    ASSUME DialogueInv, OrderInv, Smooth, rows # <<>>, rows' = Tail(rows), NEW c \in BOOLEAN,
           Head(rows).kind = "asked", Head(rows).q \in 1 .. Questions,
           join' = ObserveAsked(join, Head(rows).q, c).j,
           \/ reply' = reply
           \/ ObserveAsked(join, Head(rows).q, c).refused # 0 /\ agent.pc = "asking",
           UNCHANGED <<agent, envelope>>, ui'.ended = ui.ended
    PROVE  JoinInv' /\ ChannelInv' /\ join.active = 0 /\ ObserveAsked(join, Head(rows).q, c).ok
<1> PICK q \in 1 .. Questions : q = Head(rows).q
  OBVIOUS
<1> DEFINE d == ObserveAsked(join, q, c)
<1>1. /\ JoinInv /\ ChannelInv /\ Questions \in Nat /\ agent.q \in 0 .. Questions
      /\ join \in JoinType
  BY SmoothIs
<1>20. Rank(Head(rows)) \in Nat
  BY RowTaken
<1> PICK x \in Nat : x = Rank(Head(rows))
  BY <1>20
<1>2. /\ RowOrder' /\ Ranks' = Ranks \ {x} /\ x \in Ranks
      /\ \A y \in Ranks' : y > x
      /\ \A y \in Ranks : y >= x
      /\ Ranks \subseteq Nat /\ x \in Nat
      /\ Committed' = Committed /\ (InQ' <=> InQ)
      /\ join.open /\ ~join.ended /\ join.ended = ui.ended
      /\ Known \subseteq 1 .. Questions /\ join.decided \subseteq 1 .. Questions
  BY RowTaken
<1>3. x = 2 * q + 1 /\ q \in Nat /\ q # 0
  <2>1. Head(rows) \in RowType
    BY TypesOf, TailOf
  <2> QED
    BY <1>1, <2>1, RankIs
<1>4. /\ join' = d.j /\ (reply' = reply \/ (d.refused # 0 /\ agent.pc = "asking"))
      /\ q \in 1 .. Questions
  OBVIOUS
<1>5. Asked(q) /\ q = agent.q /\ (InQ \/ Decided(q))
  <2>1. Asked(q)
    BY <1>2, <1>3 DEF Asked
  <2> QED
    BY <1>1, <1>4, <2>1 DEF JoinInv, AskedInv
<1>6. Known = {}
  <2>1. ASSUME NEW h \in Known  PROVE FALSE
    <3>1. x > 2 * h + 1 /\ h \in Nat
      BY <1>1, <1>2, <2>1 DEF JoinInv, KnownInv
    <3>2. h < q
      BY <1>3, <3>1
    <3>3. Decided(h)
      BY <1>1, <1>3, <1>5, <2>1, <3>1, <3>2 DEF JoinInv, KnownInv
    <3>4. 2 * h + 2 >= x
      BY <1>2, <3>3 DEF Decided
    <3> QED
      BY <1>3, <3>1, <3>2, <3>4
  <2> QED
    BY <2>1
<1>7. join.asked = 0 /\ join.active = 0 /\ join.awaiting = 0 /\ join.envelope \in {0, q}
  <2>1. join.asked = 0 /\ join.active = 0 /\ join.awaiting = 0
    BY <1>6 DEF Known
  <2> QED
    BY <1>1, <1>5, <2>1 DEF JoinInv, HalfInv
<1>8. q \notin join.decided
  <2>1. ASSUME q \in join.decided  PROVE FALSE
    <3>1. x > 2 * q + 2
      BY <1>1, <1>2, <2>1 DEF JoinInv, DecidedInv
    <3> QED
      BY <1>3, <3>1
  <2> QED
    BY <2>1
<1>9. /\ d.ok /\ d.j.open = join.open /\ d.j.ended = join.ended
      /\ d.j.decided = join.decided /\ d.j.envelope = 0
      /\ \/ /\ join.envelope = 0 /\ d.refused = 0
            /\ d.j.asked = q /\ d.j.active = 0 /\ d.j.awaiting = 0
         \/ /\ join.envelope = q /\ d.j.asked = 0
            /\ \/ d.j.active = q /\ d.j.awaiting = 0 /\ d.refused = 0
               \/ d.j.active = 0 /\ d.j.awaiting = q /\ d.refused = q
  <2> DEFINE p == Head(rows).q
             e == ObserveAsked(join, p, c)
  <2>1. /\ join \in JoinType /\ join.open /\ ~join.ended /\ p \notin join.decided
        /\ join.asked = 0 /\ join.active = 0 /\ join.awaiting = 0 /\ join.envelope \in {0, p}
        /\ p \in 1 .. Questions
    BY <1>1, <1>2, <1>7, <1>8
  <2>2. /\ e.ok /\ e.j.open = join.open /\ e.j.ended = join.ended
        /\ e.j.decided = join.decided /\ e.j.envelope = 0
        /\ \/ /\ join.envelope = 0 /\ e.refused = 0
              /\ e.j.asked = p /\ e.j.active = 0 /\ e.j.awaiting = 0
           \/ /\ join.envelope = p /\ e.j.asked = 0
              /\ \/ e.j.active = p /\ e.j.awaiting = 0 /\ e.refused = 0
                 \/ e.j.active = 0 /\ e.j.awaiting = p /\ e.refused = p
    BY <2>1, AskedOutcome
  <2>3. e = d /\ p = q
    OBVIOUS
  <2> HIDE DEF d, e, p
  <2> QED
    BY <2>2, <2>3
<1> HIDE DEF d
<1>10. Known' = {q}
  <2>1. Known' = {join'.asked, join'.active, join'.awaiting} \ {0}
    BY DEF Known
  <2> QED
    BY <1>3, <1>4, <1>9, <2>1
<1>11. KnownInv'
  <2>1. Decided(q) => Decided(q)'
    <3>1. 2 * q + 2 # x
      BY <1>3
    <3> QED
      BY <1>2, <3>1 DEF Decided
  <2>2. Decided(q)' \/ (q = agent'.q /\ InQ')
    BY <1>2, <1>5, <2>1
  <2>3. \A y \in Ranks' : y > 2 * q + 1
    BY <1>2, <1>3
  <2> QED
    BY <1>10, <2>2, <2>3 DEF KnownInv
<1>12. ~Asked(q)'
  <2>1. 2 * q + 1 \notin Ranks'
    BY <1>2, <1>3
  <2> QED
    BY <2>1 DEF Asked
<1>13. AskedInv'
  <2>1. ASSUME NEW p \in 1 .. Questions, Asked(p)'  PROVE FALSE
    <3>1. Asked(p)
      BY <1>2, <2>1 DEF Asked
    <3>2. p = q
      BY <1>1, <1>5, <3>1 DEF JoinInv, AskedInv
    <3>3. Asked(q)'
      BY <2>1, <3>2 DEF Asked
    <3> QED
      BY <1>12, <3>3
  <2>2. agent'.q \in Known'
    BY <1>5, <1>10
  <2> QED
    BY <2>1, <2>2 DEF AskedInv
<1>14. DecidedInv'
  BY <1>1, <1>2, <1>4, <1>9 DEF JoinInv, DecidedInv
<1>15. HalfInv'
  BY <1>3, <1>4, <1>5, <1>9 DEF HalfInv
<1>16. EndedInv'
  BY <1>2, <1>4, <1>9 DEF EndedInv
<1>17. ChannelInv'
  <2>1. ~Dealt
    BY <1>5 DEF Dealt
  <2>2. CASE join.envelope = 0
    <3>1. /\ join'.active = 0 /\ join'.envelope = 0 /\ reply' = reply
      BY <1>3, <1>4, <1>9, <2>2
    <3> QED
      BY <1>1, <2>1, <3>1 DEF ChannelInv
  <2>3. CASE join.envelope = q
    <3>1. envelope = 0 /\ agent.pc # "asked"
      BY <1>1, <1>3, <2>3 DEF ChannelInv
    <3>2. agent.pc = "asking" => reply = NoReply
      BY <1>1, <2>1 DEF ChannelInv
    <3>3. CASE d.refused = 0
      <4>1. reply' = reply
        BY <1>4, <3>3
      <4> QED
        BY <1>1, <2>1, <3>1, <3>2, <4>1 DEF ChannelInv
    <3>4. CASE d.refused # 0
      <4>1. join'.active = 0 /\ join'.asked = 0 /\ join'.envelope = 0
        BY <1>3, <1>4, <1>9, <2>3, <3>4
      <4>2. Asked(agent.q)' <=> Asked(q)'
        BY <1>5 DEF Asked
      <4>3. Dealt'
        BY <1>12, <4>1, <4>2 DEF Dealt
      <4> QED
        BY <3>1, <4>1, <4>3 DEF ChannelInv
    <3> QED
      BY <3>3, <3>4
  <2> QED
    BY <1>7, <2>2, <2>3
<1> QED
  BY <1>2, <1>7, <1>9, <1>11, <1>13, <1>14, <1>15, <1>16, <1>17 DEF JoinInv, d

\* A row that decides: whatever is known of its question is settled.
LEMMA DecidedRow ==
    ASSUME DialogueInv, OrderInv, Smooth, rows # <<>>, rows' = Tail(rows),
           Head(rows).kind = "decided", Head(rows).q \in 1 .. Questions,
           join' = ObserveDecided(join, Head(rows).q).j,
           reply' = reply \/ ObserveDecided(join, Head(rows).q).refused # 0,
           UNCHANGED <<agent, envelope>>, ui'.ended = ui.ended
    PROVE  JoinInv' /\ ChannelInv' /\ ObserveDecided(join, Head(rows).q).ok
<1> PICK q \in 1 .. Questions : q = Head(rows).q
  OBVIOUS
<1> DEFINE d == ObserveDecided(join, q)
<1>1. /\ JoinInv /\ ChannelInv /\ Questions \in Nat /\ agent.q \in 0 .. Questions
      /\ join \in JoinType
  BY SmoothIs
<1>20. Rank(Head(rows)) \in Nat
  BY RowTaken
<1> PICK x \in Nat : x = Rank(Head(rows))
  BY <1>20
<1>2. /\ RowOrder' /\ Ranks' = Ranks \ {x} /\ x \in Ranks
      /\ \A y \in Ranks' : y > x
      /\ \A y \in Ranks : y >= x
      /\ Ranks \subseteq Nat /\ x \in Nat /\ x <= Committed
      /\ Committed' = Committed /\ Committed \in Nat /\ (InQ' <=> InQ)
      /\ join.open /\ ~join.ended /\ join.ended = ui.ended
      /\ Known \subseteq 1 .. Questions /\ join.decided \subseteq 1 .. Questions
  BY RowTaken
<1>3. x = 2 * q + 2 /\ q \in Nat /\ q # 0
  <2>1. Head(rows) \in RowType
    BY TypesOf, TailOf
  <2> QED
    BY <1>1, <2>1, RankIs
<1>4. /\ join' = d.j /\ (reply' = reply \/ d.refused # 0)
  OBVIOUS
<1>5. InQ => Committed = 2 * agent.q + 1
  <2>1. agent \in AgentType
    BY TypesOf
  <2> QED
    BY <2>1, LastRankIs DEF Committed, InQ
<1>6. \A h \in Known : h = q
  <2>1. ASSUME NEW h \in Known  PROVE h = q
    <3>1. x > 2 * h + 1 /\ h \in Nat
      BY <1>1, <1>2, <2>1 DEF JoinInv, KnownInv
    <3>2. CASE Decided(h)
      <4>1. 2 * h + 2 >= x
        BY <1>2, <3>2 DEF Decided
      <4> QED
        BY <1>3, <3>1, <4>1
    <3>3. CASE h = agent.q /\ InQ
      BY <1>2, <1>3, <1>5, <3>1, <3>3
    <3> QED
      BY <1>1, <2>1, <3>2, <3>3 DEF JoinInv, KnownInv
  <2> QED
    BY <2>1
<1>7. {join.active, join.asked, join.awaiting} \subseteq {0, q}
  BY <1>6 DEF Known
<1>8. join.envelope # 0 => join.envelope # q
  <2>1. ASSUME join.envelope = q  PROVE FALSE
    <3>1. 2 * q + 1 \in Ranks
      BY <1>1, <1>3, <2>1 DEF JoinInv, HalfInv, Asked
    <3>2. 2 * q + 1 >= x
      BY <1>2, <3>1
    <3> QED
      BY <1>3, <3>2
  <2> QED
    BY <2>1
<1>9. /\ d.ok /\ d.j.open = join.open /\ d.j.ended = join.ended
      /\ d.j.decided = join.decided \cup {q} /\ d.refused = 0
      /\ d.j.asked = 0 /\ d.j.active = 0 /\ d.j.awaiting = 0
      /\ d.j.envelope = join.envelope
  <2> DEFINE p == Head(rows).q
             e == ObserveDecided(join, p)
  <2>1. /\ join \in JoinType /\ join.open /\ ~join.ended /\ p \in 1 .. Questions
        /\ {join.active, join.asked, join.awaiting} \subseteq {0, p}
    BY <1>1, <1>2, <1>7
  <2>2. /\ e.ok /\ e.j.open = join.open /\ e.j.ended = join.ended
        /\ e.j.decided = join.decided \cup {p} /\ e.refused = 0
        /\ e.j.asked = 0 /\ e.j.active = 0 /\ e.j.awaiting = 0
        /\ e.j.envelope \in {0, join.envelope}
        /\ join.envelope # p => e.j.envelope = join.envelope
    BY <2>1, DecidedOutcome
  <2>3. e = d /\ p = q
    OBVIOUS
  <2> HIDE DEF d, e, p
  <2> QED
    BY <1>3, <1>8, <2>2, <2>3
<1> HIDE DEF d
<1>10. Known' = {}
  <2>1. Known' = {join'.asked, join'.active, join'.awaiting} \ {0}
    BY DEF Known
  <2> QED
    BY <1>4, <1>9, <2>1
<1>11. \A p \in 1 .. Questions : Asked(p)' <=> Asked(p)
  <2>1. ASSUME NEW p \in 1 .. Questions  PROVE 2 * p + 1 # x
    BY <1>3
  <2> QED
    BY <1>2, <2>1 DEF Asked
<1>12. Asked(agent.q)' <=> Asked(agent.q)
  <2>1. CASE agent.q = 0
    BY <2>1 DEF Asked
  <2>2. CASE agent.q # 0
    <3>1. agent.q \in 1 .. Questions
      BY <1>1, <2>2
    <3> QED
      BY <1>11, <3>1
  <2> QED
    BY <2>1, <2>2
<1>13. AskedInv'
  <2>1. ASSUME NEW p \in 1 .. Questions, Asked(p)'
        PROVE  p = agent'.q /\ (InQ' \/ Decided(p)')
    <3>1. Asked(p)
      BY <1>11, <2>1
    <3>2. p = agent.q /\ (InQ \/ Decided(p))
      BY <1>1, <3>1 DEF JoinInv, AskedInv
    <3>3. 2 * p + 2 # x
      <4>1. 2 * p + 1 >= x /\ p \in Nat
        BY <1>2, <3>1 DEF Asked
      <4> QED
        BY <1>3, <4>1
    <3>4. Decided(p) => Decided(p)'
      BY <1>2, <3>3 DEF Decided
    <3> QED
      BY <1>2, <3>2, <3>4
  <2>2. (InQ => Asked(agent.q))'
    <3>1. ASSUME InQ  PROVE agent.q \notin Known
      <4>1. ASSUME agent.q \in Known  PROVE FALSE
        <5>1. Committed = 2 * q + 1
          BY <1>5, <1>6, <3>1, <4>1
        <5> QED
          BY <1>2, <1>3, <5>1
      <4> QED
        BY <4>1
    <3> QED
      BY <1>1, <1>2, <1>12, <3>1 DEF JoinInv, AskedInv
  <2> QED
    BY <2>1, <2>2 DEF AskedInv
<1>14. KnownInv'
  BY <1>10 DEF KnownInv
<1>15. DecidedInv'
  <2>1. ASSUME NEW e \in join.decided
        PROVE  2 * e + 2 <= Committed' /\ \A y \in Ranks' : y > 2 * e + 2
    BY <1>1, <1>2, <2>1 DEF JoinInv, DecidedInv
  <2>2. 2 * q + 2 <= Committed' /\ \A y \in Ranks' : y > 2 * q + 2
    BY <1>2, <1>3
  <2>3. join'.decided = join.decided \cup {q}
    BY <1>4, <1>9
  <2> QED
    BY <2>1, <2>2, <2>3 DEF DecidedInv
<1>16. HalfInv'
  BY <1>1, <1>4, <1>9, <1>12 DEF JoinInv, HalfInv
<1>17. EndedInv'
  BY <1>2, <1>4, <1>9 DEF EndedInv
<1>18. ChannelInv'
  <2>1. /\ join'.active = 0 /\ join'.asked = 0 /\ join'.envelope = join.envelope
        /\ reply' = reply
    BY <1>4, <1>9
  <2>2. Dealt => Dealt'
    BY <1>12, <2>1 DEF Dealt
  <2> QED
    BY <1>1, <2>1, <2>2 DEF ChannelInv
<1> QED
  BY <1>2, <1>9, <1>13, <1>14, <1>15, <1>16, <1>17, <1>18 DEF JoinInv, d

\* The row that ends the turn is the last one.
LEMMA EndRow ==
    ASSUME DialogueInv, OrderInv, Smooth, rows # <<>>, rows' = Tail(rows),
           Head(rows).kind = "end", join' = [join EXCEPT !.ended = TRUE],
           UNCHANGED <<agent, envelope, reply>>, ui'.ended
    PROVE  JoinInv' /\ ChannelInv' /\ join.active = 0 /\ join.open /\ ~join.ended
<1>1. /\ JoinInv /\ ChannelInv /\ Questions \in Nat /\ agent.q \in 0 .. Questions
      /\ join \in JoinType /\ agent \in AgentType /\ agent.pc \notin {"err", "off"}
  BY SmoothIs
<1>2. Rank(Head(rows)) = 2 * Questions + 3
  <2>1. Head(rows) \in RowType
    BY TypesOf, TailOf
  <2> QED
    BY <2>1, RankIs
<1> PICK x \in Nat : x = 2 * Questions + 3
  BY <1>1
<1>3. /\ RowOrder' /\ Ranks' = Ranks \ {x} /\ x \in Ranks
      /\ \A y \in Ranks : y >= x
      /\ Ranks \subseteq Nat /\ x <= Committed
      /\ Committed' = Committed /\ Committed \in Nat /\ (InQ' <=> InQ)
      /\ join.open /\ ~join.ended
      /\ Known \subseteq 1 .. Questions /\ join.decided \subseteq 1 .. Questions
  BY <1>2, RowTaken
<1>4. agent.pc \in {"ended", "ok"}
  <2>1. 2 * agent.q + 2 < x /\ 2 * agent.q + 1 < x /\ 0 < x /\ 1 < x
        /\ 2 * agent.q + 1 \in Nat /\ 2 * agent.q + 2 \in Nat
    BY <1>1
  <2>2. ~(x <= 0) /\ ~(x <= 1) /\ ~(x <= 2 * agent.q + 1) /\ ~(x <= 2 * agent.q + 2)
    BY <2>1
  <2>3. agent.pc \notin {"start", "admit", "work"} \cup InQuestion
    BY <1>1, <1>3, <2>2, LastRankIs DEF Committed
  <2> QED
    BY <1>1, <2>3 DEF AgentType, InQuestion
<1>5. Ranks' = {}
  <2>1. ASSUME NEW y \in Ranks  PROVE y = x
    <3>1. y <= Committed /\ y >= x /\ y \in Nat
      BY <1>1, <1>3, <2>1 DEF JoinInv, RowOrder
    <3>2. LastRank(agent) <= x
      BY <1>1, <1>4, LastRankIs
    <3>3. Committed <= x
      BY <3>2 DEF Committed
    <3> QED
      BY <1>3, <3>1, <3>3
  <2> QED
    BY <1>3, <2>1
<1>6. \A q \in 0 .. Questions : ~Asked(q) /\ ~Decided(q)
  <2>1. ASSUME NEW q \in 0 .. Questions  PROVE 2 * q + 1 < x /\ 2 * q + 2 < x /\ q \in Nat
    BY <1>1
  <2>2. ASSUME NEW q \in 0 .. Questions  PROVE 2 * q + 1 \notin Ranks /\ 2 * q + 2 \notin Ranks
    <3>1. ~(2 * q + 1 >= x) /\ ~(2 * q + 2 >= x)
      BY <1>1, <2>1
    <3> QED
      BY <1>3, <3>1
  <2> QED
    BY <2>2 DEF Asked, Decided
<1>7. ~InQ /\ Known = {} /\ join.envelope = 0
  <2>1. ~InQ
    BY <1>4 DEF InQ, InQuestion
  <2>2. Known = {}
    BY <1>1, <1>3, <1>6, <2>1 DEF JoinInv, KnownInv
  <2>3. join.envelope = 0
    BY <1>1, <1>6 DEF JoinInv, HalfInv
  <2> QED
    BY <2>1, <2>2, <2>3
<1>8. /\ join.active = 0 /\ join.asked = 0 /\ join.awaiting = 0
  BY <1>7 DEF Known
<1>9. /\ join'.active = 0 /\ join'.asked = 0 /\ join'.awaiting = 0 /\ join'.envelope = 0
      /\ join'.ended /\ join'.open = join.open /\ join'.decided = join.decided
  BY <1>1, <1>7, <1>8 DEF JoinType
<1>10. Known' = {} /\ Halves(join)' = {}
  <2>1. Known' = {join'.asked, join'.active, join'.awaiting} \ {0}
    BY DEF Known
  <2>2. Halves(join)' = {join'.asked, join'.envelope, join'.active, join'.awaiting} \ {0}
    BY DEF Halves
  <2> QED
    BY <1>9, <2>1, <2>2
<1>11. KnownInv' /\ AskedInv' /\ DecidedInv'
  <2>1. KnownInv' /\ DecidedInv'
    BY <1>1, <1>3, <1>5, <1>9, <1>10 DEF JoinInv, KnownInv, DecidedInv
  <2>2. AskedInv'
    BY <1>3, <1>5, <1>7 DEF AskedInv, Asked
  <2> QED
    BY <2>1, <2>2
<1>12. HalfInv'
  BY <1>9 DEF HalfInv
<1>13. EndedInv'
  <2>1. join'.ended = TRUE /\ ui'.ended = TRUE
    <3>1. join'.ended = TRUE
      BY <1>1 DEF JoinType
    <3> QED
      BY <3>1
  <2> QED
    BY <1>3, <1>4, <1>5, <1>9, <1>10, <2>1 DEF EndedInv
<1>14. ChannelInv'
  BY <1>1, <1>4, <1>7, <1>8, <1>9 DEF ChannelInv
<1> QED
  BY <1>3, <1>8, <1>11, <1>12, <1>13, <1>14 DEF JoinInv

\* A row that the loop takes in a turn that nobody has stopped.
LEMMA EventTaken ==
    ASSUME DialogueInv, OrderInv, Smooth, TakeEvent, Foreign \subseteq {"goal"}
    PROVE  ui'.stop = "none" /\ JoinInv' /\ ChannelInv' /\ FrameInv'
<1> DEFINE kind == Head(rows).kind
<1>1. /\ ui.frame = "none" /\ rows # <<>> /\ rows' = Tail(rows)
      /\ UNCHANGED <<envelope, agent, world>>
  BY DEF TakeEvent, BranchOnly
<1>2. FrameInv /\ join \in JoinType /\ join.open /\ ~join.ended /\ join.ended = ui.ended
  BY <1>1, SmoothIs, RowTaken
<1>3. /\ kind \in {"goal", "start", "prompt", "asked", "decided", "end"}
      /\ kind \in {"asked", "decided"} => Head(rows).q \in 1 .. Questions
      /\ \E done : \E w \in UiType, c \in BOOLEAN :
           /\ Take(done, w) /\ w.stop = "none"
           /\ w.ended = (ui.ended \/ kind = "end")
           /\ w.mode = IF kind = "decided" THEN "inactive" ELSE ui.mode
           /\ w.frame = "none" \/ w.after \in {"none", "end"}
           /\ kind \in {"goal", "start", "prompt"} => done = Joined(join, TRUE)
           /\ kind = "asked" => done = ObserveAsked(join, Head(rows).q, c)
           /\ kind = "decided" => done = ObserveDecided(join, Head(rows).q)
           /\ kind = "end" => done = Joined([join EXCEPT !.ended = TRUE], join.open /\ ~join.ended)
  BY EventView
<1> PICK done :
      \E w \in UiType, c \in BOOLEAN :
           /\ Take(done, w) /\ w.stop = "none"
           /\ w.ended = (ui.ended \/ kind = "end")
           /\ w.mode = IF kind = "decided" THEN "inactive" ELSE ui.mode
           /\ w.frame = "none" \/ w.after \in {"none", "end"}
           /\ kind \in {"goal", "start", "prompt"} => done = Joined(join, TRUE)
           /\ kind = "asked" => done = ObserveAsked(join, Head(rows).q, c)
           /\ kind = "decided" => done = ObserveDecided(join, Head(rows).q)
           /\ kind = "end" => done = Joined([join EXCEPT !.ended = TRUE], join.open /\ ~join.ended)
  BY <1>3
<1> PICK w \in UiType, c \in BOOLEAN :
           /\ Take(done, w) /\ w.stop = "none"
           /\ w.ended = (ui.ended \/ kind = "end")
           /\ w.mode = IF kind = "decided" THEN "inactive" ELSE ui.mode
           /\ w.frame = "none" \/ w.after \in {"none", "end"}
           /\ kind \in {"goal", "start", "prompt"} => done = Joined(join, TRUE)
           /\ kind = "asked" => done = ObserveAsked(join, Head(rows).q, c)
           /\ kind = "decided" => done = ObserveDecided(join, Head(rows).q)
           /\ kind = "end" => done = Joined([join EXCEPT !.ended = TRUE], join.open /\ ~join.ended)
  OBVIOUS
<1>4. /\ join' = done.j /\ ui'.ended = w.ended /\ ui'.mode = w.mode /\ ui'.after = w.after
      /\ done.ok => ui'.stop = "none" /\ ui'.frame = w.frame
      /\ reply' = reply \/ (done.refused # 0 /\ agent.pc = "asking" /\ agent.q = done.refused)
  BY TakeView
<1>5. ASSUME done.ok, JoinInv', ChannelInv', join.active = 0 \/ kind = "decided"
      PROVE  ui'.stop = "none" /\ JoinInv' /\ ChannelInv' /\ FrameInv'
  <2>1. ui'.mode = "inactive"
    <3>1. CASE join.active = 0
      <4>1. ui.mode = "inactive"
        BY <3>1 DEF DialogueInv, PutInv, Smooth
      <4> QED
        BY <1>4, <4>1
    <3> QED
      BY <1>4, <1>5, <3>1
  <2>2. ui'.frame = "none" \/ ui'.after \in {"none", "end"}
    BY <1>4, <1>5
  <2>3. FrameInv'
    BY <2>1, <2>2 DEF FrameInv
  <2> QED
    BY <1>4, <1>5, <2>3
<1>6. CASE kind \in {"goal", "start", "prompt"}
  <2>1. done.j = join /\ done.ok /\ done.refused = 0
    BY <1>2, <1>6, JoinedIs
  <2>2. join' = join /\ reply' = reply /\ ui'.ended = ui.ended
    <3>1. w.ended = (ui.ended \/ kind = "end") /\ kind # "end" /\ ui.ended \in BOOLEAN
      BY <1>6, TypesOf DEF UiType
    <3> QED
      BY <1>4, <2>1, <3>1
  <2>3. JoinInv' /\ ChannelInv' /\ join.active = 0
    BY <1>1, <1>6, <2>2, FirstRows
  <2> QED
    BY <1>5, <2>1, <2>3
<1>7. CASE kind \in {"asked", "decided"}
  <2>1. ui'.ended = ui.ended /\ Head(rows).q \in 1 .. Questions
    <3>1. w.ended = (ui.ended \/ kind = "end") /\ kind # "end" /\ ui.ended \in BOOLEAN
      BY <1>7, TypesOf DEF UiType
    <3> QED
      BY <1>3, <1>4, <1>7, <3>1
  <2>2. CASE kind = "asked"
    <3>1. done = ObserveAsked(join, Head(rows).q, c)
      BY <2>2
    <3>2. JoinInv' /\ ChannelInv' /\ join.active = 0 /\ ObserveAsked(join, Head(rows).q, c).ok
      BY <1>1, <1>4, <2>1, <2>2, <3>1, AskedRow
    <3> QED
      BY <1>5, <3>1, <3>2
  <2>3. CASE kind = "decided"
    <3>1. done = ObserveDecided(join, Head(rows).q)
      BY <2>3
    <3>2. JoinInv' /\ ChannelInv' /\ ObserveDecided(join, Head(rows).q).ok
      BY <1>1, <1>4, <2>1, <2>3, <3>1, DecidedRow
    <3> QED
      BY <1>5, <2>3, <3>1, <3>2
  <2> QED
    BY <1>7, <2>2, <2>3
<1>8. CASE kind = "end"
  <2> DEFINE j == [join EXCEPT !.ended = TRUE]
             ok == join.open /\ ~join.ended
  <2>1. j \in JoinType /\ ok \in BOOLEAN /\ ok
    BY <1>2 DEF JoinType
  <2>2. done = Joined(j, ok)
    BY <1>8
  <2> HIDE DEF j, ok
  <2>3. done.j = j /\ done.ok /\ done.refused = 0
    BY <2>1, <2>2, JoinedIs
  <2>4. join' = [join EXCEPT !.ended = TRUE] /\ reply' = reply /\ ui'.ended
    BY <1>4, <1>8, <2>3 DEF j
  <2>5. JoinInv' /\ ChannelInv' /\ join.active = 0
    BY <1>1, <1>8, <2>4, EndRow
  <2> QED
    BY <1>5, <2>3, <2>5
<1> QED
  BY <1>3, <1>6, <1>7, <1>8

LEMMA EventOrder ==
    ASSUME DialogueInv, OrderInv, TakeEvent, Foreign \subseteq {"goal"}
    PROVE  OrderInv'
<1>1. /\ ui.stop = "none" /\ ui.pc = "select" /\ InTurn /\ rows # <<>> /\ rows' = Tail(rows)
      /\ UNCHANGED <<agent, shown, world, envelope, tty, sigs, heard>>
  BY DEF TakeEvent, BranchOnly, Selecting, InTurn
<1>2. \E done : \E w \in UiType, c \in BOOLEAN :
           /\ Take(done, w) /\ w.turn = ui.turn /\ w.out = ui.out /\ w.stop = "none"
           /\ w.committed = (ui.committed \/ Head(rows).kind = "prompt")
  BY EventView
<1> PICK done : \E w \in UiType, c \in BOOLEAN :
           /\ Take(done, w) /\ w.turn = ui.turn /\ w.out = ui.out /\ w.stop = "none"
           /\ w.committed = (ui.committed \/ Head(rows).kind = "prompt")
  BY <1>2
<1> PICK w \in UiType :
           /\ Take(done, w) /\ w.turn = ui.turn /\ w.out = ui.out /\ w.stop = "none"
           /\ w.committed = (ui.committed \/ Head(rows).kind = "prompt")
  OBVIOUS
<1>3. /\ ui'.pc = "top" /\ ui'.out = ui.out /\ ui'.turn = ui.turn
      /\ ui'.committed = (ui.committed \/ Head(rows).kind = "prompt")
      /\ ui'.stop \in {"none", "failure"} /\ (cancelled' => cancelled \/ ui'.stop # "none")
  BY TakeView DEF Failed
<1>4. InTurn' /\ RowsInv'
  BY <1>1, <1>3, RowsFall DEF InTurn
<1>5. Smooth => ui'.stop = "none" /\ JoinInv' /\ ChannelInv' /\ FrameInv'
  BY EventTaken
<1> QED
  BY <1>1, <1>3, <1>4, <1>5, BranchCarried

\* The future is done.
LEMMA ReadyOrder ==
    ASSUME DialogueInv, OrderInv, TurnReady
    PROVE  OrderInv'
<1> DEFINE stop == Observe(ui.stop, sigs)
           u == [ui EXCEPT !.stop = stop]
           v == Latched(u)
           last == IF agent.pc = "err" THEN Failed(v.stop) ELSE v.stop
           drain == last = "none"
           pc == IF last = "none" THEN "top" ELSE "finish"
<1>1. /\ ui.pc = "select" /\ Ready /\ agent.pc \in {"ok", "err"}
      /\ ui' = [v EXCEPT !.stop = last, !.mode = "inactive", !.drain = drain, !.pc = pc]
      /\ world' = IF last = "none" /\ ui.mode = "rendering"
                  THEN [world EXCEPT !.torn = TRUE] ELSE world
      /\ heard' = heard \cup sigs
      /\ UNCHANGED <<agent, rows, envelope, reply, join, cancelled>>
  BY DEF TurnReady, Ready
<1>2. InTurn
  BY <1>1 DEF InTurn
<1>3. /\ ui.stop \in {"none", "interrupt", "suspend", "eof", "exit", "failure"}
      /\ Hears(ui.stop, heard) /\ ui \in UiType /\ world \in WorldType
      /\ world.fault => world.trouble
      /\ ui.stop = "failure" => world.trouble \/ world.torn
      /\ sigs \in SUBSET {"interrupt", "suspend", "exit"}
      /\ agent.pc = "err" => world.trouble
  BY <1>1, <1>2, StopIs, TypesOf DEF OrderInv, TroubleInv
<1>4. /\ Hears(stop, heard')
      /\ stop \in {"none", "interrupt", "suspend", "eof", "exit", "failure"}
      /\ stop = "none" => ui.stop = "none"
      /\ stop = "failure" => ui.stop = "failure"
      /\ ui.stop \in {"exit", "failure"} => stop \in {"exit", "failure"}
  <2>1. Hears(stop, heard')
    BY <1>1, <1>3, Hearing
  <2> QED
    BY <1>3, <2>1 DEF Observe
<1> HIDE DEF stop
<1>5. /\ u \in UiType /\ u.turn = ui.turn /\ u.ended = ui.ended /\ u.committed = ui.committed
      /\ u.out = ui.out /\ u.stop = stop /\ u.frame = ui.frame /\ u.after = ui.after
  BY <1>3, <1>4 DEF UiType
<1> HIDE DEF u
<1>6. /\ v \in UiType /\ v.turn = ui.turn /\ v.ended = ui.ended /\ v.committed = ui.committed
      /\ v.out = ui.out
      /\ \/ ~world.fault /\ v = u
         \/ world.fault /\ v.stop = Failed(stop) /\ v.stop \in {"exit", "failure"}
  BY <1>5, LatchedOrder
<1> HIDE DEF v
<1>7. /\ v.stop \in {"none", "interrupt", "suspend", "eof", "exit", "failure"}
      /\ Hears(v.stop, heard') /\ (v.stop = "none" => ui.stop = "none" /\ ~world.fault /\ v = u)
      /\ v.stop = "failure" => ui.stop = "failure" \/ world.trouble
      /\ ui.stop \in {"exit", "failure"} => v.stop \in {"exit", "failure"}
  <2>1. Hears(Failed(stop), heard')
    BY <1>4, Hearing
  <2> QED
    BY <1>3, <1>4, <1>5, <1>6, <2>1
<1>8. /\ last \in {"none", "interrupt", "suspend", "eof", "exit", "failure"}
      /\ Hears(last, heard') /\ (last = "none" => v.stop = "none" /\ agent.pc # "err")
      /\ last = "failure" => ui.stop = "failure" \/ world.trouble
      /\ ui.stop \in {"exit", "failure"} => last \in {"exit", "failure"}
      /\ agent.pc = "err" => last \in {"exit", "failure"}
  <2>1. Hears(Failed(v.stop), heard')
    BY <1>7, Hearing
  <2>2. Failed(v.stop) \in {"exit", "failure"}
    BY DEF Failed
  <2> QED
    BY <1>3, <1>7, <2>1, <2>2
<1>9. /\ drain \in BOOLEAN /\ pc \in {"top", "finish"} /\ (pc = "finish" => last # "none")
      /\ pc = "top" => last = "none"
  OBVIOUS
<1> HIDE DEF last, drain, pc
<1>10. /\ ui'.turn = ui.turn /\ ui'.ended = ui.ended /\ ui'.committed = ui.committed
       /\ ui'.out = ui.out /\ ui'.stop = last /\ ui'.pc = pc /\ ui'.mode = "inactive"
       /\ ui'.frame = v.frame /\ ui'.after = v.after
  BY <1>1, <1>6 DEF UiType
<1>11. InTurn'
  BY <1>9, <1>10 DEF InTurn
<1>12. /\ world'.fault = world.fault /\ world'.trouble = world.trouble
       /\ world.torn => world'.torn
       /\ last = "none" /\ ui.mode = "rendering" => world'.torn
  BY <1>1, <1>3 DEF WorldType
<1>13. ASSUME Smooth, Smooth'  PROVE FrameInv'
  <2>1. last = "none" /\ v = u
    BY <1>7, <1>8, <1>10, <1>13 DEF Smooth
  <2>2. ui'.frame = ui.frame /\ ui'.after = ui.after
    BY <1>5, <1>10, <2>1
  <2> QED
    BY <1>10, <1>12, <1>13, <2>1, <2>2, SmoothIs DEF FrameInv
<1>14. cancelled' => cancelled
  BY <1>1
<1>15. ui.stop \in {"exit", "failure", "broken"} => ui'.stop \in {"exit", "failure", "broken"}
  BY <1>3, <1>8, <1>10
<1>16. /\ ui'.stop = "failure" => ui.stop = "failure" \/ world'.trouble \/ world'.torn
       /\ ui'.stop # "broken" /\ ui'.pc # "await" /\ (ui'.stop = "none" => ui.stop = "none")
       /\ ui'.pc = "finish" => ui'.stop # "none" /\ (agent.pc = "err" => ui'.stop \in {"exit", "failure"})
  BY <1>7, <1>8, <1>9, <1>10, <1>12
<1> QED
  BY <1>1, <1>2, <1>8, <1>10, <1>11, <1>12, <1>13, <1>14, <1>15, <1>16, OrderCarried

-----------------------------------------------------------------------------
(* How a turn is left.                                                     *)

LEMMA FinishedIs ==
    ASSUME DialogueInv, NEW u \in UiType, NEW out \in {"continue", "eof", "signal", "failure"},
           Finished(u, out)
    PROVE  /\ ui'.pc = IF out = "continue" THEN "idle" ELSE "exited"
           /\ ui'.out = out /\ ui'.committed = u.committed /\ ui'.stop = "none"
           /\ join' = NewJoin /\ envelope' = 0 /\ ~cancelled' /\ agent'.pc = "off"
<1> DEFINE pc == IF out = "continue" THEN "idle" ELSE "exited"
           new == NewUi(u.turn)
<1>1. /\ ui' = [new EXCEPT !.pc = pc, !.committed = u.committed, !.out = out]
      /\ agent' = [Off EXCEPT !.q = agent.q]
      /\ join' = NewJoin /\ envelope' = 0 /\ cancelled' = FALSE
  BY DEF Finished
<1>2. new.stop = "none" /\ DOMAIN new = DOMAIN ui
  BY TypesOf DEF NewUi, UiType
<1>3. ui'.pc = pc /\ ui'.out = out /\ ui'.committed = u.committed /\ ui'.stop = "none"
  BY <1>1 DEF NewUi
<1>4. agent'.pc = "off"
  BY <1>1 DEF Off
<1> QED
  BY <1>1, <1>3, <1>4

\* A turn that is left: what is left with it.
LEMMA LeftOrder ==
    ASSUME DialogueInv, OrderInv, NEW u \in UiType,
           NEW out \in {"continue", "eof", "signal", "failure"}, Finished(u, out),
           out = "continue" => rows' = <<>> /\ ~world'.trouble,
           out = "failure" => world'.trouble \/ world'.torn,
           world'.fault => world'.trouble
    PROVE  OrderInv'
<1>1. /\ ui'.pc = IF out = "continue" THEN "idle" ELSE "exited"
      /\ ui'.out = out /\ ui'.stop = "none"
      /\ join' = NewJoin /\ envelope' = 0 /\ ~cancelled' /\ agent'.pc = "off"
  BY FinishedIs
<1>2. ~InTurn' /\ ~Smooth' /\ (ui'.pc = "idle" => out = "continue") /\ ui'.pc \in {"idle", "exited"}
  BY <1>1 DEF InTurn, Smooth
<1>3. RowsInv'
  BY <1>1, <1>2, NoRows DEF RowsInv
<1>4. StopInv' /\ TroubleInv'
  BY <1>1, <1>2 DEF StopInv, TroubleInv
<1>5. HeardInv' /\ TurnInv' /\ OnlyTroubleFails'
  BY <1>1, <1>2 DEF HeardInv, TurnInv, OnlyTroubleFails
<1> QED
  BY <1>3, <1>4, <1>5 DEF OrderInv

\* No row of an earlier gap stays in the way.
LEMMA NoStray ==
    ASSUME DialogueInv, RowsInv, InTurn
    PROVE  Stray = {}
<1>1. \A k \in DOMAIN rows : rows[k].kind # "goal" => rows[k].turn = ui.turn
  BY DEF RowsInv
<1>2. \A k \in DOMAIN rows : rows[k].kind # "goal" => ~Old(rows[k])
  BY <1>1, TypesOf DEF Old
<1> QED
  BY <1>2 DEF Stray

\* A turn whose rows were all shown has left nothing in its join.
LEMMA NothingLeft ==
    ASSUME DialogueInv, OrderInv, ui.pc = "finish", ui.stop = "none", ~world.fault
    PROVE  /\ ~world.trouble /\ rows = <<>> /\ join.ended /\ Halves(join) = {}
           /\ agent.admitted = ui.committed
<1>1. InTurn /\ Ready /\ ui.drain /\ ui.ended /\ agent.pc = "ok"
  BY DEF OrderInv, StopInv, InTurn, Ready
<1>2. ~world.trouble
  BY <1>1 DEF OrderInv, TroubleInv
<1>3. JoinInv
  BY <1>1, <1>2 DEF OrderInv, TurnInv, Smooth
<1>4. join.ended /\ Ranks = {} /\ Halves(join) = {}
  BY <1>1, <1>3 DEF JoinInv, EndedInv
<1>5. rows = <<>>
  BY <1>4, RanksAreNumbers
<1>6. ~HasPrompt
  BY <1>5, NoRows DEF HasPrompt
<1>7. agent.admitted = (ui.committed \/ HasPrompt)
  BY <1>1 DEF OrderInv, RowsInv
<1> QED
  BY <1>2, <1>4, <1>5, <1>6, <1>7, TypesOf DEF UiType

\* What Finish tells the caller.
LEMMA FinishView ==
    ASSUME DialogueInv, OrderInv, Finish
    PROVE  /\ InTurn /\ Ready /\ rows' = <<>> /\ world'.fault = world.fault
           /\ world.trouble => world'.trouble
           /\ \E w \in UiType, out \in {"continue", "eof", "signal", "failure"} :
                /\ Finished(w, out) /\ w.committed = agent.admitted
                /\ out = "continue" => ~world'.trouble
                /\ out = "failure" => world'.trouble \/ world'.torn
                /\ out = "signal" <=> "exit" \in heard'
                /\ out = "eof" => "eof" \in heard'
                /\ "eof" \in heard' => out # "continue"
<1> DEFINE stop == Observe(ui.stop, sigs)
           u0 == [ui EXCEPT !.stop = stop]
           u == Latched(u0)
           committed == u.committed \/ HasPrompt
           w == [u EXCEPT !.committed = committed]
<1>1. /\ ui.pc = "finish" /\ heard' = heard \cup sigs /\ InTurn
      /\ \/ /\ u.stop = "none" /\ rows' = rows /\ world' = world
            /\ Finished(u, IF join.ended /\ Halves(join) = {} THEN "continue" ELSE "failure")
         \/ /\ u.stop # "none" /\ rows' = <<>>
            /\ \/ /\ world' = world
                  /\ Finished(w, IF Stray = {} THEN Disposition(u.stop) ELSE "failure")
               \/ /\ u.stop = "interrupt" /\ Troubled /\ Finished(w, "failure")
  BY DEF Finish, InTurn
<1>2. /\ ui.stop \in {"none", "interrupt", "suspend", "eof", "exit", "failure"}
      /\ Hears(ui.stop, heard) /\ ui \in UiType /\ world \in WorldType
      /\ world.fault => world.trouble
      /\ ui.stop = "failure" => world.trouble \/ world.torn
      /\ sigs \in SUBSET {"interrupt", "suspend", "exit"}
      /\ agent.pc = "err" => ui.stop \in {"exit", "failure"}
      /\ world.trouble => world.fault \/ agent.pc = "err" \/ ui.stop \in {"exit", "failure", "broken"}
      /\ Ready /\ Stray = {}
      /\ agent.admitted = (ui.committed \/ HasPrompt)
  <2>1. /\ ui.stop \in {"none", "interrupt", "suspend", "eof", "exit", "failure"}
        /\ Hears(ui.stop, heard) /\ ui \in UiType /\ world \in WorldType
        /\ world.fault => world.trouble
        /\ ui.stop = "failure" => world.trouble \/ world.torn
    BY <1>1, StopIs
  <2>2. Stray = {}
    BY <1>1, NoStray DEF OrderInv
  <2>3. agent.admitted = (ui.committed \/ HasPrompt)
    BY <1>1 DEF OrderInv, RowsInv
  <2> QED
    BY <1>1, <2>1, <2>2, <2>3, TypesOf DEF OrderInv, StopInv, TroubleInv
<1>3. /\ Hears(stop, heard')
      /\ stop \in {"none", "interrupt", "suspend", "eof", "exit", "failure"}
      /\ stop = "none" => ui.stop = "none"
      /\ stop = "failure" => ui.stop = "failure"
      /\ ui.stop \in {"exit", "failure"} => stop \in {"exit", "failure"}
  <2>1. Hears(stop, heard')
    BY <1>1, <1>2, Hearing
  <2> QED
    BY <1>2, <2>1 DEF Observe
<1> HIDE DEF stop
<1>4. u0 \in UiType /\ u0.committed = ui.committed /\ u0.stop = stop
  BY <1>2, <1>3 DEF UiType
<1> HIDE DEF u0
<1>5. /\ u \in UiType /\ u.committed = ui.committed
      /\ \/ ~world.fault /\ u = u0
         \/ world.fault /\ u.stop = Failed(stop) /\ u.stop \in {"exit", "failure"}
  BY <1>4, LatchedOrder
<1> HIDE DEF u
<1>6. /\ u.stop \in {"none", "interrupt", "suspend", "eof", "exit", "failure"}
      /\ Hears(u.stop, heard') /\ (u.stop = "none" => ui.stop = "none" /\ ~world.fault)
      /\ u.stop = "failure" => world.trouble \/ world.torn
      /\ world.trouble => u.stop \in {"exit", "failure"}
  <2>1. Hears(Failed(stop), heard')
    BY <1>3, Hearing
  <2> QED
    BY <1>2, <1>3, <1>4, <1>5, <2>1
<1>7. w \in UiType /\ w.committed = committed /\ committed = agent.admitted
  <2>1. committed = agent.admitted
    BY <1>2, <1>5
  <2>2. committed \in BOOLEAN
    OBVIOUS
  <2> HIDE DEF committed
  <2> QED
    BY <1>5, <2>1, <2>2 DEF UiType
<1> HIDE DEF w, committed
<1>8. CASE /\ u.stop = "none" /\ rows' = rows /\ world' = world
           /\ Finished(u, IF join.ended /\ Halves(join) = {} THEN "continue" ELSE "failure")
  <2>1. /\ ~world.trouble /\ rows = <<>> /\ join.ended /\ Halves(join) = {}
        /\ agent.admitted = ui.committed
    BY <1>1, <1>6, <1>8, NothingLeft
  <2>2. Finished(u, "continue") /\ u.committed = agent.admitted
    BY <1>5, <1>8, <2>1
  <2>3. "exit" \notin heard' /\ "eof" \notin heard'
    BY <1>6, <1>8 DEF Hears
  <2> QED
    BY <1>1, <1>2, <1>5, <1>8, <2>1, <2>2, <2>3
<1>9. CASE /\ u.stop # "none" /\ rows' = <<>> /\ world' = world
           /\ Finished(w, IF Stray = {} THEN Disposition(u.stop) ELSE "failure")
  <2> DEFINE out == Disposition(u.stop)
  <2>1. Finished(w, out)
    BY <1>2, <1>9
  <2>2. /\ out \in {"continue", "eof", "signal", "failure"}
        /\ out = "continue" => u.stop \in {"interrupt", "suspend"}
        /\ out = "failure" => u.stop = "failure"
        /\ out = "signal" <=> u.stop = "exit"
        /\ out = "eof" <=> u.stop = "eof"
    BY <1>6, <1>9 DEF Disposition
  <2> HIDE DEF out
  <2>3. /\ "exit" \in heard' <=> u.stop = "exit"
        /\ u.stop = "eof" => "eof" \in heard'
        /\ "eof" \in heard' => u.stop \in {"eof", "exit", "failure"}
    BY <1>6 DEF Hears
  <2> QED
    BY <1>1, <1>2, <1>6, <1>7, <1>9, <2>1, <2>2, <2>3
<1>10. CASE u.stop = "interrupt" /\ rows' = <<>> /\ Troubled /\ Finished(w, "failure")
  <2>1. world'.trouble /\ world'.fault = world.fault
    BY <1>2, <1>10 DEF Troubled, WorldType
  <2>2. "exit" \notin heard'
    BY <1>6, <1>10 DEF Hears
  <2> QED
    BY <1>1, <1>2, <1>7, <1>10, <2>1, <2>2
<1> QED
  BY <1>1, <1>8, <1>9, <1>10

LEMMA LeavingOrder ==
    ASSUME DialogueInv, OrderInv, Finish \/ BrokenEnds
    PROVE  OrderInv'
<1>1. CASE Finish
  <2>1. /\ rows' = <<>> /\ (world'.fault => world'.trouble)
        /\ \E w \in UiType, out \in {"continue", "eof", "signal", "failure"} :
             /\ Finished(w, out)
             /\ out = "continue" => ~world'.trouble
             /\ out = "failure" => world'.trouble \/ world'.torn
    BY <1>1, FinishView DEF OrderInv, TroubleInv
  <2> QED
    BY <2>1, LeftOrder
<1>2. CASE BrokenEnds
  <2>1. ui.pc = "await" /\ Finished(ui, "failure") /\ UNCHANGED <<rows, world>>
    BY <1>2 DEF BrokenEnds
  <2>2. world.trouble
    BY <2>1 DEF OrderInv, StopInv, TroubleInv
  <2> QED
    BY <2>1, <2>2, TypesOf, LeftOrder
<1> QED
  BY <1>1, <1>2

-----------------------------------------------------------------------------
LEMMA OrderStarts == Init => OrderInv
<1> SUFFICES ASSUME Init PROVE OrderInv
  OBVIOUS
<1> DEFINE new == NewUi(0)
<1>1. new.stop = "none" /\ new.out = "none" /\ new.pc = "top"
  BY DEF NewUi
<1>2. ui.pc = "idle" /\ ui.stop = "none" /\ ui.out = "none"
  <2>1. ui = [new EXCEPT !.pc = "idle"]
    BY DEF Init
  <2> QED
    BY <2>1 DEF NewUi
<1>3. /\ agent.pc = "off" /\ rows = <<>> /\ join = NewJoin /\ envelope = 0 /\ ~cancelled
      /\ ~world.trouble /\ ~world.fault
  BY DEF Init, Off
<1>4. ~InTurn /\ ~Smooth
  BY <1>2 DEF InTurn, Smooth
<1>5. RowsInv
  BY <1>2, <1>3, <1>4, NoRows DEF RowsInv
<1>6. StopInv /\ TroubleInv
  BY <1>2, <1>3, <1>4 DEF StopInv, TroubleInv
<1>7. HeardInv /\ TurnInv /\ OnlyTroubleFails
  BY <1>2, <1>4 DEF HeardInv, TurnInv, OnlyTroubleFails
<1> QED
  BY <1>5, <1>6, <1>7 DEF OrderInv

LEMMA NothingHappens ==
    ASSUME DialogueInv, OrderInv, UNCHANGED vars
    PROVE  OrderInv'
<1>1. UNCHANGED <<agent, rows, envelope, reply, join, ui, cancelled, world, heard>>
  BY DEF vars
<1>2. RowsInv'
  BY <1>1 DEF OrderInv, RowsInv, HasPrompt, Old, InTurn
<1>3. StopInv' /\ TroubleInv' /\ HeardInv' /\ OnlyTroubleFails'
  <2>1. StopInv' /\ TroubleInv'
    BY <1>1 DEF OrderInv, StopInv, TroubleInv, InTurn, Ready
  <2>2. HeardInv' /\ OnlyTroubleFails'
    BY <1>1 DEF OrderInv, HeardInv, InTurn, OnlyTroubleFails
  <2> QED
    BY <2>1, <2>2
<1>4. TurnInv'
  <2>1. Smooth' => Smooth
    BY <1>1 DEF Smooth, InTurn
  <2>2. Smooth => JoinInv' /\ ChannelInv'
    BY <1>1, SmoothIs, JoinStays
  <2>3. Smooth => FrameInv'
    BY <1>1, SmoothIs DEF FrameInv
  <2> QED
    BY <2>1, <2>2, <2>3 DEF TurnInv
<1> QED
  BY <1>2, <1>3, <1>4 DEF OrderInv

LEMMA OrderStays ==
    ASSUME DialogueInv, OrderInv, [Next]_vars, Foreign \subseteq {"goal"}
    PROVE  OrderInv'
<1>1. CASE UNCHANGED vars
  BY <1>1, NothingHappens
<1>2. CASE Loop
  BY <1>2, TopOrder, QuietOrder, FailingOrder, ArmedOrder, EnvelopeOrder, EventOrder, ReadOrder,
     EscapeOrder, ReadyOrder, LeavingOrder DEF Loop
<1>3. CASE Next /\ ~Loop
  BY <1>3, AgentKeepsOrder, WorldOrder, FailingOrder, QuietOrder, StartOrder, IdleOrder DEF Next
<1> QED
  BY <1>1, <1>2, <1>3

LEMMA OrderHolds == ASSUME Foreign \subseteq {"goal"} PROVE Spec => [](DialogueInv /\ OrderInv)
<1>1. Init => DialogueInv /\ OrderInv
  BY DialogueStarts, OrderStarts
<1>2. DialogueInv /\ OrderInv /\ [Next]_vars => (DialogueInv /\ OrderInv)'
  BY DialogueStays, OrderStays
<1> QED
  BY <1>1, <1>2, PTL DEF Spec

\* The terminal never gives up by itself (approval_join.rs, process_event of interactive.rs):
\* in whatever order rows, envelopes, answers, deadlines, signals and keys come, a turn fails
\* only after trouble, or under a selector that was being written when it ended.  The
\* rows between turns are goals: with a title it is false, as terminal_titles finds, and with
\* a switch of the plan too, once a turn that follows is stopped.
THEOREM TerminalNeverGivesUp == ASSUME Foreign \subseteq {"goal"} PROVE Spec => []OnlyTroubleFails
<1>1. DialogueInv /\ OrderInv => OnlyTroubleFails
  BY DEF OrderInv
<1> QED
  BY <1>1, OrderHolds, PTL

-----------------------------------------------------------------------------
(* What the caller of a turn learns.                                       *)

\* Only two steps leave a turn.
LEMMA StaysInTurn ==
    ASSUME DialogueInv, OrderInv, [Next]_vars, InTurn, ~Finish, ~BrokenEnds, Foreign \subseteq {"goal"}
    PROVE  InTurn'
<1>1. ui.pc \in {"top", "select", "await", "finish"} /\ ui \in UiType
  BY TypesOf DEF InTurn, UiType
<1>2. CASE ui' = ui
  BY <1>2 DEF InTurn
<1>3. CASE Top
  <2> DEFINE u == Latched(ui)
             c == Completed(u)
             pc == IF u.drain THEN "finish" ELSE "select"
             mode == IF u.drain THEN u.mode ELSE "inactive"
             frame == IF u.drain THEN "none" ELSE u.frame
  <2>1. /\ ui.pc = "top"
        /\ \/ ui' = [u EXCEPT !.pc = pc, !.mode = mode, !.frame = frame]
           \/ ui' = c \/ ui' = Prepared(c)
    BY <1>3 DEF Top
  <2>2. u \in UiType /\ u.pc = "top"
    BY <1>1, <2>1, LatchedIs, FailIs
  <2>3. pc \in {"finish", "select"}
    OBVIOUS
  <2>4. CompletedAs(u, c)
    BY <2>2, CompletedIs
  <2> HIDE DEF u, c, pc, mode, frame
  <2>5. c \in UiType /\ c.pc = "top"
    BY <2>2, <2>4, CompletedView
  <2>6. Prepared(c).pc \in {"select", "finish"}
    BY <2>5, PreparedIs
  <2>7. ui' = [u EXCEPT !.pc = pc, !.mode = mode, !.frame = frame] => ui'.pc = pc
    BY <2>2 DEF UiType
  <2> QED
    BY <2>1, <2>3, <2>5, <2>6, <2>7 DEF InTurn
<1>4. CASE ui'.pc \in {"top", "await"}
  BY <1>4 DEF InTurn
<1>5. CASE Signalled \/ FrameWritten \/ FrameExpires \/ ReadEnd \/ EventsEnd \/ FinalDeadline
           \/ TerminalFails \/ Breaks
  <2>1. ui'.pc \in {"top", "await"}
    BY <1>1, <1>5 DEF Signalled, FrameWritten, FrameExpires, ReadEnd, EventsEnd, FinalDeadline,
       TerminalFails, Breaks, Fail, UiType
  <2> QED
    BY <1>4, <2>1
<1>6. CASE Armed \/ EscapeExpires \/ TakeEnvelope
  <2>1. ui'.pc = "top"
    BY <1>1, <1>6 DEF Armed, EscapeExpires, TakeEnvelope, Take, Answer, Fail, UiType
  <2> QED
    BY <1>4, <2>1
<1>7. CASE TakeEvent
  <2>1. ui'.pc = "top"
    <3>1. \E done : \E w \in UiType : Take(done, w)
      BY <1>7, EventView
    <3> QED
      BY <3>1, TakeView
  <2> QED
    BY <1>4, <2>1
<1>8. CASE Read
  <2>1. ui'.pc = "top"
    BY <1>1, <1>8 DEF Read, Latched, Feed, PutQuestion, Answer, Fail, UiType
  <2> QED
    BY <1>4, <2>1
<1>9. CASE TurnReady
  <2>1. ui'.pc \in {"top", "finish"}
    BY <1>1, <1>9 DEF TurnReady, Latched, Fail, UiType
  <2> QED
    BY <2>1 DEF InTurn
<1>10. CASE IdleCommits \/ StartTurn \/ Quit
  BY <1>10 DEF IdleCommits, StartTurn, Quit, InTurn
<1>11. CASE AgentStep \/ AgentFails \/ ObserverFails \/ TurnDeadline
            \/ (\E key \in Keys : Press(key)) \/ \E s \in {"interrupt", "suspend", "exit"} : SignalComes(s)
  <2>1. ui' = ui
    BY <1>11 DEF AgentStep, AgentStarts, AgentAdmits, AgentAsks, AgentSends, AgentHears,
       AgentDecides, AgentEnds, AgentReturns, AgentOnly, AgentFails, ObserverFails, OnlyWorld,
       TurnDeadline, Press, SignalComes
  <2> QED
    BY <1>2, <2>1
<1>12. UNCHANGED vars => ui' = ui
  BY DEF vars
<1> QED
  BY <1>2, <1>3, <1>5, <1>6, <1>7, <1>8, <1>9, <1>10, <1>11, <1>12 DEF Next, Loop

LEMMA ReturnStep ==
    ASSUME DialogueInv, OrderInv, [Next]_vars, InTurn, ~InTurn', Foreign \subseteq {"goal"}
    PROVE  /\ Ready
           /\ ui'.out # "failure" => ui'.committed = agent.admitted
           /\ "exit" \in heard' /\ ui.stop # "broken" => ui'.out = "signal"
           /\ ~world'.trouble /\ ~world'.torn /\ "exit" \notin heard' =>
                ui'.out = IF "eof" \in heard' THEN "eof" ELSE "continue"
<1>1. Finish \/ BrokenEnds
  BY StaysInTurn
<1>2. CASE Finish
  <2>1. Ready
    BY <1>2, FinishView
  <2>2. \E w \in UiType, out \in {"continue", "eof", "signal", "failure"} :
           /\ Finished(w, out) /\ w.committed = agent.admitted
           /\ out = "failure" => world'.trouble \/ world'.torn
           /\ out = "signal" <=> "exit" \in heard'
           /\ out = "eof" => "eof" \in heard'
           /\ "eof" \in heard' => out # "continue"
    BY <1>2, FinishView
  <2> PICK w \in UiType, out \in {"continue", "eof", "signal", "failure"} :
           /\ Finished(w, out) /\ w.committed = agent.admitted
           /\ out = "failure" => world'.trouble \/ world'.torn
           /\ out = "signal" <=> "exit" \in heard'
           /\ out = "eof" => "eof" \in heard'
           /\ "eof" \in heard' => out # "continue"
    BY <2>2
  <2>3. ui'.out = out /\ ui'.committed = w.committed
    BY FinishedIs
  <2> QED
    BY <2>1, <2>3
<1>3. CASE BrokenEnds
  <2>1. ui.pc = "await" /\ Ready /\ Finished(ui, "failure") /\ UNCHANGED world
    BY <1>3 DEF BrokenEnds
  <2>2. ui.stop = "broken" /\ world.trouble
    BY <2>1 DEF OrderInv, StopInv, TroubleInv
  <2>3. ui'.out = "failure"
    BY <2>1, TypesOf, FinishedIs
  <2> QED
    BY <2>1, <2>2, <2>3
<1> QED
  BY <1>1, <1>2, <1>3

\* A turn is left only when its future has ended, and its caller learns the truth (the end of
\* run_turn, finish_turn, discard_ready_updates_after_stop): whether the prompt was committed,
\* even where the rows that say so were passed over; a signal to exit wins; without trouble the
\* end of the input ends the program and nothing else does.  The rows between turns are goals.
THEOREM ReturnsAreTrue == ASSUME Foreign \subseteq {"goal"} PROVE Spec => ReturnIsTrue
<1>1. DialogueInv /\ OrderInv /\ [Next]_vars =>
          [InTurn /\ ~InTurn' =>
             /\ Ready
             /\ ui'.out # "failure" => ui'.committed = agent.admitted
             /\ "exit" \in heard' /\ ui.stop # "broken" => ui'.out = "signal"
             /\ ~world'.trouble /\ ~world'.torn /\ "exit" \notin heard' =>
                  ui'.out = IF "eof" \in heard' THEN "eof" ELSE "continue"]_vars
  BY ReturnStep
<1> QED
  BY <1>1, OrderHolds, PTL DEF Spec, ReturnIsTrue

=============================================================================
