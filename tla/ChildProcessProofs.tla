------------------------- MODULE ChildProcessProofs -------------------------
(***************************************************************************)
(* Proofs about the children of the program: the commands that the shell   *)
(* runs, the process of a tool plugin and the language servers, for every  *)
(* value of their constants.  What Plugin and Lsp assume of theirs is a    *)
(* hypothesis of what is proved about them.                                *)
(***************************************************************************)
EXTENDS Subprocess, SequenceTheorems, WellFoundedInduction, TLAPS

CONSTANTS
    Calls, NoCall, Capacity, StopKinds, PluginMaxStops, MaxTrouble,         \* of PluginActor
    Queries, NoQuery, LspCapacity, MaxCancels, LspMaxTrouble                \* of LspActor

VARIABLES
    state, shutdown, queue, caller, pluginDue, actor, peer, out, inn,
    lspShutdown, lspQueue, lspCaller, lspDue, lspActor, conn, server, procs, trouble

Plugin == INSTANCE PluginActor WITH MaxStops <- PluginMaxStops, due <- pluginDue
Lsp == INSTANCE LspActor WITH
    Capacity <- LspCapacity, MaxTrouble <- LspMaxTrouble, shutdown <- lspShutdown,
    queue <- lspQueue, caller <- lspCaller, due <- lspDue, actor <- lspActor

-----------------------------------------------------------------------------
(* Commands. *)

Flags == {"signal", "setup", "limit", "drain", "read"}
DriverType ==
    [primary : Causes \cup {"none"}, turnStop : TurnStops \cup {"none"},
     natural : {"none", "exit", "signal"}, term : BOOLEAN, kill : BOOLEAN,
     grace : {"off", "armed"}, drain : {"off", "armed"}, armed : BOOLEAN, passes : 0 .. 2,
     open : SUBSET Streams, cut : SUBSET Streams, flags : SUBSET Flags, got : Nat,
     anchor : {"none", "exited", "unowned"}]
WorldType ==
    [leader : {"none", "running", "zombie", "reaped"}, how : {"none", "exit", "signal"},
     group : [Members -> {"none", "live", "owned"}], escaped : BOOLEAN,
     unread : [Streams -> Nat], stray : BOOLEAN, faults : Nat, behind : Nat]
ScanType ==
    [result : {"none", "running", "live", "unknown", "mutated", "complete", "lost"},
     left : SUBSET Members, live : BOOLEAN, mutated : BOOLEAN]

\* What holds of a driver and its command whatever the place of the call.
Sound(d, o, heard) ==
    /\ d \in DriverType /\ o \in WorldType
    /\ d.open \cap d.cut = {} /\ d.got <= Limit + 1
    /\ ~o.stray
    /\ d.armed => o.leader \in {"running", "zombie"}
    /\ d.natural # "none" => d.natural = o.how /\ o.leader \in {"zombie", "reaped"}
    /\ d.primary \in Stops => d.primary \in heard
    /\ d.primary \in TurnStops => d.turnStop = d.primary
    /\ d.turnStop \in heard \cup {"none"}
    /\ d.primary = "limit" => d.got > Limit
    /\ \A s \in Streams \ d.cut : s \in d.open \/ o.unread[s] = 0

\* Nothing is done to a command without a cause.
Calm(d) ==
    d.primary = "none" => ~d.term /\ ~d.kill /\ d.flags = {} /\ d.cut = {} /\ d.grace = "off"

Gone(o) == o.leader \in {"zombie", "reaped"} /\ \A m \in Members : o.group[m] = "none"

Preparation == {"setup", "check", "ask", "start", "spawn"}
Fresh ==
    /\ drv = [NewDriver EXCEPT !.turnStop = drv.turnStop]
    /\ os.leader = "none" /\ os.group = [m \in Members |-> "none"]
    /\ os.unread = [s \in Streams |-> 0] /\ ~os.escaped
    /\ scan = NoScan /\ reap = "none"
    /\ stop = "none" => drv.turnStop = "none"
    /\ pc \in {"ask", "start", "spawn"} => stop = "none"

PlaceInv ==
    /\ pc \in {"setup", "check"} => worker # "idle"
    /\ pc \in Preparation => Fresh
    /\ pc \in Running => Calm(drv) /\ os.leader # "none"
    /\ pc \notin {"ended", "dropped"} => Sound(drv, os, due)
    /\ pc # "ended" => outcome = NoOutcome

ReapInv ==
    /\ reap # "none" => ~drv.armed
    /\ reap \in {"ok", "bad"} => os.leader = "reaped"
    /\ pc = "observing" => reap = "none" /\ drv.passes < 2
    /\ pc \in {"reaping", "draining"} => drv.natural # "none"
    /\ pc = "draining" => os.leader = "reaped"

\* What a pass over the table of processes is worth when it can be overtaken once.
Told == os.behind = 0 \/ drv.passes > 0
ScanInv ==
    /\ scan.result # "none" => pc \in {"observing", "losing"} /\ drv.natural # "none"
    /\ drv.passes > 0 /\ pc \in Running => drv.natural # "none"
    /\ MaxBehind <= 1 =>
        /\ os.behind <= MaxBehind
        /\ pc \in {"reaping", "draining"} => Gone(os)
        /\ pc = "observing" =>
            /\ drv.passes > 0 => Gone(os) \/ os.behind = 1
            /\ scan.result = "running" /\ ~scan.live /\ ~scan.mutated /\ Told =>
                 \A m \in Members \ scan.left : os.group[m] = "none"
            /\ scan.result = "complete" /\ Told => Gone(os)

Types ==
    /\ TypeOK
    /\ drv \in DriverType /\ os \in WorldType /\ scan \in ScanType

Inv ==
    /\ Types /\ PlaceInv /\ ReapInv /\ ScanInv
    /\ ~os.stray /\ CauseIsTrue
    /\ MaxBehind <= 1 => QuiescentIsGone

\* What one event does to a driver and its command, but for the end of the leader.
Keeps(d, o, e, p) ==
    /\ d.natural # "none" => e.natural = d.natural
    /\ e.armed = d.armed /\ e.passes = d.passes /\ p.behind = o.behind
    /\ d.primary # "none" => e.primary = d.primary
    /\ d.turnStop # "none" => e.turnStop = d.turnStop
    /\ d.natural # "none" /\ d.primary = "none" => e.primary # "command"
    /\ o.leader # "none" => p.leader # "none"
    /\ o.leader \in {"zombie", "reaped"} => p.leader = o.leader /\ p.how = o.how
    /\ \A m \in Members : p.group[m] \in {o.group[m], "none"}

-----------------------------------------------------------------------------
LEMMA KeepsTrans ==
    ASSUME NEW d, NEW o, NEW e, NEW p, NEW f, NEW q, Keeps(d, o, e, p), Keeps(e, p, f, q)
    PROVE  Keeps(d, o, f, q)
BY DEF Keeps

LEMMA KeepsRefl ==
    ASSUME NEW d, NEW o
    PROVE  Keeps(d, o, d, o)
BY DEF Keeps

LEMMA FirstOfIn ==
    ASSUME NEW S \in SUBSET Stops, S # {}
    PROVE  FirstOf(S) \in S
<1> DEFINE I == {i \in 1 .. 4 : StopOrder[i] \in S}
<1>1. I # {} /\ I \subseteq 1 .. 4
  <2>1. /\ StopOrder[1] = "caller" /\ StopOrder[2] = "turn"
        /\ StopOrder[3] = "action" /\ StopOrder[4] = "command"
    BY DEF StopOrder
  <2>2. PICK x \in S : x \in {"caller", "turn", "action", "command"}
    BY DEF Stops
  <2>3. x = StopOrder[1] \/ x = StopOrder[2] \/ x = StopOrder[3] \/ x = StopOrder[4]
    BY <2>1, <2>2
  <2>4. 1 \in I \/ 2 \in I \/ 3 \in I \/ 4 \in I
    BY <2>2, <2>3
  <2> QED BY <2>4
<1>2. \E m \in I : \A k \in I : m <= k
  <2>1. CASE 1 \in I
    BY <2>1, <1>1
  <2>2. CASE 1 \notin I /\ 2 \in I
    <3>1. \A k \in I : 2 <= k
      BY <2>2, <1>1
    <3> QED BY <2>2, <3>1
  <2>3. CASE 1 \notin I /\ 2 \notin I /\ 3 \in I
    <3>1. \A k \in I : 3 <= k
      BY <2>3, <1>1
    <3> QED BY <2>3, <3>1
  <2>4. CASE 1 \notin I /\ 2 \notin I /\ 3 \notin I
    <3>1. I = {4}
      BY <2>4, <1>1
    <3> QED BY <3>1
  <2> QED BY <2>1, <2>2, <2>3, <2>4
<1>3. Min(I) \in I
  BY <1>2 DEF Min
<1> QED BY <1>3 DEF FirstOf

LEMMA MinOfTwo ==
    ASSUME NEW a \in Nat, NEW b \in Int
    PROVE  Min({a, b}) <= a /\ Min({a, b}) <= b /\ Min({a, b}) \in {a, b}
<1>1. \E m \in {a, b} : \A k \in {a, b} : m <= k
  BY DEF Min
<1> QED BY <1>1 DEF Min

LEMMA KilledKeeps ==
    ASSUME NEW d \in DriverType, NEW o \in WorldType, NEW heard, Sound(d, o, heard)
    PROVE  Sound(d, Killed(o), heard) /\ Keeps(d, o, d, Killed(o))
<1> DEFINE p == Killed(o)
<1>1. p \in WorldType
  BY DEF Killed, WorldType
<1>2. /\ p.stray = o.stray /\ p.unread = o.unread /\ p.behind = o.behind
      /\ o.leader \in {"zombie", "reaped"} => p.leader = o.leader /\ p.how = o.how
      /\ o.leader = "running" => p.leader = "zombie"
      /\ o.leader # "none" => p.leader # "none"
      /\ \A m \in Members : p.group[m] \in {o.group[m], "none"}
  BY DEF Killed, WorldType
<1>3. Keeps(d, o, d, p)
  BY <1>2 DEF Keeps
<1>4. Sound(d, p, heard)
  BY <1>1, <1>2 DEF Sound
<1> QED BY <1>3, <1>4

LEMMA FaultyKeeps ==
    ASSUME NEW d, NEW o \in WorldType, NEW heard, Sound(d, o, heard)
    PROVE  Sound(d, Faulty(o), heard) /\ Keeps(d, o, d, Faulty(o)) /\ Faulty(o) \in WorldType
<1> DEFINE p == Faulty(o)
<1>1. p \in WorldType
  BY DEF Faulty, WorldType
<1>2. /\ p.stray = o.stray /\ p.unread = o.unread /\ p.behind = o.behind
      /\ p.leader = o.leader /\ p.how = o.how /\ p.group = o.group
  BY DEF Faulty, WorldType
<1> QED BY <1>1, <1>2 DEF Keeps, Sound

\* A signal is sent to the group of a leader that has not been reaped, or not at all.
LEMMA SignalKeeps ==
    ASSUME NEW d \in DriverType, NEW o \in WorldType, NEW heard, Sound(d, o, heard), NEW sig,
           NEW r \in Signal(d, o, sig)
    PROVE  /\ Sound(r[1], r[2], heard) /\ Keeps(d, o, r[1], r[2])
           /\ r[1] \in DriverType /\ r[2] \in WorldType
           /\ r[1].primary = d.primary /\ r[1].grace = d.grace
           /\ r[1].open = d.open /\ r[1].cut = d.cut /\ r[1].term = d.term /\ r[1].kill = d.kill
           /\ r[1].turnStop = d.turnStop /\ r[1].got = d.got /\ r[1].drain = d.drain
<1>1. CASE ~d.armed
  <2>1. r = <<d, o>>
    BY <1>1 DEF Signal
  <2> QED BY <2>1, KeepsRefl
<1>2. CASE d.armed /\ r = <<d, Delivered(o, sig)>>
  <2>1. Delivered(o, sig) \in {o, Killed(o)}
    BY <1>2 DEF Sound, Delivered
  <2>2. Sound(d, Delivered(o, sig), heard) /\ Keeps(d, o, d, Delivered(o, sig))
    BY <2>1, KilledKeeps, KeepsRefl
  <2>3. Delivered(o, sig) \in WorldType
    BY <2>2 DEF Sound
  <2> QED BY <1>2, <2>2, <2>3
<1>3. CASE d.armed /\ r = <<[d EXCEPT !.flags = @ \cup {"signal"}], Faulty(o)>>
  <2> DEFINE e == [d EXCEPT !.flags = @ \cup {"signal"}]
  <2>1. Sound(d, Faulty(o), heard) /\ Keeps(d, o, d, Faulty(o)) /\ Faulty(o) \in WorldType
    BY FaultyKeeps
  <2>2. e \in DriverType
    BY DEF DriverType, Flags
  <2>3. /\ e.primary = d.primary /\ e.grace = d.grace /\ e.natural = d.natural
        /\ e.open = d.open /\ e.cut = d.cut /\ e.term = d.term /\ e.kill = d.kill
        /\ e.turnStop = d.turnStop /\ e.got = d.got /\ e.drain = d.drain
        /\ e.armed = d.armed /\ e.passes = d.passes
    BY DEF DriverType
  <2>4. Keeps(d, o, e, Faulty(o))
    BY <2>1, <2>3 DEF Keeps
  <2>5. Sound(e, Faulty(o), heard)
    BY <2>1, <2>2, <2>3 DEF Sound
  <2> QED BY <1>3, <2>1, <2>2, <2>3, <2>4, <2>5
<1> QED BY <1>1, <1>2, <1>3 DEF Signal

LEMMA SendKillKeeps ==
    ASSUME NEW d \in DriverType, NEW o \in WorldType, NEW heard, Sound(d, o, heard),
           NEW r \in SendKill(d, o)
    PROVE  /\ Sound(r[1], r[2], heard) /\ Keeps(d, o, r[1], r[2])
           /\ r[1] \in DriverType /\ r[2] \in WorldType
           /\ r[1].primary = d.primary /\ r[1].turnStop = d.turnStop
           /\ r[1].open = d.open /\ r[1].cut = d.cut
<1>1. CASE d.kill
  <2>1. r = <<d, o>>
    BY <1>1 DEF SendKill
  <2> QED BY <2>1, KeepsRefl
<1>2. CASE ~d.kill
  <2> DEFINE e == [d EXCEPT !.kill = TRUE, !.grace = "off"]
  <2>1. e \in DriverType
    BY DEF DriverType
  <2>2. /\ e.primary = d.primary /\ e.natural = d.natural
        /\ e.open = d.open /\ e.cut = d.cut
        /\ e.turnStop = d.turnStop /\ e.got = d.got
        /\ e.armed = d.armed /\ e.passes = d.passes
    BY DEF DriverType
  <2>3. Sound(e, o, heard) /\ Keeps(d, o, e, o)
    BY <2>1, <2>2 DEF Sound, Keeps
  <2>4. r \in Signal(e, o, "KILL")
    BY <1>2 DEF SendKill
  <2> HIDE DEF e
  <2>5. /\ Sound(r[1], r[2], heard) /\ Keeps(e, o, r[1], r[2])
        /\ r[1] \in DriverType /\ r[2] \in WorldType
        /\ r[1].primary = e.primary /\ r[1].turnStop = e.turnStop
        /\ r[1].open = e.open /\ r[1].cut = e.cut
    BY <2>1, <2>3, <2>4, SignalKeeps
  <2>6. Keeps(d, o, r[1], r[2])
    BY <2>3, <2>5, KeepsTrans
  <2> QED BY <2>2, <2>5, <2>6
<1> QED BY <1>1, <1>2

LEMMA ClosePipesKeeps ==
    ASSUME NEW d \in DriverType, NEW o \in WorldType, NEW heard, Sound(d, o, heard)
    PROVE  /\ Sound(ClosePipes(d), o, heard) /\ Keeps(d, o, ClosePipes(d), o)
           /\ ClosePipes(d) \in DriverType
           /\ ClosePipes(d).primary = d.primary /\ ClosePipes(d).turnStop = d.turnStop
<1> DEFINE e == ClosePipes(d)
<1>1. e \in DriverType
  BY DEF DriverType, ClosePipes
<1>2. /\ e.primary = d.primary /\ e.natural = d.natural
      /\ e.open = {} /\ e.cut = d.cut \cup d.open
      /\ e.turnStop = d.turnStop /\ e.got = d.got
      /\ e.armed = d.armed /\ e.passes = d.passes
  BY DEF DriverType, ClosePipes
<1>3. Keeps(d, o, e, o)
  BY <1>2 DEF Keeps
<1>4. Sound(e, o, heard)
  BY <1>1, <1>2 DEF Sound
<1> QED BY <1>1, <1>2, <1>3, <1>4

LEMMA CauseIsCalm ==
    ASSUME NEW d, d.primary # "none"
    PROVE  Calm(d)
BY DEF Calm

\* The clean-up that ends a turn of the loop has a cause.
LEMMA EnsureCleanupKeeps ==
    ASSUME NEW d \in DriverType, NEW o \in WorldType, NEW heard, Sound(d, o, heard), Calm(d),
           NEW r \in EnsureCleanup(d, o)
    PROVE  /\ Sound(r[1], r[2], heard) /\ Calm(r[1]) /\ Keeps(d, o, r[1], r[2])
           /\ r[1].primary = d.primary /\ r[1].turnStop = d.turnStop
<1>1. CASE r = <<d, o>>
  BY <1>1, KeepsRefl
<1>2. CASE d.primary # "none" /\ r = <<ClosePipes(d), o>>
  BY <1>2, ClosePipesKeeps, CauseIsCalm
<1>3. CASE d.primary = "limit" /\ d.armed
  <2>1. PICK s \in SendKill(d, o) : r = <<ClosePipes(s[1]), s[2]>>
    BY <1>3 DEF EnsureCleanup
  <2>2. /\ Sound(s[1], s[2], heard) /\ Keeps(d, o, s[1], s[2])
        /\ s[1] \in DriverType /\ s[2] \in WorldType
        /\ s[1].primary = d.primary /\ s[1].turnStop = d.turnStop
    BY SendKillKeeps
  <2>3. /\ Sound(ClosePipes(s[1]), s[2], heard) /\ Keeps(s[1], s[2], ClosePipes(s[1]), s[2])
        /\ ClosePipes(s[1]).primary = s[1].primary
        /\ ClosePipes(s[1]).turnStop = s[1].turnStop
    BY <2>2, ClosePipesKeeps
  <2>4. Keeps(d, o, ClosePipes(s[1]), s[2])
    BY <2>2, <2>3, KeepsTrans
  <2> QED BY <1>3, <2>1, <2>2, <2>3, <2>4, CauseIsCalm
<1>4. CASE d.primary \notin {"none", "limit"} /\ d.armed /\ ~d.term /\ ~d.kill
  <2> DEFINE e == [d EXCEPT !.term = TRUE]
  <2>1. PICK s \in Signal(e, o, "TERM") : r = <<[s[1] EXCEPT !.grace = "armed"], s[2]>>
    BY <1>4 DEF EnsureCleanup
  <2>2. e \in DriverType
    BY DEF DriverType
  <2>3. /\ e.primary = d.primary /\ e.natural = d.natural
        /\ e.open = d.open /\ e.cut = d.cut
        /\ e.turnStop = d.turnStop /\ e.got = d.got
        /\ e.armed = d.armed /\ e.passes = d.passes
    BY DEF DriverType
  <2>4. Sound(e, o, heard) /\ Keeps(d, o, e, o)
    BY <2>2, <2>3 DEF Sound, Keeps
  <2> HIDE DEF e
  <2>5. /\ Sound(s[1], s[2], heard) /\ Keeps(e, o, s[1], s[2])
        /\ s[1] \in DriverType /\ s[2] \in WorldType
        /\ s[1].primary = e.primary /\ s[1].turnStop = e.turnStop
    BY <2>2, <2>4, SignalKeeps
  <2> DEFINE f == [s[1] EXCEPT !.grace = "armed"]
  <2>6. f \in DriverType
    BY <2>5 DEF DriverType
  <2>7. /\ f.primary = s[1].primary /\ f.natural = s[1].natural
        /\ f.open = s[1].open /\ f.cut = s[1].cut
        /\ f.turnStop = s[1].turnStop /\ f.got = s[1].got
        /\ f.armed = s[1].armed /\ f.passes = s[1].passes
    BY <2>5 DEF DriverType
  <2>8. Sound(f, s[2], heard) /\ Keeps(s[1], s[2], f, s[2])
    BY <2>5, <2>6, <2>7 DEF Sound, Keeps
  <2>9. Keeps(d, o, f, s[2])
    BY <2>4, <2>5, <2>8, KeepsTrans
  <2> QED BY <1>4, <2>1, <2>3, <2>5, <2>7, <2>8, <2>9, CauseIsCalm
<1> QED BY <1>1, <1>2, <1>3, <1>4 DEF EnsureCleanup

LEMMA ContinueKeeps ==
    ASSUME NEW results, NEW heard, Continue(results),
           \A r \in results : Sound(r[1], r[2], heard) /\ Calm(r[1])
    PROVE  /\ Sound(drv', os', heard) /\ Calm(drv')
           /\ \E r \in results : Keeps(r[1], r[2], drv', os')
<1>1. PICK r \in results : \E e \in EnsureCleanup(r[1], r[2]) : drv' = e[1] /\ os' = e[2]
  BY DEF Continue
<1>2. PICK e \in EnsureCleanup(r[1], r[2]) : drv' = e[1] /\ os' = e[2]
  BY <1>1
<1>3. r[1] \in DriverType /\ r[2] \in WorldType
  BY DEF Sound
<1> QED BY <1>2, <1>3, EnsureCleanupKeeps

-----------------------------------------------------------------------------
(* What the loop reads.                                                    *)

LEMMA GotBytesKeeps ==
    ASSUME NEW d \in DriverType, NEW o \in WorldType, NEW heard, Sound(d, o, heard), Calm(d),
           NEW s \in Streams, NEW n \in Nat, n <= o.unread[s], n <= Limit + 1 - d.got,
           NEW r \in GotBytes(d, o, s, n)
    PROVE  Sound(r[1], r[2], heard) /\ Calm(r[1]) /\ Keeps(d, o, r[1], r[2])
<1> DEFINE d1 == [d EXCEPT !.got = @ + n]
           o1 == [o EXCEPT !.unread[s] = @ - n]
           d2 == [d1 EXCEPT !.flags = @ \cup {"limit"}, !.primary = First(@, "limit")]
<1>1. d.got \in Nat /\ o.unread \in [Streams -> Nat] /\ Limit \in Nat
  BY BoundsAssumption DEF DriverType, WorldType
<1>2. d1 \in DriverType
  BY <1>1 DEF DriverType
<1>3. o1 \in WorldType
  <2>1. o1.unread \in [Streams -> Nat]
    BY <1>1 DEF WorldType
  <2> QED BY <2>1 DEF WorldType
<1>4. /\ d1.primary = d.primary /\ d1.natural = d.natural /\ d1.turnStop = d.turnStop
      /\ d1.open = d.open /\ d1.cut = d.cut /\ d1.got = d.got + n
      /\ d1.armed = d.armed /\ d1.passes = d.passes /\ d1.flags = d.flags
      /\ d1.term = d.term /\ d1.kill = d.kill /\ d1.grace = d.grace
  BY DEF DriverType
<1>5. /\ o1.stray = o.stray /\ o1.leader = o.leader /\ o1.how = o.how
      /\ o1.behind = o.behind /\ o1.group = o.group
      /\ \A t \in Streams : o1.unread[t] = IF t = s THEN o.unread[t] - n ELSE o.unread[t]
  BY <1>1 DEF WorldType
<1>6. Keeps(d, o, d1, o1)
  BY <1>4, <1>5 DEF Keeps
<1>7. \A t \in Streams : o.unread[t] = 0 => o1.unread[t] = 0
  BY <1>1, <1>5
<1>8. Sound(d1, o1, heard)
  BY <1>1, <1>2, <1>3, <1>4, <1>5, <1>7 DEF Sound
<1>9. CASE d1.got <= Limit
  <2>1. r = <<d1, o1>>
    BY <1>9 DEF GotBytes
  <2>2. Calm(d1)
    BY <1>4 DEF Calm
  <2> QED BY <2>1, <2>2, <1>6, <1>8
<1>10. CASE ~(d1.got <= Limit)
  <2>1. PICK q \in SendKill(d2, o1) : r = <<ClosePipes(q[1]), q[2]>>
    BY <1>10 DEF GotBytes
  <2>2. d2 \in DriverType
    BY <1>2 DEF DriverType, First, Causes, Flags
  <2>3. /\ d2.primary = First(d1.primary, "limit") /\ d2.natural = d1.natural
        /\ d2.open = d1.open /\ d2.cut = d1.cut /\ d2.turnStop = d1.turnStop
        /\ d2.got = d1.got /\ d2.armed = d1.armed /\ d2.passes = d1.passes
    BY <1>2 DEF DriverType
  <2>4. d1.got > Limit
    BY <1>1, <1>4, <1>10
  <2>5. Sound(d2, o1, heard)
    BY <1>8, <2>2, <2>3, <2>4 DEF Sound, First, Stops, TurnStops
  <2>6. Keeps(d1, o1, d2, o1) /\ d2.primary # "none"
    BY <2>3 DEF Keeps, First
  <2> HIDE DEF d1, o1, d2
  <2>7. /\ Sound(q[1], q[2], heard) /\ Keeps(d2, o1, q[1], q[2])
        /\ q[1] \in DriverType /\ q[2] \in WorldType
        /\ q[1].primary = d2.primary
    BY <1>3, <2>2, <2>5, SendKillKeeps
  <2>8. /\ Sound(ClosePipes(q[1]), q[2], heard) /\ Keeps(q[1], q[2], ClosePipes(q[1]), q[2])
        /\ ClosePipes(q[1]).primary = q[1].primary
    BY <2>7, ClosePipesKeeps
  <2>9. Keeps(d, o, ClosePipes(q[1]), q[2])
    BY <1>6, <2>6, <2>7, <2>8, KeepsTrans
  <2>10. Calm(ClosePipes(q[1]))
    BY <2>6, <2>7, <2>8, CauseIsCalm
  <2> QED BY <2>1, <2>8, <2>9, <2>10
<1> QED BY <1>9, <1>10

LEMMA PipeResultsKeeps ==
    ASSUME NEW d \in DriverType, NEW o \in WorldType, NEW heard, Sound(d, o, heard), Calm(d),
           NEW s \in d.open, NEW r \in PipeResults(d, o, s)
    PROVE  Sound(r[1], r[2], heard) /\ Calm(r[1]) /\ Keeps(d, o, r[1], r[2])
<1>1. s \in Streams /\ d.got \in Nat /\ o.unread[s] \in Nat /\ Limit \in Nat
  BY BoundsAssumption DEF DriverType, WorldType
<1>2. CASE \E n \in 1 .. Min({o.unread[s], Limit + 1 - d.got}) : r \in GotBytes(d, o, s, n)
  <2>1. PICK n \in 1 .. Min({o.unread[s], Limit + 1 - d.got}) : r \in GotBytes(d, o, s, n)
    BY <1>2
  <2> DEFINE m == Min({o.unread[s], Limit + 1 - d.got})
  <2>2. m <= o.unread[s] /\ m <= Limit + 1 - d.got /\ m \in Int
    BY <1>1, MinOfTwo
  <2>3. n \in Nat /\ n <= m
    BY <2>1, <2>2
  <2>4. n <= o.unread[s] /\ n <= Limit + 1 - d.got
    BY <1>1, <2>2, <2>3
  <2> QED BY <1>1, <2>1, <2>3, <2>4, GotBytesKeeps
<1>3. CASE o.unread[s] = 0 /\ r = <<AtEnd(d, s), o>>
  <2> DEFINE e == AtEnd(d, s)
  <2>1. e \in DriverType
    BY DEF DriverType, AtEnd
  <2>2. /\ e.primary = d.primary /\ e.natural = d.natural /\ e.turnStop = d.turnStop
        /\ e.open = d.open \ {s} /\ e.cut = d.cut /\ e.got = d.got
        /\ e.armed = d.armed /\ e.passes = d.passes /\ e.flags = d.flags
        /\ e.term = d.term /\ e.kill = d.kill /\ e.grace = d.grace
    BY DEF DriverType, AtEnd
  <2>3. Sound(e, o, heard)
    BY <1>3, <2>1, <2>2 DEF Sound
  <2>4. Calm(e) /\ Keeps(d, o, e, o)
    BY <2>2 DEF Calm, Keeps
  <2> QED BY <1>3, <2>3, <2>4
<1>4. CASE r = <<Unreadable(d, s), Faulty(o)>>
  <2> DEFINE e == Unreadable(d, s)
  <2>1. e \in DriverType
    BY <1>1 DEF DriverType, First, Causes, Flags, Unreadable
  <2>2. /\ e.primary = First(d.primary, "read") /\ e.natural = d.natural
        /\ e.turnStop = d.turnStop /\ e.open = d.open \ {s} /\ e.cut = d.cut \cup {s}
        /\ e.got = d.got /\ e.armed = d.armed /\ e.passes = d.passes
    BY DEF DriverType, Unreadable
  <2>3. Sound(d, Faulty(o), heard) /\ Keeps(d, o, d, Faulty(o))
    BY FaultyKeeps
  <2>4. e.primary = IF d.primary = "none" THEN "read" ELSE d.primary
    BY <2>2 DEF First
  <2>5. Sound(e, Faulty(o), heard)
    BY <2>1, <2>2, <2>3, <2>4 DEF Sound, Stops, TurnStops
  <2>6. Keeps(d, o, e, Faulty(o)) /\ e.primary # "none"
    BY <2>2, <2>3, <2>4 DEF Keeps
  <2> QED BY <1>4, <2>5, <2>6, CauseIsCalm
<1>5. \/ \E n \in 1 .. Min({o.unread[s], Limit + 1 - d.got}) : r \in GotBytes(d, o, s, n)
      \/ o.unread[s] = 0 /\ r = <<AtEnd(d, s), o>>
      \/ r = <<Unreadable(d, s), Faulty(o)>>
  <2> DEFINE G == UNION {GotBytes(d, o, s, n) : n \in 1 .. Min({o.unread[s], Limit + 1 - d.got})}
             E == IF o.unread[s] = 0 THEN {<<AtEnd(d, s), o>>} ELSE {}
             F == IF o.faults < MaxFaults THEN {<<Unreadable(d, s), Faulty(o)>>} ELSE {}
  <2>1. PipeResults(d, o, s) = G \cup E \cup F
    BY Zenon DEF PipeResults
  <2>2. r \in G =>
          \E n \in 1 .. Min({o.unread[s], Limit + 1 - d.got}) : r \in GotBytes(d, o, s, n)
    OBVIOUS
  <2> HIDE DEF G
  <2> QED BY <2>1, <2>2
<1> QED BY <1>2, <1>3, <1>4, <1>5

\* A driver and a command that an event of the loop has led to.
Reached(r, heard) ==
    Sound(r[1], r[2], heard) /\ Calm(r[1]) /\ Keeps(drv, os, r[1], r[2])

LEMMA ReadOnceKeeps ==
    ASSUME NEW results, NEW heard, \A r \in results : Reached(r, heard), NEW s,
           NEW q \in ReadOnce(results, s)
    PROVE  Reached(q, heard)
<1>1. CASE q \in results
  BY <1>1
<1>2. CASE q \notin results
  <2>1. PICK r \in results : Readable(r[1], r[2], s) /\ q \in PipeResults(r[1], r[2], s)
    BY <1>2 DEF ReadOnce
  <2>2. s \in r[1].open /\ r[1] \in DriverType /\ r[2] \in WorldType
    BY <2>1 DEF Readable, Reached, Sound
  <2>3. Sound(q[1], q[2], heard) /\ Calm(q[1]) /\ Keeps(r[1], r[2], q[1], q[2])
    BY <2>1, <2>2, PipeResultsKeeps DEF Reached
  <2> QED BY <2>3, KeepsTrans DEF Reached
<1> QED BY <1>1, <1>2

LEMMA PolledKeeps ==
    ASSUME NEW heard, Sound(drv, os, heard), Calm(drv), NEW q \in Polled(drv, os)
    PROVE  Reached(q, heard)
<1>1. \A r \in {<<drv, os>>} : Reached(r, heard)
  BY KeepsRefl DEF Reached
<1>2. /\ \A r \in ReadOnce({<<drv, os>>}, "stdout") : Reached(r, heard)
      /\ \A r \in ReadOnce({<<drv, os>>}, "stderr") : Reached(r, heard)
  BY <1>1, ReadOnceKeeps
<1> QED BY <1>2, ReadOnceKeeps DEF Polled

LEMMA SeenKeeps ==
    ASSUME NEW d \in DriverType, NEW o \in WorldType, NEW heard, Sound(d, o, heard), Calm(d),
           o.leader # "none"
    PROVE  Sound(Seen(d, o), o, heard) /\ Calm(Seen(d, o)) /\ Keeps(d, o, Seen(d, o), o)
<1>1. CASE o.leader = "running"
  BY <1>1, KeepsRefl DEF Seen
<1>2. CASE o.leader # "running"
  <2> DEFINE e == [d EXCEPT !.natural = First(@, o.how)]
  <2>1. e \in DriverType
    BY DEF DriverType, WorldType, First
  <2>2. /\ e.primary = d.primary /\ e.natural = First(d.natural, o.how)
        /\ e.turnStop = d.turnStop /\ e.open = d.open /\ e.cut = d.cut /\ e.got = d.got
        /\ e.armed = d.armed /\ e.passes = d.passes /\ e.flags = d.flags
        /\ e.term = d.term /\ e.kill = d.kill /\ e.grace = d.grace
    BY DEF DriverType
  <2>3. e.natural # "none" => e.natural = o.how
    BY <2>2 DEF Sound, First
  <2>4. o.leader \in {"zombie", "reaped"}
    BY <1>2 DEF WorldType
  <2>5. Sound(e, o, heard)
    BY <2>1, <2>2, <2>3, <2>4 DEF Sound
  <2>6. Calm(e) /\ Keeps(d, o, e, o)
    BY <2>2 DEF Calm, Keeps, First
  <2>7. Seen(d, o) = e
    BY <1>2 DEF Seen
  <2> QED BY <2>5, <2>6, <2>7
<1> QED BY <1>1, <1>2

\* A stop that the driver still listens to.
LEMMA ObserveKeeps ==
    ASSUME NEW d \in DriverType, NEW o \in WorldType, NEW heard \in SUBSET Stops,
           Sound(d, o, heard), NEW s \in heard,
           s \in TurnStops => d.turnStop = "none"
    PROVE  /\ Sound(Observe(d, s), o, heard) /\ Calm(Observe(d, s))
           /\ d.natural = "none" \/ s # "command" => Keeps(d, o, Observe(d, s), o)
<1> DEFINE e == Observe(d, s)
<1>1. s \in Stops /\ TurnStopOf(s) \in TurnStops \cup {"none"}
      /\ (s \in TurnStops => TurnStopOf(s) = s) /\ (s \notin TurnStops => TurnStopOf(s) = "none")
  BY DEF TurnStopOf
<1>2. e \in DriverType
  BY <1>1 DEF DriverType, Observe, First, Causes
<1>3. /\ e.primary = First(d.primary, s) /\ e.natural = d.natural
      /\ e.turnStop = First(d.turnStop, TurnStopOf(s))
      /\ e.open = d.open /\ e.cut = d.cut /\ e.got = d.got
      /\ e.armed = d.armed /\ e.passes = d.passes
  BY DEF DriverType, Observe
<1>4. /\ e.primary = IF d.primary = "none" THEN s ELSE d.primary
      /\ e.turnStop = IF s \in TurnStops THEN s ELSE d.turnStop
  BY <1>1, <1>3 DEF First
<1>5. e.primary # "none"
  BY <1>1, <1>4 DEF Stops
<1>6. /\ e.primary \in Stops => e.primary \in heard
      /\ e.primary \in TurnStops => e.turnStop = e.primary
      /\ e.turnStop \in heard \cup {"none"}
      /\ e.primary = "limit" => d.primary = "limit"
  <2>1. CASE d.primary = "none"
    BY <2>1, <1>4, <1>1 DEF Sound, Stops
  <2>2. CASE d.primary # "none"
    BY <2>2, <1>4, <1>1 DEF Sound, Stops, TurnStops
  <2> QED BY <2>1, <2>2
<1>7. Sound(e, o, heard)
  BY <1>2, <1>3, <1>6 DEF Sound
<1>8. ASSUME d.natural = "none" \/ s # "command" PROVE Keeps(d, o, e, o)
  BY <1>8, <1>1, <1>3, <1>4 DEF Keeps, First
<1> QED BY <1>5, <1>7, <1>8, CauseIsCalm

-----------------------------------------------------------------------------
(* The invariant.                                                          *)

LEMMA InitInv == Init => Inv
<1> SUFFICES ASSUME Init PROVE Inv
  OBVIOUS
<1>1. Limit \in Nat /\ MaxBehind \in Nat
  BY BoundsAssumption
<1>2. drv \in DriverType
  BY DEF Init, DriverType, NewDriver
<1>3. os \in WorldType
  BY DEF Init, WorldType
<1>4. scan \in ScanType
  BY DEF Init, ScanType, NoScan
<1>5. Types
  BY <1>1, <1>2, <1>3, <1>4 DEF Init, Types, TypeOK, NewDriver, PrepStops
<1>6. Sound(drv, os, due)
  BY <1>1, <1>2, <1>3 DEF Sound, Init, NewDriver, Stops, TurnStops
<1>7. PlaceInv
  BY <1>6 DEF PlaceInv, Init, Fresh, NewDriver, Running
<1>8. ReapInv
  BY DEF ReapInv, Init, NewDriver
<1>9. ScanInv
  BY <1>1 DEF ScanInv, Init, NewDriver, NoScan, Running
<1>10. outcome.kind = "none" /\ ~os.stray
  BY DEF Init, NoOutcome
<1>11. CauseIsTrue /\ QuiescentIsGone
  BY <1>10 DEF CauseIsTrue, QuiescentIsGone
<1> QED BY <1>5, <1>7, <1>8, <1>9, <1>10, <1>11 DEF Inv

\* A turn of the driver's loop that leaves it where it is.
LEMMA LoopTurn ==
    ASSUME Inv, pc \in Running, UNCHANGED <<pc, due, stop, worker, scan, reap, outcome>>,
           Sound(drv', os', due), Calm(drv'), Keeps(drv, os, drv', os')
    PROVE  Inv'
<1> USE DEF Inv
<1>1. pc \notin Preparation \cup {"ended", "dropped"}
  BY DEF Preparation, Running
<1>2. drv' \in DriverType /\ os' \in WorldType /\ drv \in DriverType /\ os \in WorldType
  BY DEF Sound, Types
<1>3. Types'
  <2>1. TypeOK'
    BY <1>2 DEF Types, TypeOK, Sound, DriverType
  <2> QED BY <1>2, <2>1 DEF Types
<1>4. PlaceInv'
  <2>1. Sound(drv, os, due)'
    BY DEF Sound
  <2>2. Calm(drv)' /\ os'.leader # "none"
    BY DEF Calm, Keeps, PlaceInv
  <2> QED BY <1>1, <2>1, <2>2 DEF PlaceInv
<1>5. ReapInv'
  BY DEF ReapInv, Keeps
<1>6. Gone(os) => Gone(os')
  BY DEF Gone, Keeps
<1>7. ScanInv'
  BY <1>6 DEF ScanInv, Keeps, Told, Gone
<1>8. outcome' = NoOutcome
  BY <1>1 DEF PlaceInv
<1>9. CauseIsTrue' /\ QuiescentIsGone'
  BY <1>8 DEF NoOutcome, CauseIsTrue, QuiescentIsGone
<1> QED BY <1>3, <1>4, <1>5, <1>7, <1>9 DEF Sound

\* The step of CauseIsFinal.
FinalStep ==
    pc' # "dropped" =>
        /\ drv.primary # "none" => drv'.primary = drv.primary
        /\ drv.turnStop # "none" => drv'.turnStop = drv.turnStop
        /\ drv.natural # "none" /\ drv.primary = "none" => drv'.primary # "command"

LEMMA KeepsIsFinal ==
    ASSUME Keeps(drv, os, drv', os')
    PROVE  FinalStep
BY DEF Keeps, FinalStep

LEMMA RunningFacts ==
    ASSUME Inv, pc \in Running
    PROVE  /\ Sound(drv, os, due) /\ Calm(drv) /\ os.leader # "none"
           /\ drv \in DriverType /\ os \in WorldType /\ due \in SUBSET Stops
           /\ outcome = NoOutcome
BY DEF Inv, PlaceInv, Types, TypeOK, Running

LEMMA StopEventInv == ASSUME Inv, StopEvent PROVE Inv' /\ FinalStep
<1> DEFINE s == FirstOf(Heard(drv))
<1>1. pc \in Running /\ Heard(drv) # {} /\ Continue({<<Observe(drv, s), os>>})
  BY DEF StopEvent, Unheard
<1>2. /\ Sound(drv, os, due) /\ drv \in DriverType /\ os \in WorldType
      /\ due \in SUBSET Stops
  BY <1>1, RunningFacts
<1>3. s \in Heard(drv)
  <2>1. Heard(drv) \in SUBSET Stops
    BY <1>2 DEF Heard
  <2> QED BY <2>1, <1>1, FirstOfIn
<1>4. /\ s \in due
      /\ s \in TurnStops => drv.turnStop = "none"
      /\ drv.natural = "none" \/ s # "command"
  BY <1>3 DEF Heard, TurnStops
<1> HIDE DEF s
<1>5. /\ Sound(Observe(drv, s), os, due) /\ Calm(Observe(drv, s))
      /\ Keeps(drv, os, Observe(drv, s), os)
  BY <1>2, <1>4, ObserveKeeps
<1>6. \A r \in {<<Observe(drv, s), os>>} : Sound(r[1], r[2], due) /\ Calm(r[1])
  BY <1>5
<1>7. /\ Sound(drv', os', due) /\ Calm(drv')
      /\ Keeps(Observe(drv, s), os, drv', os')
  BY <1>1, <1>6, ContinueKeeps
<1>8. Keeps(drv, os, drv', os')
  BY <1>5, <1>7, KeepsTrans
<1> QED BY <1>1, <1>7, <1>8, LoopTurn, KeepsIsFinal DEF StopEvent

LEMMA GraceEventInv == ASSUME Inv, GraceEvent PROVE Inv' /\ FinalStep
<1>1. pc \in Running /\ Continue(SendKill(drv, os)) /\ drv.grace = "armed"
  BY DEF GraceEvent, Quiet
<1>2. Sound(drv, os, due) /\ drv \in DriverType /\ os \in WorldType /\ drv.primary # "none"
  BY <1>1, RunningFacts DEF Calm
<1>3. \A r \in SendKill(drv, os) :
        Sound(r[1], r[2], due) /\ Calm(r[1]) /\ Keeps(drv, os, r[1], r[2])
  BY <1>2, SendKillKeeps, CauseIsCalm
<1>4. /\ Sound(drv', os', due) /\ Calm(drv')
      /\ \E r \in SendKill(drv, os) : Keeps(r[1], r[2], drv', os')
  BY <1>1, <1>3, ContinueKeeps
<1>5. Keeps(drv, os, drv', os')
  BY <1>3, <1>4, KeepsTrans
<1> QED BY <1>1, <1>4, <1>5, LoopTurn, KeepsIsFinal DEF GraceEvent

LEMMA DrainEventInv == ASSUME Inv, DrainEvent PROVE Inv' /\ FinalStep
<1> DEFINE d == [drv EXCEPT !.flags = @ \cup {"drain"}, !.drain = "off", !.primary = First(@,
      "drain")]
<1>1. pc \in Running /\ Continue({<<ClosePipes(d), os>>})
  BY DEF DrainEvent, Quiet
<1>2. Sound(drv, os, due) /\ drv \in DriverType /\ os \in WorldType
  BY <1>1, RunningFacts
<1>3. d \in DriverType
  BY <1>2 DEF DriverType, First, Causes, Flags
<1>4. /\ d.primary = First(drv.primary, "drain") /\ d.natural = drv.natural
      /\ d.turnStop = drv.turnStop /\ d.open = drv.open /\ d.cut = drv.cut /\ d.got = drv.got
      /\ d.armed = drv.armed /\ d.passes = drv.passes
  BY <1>2 DEF DriverType
<1>5. Sound(d, os, due)
  BY <1>2, <1>3, <1>4 DEF Sound, First, Stops, TurnStops
<1>6. Keeps(drv, os, d, os) /\ d.primary # "none"
  BY <1>4 DEF Keeps, First
<1> HIDE DEF d
<1>7. /\ Sound(ClosePipes(d), os, due) /\ Keeps(d, os, ClosePipes(d), os)
      /\ Calm(ClosePipes(d))
  BY <1>2, <1>3, <1>5, <1>6, ClosePipesKeeps, CauseIsCalm
<1>8. \A r \in {<<ClosePipes(d), os>>} : Sound(r[1], r[2], due) /\ Calm(r[1])
  BY <1>7
<1>9. /\ Sound(drv', os', due) /\ Calm(drv')
      /\ Keeps(ClosePipes(d), os, drv', os')
  BY <1>1, <1>8, ContinueKeeps
<1>10. Keeps(drv, os, drv', os')
  BY <1>6, <1>7, <1>9, KeepsTrans
<1> QED BY <1>1, <1>9, <1>10, LoopTurn, KeepsIsFinal DEF DrainEvent

LEMMA PipeEventInv == ASSUME Inv, NEW s, PipeEvent(s) PROVE Inv' /\ FinalStep
<1>1. pc \in Running /\ Continue(PipeResults(drv, os, s)) /\ s \in drv.open
  BY DEF PipeEvent, Quiet, Readable
<1>2. Sound(drv, os, due) /\ Calm(drv) /\ drv \in DriverType /\ os \in WorldType
  BY <1>1, RunningFacts
<1>3. \A r \in PipeResults(drv, os, s) :
        Sound(r[1], r[2], due) /\ Calm(r[1]) /\ Keeps(drv, os, r[1], r[2])
  BY <1>1, <1>2, PipeResultsKeeps
<1>4. /\ Sound(drv', os', due) /\ Calm(drv')
      /\ \E r \in PipeResults(drv, os, s) : Keeps(r[1], r[2], drv', os')
  BY <1>1, <1>3, ContinueKeeps
<1>5. Keeps(drv, os, drv', os')
  BY <1>3, <1>4, KeepsTrans
<1> QED BY <1>1, <1>4, <1>5, LoopTurn, KeepsIsFinal DEF PipeEvent

LEMMA TickEventInv == ASSUME Inv, TickEvent PROVE Inv' /\ FinalStep
<1>1. pc \in Running
  BY DEF TickEvent, Quiet
<1>2. Sound(drv, os, due) /\ Calm(drv) /\ os.leader # "none"
  BY <1>1, RunningFacts
<1>3. PICK r \in Polled(drv, os) : \E e \in EnsureCleanup(r[1], r[2]) :
          Continue({<<Seen(e[1], e[2]), e[2]>>})
  BY DEF TickEvent
<1>4. PICK e \in EnsureCleanup(r[1], r[2]) : Continue({<<Seen(e[1], e[2]), e[2]>>})
  BY <1>3
<1>5. /\ Sound(r[1], r[2], due) /\ Calm(r[1]) /\ Keeps(drv, os, r[1], r[2])
      /\ r[1] \in DriverType /\ r[2] \in WorldType
  BY <1>2, PolledKeeps DEF Reached, Sound
<1>6. /\ Sound(e[1], e[2], due) /\ Calm(e[1]) /\ Keeps(r[1], r[2], e[1], e[2])
      /\ e[1] \in DriverType /\ e[2] \in WorldType /\ e[2].leader # "none"
  BY <1>2, <1>5, EnsureCleanupKeeps DEF Sound, Keeps
<1> DEFINE d == Seen(e[1], e[2])
<1>7. Sound(d, e[2], due) /\ Calm(d) /\ Keeps(e[1], e[2], d, e[2])
  BY <1>6, SeenKeeps
<1> HIDE DEF d
<1>8. \A q \in {<<d, e[2]>>} : Sound(q[1], q[2], due) /\ Calm(q[1])
  BY <1>7
<1>9. /\ Sound(drv', os', due) /\ Calm(drv')
      /\ Keeps(d, e[2], drv', os')
  BY <1>4, <1>8, ContinueKeeps DEF d
<1>10. Keeps(drv, os, drv', os')
  BY <1>5, <1>6, <1>7, <1>9, KeepsTrans
<1> QED BY <1>1, <1>9, <1>10, LoopTurn, KeepsIsFinal DEF TickEvent

\* The leader cannot be verified any more.
LEMMA LosesInv ==
    ASSUME Inv, pc \in Running, NEW anchor \in {"exited", "unowned"}, Lose(anchor),
           os' \in {os, Faulty(os)}, scan' \in {scan, NoScan}, reap' \in {reap, "none"},
           UNCHANGED <<due, stop, worker, outcome>>
    PROVE  Inv' /\ FinalStep
<1>1. /\ Sound(drv, os, due) /\ drv \in DriverType /\ os \in WorldType
      /\ due \in SUBSET Stops /\ outcome = NoOutcome
  BY RunningFacts
<1> DEFINE d == ClosePipes(drv)
<1>2. Sound(d, os, due) /\ Keeps(drv, os, d, os) /\ d \in DriverType
  BY <1>1, ClosePipesKeeps
<1>3. Sound(d, os', due) /\ Keeps(d, os, d, os')
  BY <1>1, <1>2, FaultyKeeps, KeepsRefl
<1>4. drv' = [d EXCEPT !.anchor = anchor] /\ pc' = "losing"
  BY DEF Lose
<1>5. drv' \in DriverType
  BY <1>2, <1>4 DEF DriverType
<1>6. /\ drv'.primary = d.primary /\ drv'.natural = d.natural /\ drv'.turnStop = d.turnStop
      /\ drv'.open = d.open /\ drv'.cut = d.cut /\ drv'.got = d.got
      /\ drv'.armed = d.armed /\ drv'.passes = d.passes
  BY <1>2, <1>4 DEF DriverType
<1>7. Sound(drv', os', due)
  BY <1>3, <1>5, <1>6 DEF Sound
<1>8. Keeps(d, os', drv', os')
  BY <1>6 DEF Keeps
<1> HIDE DEF d
<1>9. Keeps(drv, os, drv', os')
  BY <1>2, <1>3, <1>8, KeepsTrans
<1>10. scan' \in ScanType /\ (scan'.result # "none" => scan.result # "none")
  <2>1. NoScan \in ScanType /\ NoScan.result = "none"
    BY DEF ScanType, NoScan
  <2> QED BY <2>1 DEF Inv, Types
<1>11. Types'
  <2>1. os' \in WorldType
    BY <1>7 DEF Sound
  <2>2. TypeOK'
    BY <1>4, <1>5, <1>7 DEF Inv, Types, TypeOK, Sound, DriverType
  <2> QED BY <1>5, <1>10, <2>1, <2>2 DEF Types
<1>12. PlaceInv'
  <2>1. Sound(drv, os, due)'
    BY <1>7 DEF Sound
  <2> QED BY <1>1, <1>4, <2>1 DEF PlaceInv, Preparation, Running
<1>13. ReapInv'
  BY <1>4, <1>9 DEF Inv, ReapInv, Keeps
<1>14. ScanInv'
  BY <1>4, <1>9, <1>10 DEF Inv, ScanInv, Keeps, Running
<1>15. CauseIsTrue' /\ QuiescentIsGone'
  BY <1>1 DEF NoOutcome, CauseIsTrue, QuiescentIsGone
<1>16. ~os'.stray
  BY <1>7 DEF Sound
<1> QED BY <1>9, <1>11, <1>12, <1>13, <1>14, <1>15, <1>16, KeepsIsFinal DEF Inv

LEMMA TickLostInv == ASSUME Inv, TickLost PROVE Inv' /\ FinalStep
BY LosesInv DEF TickLost, Quiet

LEMMA StartScanInv == ASSUME Inv, StartScan PROVE Inv' /\ FinalStep
<1>1. /\ pc = "observing" /\ drv.natural # "none" /\ scan.result = "none"
      /\ scan' = [NoScan EXCEPT !.result = "running", !.left = Members]
      /\ UNCHANGED <<pc, due, stop, worker, drv, os, reap, outcome>>
  BY DEF StartScan
<1>2. /\ scan' \in ScanType /\ scan'.result = "running" /\ scan'.left = Members
  BY <1>1 DEF ScanType, NoScan
<1>3. Types'
  BY <1>1, <1>2 DEF Inv, Types, TypeOK
<1>4. PlaceInv'
  BY <1>1 DEF Inv, PlaceInv, Preparation, Running, Sound, Calm
<1>5. ReapInv'
  BY <1>1 DEF Inv, ReapInv
<1>6. ScanInv'
  BY <1>1, <1>2 DEF Inv, ScanInv, Gone, Told, Running
<1>7. CauseIsTrue' /\ QuiescentIsGone' /\ FinalStep
  BY <1>1, RunningFacts DEF NoOutcome, CauseIsTrue, QuiescentIsGone, Running, FinalStep
<1> QED BY <1>1, <1>3, <1>4, <1>5, <1>6, <1>7 DEF Inv

\* The loop takes a finished scan; d is what it makes of the driver.
LEMMA ScanTurn ==
    ASSUME Inv, pc = "observing", scan.result # "none", scan' = NoScan,
           UNCHANGED <<due, stop, worker, outcome>>,
           NEW d \in DriverType,
           d.turnStop = drv.turnStop, d.natural = drv.natural, d.open = drv.open,
           d.cut = drv.cut, d.got = drv.got, d.flags = drv.flags, d.term = drv.term,
           d.kill = drv.kill, d.grace \in {drv.grace, "off"},
           d.primary \in {drv.primary, First(drv.primary, "background")},
           Continue({<<d, os>>}),
           \/ pc' = pc /\ reap' = reap /\ d.armed = drv.armed /\ d.passes = 0
           \/ /\ pc' = pc /\ reap' = reap /\ d.armed = drv.armed
              /\ scan.result = "complete" /\ d.passes = drv.passes + 1 /\ d.passes < 2
           \/ /\ pc' = "reaping" /\ reap' = "running" /\ ~d.armed
              /\ scan.result = "complete" /\ d.passes = drv.passes + 1 /\ d.passes = 2
    PROVE  Inv' /\ FinalStep
<1>1. /\ Sound(drv, os, due) /\ Calm(drv) /\ drv \in DriverType /\ os \in WorldType
      /\ due \in SUBSET Stops /\ outcome = NoOutcome /\ os.leader # "none"
  BY RunningFacts DEF Running
<1>2. d.armed => drv.armed
  OBVIOUS
<1>3. d.primary # drv.primary => drv.primary = "none" /\ d.primary = "background"
  BY DEF First
<1>4. Sound(d, os, due)
  BY <1>1, <1>2, <1>3 DEF Sound, Stops, TurnStops
<1>5. Calm(d)
  BY <1>1, <1>3 DEF Calm
<1>6. \A r \in {<<d, os>>} : Sound(r[1], r[2], due) /\ Calm(r[1])
  BY <1>4, <1>5
<1>7. Sound(drv', os', due) /\ Calm(drv') /\ Keeps(d, os, drv', os')
  BY <1>6, ContinueKeeps
<1>8. drv' \in DriverType /\ os' \in WorldType /\ ~os'.stray
  BY <1>7 DEF Sound
<1>9. NoScan \in ScanType /\ NoScan.result = "none"
  BY DEF ScanType, NoScan
<1>10. Types'
  <2>1. TypeOK'
    BY <1>7, <1>8 DEF Inv, Types, TypeOK, Sound, DriverType, Running
  <2> QED BY <1>8, <1>9, <2>1 DEF Types
<1>11. PlaceInv'
  <2>1. Sound(drv, os, due)' /\ Calm(drv)'
    BY <1>7 DEF Sound, Calm
  <2>2. os'.leader # "none"
    BY <1>1, <1>7 DEF Keeps
  <2> QED BY <1>1, <2>1, <2>2 DEF PlaceInv, Preparation
<1>12. drv.natural # "none" /\ drv'.natural = drv.natural
  BY <1>7 DEF Inv, ScanInv, Keeps
<1>13. drv'.armed = d.armed /\ drv'.passes = d.passes /\ os'.behind = os.behind
  BY <1>7 DEF Keeps
<1>14. ReapInv'
  BY <1>12, <1>13 DEF Inv, ReapInv
<1>15. ScanInv'
  <2>1. Gone(os) => Gone(os')
    BY <1>7 DEF Gone, Keeps
  <2>2. ASSUME MaxBehind <= 1, scan.result = "complete"
        PROVE  (drv.passes > 0 => Gone(os)) /\ (os.behind = 0 => Gone(os))
    BY <2>2 DEF Inv, ScanInv, Told
  <2>3. drv.passes \in 0 .. 2 /\ os.behind \in Nat
    BY <1>1 DEF DriverType, WorldType
  <2>4. ASSUME MaxBehind <= 1 PROVE os.behind = 0 \/ os.behind = 1
    BY <2>3, <2>4, BoundsAssumption DEF Inv, ScanInv
  <2>5. ASSUME MaxBehind <= 1
        PROVE  /\ os'.behind <= MaxBehind
               /\ pc' = "reaping" => Gone(os')
               /\ pc' = "observing" /\ drv'.passes > 0 => Gone(os') \/ os'.behind = 1
    BY <1>13, <2>1, <2>2, <2>3, <2>4, <2>5 DEF Inv, ScanInv
  <2> QED BY <1>9, <1>12, <2>5 DEF ScanInv
<1>16. CauseIsTrue' /\ QuiescentIsGone'
  BY <1>1 DEF NoOutcome, CauseIsTrue, QuiescentIsGone
<1>17. FinalStep
  BY <1>3, <1>7 DEF FinalStep, Keeps
<1> QED BY <1>8, <1>10, <1>11, <1>14, <1>15, <1>16, <1>17 DEF Inv

LEMMA ScanEventInv == ASSUME Inv, ScanEvent PROVE Inv' /\ FinalStep
<1>1. /\ pc \in Running /\ scan.result \notin {"none", "running"} /\ scan' = NoScan
      /\ UNCHANGED <<due, stop, worker, outcome>>
  BY DEF ScanEvent, Quiet
<1>2. pc = "observing" /\ drv.passes < 2
  BY <1>1 DEF Inv, ScanInv, ReapInv, Running
<1>3. drv \in DriverType /\ scan \in ScanType
  BY DEF Inv, Types
<1>4. CASE scan.result = "lost"
  <2>1. Lose("exited") /\ UNCHANGED <<os, reap>>
    BY <1>4 DEF ScanEvent
  <2> QED BY <1>1, <2>1, LosesInv
<1>5. CASE scan.result = "live"
  <2> DEFINE d == ScanLive(drv)
  <2>1. Continue({<<d, os>>}) /\ UNCHANGED <<pc, reap>>
    BY <1>5 DEF ScanEvent
  <2>2. d \in DriverType
    <3>1. Reset(drv) \in DriverType
      BY <1>3 DEF DriverType, Reset
    <3>2. First(Reset(drv).primary, "background") \in Causes \cup {"none"}
      BY <3>1 DEF DriverType, First, Causes
    <3> QED BY <3>1, <3>2 DEF DriverType, ScanLive
  <2>3. /\ d.turnStop = drv.turnStop /\ d.natural = drv.natural /\ d.open = drv.open
        /\ d.cut = drv.cut /\ d.got = drv.got /\ d.flags = drv.flags /\ d.term = drv.term
        /\ d.kill = drv.kill /\ d.grace = drv.grace /\ d.armed = drv.armed /\ d.passes = 0
        /\ d.primary = First(drv.primary, "background")
    BY <1>3 DEF DriverType, ScanLive, Reset
  <2> HIDE DEF d
  <2> QED BY <1>1, <1>2, <2>1, <2>2, <2>3, ScanTurn
<1>6. CASE scan.result \in {"unknown", "mutated"}
  <2> DEFINE d == Reset(drv)
  <2>1. Continue({<<d, os>>}) /\ UNCHANGED <<pc, reap>>
    BY <1>6 DEF ScanEvent
  <2>2. d \in DriverType
    BY <1>3 DEF DriverType, Reset
  <2>3. /\ d.turnStop = drv.turnStop /\ d.natural = drv.natural /\ d.open = drv.open
        /\ d.cut = drv.cut /\ d.got = drv.got /\ d.flags = drv.flags /\ d.term = drv.term
        /\ d.kill = drv.kill /\ d.grace = drv.grace /\ d.armed = drv.armed /\ d.passes = 0
        /\ d.primary = drv.primary
    BY <1>3 DEF DriverType, Reset
  <2> HIDE DEF d
  <2> QED BY <1>1, <1>2, <2>1, <2>2, <2>3, ScanTurn
<1>7. CASE scan.result = "complete" /\ ~EnoughPasses(drv.passes + 1)
  <2> DEFINE d == [drv EXCEPT !.passes = @ + 1]
  <2>1. Continue({<<d, os>>}) /\ UNCHANGED <<pc, reap>>
    BY <1>7 DEF ScanEvent
  <2>2. drv.passes \in 0 .. 2 /\ drv.passes + 1 < 2
    BY <1>3, <1>7 DEF DriverType, EnoughPasses
  <2>3. d \in DriverType
    BY <1>3, <2>2 DEF DriverType
  <2>4. /\ d.turnStop = drv.turnStop /\ d.natural = drv.natural /\ d.open = drv.open
        /\ d.cut = drv.cut /\ d.got = drv.got /\ d.flags = drv.flags /\ d.term = drv.term
        /\ d.kill = drv.kill /\ d.grace = drv.grace /\ d.armed = drv.armed
        /\ d.passes = drv.passes + 1 /\ d.primary = drv.primary
    BY <1>3 DEF DriverType
  <2> HIDE DEF d
  <2> QED BY <1>1, <1>2, <1>7, <2>1, <2>2, <2>3, <2>4, ScanTurn
<1>8. CASE scan.result = "complete" /\ EnoughPasses(drv.passes + 1)
  <2> DEFINE e == [drv EXCEPT !.passes = @ + 1]
             d == BeginReap(e)
  <2>1. Continue({<<d, os>>}) /\ pc' = "reaping" /\ reap' = "running"
    BY <1>8 DEF ScanEvent
  <2>2. drv.passes + 1 = 2
    BY <1>2, <1>3, <1>8 DEF DriverType, EnoughPasses
  <2>3. e \in DriverType
    BY <1>3, <2>2 DEF DriverType
  <2>4. /\ e.turnStop = drv.turnStop /\ e.natural = drv.natural /\ e.open = drv.open
        /\ e.cut = drv.cut /\ e.got = drv.got /\ e.flags = drv.flags /\ e.term = drv.term
        /\ e.kill = drv.kill /\ e.passes = drv.passes + 1 /\ e.primary = drv.primary
    BY <1>3 DEF DriverType
  <2> HIDE DEF e
  <2>5. d \in DriverType
    BY <2>3 DEF DriverType, BeginReap
  <2>6. /\ d.turnStop = e.turnStop /\ d.natural = e.natural /\ d.open = e.open
        /\ d.cut = e.cut /\ d.got = e.got /\ d.flags = e.flags /\ d.term = e.term
        /\ d.kill = e.kill /\ d.grace = "off" /\ ~d.armed
        /\ d.passes = e.passes /\ d.primary = e.primary
    BY <2>3 DEF DriverType, BeginReap
  <2> HIDE DEF d
  <2> QED BY <1>1, <1>2, <1>8, <2>1, <2>2, <2>4, <2>5, <2>6, ScanTurn
<1> QED BY <1>1, <1>3, <1>4, <1>5, <1>6, <1>7, <1>8 DEF ScanType

LEMMA ReapEventInv == ASSUME Inv, ReapEvent PROVE Inv' /\ FinalStep
<1>1. /\ pc \in Running /\ reap \in {"ok", "bad"} /\ reap' = "none"
      /\ UNCHANGED <<due, stop, worker, scan, outcome>>
  BY DEF ReapEvent, Quiet
<1>2. CASE reap = "bad"
  BY <1>1, <1>2, LosesInv DEF ReapEvent
<1>3. CASE reap = "ok"
  <2> DEFINE d == [drv EXCEPT !.drain = "armed"]
  <2>1. pc' = "draining" /\ Continue({<<d, os>>})
    BY <1>1, <1>3 DEF ReapEvent
  <2>2. /\ Sound(drv, os, due) /\ Calm(drv) /\ drv \in DriverType /\ os \in WorldType
        /\ outcome = NoOutcome /\ os.leader # "none"
    BY <1>1, RunningFacts
  <2>3. d \in DriverType
    BY <2>2 DEF DriverType
  <2>4. /\ d.primary = drv.primary /\ d.natural = drv.natural /\ d.turnStop = drv.turnStop
        /\ d.open = drv.open /\ d.cut = drv.cut /\ d.got = drv.got /\ d.flags = drv.flags
        /\ d.term = drv.term /\ d.kill = drv.kill /\ d.grace = drv.grace
        /\ d.armed = drv.armed /\ d.passes = drv.passes
    BY <2>2 DEF DriverType
  <2>5. Sound(d, os, due) /\ Calm(d) /\ Keeps(drv, os, d, os)
    BY <2>2, <2>3, <2>4 DEF Sound, Calm, Keeps
  <2> HIDE DEF d
  <2>6. \A r \in {<<d, os>>} : Sound(r[1], r[2], due) /\ Calm(r[1])
    BY <2>5
  <2>7. Sound(drv', os', due) /\ Calm(drv') /\ Keeps(d, os, drv', os')
    BY <2>1, <2>6, ContinueKeeps
  <2>8. Keeps(drv, os, drv', os')
    BY <2>5, <2>7, KeepsTrans
  <2>9. drv' \in DriverType /\ os' \in WorldType /\ ~os'.stray
    BY <2>7 DEF Sound
  <2>10. pc # "observing" /\ pc \in {"reaping", "draining"}
    BY <1>1, <1>3 DEF Inv, ReapInv, Running
  <2>11. Types'
    <3>1. TypeOK'
      BY <1>1, <2>1, <2>7, <2>9 DEF Inv, Types, TypeOK, Sound, DriverType, Running
    <3> QED BY <1>1, <2>9, <3>1 DEF Inv, Types
  <2>12. PlaceInv'
    <3>1. Sound(drv, os, due)' /\ Calm(drv)'
      BY <1>1, <2>7 DEF Sound, Calm
    <3> QED BY <1>1, <2>1, <2>2, <2>8, <3>1 DEF PlaceInv, Preparation, Keeps
  <2>13. ReapInv'
    BY <1>1, <1>3, <2>1, <2>8, <2>10 DEF Inv, ReapInv, Keeps
  <2>14. ScanInv'
    <3>1. Gone(os) => Gone(os')
      BY <2>8 DEF Gone, Keeps
    <3> QED BY <1>1, <2>1, <2>8, <2>10, <3>1 DEF Inv, ScanInv, Keeps, Running, ReapInv
  <2>15. CauseIsTrue' /\ QuiescentIsGone'
    BY <1>1, <2>2 DEF NoOutcome, CauseIsTrue, QuiescentIsGone
  <2> QED BY <2>8, <2>9, <2>11, <2>12, <2>13, <2>14, <2>15, KeepsIsFinal DEF Inv
<1> QED BY <1>1, <1>2, <1>3

-----------------------------------------------------------------------------
(* The ends of a call.                                                     *)

\* A call that ends leaves the world as it is.
LEMMA EndsInv ==
    ASSUME Inv, pc' = "ended", scan.result = "none",
           UNCHANGED <<due, drv, os, scan>>,
           stop' \in PrepStops \cup {"none"},
           worker' \in {"idle", "running", "ok", "failed", "panicked"}, reap' \in {reap, "none"},
           CauseIsTrue', MaxBehind <= 1 => QuiescentIsGone'
    PROVE  Inv' /\ FinalStep
<1>1. Types'
  BY DEF Inv, Types, TypeOK
<1>2. PlaceInv'
  BY DEF PlaceInv, Preparation, Running
<1>3. ReapInv'
  BY DEF Inv, ReapInv
<1>4. ScanInv'
  BY DEF Inv, ScanInv, Running
<1>5. FinalStep
  BY DEF FinalStep
<1> QED BY <1>1, <1>2, <1>3, <1>4, <1>5 DEF Inv

\* An end that is not a report of the driver.
LEMMA EndsOtherwise ==
    ASSUME NEW kind, kind # "quiescent", NEW cause, NEW turnStop, End(kind, cause, turnStop)
    PROVE  CauseIsTrue' /\ QuiescentIsGone' /\ pc' = "ended"
<1>1. pc' = "ended" /\ outcome'.kind # "quiescent"
  BY DEF End
<1> QED BY <1>1 DEF CauseIsTrue, QuiescentIsGone

LEMMA FinishInv == ASSUME Inv, Finish PROVE Inv' /\ FinalStep
<1>1. /\ pc = "draining" /\ drv.open = {} /\ pc' = "ended"
      /\ outcome' = [kind |-> "quiescent",
                     cause |-> IF drv.primary = "none" THEN "natural" ELSE drv.primary,
                     turnStop |-> drv.turnStop, how |-> drv.natural]
      /\ UNCHANGED <<due, stop, worker, drv, os, scan, reap>>
  BY DEF Finish, End
<1>2. Sound(drv, os, due) /\ Calm(drv) /\ drv \in DriverType
  BY <1>1, RunningFacts DEF Running
<1>3. /\ outcome'.kind = "quiescent" /\ outcome'.how = drv.natural
      /\ outcome'.turnStop = drv.turnStop
      /\ outcome'.cause = IF drv.primary = "none" THEN "natural" ELSE drv.primary
  BY <1>1
<1>4. ASSUME MaxBehind <= 1 PROVE QuiescentIsGone'
  <2>1. os.leader = "reaped" /\ drv.natural = os.how /\ \A m \in Members : os.group[m] = "none"
    BY <1>1, <1>2, <1>4 DEF Inv, ReapInv, ScanInv, Sound, Gone
  <2> QED BY <1>1, <1>3, <2>1 DEF QuiescentIsGone
<1>5. CauseIsTrue'
  <2>1. CASE drv.primary = "none"
    BY <1>1, <1>2, <1>3, <2>1 DEF CauseIsTrue, Sound, Calm, Stops, TurnStops
  <2>2. CASE drv.primary # "none"
    <3>1. drv.primary # "natural"
      BY <1>2, <2>2 DEF DriverType, Causes, Stops
    <3> QED BY <1>1, <1>2, <1>3, <2>2, <3>1 DEF CauseIsTrue, Sound
  <2> QED BY <2>1, <2>2
<1>6. scan.result = "none"
  BY <1>1 DEF Inv, ScanInv
<1> QED BY <1>1, <1>4, <1>5, <1>6, EndsInv DEF Inv, Types, TypeOK

LEMMA LostEndsInv == ASSUME Inv, LostEnds PROVE Inv' /\ FinalStep
<1>1. /\ pc = "lost" /\ End("lost", "none", drv.turnStop) /\ reap' = "none"
      /\ UNCHANGED <<due, stop, worker, drv, os, scan>>
  BY DEF LostEnds
<1>2. scan.result = "none"
  BY <1>1 DEF Inv, ScanInv
<1>3. CauseIsTrue' /\ QuiescentIsGone' /\ pc' = "ended"
  BY <1>1, EndsOtherwise
<1> QED BY <1>1, <1>2, <1>3, EndsInv DEF Inv, Types, TypeOK

\* A step of a driver that has lost its leader.
LEMMA LostTurn ==
    ASSUME Inv, pc \in {"losing", "lost"}, pc' \in {"losing", "lost"},
           Sound(drv', os', due), drv.natural # "none" => drv'.natural # "none",
           UNCHANGED <<due, stop, worker, outcome>>,
           scan' \in ScanType, reap' \in {"none", "running", "ok", "bad"},
           scan'.result # "none" => scan.result # "none" /\ pc' = "losing",
           reap' # "none" => ~drv'.armed, reap' \in {"ok", "bad"} => os'.leader = "reaped",
           os'.behind = os.behind
    PROVE  Inv'
<1>1. drv' \in DriverType /\ os' \in WorldType /\ ~os'.stray
  BY DEF Sound
<1>2. Types'
  <2>1. TypeOK'
    BY <1>1 DEF Inv, Types, TypeOK, Sound, DriverType
  <2> QED BY <1>1, <2>1 DEF Types
<1>3. outcome' = NoOutcome
  BY DEF Inv, PlaceInv
<1>4. PlaceInv'
  <2>1. Sound(drv, os, due)'
    BY DEF Sound
  <2> QED BY <1>3, <2>1 DEF PlaceInv, Preparation, Running
<1>5. ReapInv'
  BY DEF Inv, ReapInv
<1>6. ScanInv'
  BY DEF Inv, ScanInv, Running
<1>7. CauseIsTrue' /\ QuiescentIsGone'
  BY <1>3 DEF NoOutcome, CauseIsTrue, QuiescentIsGone
<1> QED BY <1>1, <1>2, <1>4, <1>5, <1>6, <1>7 DEF Inv

LEMMA LostStopInv == ASSUME Inv, NEW s \in TurnStops, LostStop(s) PROVE Inv' /\ FinalStep
<1>1. /\ pc \in {"losing", "lost"} /\ s \in due /\ drv.turnStop = "none"
      /\ drv' = Observe(drv, s) /\ UNCHANGED <<pc, due, stop, worker, os, scan, reap, outcome>>
  BY DEF LostStop
<1>2. Sound(drv, os, due) /\ drv \in DriverType /\ os \in WorldType /\ due \in SUBSET Stops
  BY <1>1 DEF Inv, PlaceInv, Types, TypeOK
<1>3. Sound(drv', os', due) /\ Keeps(drv, os, drv', os')
  BY <1>1, <1>2, ObserveKeeps DEF TurnStops
<1>4. drv'.natural = drv.natural /\ drv'.armed = drv.armed
  BY <1>1, <1>2 DEF Observe, DriverType
<1>5. Inv'
  BY <1>1, <1>3, <1>4, LostTurn DEF Inv, Types, TypeOK, ReapInv, ScanInv
<1> QED BY <1>3, <1>5, KeepsIsFinal

LEMMA LostKillInv == ASSUME Inv, LostKill PROVE Inv' /\ FinalStep
<1>1. /\ pc = "losing" /\ pc' = "lost" /\ scan' = NoScan
      /\ reap' \in {"none", "running"} /\ UNCHANGED <<due, stop, worker, outcome>>
  BY DEF LostKill
<1>2. Sound(drv, os, due) /\ drv \in DriverType /\ os \in WorldType
  BY <1>1 DEF Inv, PlaceInv, Types
<1>3. PICK r \in IF drv.anchor = "exited" THEN SendKill(drv, os) ELSE {<<drv, os>>} :
          drv' = BeginReap(r[1]) /\ os' = r[2]
  BY DEF LostKill
<1>4. /\ Sound(r[1], r[2], due) /\ Keeps(drv, os, r[1], r[2])
      /\ r[1] \in DriverType /\ r[2] \in WorldType
  <2>1. CASE r \in SendKill(drv, os)
    BY <1>2, <2>1, SendKillKeeps
  <2>2. CASE r = <<drv, os>>
    BY <1>2, <2>2, KeepsRefl
  <2> QED BY <2>1, <2>2
<1>5. drv' \in DriverType
  BY <1>3, <1>4 DEF DriverType, BeginReap
<1>6. /\ drv'.primary = r[1].primary /\ drv'.natural = r[1].natural
      /\ drv'.turnStop = r[1].turnStop /\ drv'.open = r[1].open /\ drv'.cut = r[1].cut
      /\ drv'.got = r[1].got /\ ~drv'.armed
  BY <1>3, <1>4 DEF DriverType, BeginReap
<1>7. Sound(drv', os', due)
  BY <1>3, <1>4, <1>5, <1>6 DEF Sound
<1>8. drv.natural # "none" => drv'.natural # "none"
  BY <1>4, <1>6 DEF Keeps
<1>9. NoScan \in ScanType /\ NoScan.result = "none"
  BY DEF ScanType, NoScan
<1>10. os'.behind = os.behind
  BY <1>3, <1>4 DEF Keeps
<1>11. Inv'
  BY <1>1, <1>6, <1>7, <1>8, <1>9, <1>10, LostTurn
<1>12. FinalStep
  BY <1>4, <1>6 DEF FinalStep, Keeps
<1> QED BY <1>11, <1>12

LEMMA DropFutureInv == ASSUME Inv, DropFuture PROVE Inv' /\ FinalStep
<1>1. /\ pc \in Running \cup {"losing", "lost"} /\ pc' = "dropped"
      /\ drv' = NewDriver /\ scan' = NoScan /\ reap' = "none"
      /\ os' = IF drv.armed /\ os.leader \in {"running", "zombie"}
               THEN Delivered(os, "KILL") ELSE os
      /\ UNCHANGED <<due, stop, worker, outcome>>
  BY DEF DropFuture
<1>2. /\ Sound(drv, os, due) /\ drv \in DriverType /\ os \in WorldType
      /\ outcome = NoOutcome /\ Limit \in Nat
  BY <1>1, BoundsAssumption DEF Inv, PlaceInv, Types, Running
<1>3. os' \in {os, Killed(os)}
  BY <1>1 DEF Delivered
<1>4. os' \in WorldType /\ ~os'.stray /\ os'.behind = os.behind
  BY <1>2, <1>3, KilledKeeps DEF Sound, Keeps
<1>5. NoScan \in ScanType /\ NoScan.result = "none"
  BY DEF ScanType, NoScan
<1>6. NewDriver \in DriverType
  BY DEF DriverType, NewDriver
<1>7. Types'
  <2>1. TypeOK'
    BY <1>1, <1>2 DEF Inv, Types, TypeOK, NewDriver
  <2> QED BY <1>1, <1>4, <1>5, <1>6, <2>1 DEF Types
<1>8. PlaceInv'
  BY <1>1, <1>2 DEF PlaceInv, Preparation, Running
<1>9. ReapInv'
  BY <1>1 DEF ReapInv
<1>10. ScanInv'
  BY <1>1, <1>4, <1>5 DEF Inv, ScanInv, Running
<1>11. CauseIsTrue' /\ QuiescentIsGone' /\ FinalStep
  BY <1>1, <1>2 DEF NoOutcome, CauseIsTrue, QuiescentIsGone, FinalStep
<1> QED BY <1>4, <1>7, <1>8, <1>9, <1>10, <1>11 DEF Inv

-----------------------------------------------------------------------------
(* Before the child exists.                                                *)

LEMMA SampleStartIn ==
    ASSUME due \in SUBSET Stops
    PROVE  SampleStart \in (due \cup {"none"}) /\ SampleStart \in PrepStops \cup {"none"}
<1>1. CASE due \ {"command"} = {}
  BY <1>1 DEF SampleStart
<1>2. CASE due \ {"command"} # {}
  <2>1. FirstOf(due \ {"command"}) \in due \ {"command"}
    BY <1>2, FirstOfIn
  <2> QED BY <1>2, <2>1 DEF SampleStart, Stops, PrepStops
<1> QED BY <1>1, <1>2

LEMMA FreshFacts ==
    ASSUME Inv, pc \in Preparation
    PROVE  /\ Sound(drv, os, due) /\ drv \in DriverType /\ os \in WorldType /\ Fresh
           /\ due \in SUBSET Stops /\ outcome = NoOutcome
           /\ drv.primary = "none" /\ drv.natural = "none" /\ ~drv.armed /\ drv.passes = 0
           /\ scan.result = "none" /\ reap = "none" /\ (MaxBehind <= 1 => os.behind <= MaxBehind)
<1>1. Fresh /\ Sound(drv, os, due) /\ outcome = NoOutcome
  BY DEF Inv, PlaceInv, Preparation
<1>2. /\ drv.primary = "none" /\ drv.natural = "none" /\ ~drv.armed /\ drv.passes = 0
  BY <1>1 DEF Fresh, NewDriver
<1> QED BY <1>1, <1>2 DEF Inv, Types, TypeOK, Fresh, NoScan, ScanInv

\* A step of the preparation that neither ends the call nor starts the child.
LEMMA PrepTurn ==
    ASSUME Inv, pc \in Preparation, pc' \in Preparation, UNCHANGED <<due, os, scan, reap, outcome>>,
           stop' \in PrepStops \cup {"none"},
           worker' \in {"idle", "running", "ok", "failed", "panicked"},
           pc' \in {"setup", "check"} => worker' # "idle",
           NEW told \in TurnStops \cup {"none"}, told \in due \cup {"none"},
           drv' = [drv EXCEPT !.turnStop = told],
           drv.turnStop # "none" => told = drv.turnStop,
           stop' = "none" => told = "none", pc' \in {"ask", "start", "spawn"} => stop' = "none"
    PROVE  Inv' /\ FinalStep
<1>1. /\ Sound(drv, os, due) /\ drv \in DriverType /\ os \in WorldType /\ Fresh
      /\ due \in SUBSET Stops /\ outcome = NoOutcome
      /\ drv.primary = "none" /\ drv.natural = "none" /\ ~drv.armed /\ drv.passes = 0
      /\ scan.result = "none" /\ reap = "none" /\ (MaxBehind <= 1 => os.behind <= MaxBehind)
  BY FreshFacts
<1>2. drv' \in DriverType
  BY <1>1 DEF DriverType
<1>3. /\ drv'.primary = drv.primary /\ drv'.natural = drv.natural /\ drv'.turnStop = told
      /\ drv'.open = drv.open /\ drv'.cut = drv.cut /\ drv'.got = drv.got
      /\ drv'.armed = drv.armed /\ drv'.passes = drv.passes
  BY <1>1 DEF DriverType
<1>4. Sound(drv', os, due)
  BY <1>1, <1>2, <1>3 DEF Sound, TurnStops
<1>5. Types'
  <2>1. TypeOK'
    BY <1>1, <1>2, <1>4 DEF Inv, Types, TypeOK, Sound, DriverType, Preparation, Running
  <2> QED BY <1>1, <1>2, <2>1 DEF Inv, Types
<1>6. drv' = [NewDriver EXCEPT !.turnStop = told]
  <2>1. drv = [NewDriver EXCEPT !.turnStop = drv.turnStop]
    BY <1>1 DEF Fresh
  <2> QED BY <2>1 DEF NewDriver
<1>7. Fresh'
  BY <1>1, <1>3, <1>6 DEF Fresh
<1>8. PlaceInv'
  <2>1. Sound(drv, os, due)'
    BY <1>4 DEF Sound
  <2> QED BY <1>1, <1>7, <2>1 DEF PlaceInv, Preparation, Running
<1>9. ReapInv'
  BY <1>1, <1>3 DEF ReapInv, Preparation
<1>10. ScanInv'
  BY <1>1, <1>3 DEF ScanInv, Preparation, Running
<1>11. CauseIsTrue' /\ QuiescentIsGone'
  BY <1>1 DEF NoOutcome, CauseIsTrue, QuiescentIsGone
<1>12. ~os'.stray
  BY <1>1 DEF Sound
<1>13. FinalStep
  BY <1>1, <1>3 DEF FinalStep
<1> QED BY <1>5, <1>8, <1>9, <1>10, <1>11, <1>12, <1>13 DEF Inv

LEMMA WorkerEndsInv ==
    ASSUME Inv, NEW r \in {"ok", "failed", "panicked"}, WorkerEnds(r)
    PROVE  Inv' /\ FinalStep
<1>1. /\ pc \in {"setup", "check"} /\ worker' = r
      /\ UNCHANGED <<pc, due, stop, drv, os, scan, reap, outcome>>
  BY DEF WorkerEnds, Preparing
<1>2. Fresh /\ Sound(drv, os, due) /\ drv \in DriverType
  BY <1>1, FreshFacts DEF Preparation
<1>3. drv' = [drv EXCEPT !.turnStop = drv.turnStop]
  BY <1>1, <1>2 DEF DriverType
<1>4. drv.turnStop \in TurnStops \cup {"none"} /\ drv.turnStop \in due \cup {"none"}
  BY <1>2 DEF DriverType, Sound
<1> QED BY <1>1, <1>2, <1>3, <1>4, PrepTurn DEF Preparation, Fresh, Inv, Types, TypeOK

LEMMA PrepStopInv == ASSUME Inv, PrepStop PROVE Inv' /\ FinalStep
<1> DEFINE s == FirstOf(PrepHeard)
           told == First(drv.turnStop, TurnStopOf(s))
<1>1. /\ pc \in {"setup", "check"} /\ PrepHeard # {} /\ stop' = First(stop, s)
      /\ drv' = [drv EXCEPT !.turnStop = told]
      /\ UNCHANGED <<pc, due, worker, os, scan, reap, outcome>>
  <2>1. drv' = [drv EXCEPT !.turnStop = First(drv.turnStop, TurnStopOf(s))]
    BY DEF PrepStop
  <2> QED BY <2>1 DEF PrepStop, Preparing
<1>2. Fresh /\ Sound(drv, os, due) /\ drv \in DriverType /\ due \in SUBSET Stops
  BY <1>1, FreshFacts DEF Preparation
<1>3. s \in PrepHeard
  BY <1>1, <1>2, FirstOfIn DEF PrepHeard
<1>4. s \in PrepStops \cap due /\ s # "none"
  BY <1>3 DEF PrepHeard, PrepStops
<1> HIDE DEF s
<1>5. /\ told \in TurnStops \cup {"none"} /\ told \in due \cup {"none"}
      /\ drv.turnStop # "none" => told = drv.turnStop
  BY <1>2, <1>4 DEF DriverType, Sound, First, TurnStopOf
<1>6. stop' \in PrepStops /\ stop' # "none"
  <2>1. stop \in PrepStops \cup {"none"}
    BY DEF Inv, Types, TypeOK
  <2> QED BY <1>1, <1>4, <2>1 DEF First, PrepStops
<1>7. worker' # "idle" /\ worker' \in {"idle", "running", "ok", "failed", "panicked"}
  BY <1>1 DEF Inv, PlaceInv, Types, TypeOK
<1> HIDE DEF told
<1> QED BY <1>1, <1>5, <1>6, <1>7, PrepTurn DEF Preparation

\* The call ends before the child exists.
LEMMA PrepEnds ==
    ASSUME Inv, pc \in Preparation, NEW kind, kind # "quiescent", NEW cause, NEW turnStop,
           End(kind, cause, turnStop), UNCHANGED <<due, drv, os, scan, reap>>,
           stop' \in {stop, "none"}, worker' \in {worker, "idle"}
    PROVE  Inv' /\ FinalStep
<1>1. CauseIsTrue' /\ QuiescentIsGone' /\ pc' = "ended"
  BY EndsOtherwise
<1>2. scan.result = "none"
  BY FreshFacts
<1> QED BY <1>1, <1>2, EndsInv DEF Inv, Types, TypeOK

LEMMA PrepJoinInv == ASSUME Inv, PrepJoin PROVE Inv' /\ FinalStep
<1> DEFINE last == First(stop, SampleStart)
           told == First(drv.turnStop, TurnStopOf(SampleStart))
<1>1. /\ pc \in {"setup", "check"} /\ stop' = "none" /\ worker' = "idle"
      /\ UNCHANGED <<due, drv, os, scan, reap>>
  BY DEF PrepJoin, Preparing
<1>2. \/ End("infrastructure", "none", told)
      \/ End("not_started", last, told)
      \/ End("not_started", "failed", told)
      \/ last = "none" /\ pc' \in {"ask", "start"} /\ UNCHANGED outcome
  BY DEF PrepJoin
<1>3. pc \in Preparation /\ worker' \in {worker, "idle"} /\ stop' \in {stop, "none"}
  BY <1>1 DEF Preparation
<1>4. CASE End("infrastructure", "none", told) \/ End("not_started", last, told)
           \/ End("not_started", "failed", told)
  BY <1>1, <1>3, <1>4, PrepEnds
<1>5. CASE last = "none" /\ pc' \in {"ask", "start"} /\ UNCHANGED outcome
  <2>1. stop = "none"
    BY <1>5 DEF First
  <2>2. Fresh /\ drv \in DriverType
    BY <1>3, FreshFacts
  <2>3. drv.turnStop = "none" /\ drv' = [drv EXCEPT !.turnStop = "none"]
    BY <1>1, <2>1, <2>2 DEF Fresh, DriverType
  <2>4. pc' \in Preparation /\ pc' \notin {"setup", "check"}
    BY <1>5 DEF Preparation
  <2> QED BY <1>1, <1>3, <1>5, <2>3, <2>4, PrepTurn
<1> QED BY <1>2, <1>4, <1>5

LEMMA RunActionInv == ASSUME Inv, RunAction PROVE Inv' /\ FinalStep
<1>1. /\ pc = "ask" /\ pc' = "check" /\ worker' = "running"
      /\ UNCHANGED <<due, stop, drv, os, scan, reap, outcome>>
  BY DEF RunAction
<1>2. Fresh /\ drv \in DriverType
  BY <1>1, FreshFacts DEF Preparation
<1>3. stop = "none" /\ drv.turnStop = "none" /\ drv' = [drv EXCEPT !.turnStop = "none"]
  BY <1>1, <1>2 DEF Fresh, DriverType
<1> QED BY <1>1, <1>3, PrepTurn DEF Preparation

LEMMA DetachInv == ASSUME Inv, Detach PROVE Inv' /\ FinalStep
<1>1. /\ pc \in Preparation /\ UNCHANGED <<due, stop, worker, drv, os, scan, reap>>
      /\ \/ End("not_started", SampleStart, "none")
         \/ End("detached", "none", "none")
         \/ End("not_started", "failed", "none")
  BY DEF Detach, Preparation
<1> QED BY <1>1, PrepEnds

LEMMA BeforeSpawnInv == ASSUME Inv, BeforeSpawn PROVE Inv' /\ FinalStep
<1>1. /\ pc = "start" /\ UNCHANGED <<due, stop, worker, drv, os, scan, reap>>
      /\ \/ End("not_started", SampleStart, TurnStopOf(SampleStart))
         \/ End("not_started", "failed", "none")
         \/ pc' = "spawn" /\ UNCHANGED outcome
  BY DEF BeforeSpawn
<1>2. pc \in Preparation
  BY <1>1 DEF Preparation
<1>3. CASE pc' = "spawn" /\ UNCHANGED outcome
  <2>1. Fresh /\ drv \in DriverType
    BY <1>2, FreshFacts
  <2>2. stop = "none" /\ drv.turnStop = "none" /\ drv' = [drv EXCEPT !.turnStop = "none"]
    BY <1>1, <2>1 DEF Fresh, DriverType
  <2>3. worker \in {"idle", "running", "ok", "failed", "panicked"}
    BY DEF Inv, Types, TypeOK
  <2> QED BY <1>1, <1>2, <1>3, <2>2, <2>3, PrepTurn DEF Preparation
<1> QED BY <1>1, <1>2, <1>3, PrepEnds

LEMMA SpawnFailsInv == ASSUME Inv, SpawnFails PROVE Inv' /\ FinalStep
BY PrepEnds DEF SpawnFails, Preparation

LEMMA SpawnInv == ASSUME Inv, NEW setupFails \in BOOLEAN, Spawn(setupFails) PROVE Inv' /\ FinalStep
<1> DEFINE born == [drv EXCEPT !.armed = TRUE]
           seen == IF SampleStart = "none" THEN born ELSE Observe(born, SampleStart)
           refused == [seen EXCEPT !.flags = @ \cup {"setup"}, !.cut = Streams,
                                   !.primary = First(@, "setup")]
           opened == [seen EXCEPT !.open = Streams]
           piped == IF setupFails THEN refused ELSE opened
           world == [os EXCEPT !.leader = "running"]
<1>1. /\ pc = "spawn" /\ pc' = "observing" /\ Continue({<<piped, world>>})
      /\ UNCHANGED <<due, stop, worker, scan, reap, outcome>>
  BY DEF Spawn
<1>2. /\ Sound(drv, os, due) /\ drv \in DriverType /\ os \in WorldType /\ Fresh
      /\ due \in SUBSET Stops /\ outcome = NoOutcome
      /\ drv.primary = "none" /\ drv.natural = "none" /\ ~drv.armed /\ drv.passes = 0
      /\ scan.result = "none" /\ reap = "none" /\ (MaxBehind <= 1 => os.behind <= MaxBehind)
  BY <1>1, FreshFacts DEF Preparation
<1>3. /\ drv.turnStop = "none" /\ drv.open = {} /\ drv.cut = {} /\ drv.flags = {} /\ drv.got = 0
      /\ ~drv.term /\ ~drv.kill /\ drv.grace = "off" /\ Limit \in Nat
      /\ \A s \in Streams : os.unread[s] = 0
  BY <1>1, <1>2, BoundsAssumption DEF Fresh, NewDriver
<1>4. world \in WorldType /\ world.leader = "running" /\ ~world.stray /\ world.unread = os.unread
      /\ world.behind = os.behind
  BY <1>2 DEF WorldType, Sound
<1>5. born \in DriverType
  BY <1>2 DEF DriverType
<1>6. /\ born.primary = "none" /\ born.natural = "none" /\ born.turnStop = "none"
      /\ born.open = {} /\ born.cut = {} /\ born.got = 0 /\ born.passes = 0
      /\ born.flags = {} /\ ~born.term /\ ~born.kill /\ born.grace = "off"
  BY <1>2, <1>3 DEF DriverType
<1> HIDE DEF born
<1>7. Calm(born) /\ SampleStart \in due \cup {"none"}
  BY <1>2, <1>6, SampleStartIn DEF Calm
<1>8. /\ seen \in DriverType /\ Calm(seen) /\ seen.open = {} /\ seen.cut = {} /\ seen.got = 0
      /\ seen.natural = "none" /\ seen.passes = 0
      /\ seen.primary \in Stops => seen.primary \in due
      /\ seen.primary \in TurnStops => seen.turnStop = seen.primary
      /\ seen.turnStop \in due \cup {"none"}
      /\ seen.primary # "limit"
      /\ seen.primary = "none" => seen.flags = {} /\ ~seen.term /\ ~seen.kill /\ seen.grace = "off"
  <2>1. CASE SampleStart = "none"
    BY <1>5, <1>6, <1>7, <2>1 DEF Stops, TurnStops
  <2>2. CASE SampleStart # "none"
    <3> DEFINE s == SampleStart
               e == Observe(born, s)
    <3>1. s \in due /\ s \in Stops
      BY <1>2, <1>7, <2>2
    <3> HIDE DEF s
    <3>2. e \in DriverType
      BY <1>5, <1>6, <3>1 DEF DriverType, Observe, First, TurnStopOf, Causes
    <3>3. /\ e.primary = s /\ e.turnStop = TurnStopOf(s) /\ e.natural = "none"
          /\ e.open = {} /\ e.cut = {} /\ e.got = 0 /\ e.passes = 0
      BY <1>5, <1>6, <3>1 DEF DriverType, Observe, First
    <3>4. s # "none" /\ s # "limit"
      BY <3>1 DEF Stops
    <3>5. seen = e
      BY <2>2 DEF s
    <3> HIDE DEF e, seen
    <3> QED BY <3>1, <3>2, <3>3, <3>4, <3>5 DEF TurnStopOf, Calm
  <2> QED BY <2>1, <2>2
<1> HIDE DEF seen
<1>9. Sound(refused, world, due) /\ Calm(refused) /\ refused.passes = 0
  <2>1. refused \in DriverType
    BY <1>8 DEF DriverType, Flags, First, Causes
  <2>2. /\ refused.primary = First(seen.primary, "setup") /\ refused.turnStop = seen.turnStop
        /\ refused.open = {} /\ refused.cut = Streams /\ refused.got = 0
        /\ refused.natural = "none" /\ refused.passes = 0
    BY <1>8 DEF DriverType
  <2>3. refused.primary = IF seen.primary = "none" THEN "setup" ELSE seen.primary
    BY <2>2 DEF First
  <2> HIDE DEF refused
  <2>4. Calm(refused)
    BY <2>3 DEF Calm
  <2>5. Sound(refused, world, due)
    BY <1>3, <1>4, <1>8, <2>1, <2>2, <2>3 DEF Sound, Stops, TurnStops
  <2> QED BY <2>2, <2>4, <2>5
<1>10. Sound(opened, world, due) /\ Calm(opened) /\ opened.passes = 0
  <2>1. opened \in DriverType
    BY <1>8 DEF DriverType
  <2>2. /\ opened.primary = seen.primary /\ opened.turnStop = seen.turnStop
        /\ opened.open = Streams /\ opened.cut = {} /\ opened.got = 0
        /\ opened.natural = "none" /\ opened.passes = 0 /\ opened.flags = seen.flags
        /\ opened.term = seen.term /\ opened.kill = seen.kill /\ opened.grace = seen.grace
    BY <1>8 DEF DriverType
  <2> HIDE DEF opened
  <2>3. Calm(opened)
    BY <1>8, <2>2 DEF Calm
  <2>4. Sound(opened, world, due)
    BY <1>3, <1>4, <1>8, <2>1, <2>2 DEF Sound
  <2> QED BY <2>2, <2>3, <2>4
<1> HIDE DEF refused, opened
<1>11. Sound(piped, world, due) /\ Calm(piped) /\ piped.passes = 0
  BY <1>9, <1>10
<1> HIDE DEF piped, world
<1>12. \A r \in {<<piped, world>>} : Sound(r[1], r[2], due) /\ Calm(r[1])
  BY <1>11
<1>13. Sound(drv', os', due) /\ Calm(drv') /\ Keeps(piped, world, drv', os')
  BY <1>1, <1>12, ContinueKeeps
<1>14. drv' \in DriverType /\ os' \in WorldType /\ ~os'.stray
  BY <1>13 DEF Sound
<1>15. Types'
  <2>1. TypeOK'
    BY <1>1, <1>13, <1>14 DEF Inv, Types, TypeOK, Sound, DriverType, Running
  <2> QED BY <1>1, <1>14, <2>1 DEF Inv, Types
<1>16. PlaceInv'
  <2>1. Sound(drv, os, due)' /\ Calm(drv)'
    BY <1>1, <1>13 DEF Sound, Calm
  <2>2. os'.leader # "none"
    BY <1>4, <1>13 DEF Keeps
  <2> QED BY <1>1, <1>2, <2>1, <2>2 DEF PlaceInv, Preparation
<1>17. drv'.passes = 0 /\ os'.behind = os.behind
  BY <1>4, <1>11, <1>13 DEF Keeps
<1>18. ReapInv'
  BY <1>1, <1>2, <1>17 DEF ReapInv
<1>19. ScanInv'
  BY <1>1, <1>2, <1>17 DEF ScanInv
<1>20. CauseIsTrue' /\ QuiescentIsGone' /\ FinalStep
  BY <1>1, <1>2, <1>3 DEF NoOutcome, CauseIsTrue, QuiescentIsGone, FinalStep
<1> QED BY <1>14, <1>15, <1>16, <1>18, <1>19, <1>20 DEF Inv

-----------------------------------------------------------------------------
(* The jobs and the world.                                                 *)

\* What happens to the command while its driver does nothing.
LEMMA WorldTurn ==
    ASSUME Inv, pc \notin {"ended", "dropped"}, UNCHANGED <<pc, stop, worker, drv, outcome>>,
           due \subseteq due', due' \subseteq Stops,
           os' \in WorldType, os'.stray = os.stray,
           os.leader \in {"zombie", "reaped"} =>
               os'.leader \in {"zombie", "reaped"} /\ os'.how = os.how,
           drv.armed => os'.leader \in {"running", "zombie"},
           os.leader # "none" => os'.leader # "none",
           os.leader = "reaped" => os'.leader = "reaped",
           \A s \in Streams \ drv.open : os'.unread[s] = os.unread[s],
           pc \in Preparation => UNCHANGED <<os, scan, reap>>,
           scan' \in ScanType, ScanInv',
           \/ reap' = reap
           \/ reap # "none" /\ reap' \in {"ok", "bad"} /\ os'.leader = "reaped"
    PROVE  Inv' /\ FinalStep
<1>1. Sound(drv, os, due) /\ drv \in DriverType /\ os \in WorldType /\ outcome = NoOutcome
  BY DEF Inv, PlaceInv, Types
<1>2. Sound(drv, os', due')
  BY <1>1 DEF Sound
<1>3. reap \in {"none", "running", "ok", "bad"}
  BY DEF Inv, Types, TypeOK
<1>4. Types'
  <2>1. TypeOK'
    BY <1>3 DEF Inv, Types, TypeOK
  <2> QED BY <2>1 DEF Inv, Types
<1>5. PlaceInv'
  <2>1. Sound(drv, os, due)'
    BY <1>2 DEF Sound
  <2>2. pc \in Preparation => Fresh'
    BY DEF Inv, PlaceInv, Fresh
  <2> QED BY <1>1, <2>1, <2>2 DEF Inv, PlaceInv, Calm
<1>6. ReapInv'
  BY <1>3 DEF Inv, ReapInv
<1>7. CauseIsTrue' /\ QuiescentIsGone' /\ FinalStep
  BY <1>1 DEF NoOutcome, CauseIsTrue, QuiescentIsGone, FinalStep
<1>8. ~os'.stray
  BY DEF Inv
<1> QED BY <1>4, <1>5, <1>6, <1>7, <1>8 DEF Inv

\* What a scan has seen stays true while nobody joins the group.
LEMMA ScanStill ==
    ASSUME Inv, UNCHANGED <<pc, drv, scan>>, os'.behind = os.behind,
           os.leader \in {"zombie", "reaped"} => os'.leader \in {"zombie", "reaped"},
           \A m \in Members : os.group[m] = "none" => os'.group[m] = "none"
    PROVE  ScanInv'
<1>1. Gone(os) => Gone(os')
  BY DEF Gone
<1>2. ScanInv
  BY DEF Inv
<1> QED BY <1>1, <1>2 DEF ScanInv, Told, Gone

\* Nothing lives before the child exists.
LEMMA NobodyYet ==
    ASSUME Inv, pc \in Preparation
    PROVE  /\ os.leader = "none" /\ Alive(os) = {} /\ ~os.escaped /\ ~Holders(os)
           /\ scan.result = "none" /\ reap = "none" /\ \A m \in Members : os.group[m] = "none"
<1>1. Fresh /\ scan.result = "none" /\ reap = "none"
  BY FreshFacts
<1> QED BY <1>1 DEF Fresh, Alive, Holders

LEMMA ScanVisitInv ==
    ASSUME Inv, ScanVisit, pc \notin {"ended", "dropped"}
    PROVE  Inv' /\ FinalStep
<1> DEFINE m == Min(scan.left)
<1>1. /\ scan.result = "running"
      /\ scan' = [scan EXCEPT !.left = @ \ {m}, !.live = @ \/ os.group[m] = "live",
                              !.mutated = @ \/ os.group[m] = "owned"]
      /\ os' = [os EXCEPT !.group[m] = IF @ = "owned" THEN "none" ELSE @]
      /\ UNCHANGED <<pc, due, stop, worker, drv, reap, outcome>>
  BY DEF ScanVisit
<1> HIDE DEF m
<1>2. os \in WorldType /\ scan \in ScanType /\ due \subseteq Stops
  BY DEF Inv, Types, TypeOK
<1>3. /\ scan' \in ScanType /\ scan'.result = "running" /\ scan'.left = scan.left \ {m}
      /\ scan'.live = (scan.live \/ os.group[m] = "live")
      /\ scan'.mutated = (scan.mutated \/ os.group[m] = "owned")
  BY <1>1, <1>2 DEF ScanType
<1>4. os'.group = [os.group EXCEPT ![m] = IF @ = "owned" THEN "none" ELSE @]
  BY <1>1, <1>2 DEF WorldType
<1>5. /\ os'.group \in [Members -> {"none", "live", "owned"}]
      /\ \A k \in Members :
            os'.group[k] = IF k = m /\ os.group[k] = "owned" THEN "none" ELSE os.group[k]
  BY <1>2, <1>4 DEF WorldType
<1>6. /\ os' \in WorldType /\ os'.stray = os.stray /\ os'.leader = os.leader
      /\ os'.how = os.how /\ os'.unread = os.unread /\ os'.behind = os.behind
  BY <1>1, <1>2, <1>5 DEF WorldType
<1>7. ScanInv'
  <2>1. Gone(os) => Gone(os')
    BY <1>5, <1>6 DEF Gone
  <2>2. ASSUME ~scan'.live, ~scan'.mutated,
               \A k \in Members \ scan.left : os.group[k] = "none"
        PROVE  \A k \in Members \ scan'.left : os'.group[k] = "none"
    <3>1. m \in Members => os.group[m] = "none"
      BY <1>2, <1>3, <2>2 DEF WorldType
    <3> QED BY <1>3, <1>5, <2>2, <3>1
  <2>3. ~scan'.live /\ ~scan'.mutated => ~scan.live /\ ~scan.mutated
    BY <1>3
  <2> QED BY <1>1, <1>3, <1>6, <2>1, <2>2, <2>3 DEF Inv, ScanInv, Told
<1>8. pc \notin Preparation
  BY <1>1, NobodyYet
<1>9. drv.armed => os'.leader \in {"running", "zombie"}
  BY <1>6 DEF Inv, PlaceInv, Sound
<1> QED BY <1>1, <1>2, <1>3, <1>6, <1>7, <1>8, <1>9, WorldTurn

LEMMA ScanEndsInv ==
    ASSUME Inv, ScanEnds, pc \notin {"ended", "dropped"}
    PROVE  Inv' /\ FinalStep
<1> DEFINE r == IF scan.live THEN "live"
                ELSE IF os.leader # "zombie" THEN "unknown"
                ELSE IF scan.mutated THEN "mutated" ELSE "complete"
<1>1. /\ scan.result = "running" /\ scan.left = {}
      /\ scan' = [scan EXCEPT !.result = r]
      /\ UNCHANGED <<pc, due, stop, worker, drv, os, reap, outcome>>
  BY DEF ScanEnds
<1>2. os \in WorldType /\ scan \in ScanType /\ due \subseteq Stops
  BY DEF Inv, Types, TypeOK
<1>3. scan' \in ScanType /\ scan'.result = r
  BY <1>1, <1>2 DEF ScanType
<1>4. ScanInv'
  <2>1. r # "running"
    OBVIOUS
  <2>2. r = "complete" => ~scan.live /\ ~scan.mutated /\ os.leader = "zombie"
    OBVIOUS
  <2> HIDE DEF r
  <2>3. ScanInv
    BY DEF Inv
  <2> QED BY <1>1, <1>3, <2>1, <2>2, <2>3 DEF ScanInv, Told, Gone
<1>5. pc \notin Preparation
  BY <1>1, NobodyYet
<1>6. drv.armed => os'.leader \in {"running", "zombie"}
  BY <1>1 DEF Inv, PlaceInv, Sound
<1> QED BY <1>1, <1>2, <1>3, <1>4, <1>5, <1>6, WorldTurn

LEMMA ScanFailsInv ==
    ASSUME Inv, NEW r \in {"unknown", "lost"}, ScanFails(r), pc \notin {"ended", "dropped"}
    PROVE  Inv' /\ FinalStep
<1>1. /\ scan.result = "running" /\ scan' = [scan EXCEPT !.result = r] /\ os' = Faulty(os)
      /\ UNCHANGED <<pc, due, stop, worker, drv, reap, outcome>>
  BY DEF ScanFails
<1>2. os \in WorldType /\ scan \in ScanType /\ due \subseteq Stops
  BY DEF Inv, Types, TypeOK
<1>3. scan' \in ScanType /\ scan'.result = r
  BY <1>1, <1>2 DEF ScanType
<1>4. /\ os' \in WorldType /\ os'.stray = os.stray /\ os'.leader = os.leader
      /\ os'.how = os.how /\ os'.unread = os.unread /\ os'.behind = os.behind
      /\ os'.group = os.group
  BY <1>1, <1>2 DEF WorldType, Faulty
<1>5. ScanInv'
  BY <1>1, <1>3, <1>4 DEF Inv, ScanInv, Told, Gone
<1>6. pc \notin Preparation
  BY <1>1, NobodyYet
<1>7. drv.armed => os'.leader \in {"running", "zombie"}
  BY <1>4 DEF Inv, PlaceInv, Sound
<1> QED BY <1>1, <1>2, <1>3, <1>4, <1>5, <1>6, <1>7, WorldTurn

LEMMA ReapJobInv ==
    ASSUME Inv, NEW r \in {"ok", "bad"}, ReapJob(r), pc \notin {"ended", "dropped"}
    PROVE  Inv' /\ FinalStep
<1> DEFINE o == IF r = "bad" THEN Faulty(os) ELSE os
<1>1. /\ reap = "running" /\ os.leader # "running" /\ reap' = r
      /\ os' = [o EXCEPT !.leader = "reaped"]
      /\ UNCHANGED <<pc, due, stop, worker, drv, scan, outcome>>
  BY DEF ReapJob
<1>2. os \in WorldType /\ scan \in ScanType /\ due \subseteq Stops
  BY DEF Inv, Types, TypeOK
<1>3. /\ o \in WorldType /\ o.stray = os.stray /\ o.how = os.how
      /\ o.unread = os.unread /\ o.behind = os.behind /\ o.group = os.group
  BY <1>2 DEF WorldType, Faulty
<1> HIDE DEF o
<1>4. /\ os' \in WorldType /\ os'.stray = os.stray /\ os'.leader = "reaped"
      /\ os'.how = os.how /\ os'.unread = os.unread /\ os'.behind = os.behind
      /\ os'.group = os.group
  BY <1>1, <1>3 DEF WorldType
<1>5. ScanInv'
  BY <1>1, <1>4, ScanStill
<1>6. pc \notin Preparation
  BY <1>1, NobodyYet
<1>7. ~drv.armed
  BY <1>1 DEF Inv, ReapInv
<1> QED BY <1>1, <1>2, <1>4, <1>5, <1>6, <1>7, WorldTurn

LEMMA StopFiresInv ==
    ASSUME Inv, NEW s, StopFires(s), pc \notin {"ended", "dropped"}
    PROVE  Inv' /\ FinalStep
<1>1. /\ due' = due \cup {s} /\ s \in Stops
      /\ UNCHANGED <<scan, os, pc, stop, worker, drv, reap, outcome>>
  BY BoundsAssumption DEF StopFires, World, Stops
<1>2. os \in WorldType /\ scan \in ScanType /\ due \subseteq Stops
  BY DEF Inv, Types, TypeOK
<1>3. ScanInv'
  BY <1>1, ScanStill
<1>4. drv.armed => os'.leader \in {"running", "zombie"}
  BY <1>1 DEF Inv, PlaceInv, Sound
<1> QED BY <1>1, <1>2, <1>3, <1>4, WorldTurn

\* A change of the group or its pipes.
LEMMA ProcessTurn ==
    ASSUME Inv, pc \notin {"ended", "dropped"} \cup Preparation, UNCHANGED <<due, scan, World>>,
           os' \in WorldType, os'.stray = os.stray,
           os.leader = os'.leader \/ (os.leader = "running" /\ os'.leader = "zombie"),
           os.leader # "running" => os'.how = os.how,
           \A s \in Streams \ drv.open : os'.unread[s] = os.unread[s],
           ScanInv'
    PROVE  Inv' /\ FinalStep
<1>1. scan \in ScanType /\ due \subseteq Stops
  BY DEF Inv, Types, TypeOK
<1>2. drv.armed => os'.leader \in {"running", "zombie"}
  BY DEF Inv, PlaceInv, Sound
<1> QED BY <1>1, <1>2, WorldTurn DEF World

LEMMA LeaderExitsInv ==
    ASSUME Inv, LeaderExits, pc \notin {"ended", "dropped"}
    PROVE  Inv' /\ FinalStep
<1>1. /\ os.leader = "running" /\ os' = [os EXCEPT !.leader = "zombie", !.how = "exit"]
      /\ UNCHANGED <<due, scan, World>>
  BY DEF LeaderExits
<1>2. os \in WorldType
  BY DEF Inv, Types
<1>3. /\ os' \in WorldType /\ os'.stray = os.stray /\ os'.leader = "zombie"
      /\ os'.unread = os.unread /\ os'.behind = os.behind /\ os'.group = os.group
  BY <1>1, <1>2 DEF WorldType
<1>4. ScanInv'
  BY <1>1, <1>3, ScanStill DEF World
<1>5. pc \notin Preparation
  BY <1>1, NobodyYet
<1> QED BY <1>1, <1>3, <1>4, <1>5, ProcessTurn

LEMMA ForkInv ==
    ASSUME Inv, NEW m \in Members, Fork(m), pc \notin {"ended", "dropped"}
    PROVE  Inv' /\ FinalStep
<1> DEFINE behind == scan.result = "running" /\ m \notin scan.left
<1>1. /\ os.leader = "running" \/ Alive(os) # {}
      /\ os.group[m] = "none"
      /\ behind => os.behind < MaxBehind
      /\ os' = [os EXCEPT !.group[m] = "live", !.behind = IF behind THEN @ + 1 ELSE @]
      /\ UNCHANGED <<due, scan, World>>
  BY DEF Fork
<1>2. os \in WorldType
  BY DEF Inv, Types
<1>3. os'.group = [os.group EXCEPT ![m] = "live"]
  BY <1>1, <1>2 DEF WorldType
<1>4. /\ os'.group \in [Members -> {"none", "live", "owned"}]
      /\ \A k \in Members : os'.group[k] = IF k = m THEN "live" ELSE os.group[k]
  BY <1>2, <1>3 DEF WorldType
<1>5. /\ os' \in WorldType /\ os'.stray = os.stray /\ os'.leader = os.leader
      /\ os'.how = os.how /\ os'.unread = os.unread
      /\ os'.behind = IF behind THEN os.behind + 1 ELSE os.behind
  <2> DEFINE n == IF behind THEN os.behind + 1 ELSE os.behind
  <2>1. n \in Nat
    BY <1>2 DEF WorldType
  <2>2. os' = [os EXCEPT !.group[m] = "live", !.behind = n]
    BY <1>1
  <2> HIDE DEF n
  <2>3. /\ os'.stray = os.stray /\ os'.leader = os.leader /\ os'.how = os.how
        /\ os'.unread = os.unread /\ os'.behind = n
    BY <1>2, <2>2 DEF WorldType
  <2>4. os' \in WorldType
    BY <1>2, <1>4, <2>1, <2>2 DEF WorldType
  <2> QED BY <2>3, <2>4 DEF n
<1>6. ~Gone(os)
  BY <1>1 DEF Gone, Alive
<1>7. ScanInv'
  <2>1. os.behind \in Nat /\ MaxBehind \in Nat
    BY <1>2, BoundsAssumption DEF WorldType
  <2>2. UNCHANGED <<pc, drv, scan>>
    BY <1>1 DEF World
  <2>3. ScanInv
    BY DEF Inv
  <2>4. CASE behind
    <3>1. ASSUME MaxBehind <= 1
          PROVE  MaxBehind = 1 /\ os.behind = 0 /\ os'.behind = 1
      BY <1>1, <1>5, <2>1, <2>4, <3>1
    <3>2. ASSUME MaxBehind <= 1, pc = "observing" PROVE ~(drv.passes > 0)
      BY <1>6, <2>3, <3>1, <3>2 DEF ScanInv
    <3>3. ASSUME MaxBehind <= 1, pc = "observing" PROVE ~Told'
      BY <2>2, <3>1, <3>2, <3>3 DEF Told
    <3> HIDE DEF behind
    <3> QED BY <1>5, <1>6, <2>2, <2>3, <3>1, <3>2, <3>3 DEF ScanInv
  <2>5. CASE ~behind
    <3>1. os'.behind = os.behind
      BY <1>5, <2>5
    <3>2. scan.result = "running" => m \notin Members \ scan.left
      BY <2>5
    <3> HIDE DEF behind
    <3> QED BY <1>4, <1>6, <2>2, <2>3, <3>1, <3>2 DEF ScanInv, Told
  <2> QED BY <2>4, <2>5
<1>8. pc \notin Preparation
  BY <1>1, NobodyYet
<1> HIDE DEF behind
<1> QED BY <1>1, <1>5, <1>7, <1>8, ProcessTurn

LEMMA EscapeInv ==
    ASSUME Inv, Escape \/ EscapedExits, pc \notin {"ended", "dropped"}
    PROVE  Inv' /\ FinalStep
<1>1. /\ os.leader = "running" \/ Alive(os) # {} \/ os.escaped
      /\ \E b \in BOOLEAN : os' = [os EXCEPT !.escaped = b]
      /\ UNCHANGED <<due, scan, World>>
  BY DEF Escape, EscapedExits
<1>2. os \in WorldType
  BY DEF Inv, Types
<1>3. /\ os' \in WorldType /\ os'.stray = os.stray /\ os'.leader = os.leader /\ os'.how = os.how
      /\ os'.unread = os.unread /\ os'.behind = os.behind /\ os'.group = os.group
  BY <1>1, <1>2 DEF WorldType
<1>4. ScanInv'
  BY <1>1, <1>3, ScanStill DEF World
<1>5. pc \notin Preparation
  BY <1>1, NobodyYet
<1> QED BY <1>1, <1>3, <1>4, <1>5, ProcessTurn

LEMMA MemberExitsInv ==
    ASSUME Inv, NEW m \in Members, NEW left \in {"none", "owned"}, MemberExits(m, left),
           pc \notin {"ended", "dropped"}
    PROVE  Inv' /\ FinalStep
<1>1. /\ os.group[m] = "live" /\ os' = [os EXCEPT !.group[m] = left]
      /\ UNCHANGED <<due, scan, World>>
  BY DEF MemberExits
<1>2. os \in WorldType
  BY DEF Inv, Types
<1>3. os'.group = [os.group EXCEPT ![m] = left]
  BY <1>1, <1>2 DEF WorldType
<1>4. /\ os'.group \in [Members -> {"none", "live", "owned"}]
      /\ \A k \in Members : os'.group[k] = IF k = m THEN left ELSE os.group[k]
  BY <1>2, <1>3 DEF WorldType
<1>5. /\ os' \in WorldType /\ os'.stray = os.stray /\ os'.leader = os.leader /\ os'.how = os.how
      /\ os'.unread = os.unread /\ os'.behind = os.behind
  BY <1>1, <1>2, <1>4 DEF WorldType
<1>6. ScanInv'
  BY <1>1, <1>4, <1>5, ScanStill DEF World
<1>7. pc \notin Preparation
  BY <1>1, NobodyYet
<1> QED BY <1>1, <1>5, <1>6, <1>7, ProcessTurn

LEMMA WriteInv ==
    ASSUME Inv, NEW s \in Streams, Write(s), pc \notin {"ended", "dropped"}
    PROVE  Inv' /\ FinalStep
<1>1. /\ Holders(os) /\ s \in drv.open /\ os' = [os EXCEPT !.unread[s] = @ + 1]
      /\ UNCHANGED <<due, scan, World>>
  BY DEF Write
<1>2. os \in WorldType
  BY DEF Inv, Types
<1>3. os'.unread = [os.unread EXCEPT ![s] = @ + 1]
  BY <1>1, <1>2 DEF WorldType
<1>4. /\ os'.unread \in [Streams -> Nat]
      /\ \A t \in Streams : t # s => os'.unread[t] = os.unread[t]
  BY <1>2, <1>3 DEF WorldType
<1>5. /\ os' \in WorldType /\ os'.stray = os.stray /\ os'.leader = os.leader /\ os'.how = os.how
      /\ os'.group = os.group /\ os'.behind = os.behind
  BY <1>1, <1>2, <1>4 DEF WorldType
<1>6. ScanInv'
  BY <1>1, <1>5, ScanStill DEF World
<1>7. pc \notin Preparation
  BY <1>1, NobodyYet
<1> QED BY <1>1, <1>4, <1>5, <1>6, <1>7, ProcessTurn

-----------------------------------------------------------------------------
LEMMA NextInv == Inv /\ [Next]_vars => Inv' /\ (Next => FinalStep)
<1> SUFFICES ASSUME Inv, [Next]_vars PROVE Inv' /\ (Next => FinalStep)
  OBVIOUS
<1>1. CASE UNCHANGED vars
  <2> USE <1>1 DEF vars
  <2>1. Types' /\ PlaceInv' /\ ReapInv'
    BY DEF Inv, Types, TypeOK, PlaceInv, Fresh, Sound, Calm, ReapInv
  <2>2. ScanInv'
    BY DEF Inv, ScanInv, Told, Gone
  <2>3. CauseIsTrue' /\ (MaxBehind <= 1 => QuiescentIsGone')
    BY DEF Inv, CauseIsTrue, QuiescentIsGone
  <2>4. FinalStep
    BY DEF FinalStep
  <2> QED BY <2>1, <2>2, <2>3, <2>4 DEF Inv
<1>2. CASE Next
  <2> USE DEF Inv
  <2>1. CASE Launch
    <3>1. CASE Worker
      BY <3>1, WorkerEndsInv DEF Worker
    <3>2. CASE \E f \in BOOLEAN : Spawn(f)
      BY <3>2, SpawnInv
    <3> QED BY <2>1, <3>1, <3>2, PrepStopInv, PrepJoinInv, BeforeSpawnInv, SpawnFailsInv, DetachInv
            DEF Launch
  <2>2. CASE RunAction
    BY <2>2, RunActionInv
  <2>3. CASE Driver
    <3>1. CASE \E s \in Streams : PipeEvent(s)
      BY <3>1, PipeEventInv
    <3>2. CASE \E s \in TurnStops : LostStop(s)
      BY <3>2, LostStopInv
    <3> QED BY <2>3, <3>1, <3>2, StopEventInv, GraceEventInv, DrainEventInv, TickEventInv,
          TickLostInv,
              StartScanInv, ScanEventInv, ReapEventInv, FinishInv, LostKillInv, LostEndsInv
                    DEF Driver
  <2>4. CASE DropFuture
    BY <2>4, DropFutureInv
  <2>5. pc \notin {"ended", "dropped"}
    BY <1>2 DEF Next
  <2>6. CASE Jobs
    <3>1. CASE \E r \in {"unknown", "lost"} : ScanFails(r)
      BY <2>5, <3>1, ScanFailsInv
    <3>2. CASE \E r \in {"ok", "bad"} : ReapJob(r)
      BY <2>5, <3>2, ReapJobInv
    <3> QED BY <2>5, <2>6, <3>1, <3>2, ScanVisitInv, ScanEndsInv DEF Jobs
  <2>7. CASE \E s \in Stops : StopFires(s)
    BY <2>5, <2>7, StopFiresInv
  <2>8. CASE Processes
    <3>1. CASE \E m \in Members : Fork(m)
      BY <2>5, <3>1, ForkInv
    <3>2. CASE \E m \in Members : \E left \in {"none", "owned"} : MemberExits(m, left)
      BY <2>5, <3>2, MemberExitsInv
    <3>3. CASE \E s \in Streams : Write(s)
      BY <2>5, <3>3, WriteInv
    <3> QED BY <2>5, <2>8, <3>1, <3>2, <3>3, LeaderExitsInv, EscapeInv DEF Processes
  <2> QED BY <1>2, <2>1, <2>2, <2>3, <2>4, <2>6, <2>7, <2>8 DEF Next
<1> QED BY <1>1, <1>2

LEMMA InvHolds == Spec => []Inv
BY InitInv, NextInv, PTL DEF Spec

\* No signal goes to a group whose leader was reaped, and a call that reports the
\* end of its command leaves none of the group behind, as long as no more than one
\* fork gets an id behind a running scan: the two passes of the driver cover one
\* (cleanup of RunningProcess, OwnedGroup; process.rs).
THEOREM GroupStaysOurs == MaxBehind <= 1 => (Spec => []GroupIsOurs)
<1>1. MaxBehind <= 1 /\ Inv => GroupIsOurs
  BY DEF Inv, Types, GroupIsOurs
<1> SUFFICES ASSUME MaxBehind <= 1 PROVE Spec => []GroupIsOurs
  OBVIOUS
<1>2. Inv => GroupIsOurs
  BY <1>1
<1> QED BY <1>2, InvHolds, PTL

\* Whatever stops, floods, forks and failures meet a command, in whatever order, the
\* cause its report names has happened, and with a natural end nothing was signalled,
\* cut or lost (finish, observe_stop; process.rs).
THEOREM CauseStaysTrue == Spec => []CauseIsTrue
<1>1. Inv => CauseIsTrue
  BY DEF Inv
<1> QED BY <1>1, InvHolds, PTL

\* The first cause stays, and an end that was seen is not called a timeout any more.
THEOREM CauseStaysFinal == Spec => CauseIsFinal
<1>1. Inv /\ [Next]_vars =>
        [pc' # "dropped" =>
           /\ drv.primary # "none" => drv'.primary = drv.primary
           /\ drv.turnStop # "none" => drv'.turnStop = drv.turnStop
           /\ drv.natural # "none" /\ drv.primary = "none" => drv'.primary # "command"]_vars
  BY NextInv DEF FinalStep
<1> QED BY <1>1, InvHolds, PTL DEF Spec, CauseIsFinal

-----------------------------------------------------------------------------
(* The plugins. *)

Early == {"launch", "hello", "ready"}
Driving == {"writing", "waiting", "cancelled"}
Held == Driving \cup {"fatal", "verdict"}
ActorPcs == Early \cup Held \cup {"idle", "poisoned", "cleaning", "sweeping", "exiting",
                                  "leaving", "gone"}
CallerPcs == {"idle", "looked", "waiting", "answered"}
Kinds == Plugin!Unstarted \cup Plugin!Settled \cup {"none", "unknown", "lost"}
PluginStops == {"none", "caller", "turn", "action"}
Faults == {"none", "protocol", "process", "limit", "lost", "write_timeout"}
Lines == [kind : {"hello", "junk", "result", "bad_result", "call", "cancel"}, id : Nat]
Answers == [kind : Kinds, stop : PluginStops, dispatched : BOOLEAN]
Actors == [pc : ActorPcs, next : Nat, call : Calls \cup {NoCall}, id : Nat,
           evidence : {"not", "may", "all"}, stop : PluginStops, fault : Faults,
           lines : Seq(Lines), part : BOOLEAN, saw : BOOLEAN,
           exit : {"none", "clean", "lost", "fault"}, faults : Nat]
Callers == [Calls -> [pc : CallerPcs, id : Nat, answer : Answers]]
Peers == [alive : BOOLEAN, honest : BOOLEAN, seen : SUBSET Nat, said : SUBSET Nat, lies : Nat]

TypeInv ==
    /\ state \in {"starting", "ready", "faulted", "stopping", "exited"}
    /\ shutdown \in BOOLEAN
    /\ queue \in Seq(Calls)
    /\ caller \in Callers
    /\ pluginDue \in [Calls -> SUBSET StopKinds]
    /\ actor \in Actors
    /\ peer \in Peers
    /\ out \in Seq(Lines) /\ inn \in Seq(Lines)

\* A caller waits in the queue, once, or for the call that is driven.
QueueInv ==
    /\ Len(queue) <= Capacity
    /\ \A i, j \in DOMAIN queue : queue[i] = queue[j] => i = j
    /\ \A c \in Calls : caller[c].pc = "waiting" <=> c \in Plugin!ToSet(queue) \cup {actor.call}
    /\ actor.call \notin Plugin!ToSet(queue)
    /\ actor.call # NoCall <=> actor.pc \in Held
    /\ \A c \in Calls : caller[c].pc # "answered" => caller[c].answer = Plugin!NoAnswer

Ids(n) == {n[i].id : i \in DOMAIN n}

\* The numbers of calls: fresh, unique, sent only when the evidence says so.
IdInv ==
    /\ actor.next # 0
    /\ \A c \in Calls : caller[c].id < actor.next
    /\ \A c, d \in Calls : c # d /\ caller[c].id = caller[d].id => caller[c].id = 0
    /\ \A c \in Calls :
         caller[c].pc \in {"idle", "looked"} \/ c \in Plugin!ToSet(queue) => caller[c].id = 0
    /\ actor.pc \in Held => actor.id = caller[actor.call].id /\ actor.id # 0
    /\ peer.seen \cup Ids(inn) \subseteq 1 .. actor.next - 1
    /\ actor.pc \in Held /\ actor.evidence = "not" => actor.id \notin peer.seen \cup Ids(inn)
    /\ actor.pc \in {"waiting", "cancelled"} => actor.evidence = "all"
    /\ actor.pc = "writing" => actor.evidence # "all"

EarlyInv ==
    /\ actor.pc \in Early =>
         /\ \A c \in Calls : caller[c] = [pc |-> "idle", id |-> 0, answer |-> Plugin!NoAnswer]
         /\ queue = <<>> /\ inn = <<>> /\ actor.lines = <<>> /\ ~actor.part
         /\ actor.fault = "none"
         /\ peer.honest /\ peer.seen = {} /\ peer.said = {}
    /\ actor.pc \in {"launch", "ready"} => out = <<>>
    /\ actor.pc = "hello" => out \in {<<>>, <<Plugin!Line("hello", 0)>>}

\* What the plugin has written and nobody judged yet.
Inbound(a, o) == Plugin!ToSet(a.lines) \cup Plugin!ToSet(o)
Unjudged(a, o) == Len(a.lines) + Len(o)

\* Calls that it has or will have, and no answer of it.
CallsIn(n) == {n[i].id : i \in {j \in DOMAIN n : n[j].kind = "call"}}
Pending(n) == (peer.seen \cup CallsIn(n)) \ peer.said

\* An honest plugin has nothing to say while no call is with it, and one thing then.
Honest(a, o, n) ==
    /\ a.evidence # "all" => Unjudged(a, o) = 0 /\ Pending(n) = {}
    /\ a.evidence = "all" =>
         \/ Unjudged(a, o) = 0 /\ Pending(n) \subseteq {a.id}
         \/ /\ Unjudged(a, o) = 1 /\ Pending(n) = {}
            /\ \A l \in Inbound(a, o) : Plugin!OwnResult(a, l)

HonestInv ==
    peer.honest =>
        /\ actor.fault # "protocol"
        /\ actor.pc = "idle" => Unjudged(actor, out) = 0 /\ Pending(inn) = {}
        /\ actor.pc \in Driving => Honest(actor, out, inn)

\* Every answer that was read or is to be read was given.
Given(a, o) == \A l \in Inbound(a, o) : l.kind \in {"result", "bad_result"} => l.id \in peer.said

Justified(how, c) == how \in pluginDue[c] \/ (how = "caller" /\ shutdown)

AnswerInv ==
    /\ Given(actor, out)
    /\ actor.part => out # <<>>
    /\ actor.pc \in Held /\ actor.stop # "none" => Justified(actor.stop, actor.call)
    /\ actor.pc = "verdict" /\ actor.exit # "lost" => ~peer.alive
    /\ \A c \in Calls :
         LET a == caller[c].answer  id == caller[c].id IN
         /\ a.kind \in Plugin!Unstarted => id \notin peer.seen \cup Ids(inn)
         /\ a.kind \in Plugin!Settled => id \in peer.said
         /\ a.kind = "unknown" => ~peer.alive
         /\ a.kind = "stopped_after" => Justified(a.stop, c)

PluginInv == TypeInv /\ QueueInv /\ IdInv /\ EarlyInv /\ HonestInv /\ AnswerInv

-----------------------------------------------------------------------------
(* The operators.                                                          *)

LEMMA PumpIs ==
    ASSUME TypeInv, actor.part => out # <<>>, NEW a \in Actors, a.lines = actor.lines,
           a.part = actor.part, NEW p \in Plugin!Pumped
    PROVE  /\ p.fault \in {"none", "process", "limit", "lost"} /\ p.got \in BOOLEAN
           /\ p.got => out # <<>>
           /\ Plugin!Read(a, p) \in Actors /\ Plugin!Rest(p) \in Seq(Lines)
           /\ \E f \in Nat, ls \in Seq(Lines), b \in BOOLEAN :
                Plugin!Read(a, p) = [a EXCEPT !.lines = ls, !.part = b, !.faults = f]
           /\ Inbound(Plugin!Read(a, p), Plugin!Rest(p)) = Inbound(a, out)
           /\ Unjudged(Plugin!Read(a, p), Plugin!Rest(p)) = Unjudged(a, out)
           /\ Plugin!Read(a, p).part => Plugin!Rest(p) # <<>>
<1>1. /\ p.n \in 0 .. Len(out) /\ p.part \in BOOLEAN /\ p.got \in BOOLEAN
      /\ p.fault \in {"none", "process", "limit", "lost"}
      /\ p.got => out # <<>>
      /\ p.part => p.n < Len(out) \/ (p.n = 0 /\ out # <<>>)
  <2>1. CASE /\ p \in [n : 0 .. Len(out), part : BOOLEAN, got : {TRUE}, fault : {"none"}]
             /\ p.n > 0 \/ (p.part /\ ~actor.part)
             /\ p.part => p.n < Len(out)
    <3>1. p.n \in 0 .. Len(out) /\ p.part \in BOOLEAN /\ p.got = TRUE /\ p.fault = "none"
      BY <2>1
    <3>2. out # <<>>
      BY <2>1, <3>1 DEF TypeInv
    <3> QED
      BY <2>1, <3>1, <3>2
  <2>2. CASE /\ out = <<>>
             /\ p = [n |-> 0, part |-> FALSE, got |-> FALSE,
                     fault |-> IF peer.alive THEN "none" ELSE "process"]
    BY <2>2
  <2>3. CASE \E f \in {"limit", "process", "lost"} :
               p = [n |-> 0, part |-> actor.part, got |-> FALSE, fault |-> f]
    <3>1. actor.part \in BOOLEAN /\ Len(out) \in Nat
      BY DEF TypeInv, Actors
    <3> QED
      BY <2>3, <3>1
  <2> QED
    BY <2>1, <2>2, <2>3 DEF Plugin!Pumped
<1> DEFINE ls == a.lines \o SubSeq(out, 1, p.n)
           f == IF Plugin!IsKernelFault(p) THEN a.faults + 1 ELSE a.faults
<1>2. /\ out \in Seq(Lines) /\ a.lines \in Seq(Lines) /\ a.faults \in Nat
      /\ Len(out) \in Nat /\ Len(a.lines) \in Nat
  BY DEF TypeInv, Actors
<1>3. /\ SubSeq(out, 1, p.n) \in Seq(Lines) /\ Len(SubSeq(out, 1, p.n)) = p.n
      /\ \A i \in 1 .. p.n : SubSeq(out, 1, p.n)[i] = out[i]
  BY <1>1, <1>2
<1>4. /\ Plugin!Rest(p) \in Seq(Lines) /\ Len(Plugin!Rest(p)) = Len(out) - p.n
      /\ \A i \in 1 .. Len(out) - p.n : Plugin!Rest(p)[i] = out[p.n + i]
  BY <1>1, <1>2 DEF Plugin!Rest
<1>5. /\ ls \in Seq(Lines) /\ Len(ls) = Len(a.lines) + p.n
      /\ \A i \in 1 .. Len(a.lines) : ls[i] = a.lines[i]
      /\ \A i \in 1 .. p.n : ls[Len(a.lines) + i] = out[i]
  BY <1>1, <1>2, <1>3
<1>8. f \in Nat
  BY <1>2
<1> HIDE DEF ls, f
<1>6. Plugin!ToSet(ls) \cup Plugin!ToSet(Plugin!Rest(p)) = Plugin!ToSet(a.lines)
      \cup Plugin!ToSet(out)
  <2>1. ASSUME NEW i \in DOMAIN ls  PROVE ls[i] \in Plugin!ToSet(a.lines) \cup Plugin!ToSet(out)
    <3>1. CASE i \in 1 .. Len(a.lines)
      BY <1>2, <1>5, <3>1 DEF Plugin!ToSet
    <3>2. CASE i \notin 1 .. Len(a.lines)
      <4>1. PICK k \in 1 .. p.n : i = Len(a.lines) + k
        <5>1. i - Len(a.lines) \in 1 .. p.n /\ i = Len(a.lines) + (i - Len(a.lines))
          BY <1>1, <1>2, <1>5, <3>2
        <5> QED
          BY <5>1
      <4>2. ls[i] = out[k]
        BY <1>5, <4>1
      <4>3. k \in DOMAIN out
        BY <1>1, <1>2
      <4> QED
        BY <4>2, <4>3 DEF Plugin!ToSet
    <3> QED
      BY <3>1, <3>2
  <2>2. ASSUME NEW i \in DOMAIN Plugin!Rest(p)  PROVE Plugin!Rest(p)[i] \in Plugin!ToSet(out)
    <3>1. Plugin!Rest(p)[i] = out[p.n + i] /\ p.n + i \in DOMAIN out
      BY <1>1, <1>2, <1>4
    <3> QED
      BY <3>1 DEF Plugin!ToSet
  <2>3. ASSUME NEW i \in DOMAIN a.lines  PROVE a.lines[i] \in Plugin!ToSet(ls)
    <3>1. ls[i] = a.lines[i] /\ i \in DOMAIN ls
      BY <1>1, <1>2, <1>5
    <3> QED
      BY <3>1 DEF Plugin!ToSet
  <2>4. ASSUME NEW i \in DOMAIN out
        PROVE out[i] \in Plugin!ToSet(ls) \cup Plugin!ToSet(Plugin!Rest(p))
    <3>1. CASE i \in 1 .. p.n
      <4>1. ls[Len(a.lines) + i] = out[i]
        BY <1>5, <3>1
      <4>2. Len(a.lines) + i \in 1 .. Len(ls) /\ DOMAIN ls = 1 .. Len(ls)
        BY <1>1, <1>2, <1>5, <3>1
      <4> QED
        BY <4>1, <4>2 DEF Plugin!ToSet
    <3>2. CASE i \notin 1 .. p.n
      <4>1. i - p.n \in 1 .. Len(out) - p.n /\ p.n + (i - p.n) = i
        BY <1>1, <1>2, <3>2
      <4>2. Plugin!Rest(p)[i - p.n] = out[i] /\ i - p.n \in DOMAIN Plugin!Rest(p)
        BY <1>4, <4>1
      <4> QED
        BY <4>2 DEF Plugin!ToSet
    <3> QED
      BY <3>1, <3>2
  <2> QED
    BY <2>1, <2>2, <2>3, <2>4 DEF Plugin!ToSet
<1>7. Plugin!Read(a, p) = [a EXCEPT !.lines = ls, !.part = p.part, !.faults = f]
  BY DEF Plugin!Read, Actors, ls, f
<1>9. /\ Plugin!Read(a, p) \in Actors /\ Plugin!Read(a, p).lines = ls /\ Plugin!Read(a,
           p).part = p.part
  BY <1>1, <1>5, <1>7, <1>8 DEF Actors
<1>10. Plugin!Rest(p) # <<>> \/ ~p.part
  BY <1>1, <1>2, <1>4
<1> QED
  <2>1. Unjudged(Plugin!Read(a, p), Plugin!Rest(p)) = Unjudged(a, out)
    BY <1>1, <1>2, <1>4, <1>5, <1>9 DEF Unjudged
  <2>2. Inbound(Plugin!Read(a, p), Plugin!Rest(p)) = Inbound(a, out)
    BY <1>6, <1>9 DEF Inbound
  <2>3. \E ff \in Nat, lx \in Seq(Lines), b \in BOOLEAN :
          Plugin!Read(a, p) = [a EXCEPT !.lines = lx, !.part = b, !.faults = ff]
    BY <1>1, <1>5, <1>7, <1>8
  <2> QED
    BY <1>1, <1>4, <1>9, <1>10, <2>1, <2>2, <2>3

LEMMA StopIs ==
    ASSUME TypeInv, NEW c \in Calls, NEW down \in BOOLEAN
    PROVE  /\ Plugin!StopOf(c, down) \in PluginStops
           /\ Plugin!StopOf(c, down) # "none" =>
                Plugin!StopOf(c, down) \in pluginDue[c] \/ (Plugin!StopOf(c, down) = "caller"
                      /\ down)
BY DEF Plugin!StopOf, PluginStops

LEMMA AnswerIs ==
    ASSUME NEW kind \in Kinds, NEW how \in PluginStops
    PROVE  /\ Plugin!Answer(kind, how) \in Answers
           /\ Plugin!Answer(kind, how).kind = kind /\ Plugin!Answer(kind, how).stop = how
           /\ Plugin!NoAnswer \in Answers /\ Plugin!NoAnswer.kind = "none"
BY DEF Plugin!Answer, Plugin!NoAnswer, Answers, Kinds, PluginStops

LEMMA ToldIs ==
    ASSUME NEW cs \in Callers, NEW c \in Calls, NEW a \in Answers
    PROVE  /\ Plugin!Told(cs, c, a) \in Callers
           /\ Plugin!Told(cs, c, a)[c] = [pc |-> "answered", id |-> cs[c].id, answer |-> a]
           /\ \A d \in Calls : d # c => Plugin!Told(cs, c, a)[d] = cs[d]
BY DEF Plugin!Told, Callers, CallerPcs

\* What rejecting the queue does to each of the callers.
LEMMA RejectIs ==
    ASSUME Plugin!ActorAssumption, TypeInv, NEW cs \in Callers, NEW down \in BOOLEAN
    PROVE  /\ Plugin!RejectAll(cs, down) \in Callers
           /\ \A c \in Calls :
                /\ c \notin Plugin!ToSet(queue) => Plugin!RejectAll(cs, down)[c] = cs[c]
                /\ c \in Plugin!ToSet(queue) =>
                     /\ Plugin!RejectAll(cs, down)[c].pc = "answered"
                     /\ Plugin!RejectAll(cs, down)[c].id = cs[c].id
                     /\ Plugin!RejectAll(cs, down)[c].answer.kind \in {"unavailable",
                          "stopped_before"}
<1>1. ASSUME NEW c \in Calls
      PROVE  LET a == IF Plugin!StopOf(c, down) = "none" THEN Plugin!Answer("unavailable", "none")
                      ELSE Plugin!Answer("stopped_before", Plugin!StopOf(c, down))
             IN  a \in Answers /\ a.kind \in {"unavailable", "stopped_before"}
  <2>1. Plugin!StopOf(c, down) \in PluginStops
    BY StopIs
  <2>2. "unavailable" \in Kinds /\ "stopped_before" \in Kinds /\ "none" \in PluginStops
    BY DEF Kinds, Plugin!Unstarted, PluginStops
  <2> QED
    BY <2>1, <2>2, AnswerIs
<1>2. ASSUME NEW c \in Calls
      PROVE  /\ Plugin!RejectAll(cs, down)[c] \in [pc : CallerPcs, id : Nat, answer : Answers]
             /\ c \notin Plugin!ToSet(queue) => Plugin!RejectAll(cs, down)[c] = cs[c]
             /\ c \in Plugin!ToSet(queue) =>
                  /\ Plugin!RejectAll(cs, down)[c].pc = "answered"
                  /\ Plugin!RejectAll(cs, down)[c].id = cs[c].id
                  /\ Plugin!RejectAll(cs, down)[c].answer.kind \in {"unavailable", "stopped_before"}
  <2>1. cs[c] \in [pc : CallerPcs, id : Nat, answer : Answers]
    BY DEF Callers
  <2> QED
    BY <1>1, <2>1 DEF Plugin!RejectAll, CallerPcs
<1> QED
  BY <1>2 DEF Plugin!RejectAll, Callers

-----------------------------------------------------------------------------
(* Steps of one shape.                                                     *)

Loose == ActorPcs \ (Early \cup Held)

\* What may be told to a caller with the number id.
Truthful(a, id, c) ==
    /\ a.kind \in Plugin!Unstarted => id \notin peer.seen \cup Ids(inn)
    /\ a.kind \in Plugin!Settled => id \in peer.said
    /\ a.kind = "unknown" => ~peer.alive
    /\ a.kind = "stopped_after" => Justified(a.stop, c)

\* No call is driven any more: its caller, and perhaps those of the queue, are answered.
LEMMA CallLeft ==
    ASSUME Plugin!ActorAssumption, PluginInv, actor' \in Actors, actor'.pc \in Loose,
           actor'.call = NoCall,
           actor'.next = actor.next,
           state' \in {"starting", "ready", "faulted", "stopping", "exited"},
           shutdown' = shutdown, pluginDue' = pluginDue, inn' = inn,
           peer' \in Peers, peer'.seen = peer.seen, peer'.said = peer.said,
           peer'.honest = peer.honest, peer'.alive => peer.alive,
           out' \in Seq(Lines), Given(actor', out'), actor'.part => out' # <<>>,
           peer.honest => actor'.fault # "protocol",
           peer.honest /\ actor'.pc = "idle" => Unjudged(actor', out') = 0 /\ Pending(inn) = {},
           caller' \in Callers, queue' \in {queue, <<>>},
           \A c \in Calls :
               \/ caller'[c] = caller[c]
               \/ /\ caller'[c].pc = "answered" /\ caller'[c].id = caller[c].id
                  /\ Truthful(caller'[c].answer, caller[c].id, c),
           \A c \in Calls : caller'[c].pc = "waiting" <=> c \in Plugin!ToSet(queue')
    PROVE  PluginInv'
<1>1. /\ TypeInv /\ QueueInv /\ IdInv /\ EarlyInv /\ HonestInv /\ AnswerInv
      /\ actor'.pc \notin Early \cup Held /\ NoCall \notin Calls
  BY DEF Plugin!ActorAssumption, PluginInv, Loose
<1>2. /\ queue' \in Seq(Calls) /\ Plugin!ToSet(queue') \subseteq Plugin!ToSet(queue)
           /\ Plugin!ToSet(queue) \subseteq Calls
      /\ \A i, j \in DOMAIN queue' : queue'[i] = queue'[j] => i = j
      /\ Len(queue') <= Capacity
  <2>1. CASE queue' = queue
    BY <1>1, <2>1 DEF TypeInv, QueueInv, Plugin!ToSet
  <2>2. CASE queue' = <<>>
    BY <1>1, <2>2 DEF Plugin!ActorAssumption, TypeInv, Plugin!ToSet
  <2> QED
    BY <2>1, <2>2
<1>3. TypeInv'
  BY <1>1, <1>2 DEF TypeInv
<1>4. QueueInv'
  <2>1. \A c \in Calls : caller'[c].pc # "answered" => caller'[c].answer = Plugin!NoAnswer
    BY <1>1 DEF QueueInv
  <2> QED
    BY <1>1, <1>2, <2>1 DEF QueueInv
<1>5. IdInv'
  <2>1. \A c \in Calls : caller'[c].id = caller[c].id
    OBVIOUS
  <2>2. \A c \in Calls :
          caller'[c].pc \in {"idle", "looked"} \/ c \in Plugin!ToSet(queue') => caller'[c].id = 0
    BY <1>1, <1>2, <2>1 DEF IdInv
  <2> QED
    BY <1>1, <2>1, <2>2 DEF IdInv, Held, Driving
<1>6. EarlyInv'
  BY <1>1 DEF EarlyInv, Early
<1>7. HonestInv'
  BY <1>1 DEF HonestInv, Held, Pending
<1>8. AnswerInv'
  <2>1. Given(actor, out)' /\ (actor'.part => out' # <<>>)
    BY DEF Given
  <2>2. ASSUME NEW c \in Calls
        PROVE  Truthful(caller[c].answer, caller[c].id, c)'
    BY <1>1 DEF AnswerInv, Truthful, Justified
  <2> QED
    BY <1>1, <2>1, <2>2 DEF AnswerInv, Truthful, Held
<1> QED
  BY <1>3, <1>4, <1>5, <1>6, <1>7, <1>8 DEF PluginInv

\* A turn of a call before its end: what it reads and writes.
Turned(a, o, n) ==
    /\ a \in Actors /\ o \in Seq(Lines) /\ n \in Seq(Lines)
    /\ a.next = actor.next /\ a.call = actor.call /\ a.id = actor.id /\ a.fault = actor.fault
    /\ a.part => o # <<>>
    /\ Given(a, o)
    /\ a.stop # "none" => Justified(a.stop, actor.call)
    /\ Ids(n) \subseteq Ids(inn) \cup {actor.id}
    /\ a.evidence = "not" => actor.id \notin peer.seen \cup Ids(n)
    /\ peer.honest => Honest(a, o, n)

Others == UNCHANGED <<shutdown, pluginDue, peer>>

\* The call goes on, or the actor is broken and the call is still to be answered.
LEMMA CallKept ==
    ASSUME Plugin!ActorAssumption, PluginInv, actor.pc \in Driving, NEW a, Turned(a, out', inn'),
           Others,
           actor' \in Actors, actor' = [a EXCEPT !.pc = actor'.pc, !.fault = actor'.fault],
           actor'.pc \in Driving \cup {"fatal"},
           actor'.pc \in {"waiting", "cancelled"} => a.evidence = "all",
           actor'.pc = "writing" => a.evidence # "all",
           peer.honest => actor'.fault # "protocol",
           state' \in {"starting", "ready", "faulted", "stopping", "exited"},
           UNCHANGED <<queue, caller>>
    PROVE  PluginInv'
<1>1. /\ TypeInv /\ QueueInv /\ IdInv /\ EarlyInv /\ HonestInv /\ AnswerInv
      /\ actor'.pc \notin Early \cup {"idle", "verdict"} /\ actor'.pc \in Held /\ actor.pc \in Held
      /\ actor.call \in Calls /\ NoCall \notin Calls
  BY DEF Plugin!ActorAssumption, PluginInv, Driving, Held, Early, TypeInv, QueueInv, Actors
<1>2. /\ a \in Actors /\ actor'.next = actor.next /\ actor'.call = actor.call
      /\ actor'.id = actor.id /\ actor'.lines = a.lines /\ actor'.part = a.part
      /\ actor'.evidence = a.evidence /\ actor'.stop = a.stop /\ a.id = actor.id
  BY DEF Turned, Actors
<1>3. TypeInv'
  BY <1>1 DEF TypeInv, Turned, Others
<1>4. QueueInv'
  BY <1>1, <1>2 DEF QueueInv
<1>5. caller[actor.call].pc = "waiting" /\ caller[actor.call].answer.kind = "none"
  BY <1>1, AnswerIs DEF QueueInv, Plugin!NoAnswer
<1>6. IdInv'
  <2>1. Ids(inn') \subseteq 1 .. actor.next - 1
    <3>1. actor.id \in Nat /\ actor.id # 0 /\ actor.id < actor.next /\ actor.next \in Nat
      BY <1>1 DEF IdInv, TypeInv, Actors
    <3> QED
      BY <1>1, <3>1 DEF IdInv, Turned
  <2> QED
    BY <1>1, <1>2, <2>1 DEF IdInv, Turned, Others, Ids
<1>7. EarlyInv'
  BY <1>1 DEF EarlyInv, Early
<1>8. HonestInv'
  BY <1>1, <1>2 DEF HonestInv, Honest, Turned, Others, Unjudged, Inbound, Plugin!OwnResult, Pending
<1>9. AnswerInv'
  <2>1. Given(actor, out)' /\ (actor'.part => out' # <<>>)
    BY <1>2 DEF Turned, Given, Inbound, Others
  <2>2. actor'.stop # "none" => Justified(actor.stop, actor.call)'
    BY <1>1, <1>2 DEF Turned, Justified, Others
  <2>3. ASSUME NEW c \in Calls
        PROVE  Truthful(caller[c].answer, caller[c].id, c)'
    <3>1. caller[c].answer.kind \in Plugin!Unstarted => caller[c].id \notin peer.seen \cup Ids(inn')
      <4>1. CASE c = actor.call
        BY <1>5, <4>1 DEF Plugin!Unstarted
      <4>2. CASE c # actor.call
        <5>1. caller[c].id # actor.id
          BY <1>1, <4>2 DEF IdInv
        <5> QED
          BY <1>1, <5>1 DEF AnswerInv, Turned
      <4> QED
        BY <4>1, <4>2
    <3> QED
      BY <1>1, <3>1 DEF AnswerInv, Truthful, Justified, Others, Ids
  <2> QED
    BY <1>1, <2>1, <2>2, <2>3 DEF AnswerInv, Truthful, Ids
<1> QED
  BY <1>3, <1>4, <1>6, <1>7, <1>8, <1>9 DEF PluginInv


LEMMA Facts ==
    ASSUME Plugin!ActorAssumption, PluginInv
    PROVE  /\ TypeInv /\ QueueInv /\ IdInv /\ EarlyInv /\ HonestInv /\ AnswerInv
           /\ actor \in Actors /\ caller \in Callers /\ peer \in Peers /\ Plugin!ToSet(queue)
                \subseteq Calls
           /\ out \in Seq(Lines) /\ inn \in Seq(Lines) /\ queue \in Seq(Calls)
           /\ shutdown \in BOOLEAN /\ NoCall \notin Calls
           /\ state \in {"starting", "ready", "faulted", "stopping", "exited"}
           /\ (actor.part => out # <<>>) /\ Given(actor, out)
           /\ actor.pc \in Held => actor.call \in Calls /\ caller[actor.call].id = actor.id
           /\ actor.pc \notin Held => actor.call = NoCall
           /\ \A c \in Calls : Truthful(caller[c].answer, caller[c].id, c)
BY DEF Plugin!ActorAssumption, PluginInv, TypeInv, Plugin!ToSet, AnswerInv, QueueInv, IdInv,
      Actors, Truthful

\* A caller of the queue, whose call nobody has looked at.
LEMMA QueuedAnswer ==
    ASSUME Plugin!ActorAssumption, PluginInv, NEW c \in Plugin!ToSet(queue), NEW a,
           a.kind \in {"unavailable", "stopped_before"}
    PROVE  Truthful(a, caller[c].id, c)
BY Facts DEF Truthful, IdInv, Plugin!Settled

\* What the callers of a step of CallLeft see.
WellTold ==
    /\ caller' \in Callers
    /\ \A c \in Calls :
         \/ caller'[c] = caller[c]
         \/ /\ caller'[c].pc = "answered" /\ caller'[c].id = caller[c].id
            /\ Truthful(caller'[c].answer, caller[c].id, c)
    /\ \A c \in Calls : caller'[c].pc = "waiting" <=> c \in Plugin!ToSet(queue')

\* The call that is driven is answered, and the queue is rejected.
LEMMA ToldAndRejected ==
    ASSUME Plugin!ActorAssumption, PluginInv, actor.pc \in Held, NEW answer \in Answers,
           NEW down \in BOOLEAN,
           Truthful(answer, actor.id, actor.call),
           caller' = Plugin!RejectAll(Plugin!Told(caller, actor.call, answer), down), queue' = <<>>
    PROVE  WellTold
<1> DEFINE told == Plugin!Told(caller, actor.call, answer)
<1>1. /\ TypeInv /\ QueueInv /\ caller \in Callers
      /\ actor.call \in Calls /\ caller[actor.call].id = actor.id
      /\ actor.call \notin Plugin!ToSet(queue) /\ Plugin!ToSet(queue') = {}
  BY Facts DEF QueueInv, Plugin!ToSet
<1>2. /\ told \in Callers
      /\ told[actor.call] = [pc |-> "answered", id |-> actor.id, answer |-> answer]
      /\ \A d \in Calls : d # actor.call => told[d] = caller[d]
  BY <1>1, ToldIs
<1>3. \A c \in Calls :
         caller[c].pc = "waiting" <=> c \in Plugin!ToSet(queue) \/ c = actor.call
  BY <1>1 DEF QueueInv
<1> HIDE DEF told
<1>4. /\ caller' \in Callers
      /\ \A c \in Calls :
           /\ c \notin Plugin!ToSet(queue) => caller'[c] = told[c]
           /\ c \in Plugin!ToSet(queue) =>
                /\ caller'[c].pc = "answered" /\ caller'[c].id = told[c].id
                /\ caller'[c].answer.kind \in {"unavailable", "stopped_before"}
  BY <1>1, <1>2, RejectIs DEF told
<1>5. \A c \in Calls : caller'[c].pc = "waiting" <=> c \in Plugin!ToSet(queue')
  BY <1>1, <1>2, <1>3, <1>4
<1>6. ASSUME NEW c \in Calls
      PROVE  \/ caller'[c] = caller[c]
             \/ /\ caller'[c].pc = "answered" /\ caller'[c].id = caller[c].id
                /\ Truthful(caller'[c].answer, caller[c].id, c)
  <2>1. CASE c \in Plugin!ToSet(queue)
    BY <1>1, <1>2, <1>4, <2>1, QueuedAnswer
  <2>2. CASE c = actor.call
    BY <1>1, <1>2, <1>4, <2>2
  <2>3. CASE c \notin Plugin!ToSet(queue) /\ c # actor.call
    BY <1>2, <1>4, <2>3
  <2> QED
    BY <2>1, <2>2, <2>3
<1> QED
  BY <1>4, <1>5, <1>6 DEF WellTold

\* Only the queue is rejected.
LEMMA QueueRejected ==
    ASSUME Plugin!ActorAssumption, PluginInv, actor.pc \notin Held, NEW down \in BOOLEAN,
           caller' = Plugin!RejectAll(caller, down), queue' = <<>>
    PROVE  WellTold
<1>1. /\ TypeInv /\ QueueInv /\ caller \in Callers /\ actor.call \notin Calls
           /\ Plugin!ToSet(queue') = {}
  BY Facts DEF Plugin!ToSet
<1>2. /\ caller' \in Callers
      /\ \A c \in Calls :
           /\ c \notin Plugin!ToSet(queue) => caller'[c] = caller[c]
           /\ c \in Plugin!ToSet(queue) =>
                /\ caller'[c].pc = "answered" /\ caller'[c].id = caller[c].id
                /\ caller'[c].answer.kind \in {"unavailable", "stopped_before"}
  BY <1>1, RejectIs
<1>3. \A c \in Calls : caller[c].pc = "waiting" <=> c \in Plugin!ToSet(queue)
  BY <1>1 DEF QueueInv
<1> QED
  BY <1>1, <1>2, <1>3, QueuedAnswer DEF WellTold

\* The call that is driven is settled.
LEMMA CallSettled ==
    ASSUME Plugin!ActorAssumption, PluginInv, actor.pc \in Driving, NEW a, Turned(a, out', inn),
           inn' = inn, Others,
           NEW answer \in Answers, Plugin!Settle(a, answer), Truthful(answer, actor.id, actor.call),
           peer.honest => Unjudged(a, out') = 0 /\ Pending(inn) = {}
    PROVE  PluginInv'
<1> DEFINE told == Plugin!Told(caller, actor.call, answer)
<1>1. /\ TypeInv /\ QueueInv /\ IdInv /\ HonestInv /\ actor \in Actors /\ caller \in Callers
      /\ peer \in Peers /\ shutdown \in BOOLEAN /\ NoCall \notin Calls
      /\ actor.pc \in Held /\ actor.call \in Calls /\ caller[actor.call].id = actor.id
      /\ state \in {"starting", "ready", "faulted", "stopping", "exited"}
  BY Facts DEF Held
<1>2. /\ told \in Callers
      /\ told[actor.call] = [pc |-> "answered", id |-> actor.id, answer |-> answer]
      /\ \A d \in Calls : d # actor.call => told[d] = caller[d]
  BY <1>1, ToldIs
<1>3. /\ a \in Actors /\ a.call = actor.call /\ a.next = actor.next /\ a.fault = actor.fault
      /\ Given(a, out') /\ (a.part => out' # <<>>) /\ out' \in Seq(Lines)
      /\ peer.honest => a.fault # "protocol"
  BY <1>1 DEF Turned, HonestInv
<1>4. /\ state' \in {"starting", "ready", "faulted", "stopping", "exited"}
      /\ shutdown' = shutdown /\ pluginDue' = pluginDue /\ peer' = peer
  BY <1>1 DEF Plugin!Settle, Others
<1>5. \A c \in Calls :
         caller[c].pc = "waiting" <=> c \in Plugin!ToSet(queue) \/ c = actor.call
  BY <1>1 DEF QueueInv
<1> HIDE DEF told
<1>6. CASE /\ actor' = [a EXCEPT !.pc = "cleaning", !.call = NoCall]
           /\ caller' = Plugin!RejectAll(told, TRUE) /\ queue' = <<>>
  <2>1. /\ actor' \in Actors /\ actor'.pc = "cleaning" /\ actor'.call = NoCall
        /\ actor'.next = actor.next /\ actor'.fault = actor.fault
        /\ Given(actor', out') /\ (actor'.part => out' # <<>>)
    BY <1>3, <1>6 DEF Actors, ActorPcs, Given, Inbound
  <2>2. WellTold
    BY <1>1, <1>6, ToldAndRejected DEF told
  <2>3. actor'.pc \in Loose /\ actor'.pc # "idle"
    BY <2>1 DEF Loose, Early, Held, Driving, ActorPcs
  <2> QED
    BY <1>1, <1>3, <1>4, <1>6, <2>1, <2>2, <2>3, CallLeft DEF WellTold
<1>7. CASE /\ actor' = [a EXCEPT !.pc = "idle", !.call = NoCall, !.id = 0,
                                 !.evidence = "not", !.stop = "none"]
           /\ caller' = told /\ queue' = queue
  <2>1. /\ actor' \in Actors /\ actor'.pc = "idle" /\ actor'.call = NoCall
        /\ actor'.next = actor.next /\ actor'.fault = actor.fault
        /\ Given(actor', out') /\ (actor'.part => out' # <<>>)
        /\ Unjudged(actor', out') = Unjudged(a, out')
    BY <1>3, <1>7 DEF Actors, ActorPcs, Given, Inbound, PluginStops, Unjudged
  <2>2. \A c \in Calls :
           \/ caller'[c] = caller[c]
           \/ /\ caller'[c].pc = "answered" /\ caller'[c].id = caller[c].id
              /\ Truthful(caller'[c].answer, caller[c].id, c)
    BY <1>1, <1>2, <1>7
  <2>3. \A c \in Calls : caller'[c].pc = "waiting" <=> c \in Plugin!ToSet(queue')
    <3>1. actor.call \notin Plugin!ToSet(queue)
      BY <1>1 DEF QueueInv
    <3> QED
      BY <1>2, <1>5, <1>7, <3>1
  <2>4. actor'.pc \in Loose /\ caller' \in Callers
    BY <1>2, <1>7, <2>1 DEF Loose, Early, Held, Driving, ActorPcs
  <2> QED
    BY <1>1, <1>3, <1>4, <1>7, <2>1, <2>2, <2>3, <2>4, CallLeft
<1> QED
  BY <1>3, <1>6, <1>7 DEF Plugin!Settle, Plugin!ShutdownBegins, told

\* The actor is broken while it drives a call.
LEMMA CallBroken ==
    ASSUME Plugin!ActorAssumption, PluginInv, actor.pc \in Driving, NEW a, Turned(a, out', inn'),
           Others,
           NEW fault \in Faults, Plugin!Fatal(a, fault), peer.honest => fault # "protocol"
    PROVE  PluginInv'
<1>1. a \in Actors
  BY DEF Turned
<1>2. /\ actor' \in Actors /\ actor'.pc = "fatal" /\ actor'.fault = fault
      /\ actor' = [a EXCEPT !.pc = actor'.pc, !.fault = actor'.fault]
  BY <1>1 DEF Plugin!Fatal, Actors, ActorPcs, Held
<1> QED
  BY <1>2, CallKept DEF Plugin!Fatal

LEMMA CallGoesOn ==
    ASSUME Plugin!ActorAssumption, PluginInv, actor.pc \in Driving, NEW a, Turned(a, out', inn'),
           Others,
           NEW place \in Driving, Plugin!Go(a, place),
           place \in {"waiting", "cancelled"} => a.evidence = "all",
           place = "writing" => a.evidence # "all"
    PROVE  PluginInv'
<1>1. a \in Actors /\ a.fault = actor.fault
  BY DEF Turned
<1>2. /\ actor' \in Actors /\ actor'.pc = place /\ actor'.fault = actor.fault
      /\ actor' = [a EXCEPT !.pc = actor'.pc, !.fault = actor'.fault]
  BY <1>1 DEF Plugin!Go, Actors, ActorPcs, Held
<1>3. peer.honest => actor'.fault # "protocol"
  BY <1>2, Facts DEF HonestInv
<1>4. state' \in {"starting", "ready", "faulted", "stopping", "exited"}
  BY Facts DEF Plugin!Go
<1> QED
  BY <1>2, <1>3, <1>4, CallKept DEF Plugin!Go

-----------------------------------------------------------------------------
(* Sequences of lines.                                                     *)

LEMMA AppendIs ==
    ASSUME NEW S, NEW s \in Seq(S), NEW x \in S
    PROVE  /\ Append(s, x) \in Seq(S) /\ Len(Append(s, x)) = Len(s) + 1
           /\ DOMAIN Append(s, x) = DOMAIN s \cup {Len(s) + 1} /\ Len(s) \in Nat
           /\ \A i \in DOMAIN s : Append(s, x)[i] = s[i] /\ i # Len(s) + 1
           /\ Append(s, x)[Len(s) + 1] = x /\ Plugin!ToSet(Append(s, x)) = Plugin!ToSet(s) \cup {x}
<1>1. /\ Append(s, x) \in Seq(S) /\ Len(Append(s, x)) = Len(s) + 1
      /\ DOMAIN Append(s, x) = DOMAIN s \cup {Len(s) + 1} /\ Len(s) \in Nat
      /\ \A i \in DOMAIN s : Append(s, x)[i] = s[i] /\ i # Len(s) + 1
      /\ Append(s, x)[Len(s) + 1] = x
  OBVIOUS
<1> DEFINE t == Append(s, x)
<1> HIDE DEF t
<1>2. Plugin!ToSet(t) = Plugin!ToSet(s) \cup {x}
  BY <1>1 DEF Plugin!ToSet, t
<1> QED
  BY <1>1, <1>2 DEF t

LEMMA TailIs ==
    ASSUME NEW S, NEW s \in Seq(S), s # <<>>
    PROVE  /\ Head(s) \in S /\ Tail(s) \in Seq(S) /\ Len(Tail(s)) = Len(s) - 1
           /\ Len(s) \in Nat /\ 1 \in DOMAIN s /\ Head(s) = s[1]
           /\ \A i \in DOMAIN Tail(s) : i + 1 \in DOMAIN s /\ Tail(s)[i] = s[i + 1]
           /\ \A i \in DOMAIN s : i = 1 \/ (i - 1 \in DOMAIN Tail(s) /\ s[i] = Tail(s)[i - 1])
           /\ Plugin!ToSet(s) = {Head(s)} \cup Plugin!ToSet(Tail(s))
<1>1. /\ Head(s) \in S /\ Tail(s) \in Seq(S) /\ Len(Tail(s)) = Len(s) - 1
      /\ Len(s) \in Nat /\ 1 \in DOMAIN s /\ Head(s) = s[1] /\ DOMAIN s = 1 .. Len(s)
  OBVIOUS
<1>2. \A i \in DOMAIN Tail(s) : i + 1 \in DOMAIN s /\ Tail(s)[i] = s[i + 1]
  BY <1>1
<1>3. \A i \in DOMAIN s : i = 1 \/ (i - 1 \in DOMAIN Tail(s) /\ s[i] = Tail(s)[i - 1])
  BY <1>1
<1> DEFINE t == Tail(s)
<1> HIDE DEF t
<1>4. Plugin!ToSet(s) = {Head(s)} \cup Plugin!ToSet(t)
  <2>1. /\ 1 \in DOMAIN s /\ Head(s) = s[1]
        /\ \A i \in DOMAIN t : i + 1 \in DOMAIN s /\ t[i] = s[i + 1]
        /\ \A i \in DOMAIN s : i = 1 \/ (i - 1 \in DOMAIN t /\ s[i] = t[i - 1])
    BY <1>1, <1>2, <1>3 DEF t
  <2>2. \A i \in DOMAIN s : s[i] \in {Head(s)} \cup Plugin!ToSet(t)
    BY <2>1 DEF Plugin!ToSet
  <2>3. Head(s) \in Plugin!ToSet(s) /\ \A i \in DOMAIN t : t[i] \in Plugin!ToSet(s)
    BY <2>1 DEF Plugin!ToSet
  <2> QED
    BY <2>2, <2>3 DEF Plugin!ToSet
<1> QED
  BY <1>1, <1>2, <1>3, <1>4 DEF t

LEMMA AppendLine ==
    ASSUME NEW n \in Seq(Lines), NEW l \in Lines
    PROVE  /\ Append(n, l) \in Seq(Lines) /\ Ids(Append(n, l)) = Ids(n) \cup {l.id}
           /\ CallsIn(Append(n, l)) =
                CallsIn(n) \cup (IF l.kind = "call" THEN {l.id} ELSE {})
<1> DEFINE t == Append(n, l)
<1>1. /\ t \in Seq(Lines) /\ DOMAIN t = DOMAIN n \cup {Len(n) + 1}
      /\ \A i \in DOMAIN n : t[i] = n[i] /\ i # Len(n) + 1
      /\ t[Len(n) + 1] = l
  BY AppendIs
<1> HIDE DEF t
<1>2. Ids(t) = Ids(n) \cup {l.id}
  BY <1>1 DEF Ids
<1>3. CallsIn(t) = CallsIn(n) \cup (IF l.kind = "call" THEN {l.id} ELSE {})
  BY <1>1 DEF CallsIn
<1> QED
  BY <1>1, <1>2, <1>3 DEF t

LEMMA TailLine ==
    ASSUME NEW n \in Seq(Lines), n # <<>>
    PROVE  /\ Tail(n) \in Seq(Lines) /\ Head(n) \in Lines
           /\ Ids(Tail(n)) \subseteq Ids(n) /\ Head(n).id \in Ids(n)
           /\ CallsIn(Tail(n)) \subseteq CallsIn(n)
           /\ CallsIn(n) \subseteq CallsIn(Tail(n)) \cup
                (IF Head(n).kind = "call" THEN {Head(n).id} ELSE {})
           /\ Head(n).kind = "call" => Head(n).id \in CallsIn(n)
<1> DEFINE t == Tail(n)
<1>1. /\ t \in Seq(Lines) /\ Head(n) \in Lines /\ 1 \in DOMAIN n /\ Head(n) = n[1]
      /\ \A i \in DOMAIN t : i + 1 \in DOMAIN n /\ t[i] = n[i + 1]
      /\ \A i \in DOMAIN n : i = 1 \/ (i - 1 \in DOMAIN t /\ n[i] = t[i - 1])
  BY TailIs
<1> HIDE DEF t
<1>2. Ids(t) \subseteq Ids(n) /\ Head(n).id \in Ids(n)
  BY <1>1 DEF Ids
<1>3. CallsIn(t) \subseteq CallsIn(n)
  BY <1>1 DEF CallsIn
<1>4. CallsIn(n) \subseteq CallsIn(t) \cup (IF Head(n).kind = "call" THEN {Head(n).id} ELSE {})
  BY <1>1 DEF CallsIn
<1>5. Head(n).kind = "call" => Head(n).id \in CallsIn(n)
  BY <1>1 DEF CallsIn
<1> QED
  BY <1>1, <1>2, <1>3, <1>4, <1>5 DEF t

-----------------------------------------------------------------------------
(* The turns of a call.                                                    *)

\* The actor as it stands, with a stop that it has just seen.
LEMMA LatchedIs ==
    ASSUME Plugin!ActorAssumption, PluginInv, actor.pc \in Driving
    PROVE  /\ Turned(actor, out, inn) /\ Turned(Plugin!Latched, out, inn)
           /\ Plugin!Latched = [actor EXCEPT !.stop = Plugin!Latched.stop]
           /\ Plugin!Latched.lines = actor.lines /\ Plugin!Latched.part = actor.part
           /\ Plugin!Latched.evidence = actor.evidence /\ Plugin!Latched.id = actor.id
                /\ Plugin!Latched \in Actors
<1>1. /\ actor \in Actors /\ actor.call \in Calls /\ TypeInv /\ shutdown \in BOOLEAN
      /\ actor.pc \in Held /\ Given(actor, out) /\ (actor.part => out # <<>>)
      /\ inn \in Seq(Lines) /\ out \in Seq(Lines) /\ IdInv /\ HonestInv /\ AnswerInv
  BY Facts DEF Held
<1>2. /\ Plugin!StopOf(actor.call, shutdown) \in PluginStops
      /\ Plugin!StopOf(actor.call, shutdown) # "none" => Justified(Plugin!StopOf(actor.call,
           shutdown), actor.call)
  BY <1>1, StopIs DEF Justified
<1>3. actor.stop # "none" => Justified(actor.stop, actor.call)
  BY <1>1 DEF AnswerInv
<1>4. Turned(actor, out, inn)
  BY <1>1, <1>3 DEF Turned, IdInv, HonestInv
<1>5. /\ Plugin!Latched \in Actors /\ Plugin!Latched = [actor EXCEPT !.stop = Plugin!Latched.stop]
      /\ Plugin!Latched.stop # "none" => Justified(Plugin!Latched.stop, actor.call)
  BY <1>1, <1>2, <1>3 DEF Plugin!Latched, Plugin!First, Actors
<1>6. /\ Plugin!Latched.lines = actor.lines /\ Plugin!Latched.part = actor.part
           /\ Plugin!Latched.id = actor.id
      /\ Plugin!Latched.evidence = actor.evidence /\ Plugin!Latched.next = actor.next
      /\ Plugin!Latched.call = actor.call /\ Plugin!Latched.fault = actor.fault
  BY <1>1 DEF Plugin!Latched, Actors
<1>7. Turned(Plugin!Latched, out, inn)
  BY <1>4, <1>5, <1>6 DEF Turned, Given, Inbound, Honest, Unjudged, Plugin!OwnResult
<1> QED
  BY <1>4, <1>5, <1>6, <1>7

LEMMA PumpTurns ==
    ASSUME Plugin!ActorAssumption, PluginInv, actor.pc \in Driving, NEW a, Turned(a, out, inn),
           a.lines = actor.lines,
           a.part = actor.part, NEW p \in Plugin!Pumped
    PROVE  /\ Turned(Plugin!Read(a, p), Plugin!Rest(p), inn)
           /\ Plugin!Read(a, p).evidence = a.evidence /\ Plugin!Read(a, p).stop = a.stop
           /\ Unjudged(Plugin!Read(a, p), Plugin!Rest(p)) = Unjudged(a, out)
           /\ p.fault \in {"none", "process", "limit", "lost"}
<1>1. TypeInv /\ a \in Actors /\ (actor.part => out # <<>>)
  BY Facts DEF Turned
<1>2. /\ p.fault \in {"none", "process", "limit", "lost"}
      /\ Plugin!Read(a, p) \in Actors /\ Plugin!Rest(p) \in Seq(Lines)
      /\ \E f \in Nat, ls \in Seq(Lines), b \in BOOLEAN :
           Plugin!Read(a, p) = [a EXCEPT !.lines = ls, !.part = b, !.faults = f]
      /\ Inbound(Plugin!Read(a, p), Plugin!Rest(p)) = Inbound(a, out)
      /\ Unjudged(Plugin!Read(a, p), Plugin!Rest(p)) = Unjudged(a, out)
      /\ Plugin!Read(a, p).part => Plugin!Rest(p) # <<>>
  BY <1>1, PumpIs
<1> DEFINE b == Plugin!Read(a, p)
<1>3. /\ b.next = a.next /\ b.call = a.call /\ b.id = a.id /\ b.fault = a.fault /\ b.stop = a.stop
      /\ b.evidence = a.evidence
  BY <1>1, <1>2 DEF Actors
<1> HIDE DEF b
<1>4. Turned(b, Plugin!Rest(p), inn)
  <2>1. b \in Actors /\ Inbound(b, Plugin!Rest(p)) = Inbound(a, out)
        /\ Unjudged(b, Plugin!Rest(p)) = Unjudged(a, out) /\ (b.part => Plugin!Rest(p) # <<>>)
    BY <1>2 DEF b
  <2> QED
    BY <1>2, <1>3, <2>1 DEF Turned, Given, Honest, Plugin!OwnResult
<1> QED
  BY <1>2, <1>3, <1>4 DEF b

\* The first whole line is taken.
LEMMA TakeTurn ==
    ASSUME Plugin!ActorAssumption, PluginInv, actor.pc \in Driving, NEW a, Turned(a, out', inn),
           inn' = inn, Others,
           a.lines # <<>>, a.evidence = "all", Plugin!Take(a)
    PROVE  PluginInv'
<1> DEFINE l == Head(a.lines)
           rest == [a EXCEPT !.lines = Tail(@)]
<1>1. /\ a \in Actors /\ a.lines \in Seq(Lines) /\ out' \in Seq(Lines) /\ a.id = actor.id
      /\ a.call = actor.call
  BY DEF Turned, Actors
<1>2. /\ l \in Lines /\ Tail(a.lines) \in Seq(Lines) /\ Len(Tail(a.lines)) = Len(a.lines) - 1
      /\ Len(a.lines) \in Nat /\ Len(a.lines) # 0 /\ Plugin!ToSet(a.lines) = {l}
           \cup Plugin!ToSet(Tail(a.lines))
      /\ Len(out') \in Nat
  BY <1>1, TailIs
<1>3. /\ rest \in Actors /\ rest.lines = Tail(a.lines) /\ rest.part = a.part
      /\ rest.next = a.next /\ rest.call = a.call /\ rest.id = a.id /\ rest.fault = a.fault
      /\ rest.stop = a.stop /\ rest.evidence = a.evidence
  BY <1>1, <1>2 DEF Actors
<1> HIDE DEF l, rest
<1>4. l \in Inbound(a, out') /\ Inbound(rest, out') \subseteq Inbound(a, out')
  BY <1>2, <1>3 DEF Inbound
<1>5. Unjudged(rest, out') = Unjudged(a, out') - 1 /\ Unjudged(a, out') \in Nat
      /\ Unjudged(a, out') # 0
  BY <1>2, <1>3 DEF Unjudged
<1>6. peer.honest => /\ Unjudged(rest, out') = 0 /\ Pending(inn) = {} /\ Plugin!OwnResult(a, l)
  BY <1>4, <1>5 DEF Turned, Honest
<1>7. Turned(rest, out', inn)
  BY <1>3, <1>4, <1>6 DEF Turned, Given, Honest
<1>8. CASE ~Plugin!OwnResult(a, l)
  <2>1. Plugin!Fatal(rest, "protocol") /\ "protocol" \in Faults
    BY <1>8 DEF Plugin!Take, Faults, l, rest
  <2> QED
    BY <1>6, <1>7, <1>8, <2>1, CallBroken
<1>9. CASE Plugin!OwnResult(a, l)
  <2> DEFINE ans == IF a.stop # "none" THEN Plugin!Answer("stopped_after", a.stop)
                    ELSE Plugin!Answer(IF l.kind = "result" THEN "settled" ELSE "invalid_output",
                          "none")
  <2>1. Plugin!Settle(rest, ans)
    BY <1>9 DEF Plugin!Take, l, rest
  <2>2. a.stop \in PluginStops /\ {"stopped_after", "settled", "invalid_output"} \subseteq Kinds
        /\ "none" \in PluginStops
    BY <1>1 DEF Actors, Kinds, Plugin!Settled, PluginStops
  <2>3. ans \in Answers /\ ans.kind \in Plugin!Settled /\ (ans.kind = "stopped_after"
        => ans.stop = a.stop /\ a.stop # "none")
    BY <2>2, AnswerIs DEF Plugin!Settled
  <2> HIDE DEF ans
  <2>4. actor.id \in peer.said
    BY <1>1, <1>4, <1>9 DEF Turned, Given, Plugin!OwnResult
  <2>5. Truthful(ans, actor.id, actor.call)
    BY <1>1, <2>3, <2>4 DEF Truthful, Plugin!Settled, Plugin!Unstarted, Turned
  <2> QED
    BY <1>6, <1>7, <2>1, <2>3, <2>5, CallSettled
<1> QED
  BY <1>8, <1>9

LEMMA PumpAndTakeTurn ==
    ASSUME Plugin!ActorAssumption, PluginInv, actor.pc \in {"waiting", "cancelled"}, NEW a,
           Turned(a, out, inn),
           a.lines = actor.lines, a.part = actor.part, a.evidence = "all",
           inn' = inn, Others, Plugin!PumpAndTake(a)
    PROVE  PluginInv'
<1>1. PICK p \in Plugin!Pumped :
        /\ out' = Plugin!Rest(p)
        /\ CASE p.fault = "lost" -> Plugin!Fatal(Plugin!Read(a, p), "lost")
             [] p.fault # "lost" /\ Plugin!Read(a, p).lines # <<>> -> Plugin!Take(Plugin!Read(a, p))
             [] p.fault \notin {"lost", "none"} /\ Plugin!Read(a, p).lines = <<>> ->
                  Plugin!Fatal(Plugin!Read(a, p), p.fault)
             [] OTHER -> Plugin!Go(Plugin!Read(a, p), actor.pc)
  BY DEF Plugin!PumpAndTake
<1> DEFINE b == Plugin!Read(a, p)
<1>2. /\ actor.pc \in Driving /\ Turned(b, out', inn) /\ Turned(b, out', inn') /\ b.evidence = "all"
      /\ p.fault \in {"none", "process", "limit", "lost"}
  BY <1>1, PumpTurns DEF Driving
<1> HIDE DEF b
<1>3. CASE p.fault = "lost" /\ Plugin!Fatal(b, "lost")
  BY <1>2, <1>3, CallBroken DEF Faults
<1>4. CASE b.lines # <<>> /\ Plugin!Take(b)
  BY <1>2, <1>4, TakeTurn
<1>5. CASE p.fault \notin {"lost", "none"} /\ Plugin!Fatal(b, p.fault)
  BY <1>2, <1>5, CallBroken DEF Faults
<1>6. CASE Plugin!Go(b, actor.pc)
  BY <1>2, <1>6, CallGoesOn
<1> QED
  BY <1>1, <1>3, <1>4, <1>5, <1>6 DEF b


LEMMA WaitTurns ==
    ASSUME Plugin!ActorAssumption, PluginInv, Plugin!WaitTurn
    PROVE  PluginInv'
<1>1. /\ actor.pc = "waiting" /\ actor.pc \in Driving /\ Others /\ IdInv /\ actor \in Actors
      /\ inn \in Seq(Lines) /\ actor.pc \in Held
  BY Facts DEF Plugin!WaitTurn, Driving, Others, Held
<1>2. /\ Turned(Plugin!Latched, out, inn) /\ Plugin!Latched.lines = actor.lines
           /\ Plugin!Latched.part = actor.part
      /\ Plugin!Latched.evidence = "all" /\ Plugin!Latched \in Actors
           /\ Plugin!Latched.id = actor.id
  BY <1>1, LatchedIs DEF IdInv
<1>3. CASE Plugin!Latched.lines # <<>> /\ Plugin!Take(Plugin!Latched) /\ UNCHANGED <<out, inn>>
  BY <1>1, <1>2, <1>3, TakeTurn
<1>4. CASE Plugin!Fatal(Plugin!Latched, "process") /\ UNCHANGED <<out, inn>>
  BY <1>1, <1>2, <1>4, CallBroken DEF Faults
<1>5. CASE \E p \in Plugin!Pumped :
              /\ out' = Plugin!Rest(p)
              /\ inn' = Append(inn, Plugin!Line("cancel", actor.id))
              /\ Plugin!Go(Plugin!Read(Plugin!Latched, p), "cancelled")
  <2>1. PICK p \in Plugin!Pumped : /\ out' = Plugin!Rest(p)
                            /\ inn' = Append(inn, Plugin!Line("cancel", actor.id))
                            /\ Plugin!Go(Plugin!Read(Plugin!Latched, p), "cancelled")
    BY <1>5
  <2> DEFINE b == Plugin!Read(Plugin!Latched, p)
  <2>2. Turned(b, out', inn) /\ b.evidence = "all"
    BY <1>1, <1>2, <2>1, PumpTurns
  <2> HIDE DEF b
  <2>3. Plugin!Line("cancel", actor.id) \in Lines /\ Plugin!Line("cancel", actor.id).id = actor.id
        /\ Plugin!Line("cancel", actor.id).kind = "cancel"
    BY <1>1 DEF Plugin!Line, Lines, Actors
  <2>4. inn' \in Seq(Lines) /\ Ids(inn') = Ids(inn) \cup {actor.id} /\ CallsIn(inn') = CallsIn(inn)
    BY <1>1, <2>1, <2>3, AppendLine
  <2>5. Turned(b, out', inn')
    BY <2>2, <2>4 DEF Turned, Honest, Pending
  <2> QED
    BY <1>1, <2>1, <2>2, <2>5, CallGoesOn DEF Driving, b
<1>6. CASE Plugin!PumpAndTake(Plugin!Latched) /\ inn' = inn
  BY <1>1, <1>2, <1>6, PumpAndTakeTurn
<1> QED
  BY <1>3, <1>4, <1>5, <1>6 DEF Plugin!WaitTurn

LEMMA CancelledTurns ==
    ASSUME Plugin!ActorAssumption, PluginInv, Plugin!CancelledTurn
    PROVE  PluginInv'
<1>1. /\ actor.pc = "cancelled" /\ actor.pc \in Driving /\ Others /\ IdInv /\ actor \in Actors
      /\ actor.pc \in Held /\ inn' = inn
  BY Facts DEF Plugin!CancelledTurn, Driving, Others, Held
<1>2. Turned(actor, out, inn) /\ actor.evidence = "all"
  BY <1>1, LatchedIs DEF IdInv
<1>3. CASE actor.lines # <<>> /\ Plugin!Take(actor) /\ out' = out
  BY <1>1, <1>2, <1>3, TakeTurn
<1>4. CASE Plugin!Fatal(actor, "process") /\ out' = out
  BY <1>1, <1>2, <1>4, CallBroken DEF Faults
<1>5. CASE Plugin!PumpAndTake(actor)
  BY <1>1, <1>2, <1>5, PumpAndTakeTurn
<1> QED
  BY <1>3, <1>4, <1>5 DEF Plugin!CancelledTurn

LEMMA WriteTurns ==
    ASSUME Plugin!ActorAssumption, PluginInv, Plugin!WriteTurn
    PROVE  PluginInv'
<1>1. /\ actor.pc = "writing" /\ actor.pc \in Driving /\ Others /\ IdInv /\ actor \in Actors
      /\ inn \in Seq(Lines) /\ actor.pc \in Held /\ actor.evidence # "all"
      /\ peer.honest => Unjudged(actor, out) = 0 /\ Pending(inn) = {}
  <2>1. actor.pc = "writing" /\ Others /\ actor.pc \in Driving
    BY DEF Plugin!WriteTurn, Driving, Others
  <2> QED
    BY <2>1, Facts DEF Held, IdInv, HonestInv, Honest
<1>2. /\ Turned(Plugin!Latched, out, inn) /\ Plugin!Latched.lines = actor.lines
           /\ Plugin!Latched.part = actor.part
      /\ Plugin!Latched.evidence = actor.evidence /\ Plugin!Latched \in Actors
           /\ Plugin!Latched.id = actor.id
  BY <1>1, LatchedIs
<1>3. CASE /\ Plugin!Latched.stop # "none" /\ actor.evidence = "not"
           /\ Plugin!Settle(Plugin!Latched, Plugin!Answer("stopped_before", Plugin!Latched.stop))
                /\ UNCHANGED <<out, inn>>
  <2> DEFINE ans == Plugin!Answer("stopped_before", Plugin!Latched.stop)
  <2>1. ans \in Answers /\ ans.kind = "stopped_before"
    BY <1>2, AnswerIs DEF Actors, Kinds, Plugin!Unstarted
  <2>2. Unjudged(Plugin!Latched, out) = Unjudged(actor, out)
    BY <1>2 DEF Unjudged
  <2> HIDE DEF ans
  <2>3. Truthful(ans, actor.id, actor.call)
    BY <1>1, <1>3, <2>1 DEF Truthful, IdInv, Plugin!Settled
  <2> QED
    BY <1>1, <1>2, <1>3, <2>1, <2>2, <2>3, CallSettled DEF ans
<1>4. CASE \E f \in {"write_timeout", "process"} : Plugin!Fatal(Plugin!Latched, f)
      /\ UNCHANGED <<out, inn>>
  BY <1>1, <1>2, <1>4, CallBroken DEF Faults
<1>5. ASSUME NEW p \in Plugin!Pumped, NEW e \in {actor.evidence, "may", "all"},
             out' = Plugin!Rest(p),
             inn' = (IF e = "all" THEN Append(inn, Plugin!Line("call", [Plugin!Read(Plugin!Latched,
                   p) EXCEPT !.evidence = e].id))
                     ELSE inn),
             CASE p.fault = "lost" -> Plugin!Fatal([Plugin!Read(Plugin!Latched,
                   p) EXCEPT !.evidence = e], "lost")
               [] p.fault # "lost" /\ [Plugin!Read(Plugin!Latched,
                     p) EXCEPT !.evidence = e].lines # <<>> ->
                     IF e = "all" THEN Plugin!Go([Plugin!Read(Plugin!Latched,
                           p) EXCEPT !.evidence = e], "waiting")
                     ELSE Plugin!Fatal([Plugin!Read(Plugin!Latched, p) EXCEPT !.evidence = e],
                           "protocol")
               [] p.fault \notin {"lost", "none"} /\ [Plugin!Read(Plugin!Latched,
                     p) EXCEPT !.evidence = e].lines = <<>> ->
                     Plugin!Fatal([Plugin!Read(Plugin!Latched, p) EXCEPT !.evidence = e], p.fault)
               [] OTHER -> Plugin!Go([Plugin!Read(Plugin!Latched, p) EXCEPT !.evidence = e],
                              IF e = "all" THEN "waiting" ELSE "writing")
      PROVE  PluginInv'
  <2> DEFINE r == Plugin!Read(Plugin!Latched, p)
             b == [Plugin!Read(Plugin!Latched, p) EXCEPT !.evidence = e]
  <2>1. /\ Turned(r, out', inn) /\ r.evidence = actor.evidence
        /\ Unjudged(r, out') = Unjudged(Plugin!Latched, out) /\ p.fault \in {"none", "process",
             "limit", "lost"}
    BY <1>1, <1>2, <1>5, PumpTurns
  <2>2. Unjudged(Plugin!Latched, out) = Unjudged(actor, out)
    BY <1>2 DEF Unjudged
  <2>3. e \in {"not", "may", "all"} /\ (e = "not" => actor.evidence = "not")
    BY <1>1 DEF Actors
  <2>4. /\ b \in Actors /\ b.next = r.next /\ b.call = r.call /\ b.id = r.id /\ b.fault = r.fault
        /\ b.part = r.part /\ b.lines = r.lines /\ b.stop = r.stop /\ b.evidence = e
    BY <2>1, <2>3 DEF Turned, Actors
  <2>5. r.id = actor.id /\ r.lines \in Seq(Lines) /\ out' \in Seq(Lines)
    BY <2>1 DEF Turned, Actors
  <2> HIDE DEF r, b
  <2>6. /\ inn' \in Seq(Lines) /\ Ids(inn') \subseteq Ids(inn) \cup {actor.id}
        /\ e # "all" => inn' = inn
        /\ CallsIn(inn') \subseteq CallsIn(inn) \cup {actor.id}
    <3>1. CASE e = "all"
      <4>1. inn' = Append(inn, Plugin!Line("call", actor.id))
        BY <1>5, <2>4, <2>5, <3>1 DEF b
      <4>2. Plugin!Line("call", actor.id) \in Lines /\ Plugin!Line("call", actor.id).id = actor.id
            /\ Plugin!Line("call", actor.id).kind = "call"
        BY <1>1 DEF Plugin!Line, Lines, Actors
      <4> QED
        BY <1>1, <3>1, <4>1, <4>2, AppendLine
    <3>2. CASE e # "all"
      BY <1>1, <1>5, <3>2
    <3> QED
      BY <3>1, <3>2
  <2>7. peer.honest => Unjudged(b, out') = 0
    BY <1>1, <2>1, <2>2, <2>4 DEF Unjudged
  <2>8. Turned(b, out', inn')
    <3>1. peer.honest => Honest(b, out', inn')
      BY <1>1, <2>4, <2>5, <2>6, <2>7 DEF Honest, Pending
    <3>2. b.evidence = "not" => actor.id \notin peer.seen \cup Ids(inn')
      BY <1>1, <2>3, <2>4, <2>6 DEF IdInv
    <3> QED
      BY <2>1, <2>4, <2>5, <2>6, <3>1, <3>2 DEF Turned, Given, Inbound
  <2>9. peer.honest => b.lines = <<>>
    <3>1. Len(b.lines) \in Nat /\ Len(out') \in Nat /\ b.lines \in Seq(Lines)
      BY <2>4, <2>5
    <3> QED
      BY <2>7, <3>1 DEF Unjudged
  <2>10. CASE \E f \in {"lost", p.fault} : f # "none" /\ Plugin!Fatal(b, f)
    BY <1>1, <2>1, <2>8, <2>10, CallBroken DEF Faults
  <2>11. CASE b.lines # <<>> /\ Plugin!Fatal(b, "protocol")
    BY <1>1, <2>8, <2>9, <2>11, CallBroken DEF Faults
  <2>12. CASE Plugin!Go(b, IF e = "all" THEN "waiting" ELSE "writing")
    BY <1>1, <2>4, <2>8, <2>12, CallGoesOn DEF Driving
  <2> QED
    BY <1>5, <2>10, <2>11, <2>12 DEF b
<1> QED
  BY <1>3, <1>4, <1>5, ZenonT(60) DEF Plugin!WriteTurn

-----------------------------------------------------------------------------
(* Steps while no call is driven.                                          *)

LEMMA Untold ==
    ASSUME Plugin!ActorAssumption, PluginInv, actor.pc \notin Held, UNCHANGED <<caller, queue>>
    PROVE  WellTold
<1>1. QueueInv /\ caller \in Callers /\ actor.call \notin Calls
  BY Facts
<1> QED
  BY <1>1 DEF WellTold, QueueInv

\* The thread comes to its end: nothing is read any more.
LEMMA Closing ==
    ASSUME Plugin!ActorAssumption, PluginInv, WellTold, queue' \in {queue, <<>>}, actor' \in Actors,
           actor'.pc \in Loose \ {"idle"}, actor'.call = NoCall, actor'.next = actor.next,
           actor'.lines = actor.lines, actor'.part = actor.part,
           peer.honest => actor'.fault # "protocol",
           state' \in {"starting", "ready", "faulted", "stopping", "exited"},
           peer' \in {peer, [peer EXCEPT !.alive = FALSE]},
           UNCHANGED <<shutdown, pluginDue, out, inn>>
    PROVE  PluginInv'
<1>1. /\ Given(actor', out') /\ (actor'.part => out' # <<>>) /\ out' \in Seq(Lines)
  BY Facts DEF Given, Inbound
<1>2. /\ peer' \in Peers /\ peer'.seen = peer.seen /\ peer'.said = peer.said
      /\ peer'.honest = peer.honest /\ (peer'.alive => peer.alive)
  BY Facts DEF Peers
<1> QED
  BY <1>1, <1>2, CallLeft DEF WellTold

\* The process is started, and says who it is.
LEMMA Starting ==
    ASSUME Plugin!ActorAssumption, PluginInv, actor.pc \in Early, actor' \in Actors,
           actor'.pc \in {"hello", "ready"},
           actor'.call = actor.call, actor'.next = actor.next, actor'.lines = actor.lines,
           actor'.part = actor.part, actor'.fault = actor.fault,
           peer' \in {peer, [peer EXCEPT !.alive = TRUE]}, out' = <<>>,
           UNCHANGED <<state, shutdown, queue, caller, pluginDue, inn>>
    PROVE  PluginInv'
<1>1. /\ TypeInv /\ QueueInv /\ IdInv /\ EarlyInv /\ HonestInv /\ AnswerInv /\ inn = <<>>
      /\ actor.pc \notin Held /\ actor'.pc \notin Held \cup {"idle"} /\ actor'.pc \in Early
      /\ actor'.part = FALSE /\ actor'.lines = <<>> /\ actor'.fault = "none"
      /\ \A c \in Calls : caller[c] = [pc |-> "idle", id |-> 0, answer |-> Plugin!NoAnswer]
      /\ Plugin!NoAnswer.kind = "none"
  BY Facts, AnswerIs DEF EarlyInv, Early, Held, Driving, Actors, Plugin!NoAnswer
<1>2. /\ peer' \in Peers /\ peer'.seen = peer.seen /\ peer'.said = peer.said
      /\ peer'.honest = peer.honest
  BY <1>1 DEF TypeInv, Peers
<1>3. TypeInv'
  BY <1>1, <1>2 DEF TypeInv
<1>4. QueueInv'
  BY <1>1 DEF QueueInv
<1>5. IdInv'
  BY <1>1, <1>2 DEF IdInv, Driving, Held
<1>6. EarlyInv'
  BY <1>1, <1>2 DEF EarlyInv
<1>7. HonestInv'
  BY <1>1 DEF HonestInv, Held
<1>8. AnswerInv'
  <2>1. Plugin!ToSet(out') = {} /\ Plugin!ToSet(actor'.lines) = {}
    BY <1>1 DEF Plugin!ToSet
  <2>2. Given(actor, out)'
    BY <2>1 DEF Given, Inbound
  <2>3. ASSUME NEW c \in Calls
        PROVE  caller'[c].answer.kind \notin Plugin!Unstarted \cup Plugin!Settled \cup {"unknown",
              "stopped_after"}
    BY <1>1 DEF Plugin!Unstarted, Plugin!Settled
  <2> QED
    BY <1>1, <2>2, <2>3 DEF AnswerInv, Held
<1> QED
  BY <1>3, <1>4, <1>5, <1>6, <1>7, <1>8 DEF PluginInv

\* The actor before its first call and after its last.
LEMMA Ends ==
    ASSUME Plugin!ActorAssumption, PluginInv,
           \/ \E r \in {"ok", "failed", "lost"} : Plugin!StartProcess(r)
           \/ Plugin!HelloFails \/ Plugin!Hello \/ Plugin!Ready
           \/ Plugin!RejectForFault \/ Plugin!ShutdownSweep \/ Plugin!Exit
    PROVE  PluginInv'
<1>1. actor \in Actors /\ EarlyInv /\ HonestInv /\ peer \in Peers
      /\ state \in {"starting", "ready", "faulted", "stopping", "exited"} /\ shutdown \in BOOLEAN
      /\ (actor.pc \notin Held => actor.call = NoCall)
  BY Facts
<1>2. peer.honest => actor.fault # "protocol"
  BY <1>1 DEF HonestInv
<1>3. ASSUME NEW r \in {"ok", "failed", "lost"}, Plugin!StartProcess(r)  PROVE PluginInv'
  <2>1. actor.pc = "launch" /\ actor.pc \in Early /\ actor.pc \notin Held /\ out = <<>>
        /\ actor.call = NoCall
    BY <1>1, <1>3 DEF Plugin!StartProcess, Early, Held, Driving, EarlyInv
  <2>2. CASE r = "ok"
    <3>1. /\ actor' = [actor EXCEPT !.pc = "hello"] /\ peer' = [peer EXCEPT !.alive = TRUE]
          /\ UNCHANGED <<state, shutdown, queue, caller, pluginDue, out, inn>>
      BY <1>3, <2>2 DEF Plugin!StartProcess
    <3>2. /\ actor' \in Actors /\ actor'.pc = "hello"
          /\ actor'.call = actor.call /\ actor'.next = actor.next /\ actor'.lines = actor.lines
          /\ actor'.part = actor.part /\ actor'.fault = actor.fault
      BY <1>1, <3>1 DEF Actors, ActorPcs, Early
    <3> QED
      BY <2>1, <3>1, <3>2, Starting
  <2>3. CASE r # "ok"
    <3>1. /\ \E x \in {"clean", "lost"} : actor' = [actor EXCEPT !.pc = "gone", !.exit = x]
          /\ state' \in {"exited", "faulted"} /\ UNCHANGED <<peer, shutdown, queue, caller,
               pluginDue, out, inn>>
      BY <1>3, <2>3 DEF Plugin!StartProcess
    <3>2. /\ actor' \in Actors /\ actor'.pc = "gone"
          /\ actor'.call = actor.call /\ actor'.next = actor.next /\ actor'.lines = actor.lines
          /\ actor'.part = actor.part /\ actor'.fault = actor.fault
      BY <1>1, <3>1, ZenonT(60) DEF Actors, ActorPcs
    <3>3. actor'.pc \in Loose \ {"idle"}
      BY <3>2 DEF Loose, ActorPcs, Early, Held, Driving
    <3> QED
      BY <1>2, <2>1, <3>1, <3>2, <3>3, Untold, Closing
  <2> QED
    BY <2>2, <2>3
<1>4. ASSUME Plugin!HelloFails  PROVE PluginInv'
  <2>1. actor.pc \notin Held /\ actor.call = NoCall
    BY <1>1, <1>4 DEF Plugin!HelloFails, Held, Driving
  <2>2. /\ actor' \in Actors /\ actor'.pc = "cleaning"
        /\ actor'.call = actor.call /\ actor'.next = actor.next /\ actor'.lines = actor.lines
        /\ actor'.part = actor.part /\ actor'.fault = "process"
    BY <1>1, <1>4 DEF Plugin!HelloFails, Actors, ActorPcs, Faults
  <2>3. actor'.pc \in Loose \ {"idle"}
    BY <2>2 DEF Loose, ActorPcs, Early, Held, Driving
  <2> QED
    BY <1>4, <2>1, <2>2, <2>3, Untold, Closing DEF Plugin!HelloFails
<1>5. ASSUME Plugin!Hello  PROVE PluginInv'
  <2>1. actor.pc \in Early
    BY <1>5 DEF Plugin!Hello, Early
  <2>2. /\ actor' \in Actors /\ actor'.pc = "ready"
        /\ actor'.call = actor.call /\ actor'.next = actor.next /\ actor'.lines = actor.lines
        /\ actor'.part = actor.part /\ actor'.fault = actor.fault
    BY <1>1, <1>5 DEF Plugin!Hello, Actors, ActorPcs, Early
  <2> QED
    BY <1>5, <2>1, <2>2, Starting DEF Plugin!Hello
<1>6. ASSUME Plugin!Ready  PROVE PluginInv'
  <2>1. actor.pc \notin Held /\ actor.call = NoCall /\ actor.pc = "ready" /\ actor.pc \in Early
    BY <1>1, <1>6 DEF Plugin!Ready, Held, Driving, Early
  <2>2. out = <<>> /\ inn = <<>> /\ actor.lines = <<>> /\ peer.seen = {}
    BY <1>1, <2>1 DEF EarlyInv
  <2>3. /\ actor' \in Actors /\ actor'.pc = "idle"
        /\ actor'.call = actor.call /\ actor'.next = actor.next /\ actor'.lines = actor.lines
        /\ actor'.part = actor.part /\ actor'.fault = actor.fault
    BY <1>1, <1>6 DEF Plugin!Ready, Actors, ActorPcs
  <2>4. actor'.pc \in Loose
    BY <2>3 DEF Loose, ActorPcs, Early, Held, Driving
  <2>5. Unjudged(actor', out') = 0 /\ Pending(inn) = {}
    BY <1>6, <2>2, <2>3 DEF Plugin!Ready, Unjudged, Pending, CallsIn
  <2>6. WellTold /\ Given(actor', out') /\ (actor'.part => out' # <<>>) /\ out' \in Seq(Lines)
    BY <1>6, <2>1, <2>3, Untold, Facts DEF Plugin!Ready, Given, Inbound
  <2>7. /\ state' \in {"starting", "ready", "faulted", "stopping", "exited"} /\ queue' = queue
        /\ UNCHANGED <<shutdown, pluginDue, inn, peer>>
    BY <1>6 DEF Plugin!Ready
  <2> QED
    BY <1>1, <1>2, <2>1, <2>3, <2>4, <2>5, <2>6, <2>7, CallLeft DEF WellTold
<1>7. ASSUME Plugin!RejectForFault \/ Plugin!ShutdownSweep  PROVE PluginInv'
  <2>1. /\ actor.pc \in {"poisoned", "sweeping"}
        /\ \E down \in BOOLEAN : caller' = Plugin!RejectAll(caller, down)
        /\ queue' = <<>> /\ actor' = [actor EXCEPT !.pc = actor'.pc]
        /\ actor'.pc \in {"cleaning", "exiting"}
        /\ UNCHANGED <<state, shutdown, pluginDue, peer, out, inn>>
    BY <1>1, <1>7 DEF Plugin!RejectForFault, Plugin!ShutdownSweep, Actors
  <2>2. actor.pc \notin Held /\ actor.call = NoCall
    BY <1>1, <2>1 DEF Held, Driving
  <2>3. /\ actor' \in Actors
        /\ actor'.call = actor.call /\ actor'.next = actor.next /\ actor'.lines = actor.lines
        /\ actor'.part = actor.part /\ actor'.fault = actor.fault
    BY <1>1, <2>1 DEF Actors, ActorPcs
  <2>4. actor'.pc \in Loose \ {"idle"}
    BY <2>1 DEF Loose, ActorPcs, Early, Held, Driving
  <2>5. WellTold
    BY <2>1, <2>2, QueueRejected
  <2> QED
    BY <1>1, <1>2, <2>1, <2>2, <2>3, <2>4, <2>5, Closing
<1>8. ASSUME Plugin!Exit  PROVE PluginInv'
  <2>1. actor.pc \notin Held /\ actor.call = NoCall
    BY <1>1, <1>8 DEF Plugin!Exit, Held, Driving
  <2>2. /\ actor' \in Actors /\ actor'.pc = "leaving"
        /\ actor'.call = actor.call /\ actor'.next = actor.next /\ actor'.lines = actor.lines
        /\ actor'.part = actor.part /\ actor'.fault = actor.fault
    BY <1>1, <1>8 DEF Plugin!Exit, Actors, ActorPcs
  <2>3. actor'.pc \in Loose \ {"idle"}
    BY <2>2 DEF Loose, ActorPcs, Early, Held, Driving
  <2>4. /\ UNCHANGED <<shutdown, queue, caller, pluginDue, peer, out, inn>> /\ state' = "exited"
    BY <1>8 DEF Plugin!Exit
  <2> QED
    BY <1>2, <2>1, <2>2, <2>3, <2>4, Untold, Closing
<1> QED
  BY <1>3, <1>4, <1>5, <1>6, <1>7, <1>8

\* The callers that are still in the channel learn that the actor is gone.
LEMMA Dropped ==
    ASSUME Plugin!ActorAssumption, PluginInv, Plugin!DropReceiver
    PROVE  PluginInv'
<1>1. actor \in Actors /\ HonestInv /\ QueueInv /\ caller \in Callers
      /\ state \in {"starting", "ready", "faulted", "stopping", "exited"}
      /\ actor.pc \notin Held /\ actor.call = NoCall /\ NoCall \notin Calls
  BY Facts DEF Plugin!DropReceiver, Held, Driving
<1>2. /\ actor' \in Actors /\ actor'.pc = "gone"
      /\ actor'.call = actor.call /\ actor'.next = actor.next /\ actor'.lines = actor.lines
      /\ actor'.part = actor.part /\ actor'.fault = actor.fault
  BY <1>1 DEF Plugin!DropReceiver, Actors, ActorPcs
<1>3. actor'.pc \in Loose \ {"idle"}
  BY <1>2 DEF Loose, ActorPcs, Early, Held, Driving
<1> DEFINE lost == [kind |-> "lost", stop |-> "none", dispatched |-> TRUE]
<1>4. lost \in Answers /\ lost.kind = "lost"
  BY DEF Answers, Kinds, PluginStops
<1> HIDE DEF lost
<1>5. /\ caller' = [c \in Calls |->
                      IF c \notin Plugin!ToSet(queue) THEN caller[c]
                      ELSE [caller[c] EXCEPT !.pc = "answered", !.answer = lost]]
      /\ queue' = <<>> /\ UNCHANGED <<state, shutdown, pluginDue, peer, out, inn>>
  BY DEF Plugin!DropReceiver, lost
<1>6. ASSUME NEW c \in Calls
      PROVE  /\ caller'[c] \in [pc : CallerPcs, id : Nat, answer : Answers]
             /\ c \notin Plugin!ToSet(queue) => caller'[c] = caller[c]
             /\ c \in Plugin!ToSet(queue) => /\ caller'[c].pc = "answered"
                                                  /\ caller'[c].id = caller[c].id
                                      /\ caller'[c].answer = lost
  BY <1>1, <1>4, <1>5 DEF Callers, CallerPcs
<1>7. \A a, id, c : a = lost => Truthful(a, id, c)
  BY <1>4 DEF Truthful, Plugin!Unstarted, Plugin!Settled
<1>8. WellTold
  <2>1. \A c \in Calls : caller[c].pc = "waiting" <=> c \in Plugin!ToSet(queue)
    BY <1>1 DEF QueueInv
  <2>3. queue' = <<>>
    BY <1>5
  <2>4. Plugin!ToSet(queue') = {}
    BY <2>3 DEF Plugin!ToSet
  <2>2. caller' \in Callers
    BY <1>5, <1>6 DEF Callers
  <2> QED
    BY <1>6, <1>7, <2>1, <2>2, <2>4 DEF WellTold
<1> QED
  BY <1>1, <1>2, <1>3, <1>5, <1>8, Closing DEF HonestInv

\* The group is killed, and proved to be gone or not.
LEMMA CleanedUp ==
    ASSUME Plugin!ActorAssumption, PluginInv, NEW report \in {"clean", "lost"},
           Plugin!CleanUp(report)
    PROVE  PluginInv'
<1>1. /\ TypeInv /\ QueueInv /\ IdInv /\ EarlyInv /\ HonestInv /\ AnswerInv
      /\ actor \in Actors /\ peer \in Peers /\ NoCall \notin Calls
  BY Facts
<1>2. /\ UNCHANGED <<state, shutdown, queue, caller, pluginDue, out, inn>>
      /\ actor' = [actor EXCEPT !.exit = report, !.pc = actor'.pc]
      /\ peer' \in {peer, [peer EXCEPT !.alive = FALSE]}
      /\ report # "lost" => peer'.alive = FALSE
  BY <1>1 DEF Plugin!CleanUp, Actors, Peers
<1>3. CASE actor.pc = "cleaning"
  <2>1. /\ actor' \in Actors /\ actor'.pc \in {"sweeping", "exiting"}
        /\ actor'.call = actor.call /\ actor'.next = actor.next /\ actor'.lines = actor.lines
        /\ actor'.part = actor.part /\ actor'.fault = actor.fault
    BY <1>1, <1>3, ZenonT(60) DEF Plugin!CleanUp, Actors, ActorPcs
  <2>2. actor'.pc \in Loose \ {"idle"} /\ actor.pc \notin Held /\ actor.call = NoCall
    BY <1>3, <2>1, Facts DEF Loose, ActorPcs, Early, Held, Driving
  <2>3. peer.honest => actor.fault # "protocol"
    BY <1>1 DEF HonestInv
  <2> QED
    BY <1>1, <1>2, <2>1, <2>2, <2>3, Untold, Closing DEF TypeInv
<1>4. CASE actor.pc = "fatal"
  <2>1. /\ actor' \in Actors /\ actor'.pc = "verdict" /\ actor'.exit = report
        /\ actor'.call = actor.call /\ actor'.next = actor.next /\ actor'.lines = actor.lines
        /\ actor'.part = actor.part /\ actor'.fault = actor.fault /\ actor'.id = actor.id
        /\ actor'.evidence = actor.evidence /\ actor'.stop = actor.stop
    BY <1>1, <1>4 DEF Plugin!CleanUp, Actors, ActorPcs, Held
  <2>2. actor'.pc \in Held /\ actor'.pc \notin Early \cup Driving /\ actor.pc \in Held
    BY <1>4, <2>1 DEF Early, Held, Driving
  <2>3. /\ peer' \in Peers /\ peer'.seen = peer.seen /\ peer'.said = peer.said
        /\ peer'.honest = peer.honest /\ (peer'.alive => peer.alive)
    BY <1>1, <1>2 DEF Peers
  <2>4. TypeInv'
    BY <1>1, <1>2, <2>1, <2>3 DEF TypeInv
  <2>5. QueueInv'
    BY <1>1, <1>2, <2>1, <2>2 DEF QueueInv
  <2>6. IdInv'
    BY <1>1, <1>2, <2>1, <2>2, <2>3 DEF IdInv
  <2>7. EarlyInv'
    BY <2>1, <2>2 DEF EarlyInv
  <2>8. HonestInv'
    BY <1>1, <2>1, <2>2, <2>3 DEF HonestInv
  <2>9. AnswerInv'
    <3>1. Given(actor, out)'
      BY <1>1, <1>2, <2>1, <2>3 DEF AnswerInv, Given, Inbound
    <3>2. actor'.stop # "none" => Justified(actor.stop, actor.call)'
      BY <1>1, <1>2, <2>1, <2>2 DEF AnswerInv, Justified
    <3>3. ASSUME NEW c \in Calls  PROVE Truthful(caller[c].answer, caller[c].id, c)'
      BY <1>1, <1>2, <2>3 DEF AnswerInv, Truthful, Justified
    <3>4. actor'.part => out' # <<>>
      BY <1>1, <1>2, <2>1 DEF AnswerInv
    <3>5. actor'.exit # "lost" => ~peer'.alive
      BY <1>2, <2>1
    <3> QED
      BY <3>1, <3>2, <3>3, <3>4, <3>5 DEF AnswerInv, Truthful
  <2> QED
    BY <2>4, <2>5, <2>6, <2>7, <2>8, <2>9 DEF PluginInv
<1> QED
  BY <1>3, <1>4 DEF Plugin!CleanUp

\* The call that the actor broke in is answered after the clean-up.
LEMMA Judged ==
    ASSUME Plugin!ActorAssumption, PluginInv, Plugin!FatalVerdict
    PROVE  PluginInv'
<1>1. /\ AnswerInv /\ HonestInv /\ IdInv /\ actor \in Actors /\ actor.pc = "verdict"
      /\ actor.pc \in Held /\ queue' = <<>>
      /\ UNCHANGED <<state, shutdown, pluginDue, peer, out, inn>>
      /\ actor' = [actor EXCEPT !.pc = "exiting", !.call = NoCall]
      /\ state \in {"starting", "ready", "faulted", "stopping", "exited"}
  BY Facts DEF Plugin!FatalVerdict, Held
<1>2. /\ actor' \in Actors /\ actor'.pc = "exiting" /\ actor'.call = NoCall
      /\ actor'.next = actor.next /\ actor'.lines = actor.lines
      /\ actor'.part = actor.part /\ actor'.fault = actor.fault
  BY <1>1 DEF Actors, ActorPcs
<1>3. actor'.pc \in Loose \ {"idle"}
  BY <1>2 DEF Loose, ActorPcs, Early, Held, Driving
<1>4. actor.exit # "lost" => ~peer.alive
  BY <1>1 DEF AnswerInv
<1>5. Plugin!FatalOutcome \in Answers /\ Truthful(Plugin!FatalOutcome, actor.id, actor.call)
  <2>1. /\ actor.stop \in PluginStops /\ {"unknown", "stopped_before", "unavailable", "lost"}
             \subseteq Kinds
        /\ "none" \in PluginStops /\ "action" \in PluginStops
    BY <1>1 DEF Actors, Kinds, Plugin!Unstarted, PluginStops
  <2>2. CASE actor.exit = "lost"
    <3>1. Plugin!FatalOutcome = [kind |-> "lost", stop |-> actor.stop,
                          dispatched |-> actor.evidence # "not"]
      BY <2>2 DEF Plugin!FatalOutcome
    <3> QED
      BY <2>1, <3>1 DEF Answers, Truthful, Plugin!Unstarted, Plugin!Settled
  <2>3. CASE actor.exit # "lost" /\ actor.evidence # "not"
    <3>1. Plugin!FatalOutcome = Plugin!Answer("unknown", actor.stop)
      BY <2>3 DEF Plugin!FatalOutcome
    <3>2. Plugin!FatalOutcome \in Answers /\ Plugin!FatalOutcome.kind = "unknown"
      BY <2>1, <3>1, AnswerIs
    <3> QED
      BY <1>4, <2>3, <3>2 DEF Truthful, Plugin!Unstarted, Plugin!Settled
  <2>4. CASE actor.exit # "lost" /\ actor.evidence = "not"
    <3>1. \E s \in PluginStops : Plugin!FatalOutcome \in {Plugin!Answer("stopped_before", s),
          Plugin!Answer("unavailable", s)}
      BY <2>1, <2>4 DEF Plugin!FatalOutcome
    <3>2. Plugin!FatalOutcome \in Answers /\ Plugin!FatalOutcome.kind \in {"stopped_before",
          "unavailable"}
      BY <2>1, <3>1, AnswerIs
    <3>3. actor.id \notin peer.seen \cup Ids(inn)
      BY <1>1, <2>4 DEF IdInv
    <3> QED
      BY <3>2, <3>3 DEF Truthful, Plugin!Settled
  <2> QED
    BY <2>2, <2>3, <2>4
<1>6. WellTold
  BY <1>1, <1>5, ToldAndRejected DEF Plugin!FatalVerdict
<1> QED
  BY <1>1, <1>2, <1>3, <1>6, Closing DEF HonestInv

\* What a look at the pipes finds while no call is driven.
LEMMA IdlePump ==
    ASSUME Plugin!ActorAssumption, PluginInv, actor.pc = "idle", NEW p \in Plugin!Pumped
    PROVE  /\ Plugin!Read(actor, p) \in Actors /\ Plugin!Rest(p) \in Seq(Lines)
           /\ \E f \in Nat, ls \in Seq(Lines), b \in BOOLEAN :
                Plugin!Read(actor, p) = [actor EXCEPT !.lines = ls, !.part = b, !.faults = f]
           /\ Given(Plugin!Read(actor, p), Plugin!Rest(p)) /\ (Plugin!Read(actor, p).part
                => Plugin!Rest(p) # <<>>)
           /\ Unjudged(Plugin!Read(actor, p), Plugin!Rest(p)) = Unjudged(actor, out)
           /\ p.fault \in {"none", "process", "limit", "lost"}
           /\ p.got \/ actor.lines # <<>> \/ actor.part => ~peer.honest
<1>1. /\ TypeInv /\ (actor.part => out # <<>>) /\ actor \in Actors /\ Given(actor, out)
      /\ out \in Seq(Lines) /\ HonestInv
  BY Facts
<1>2. /\ p.fault \in {"none", "process", "limit", "lost"}
      /\ p.got => out # <<>>
      /\ Plugin!Read(actor, p) \in Actors /\ Plugin!Rest(p) \in Seq(Lines)
      /\ \E f \in Nat, ls \in Seq(Lines), b \in BOOLEAN :
           Plugin!Read(actor, p) = [actor EXCEPT !.lines = ls, !.part = b, !.faults = f]
      /\ Inbound(Plugin!Read(actor, p), Plugin!Rest(p)) = Inbound(actor, out)
      /\ Unjudged(Plugin!Read(actor, p), Plugin!Rest(p)) = Unjudged(actor, out)
      /\ Plugin!Read(actor, p).part => Plugin!Rest(p) # <<>>
  BY <1>1, PumpIs
<1>3. Given(Plugin!Read(actor, p), Plugin!Rest(p))
  BY <1>1, <1>2 DEF Given
<1>4. ASSUME peer.honest  PROVE out = <<>> /\ actor.lines = <<>>
  <2>1. Unjudged(actor, out) = 0
    BY <1>1, <1>4 DEF HonestInv
  <2>2. Len(out) \in Nat /\ Len(actor.lines) \in Nat /\ actor.lines \in Seq(Lines)
    BY <1>1 DEF Actors
  <2>3. Len(out) = 0 /\ Len(actor.lines) = 0
    BY <2>1, <2>2 DEF Unjudged
  <2> QED
    BY <1>1, <2>2, <2>3
<1> QED
  BY <1>1, <1>2, <1>3, <1>4

\* A command leaves the queue with a number of its own.
LEMMA CallTaken ==
    ASSUME Plugin!ActorAssumption, PluginInv, actor.pc = "idle", queue # <<>>,
           queue' = Tail(queue), NEW a \in Actors,
           \E f \in Nat, ls \in Seq(Lines), b \in BOOLEAN :
             a = [actor EXCEPT !.lines = ls, !.part = b, !.faults = f],
           Given(a, out'), out' \in Seq(Lines), a.part => out' # <<>>,
           Unjudged(a, out') = Unjudged(actor, out),
           UNCHANGED <<state, shutdown, pluginDue, peer, inn>>,
           \/ /\ actor' = [a EXCEPT !.pc = "writing", !.call = Head(queue),
                                    !.id = a.next, !.next = @ + 1,
                                    !.evidence = "not", !.stop = "none"]
              /\ caller' = [caller EXCEPT ![Head(queue)].id = a.next]
           \/ /\ actor' = [a EXCEPT !.next = @ + 1]
              /\ caller' = Plugin!Told([caller EXCEPT ![Head(queue)].id = a.next],
                                Head(queue), Plugin!Answer("invalid_arguments", "none"))
    PROVE  PluginInv'
<1> DEFINE h == Head(queue)
           inv == Plugin!Answer("invalid_arguments", "none")
<1>1. /\ TypeInv /\ QueueInv /\ IdInv /\ EarlyInv /\ HonestInv /\ AnswerInv
      /\ actor \in Actors /\ caller \in Callers /\ queue \in Seq(Calls) /\ NoCall \notin Calls
      /\ actor.pc \notin Held /\ actor.call = NoCall /\ Len(queue) <= Capacity
      /\ peer \in Peers /\ out \in Seq(Lines) /\ inn \in Seq(Lines) /\ actor.next \in Nat
      /\ actor.next # 0 /\ Capacity \in Nat
  <2>1. actor.pc \notin Held
    BY DEF Held, Driving
  <2> QED
    BY <2>1, Facts DEF Plugin!ActorAssumption, QueueInv, IdInv, Actors
<1>2. /\ h \in Calls /\ queue' \in Seq(Calls) /\ Len(queue') = Len(queue) - 1 /\ Len(queue) \in Nat
      /\ 1 \in DOMAIN queue /\ h = queue[1] /\ Plugin!ToSet(queue) = {h} \cup Plugin!ToSet(queue')
      /\ \A i \in DOMAIN queue' : i + 1 \in DOMAIN queue /\ queue'[i] = queue[i + 1]
  BY <1>1, TailIs
<1>3. /\ a.next = actor.next /\ a.pc = "idle" /\ a.call = NoCall
      /\ a.evidence = actor.evidence /\ a.fault = actor.fault /\ a.stop = actor.stop
  BY <1>1 DEF Actors
<1>13. \A i, j \in DOMAIN queue : queue[i] = queue[j] => i = j
  BY <1>1 DEF QueueInv
<1>14. h \in Calls /\ a.next = actor.next /\ actor.next \in Nat /\ actor.next + 1 \in Nat
  BY <1>1, <1>2, <1>3
<1> HIDE DEF h
<1>4. h \notin Plugin!ToSet(queue')
  <2>1. ASSUME NEW i \in DOMAIN queue', queue'[i] = h  PROVE FALSE
    <3>1. i + 1 = 1
      BY <1>2, <1>13, <2>1
    <3>2. i \in Nat /\ i # 0
      BY <1>2, <2>1
    <3> QED
      BY <3>1, <3>2
  <2> QED
    BY <2>1 DEF Plugin!ToSet
<1>5. /\ \A i, j \in DOMAIN queue' : queue'[i] = queue'[j] => i = j
      /\ Len(queue') <= Capacity
  <2>1. ASSUME NEW i \in DOMAIN queue', NEW j \in DOMAIN queue', queue'[i] = queue'[j]
        PROVE  i = j
    <3>1. i + 1 = j + 1
      BY <1>1, <1>2, <2>1 DEF QueueInv
    <3>2. i \in Nat /\ j \in Nat
      BY <1>2, <2>1
    <3> QED
      BY <3>1, <3>2
  <2> QED
    BY <1>1, <1>2, <2>1
<1>6. caller[h].id = 0 /\ caller[h].pc = "waiting" /\ caller[h].answer = Plugin!NoAnswer
      /\ \A c \in Calls : caller[c].pc = "waiting" <=> c \in Plugin!ToSet(queue)
  BY <1>1, <1>2 DEF IdInv, QueueInv
<1>7. inv \in Answers /\ Plugin!NoAnswer \in Answers /\ inv.kind = "invalid_arguments"
      /\ Plugin!NoAnswer.kind = "none"
  BY AnswerIs DEF Kinds, Plugin!Unstarted, PluginStops
<1>8. caller[h] \in [pc : CallerPcs, id : Nat, answer : Answers]
  BY <1>1, <1>2 DEF Callers
<1> DEFINE mid == [caller EXCEPT ![h].id = actor.next]
<1>9. /\ mid \in Callers /\ mid[h] = [pc |-> "waiting", id |-> actor.next,
           answer |-> Plugin!NoAnswer]
      /\ \A c \in Calls : c # h => mid[c] = caller[c]
  <2>1. mid[h] = [pc |-> "waiting", id |-> actor.next, answer |-> Plugin!NoAnswer]
    BY <1>1, <1>2, <1>6, <1>8 DEF Callers
  <2>2. mid[h] \in [pc : CallerPcs, id : Nat, answer : Answers]
    BY <1>7, <1>14, <2>1 DEF CallerPcs
  <2> QED
    BY <1>1, <1>2, <2>1, <2>2 DEF Callers
<1>10. /\ \A c \in Calls : caller[c].id < actor.next /\ caller[c].id \in Nat
       /\ actor.next \notin peer.seen \cup Ids(inn)
       /\ peer.seen \cup Ids(inn) \subseteq 1 .. actor.next - 1
       /\ peer.seen \cup Ids(inn) \subseteq 1 .. actor.next
  <2>1. peer.seen \cup Ids(inn) \subseteq 1 .. actor.next - 1
    BY <1>1 DEF IdInv
  <2>2. \A i \in 1 .. actor.next - 1 : i # actor.next /\ i \in 1 .. actor.next
    BY <1>1
  <2> QED
    BY <1>1, <2>1, <2>2 DEF IdInv, Callers
<1>15. \A c \in Calls : caller[c].id < actor.next + 1 /\ actor.next < actor.next + 1
  BY <1>10, <1>14
<1> HIDE DEF inv, mid
<1>11. CASE /\ actor' = [a EXCEPT !.pc = "writing", !.call = h,
                                  !.id = a.next, !.next = @ + 1,
                                  !.evidence = "not", !.stop = "none"]
            /\ caller' = mid
  <2>1. /\ actor' \in Actors /\ actor'.pc = "writing" /\ actor'.call = h /\ actor'.id = actor.next
        /\ actor'.next = actor.next + 1 /\ actor'.evidence = "not" /\ actor'.stop = "none"
        /\ actor'.lines = a.lines /\ actor'.part = a.part /\ actor'.fault = actor.fault
    <3>1. actor' = [a EXCEPT !.pc = "writing", !.call = h, !.id = actor.next,
                             !.next = actor.next + 1, !.evidence = "not", !.stop = "none"]
      BY <1>11, <1>14 DEF Actors
    <3>2. "writing" \in ActorPcs /\ "none" \in PluginStops
      BY DEF ActorPcs, Held, Driving, PluginStops
    <3> QED
      BY <1>3, <1>14, <3>1, <3>2 DEF Actors
  <2>2. actor'.pc \in Held /\ actor'.pc \in Driving /\ actor'.pc \notin Early
    BY <2>1 DEF Held, Driving, Early
  <2>3. TypeInv'
    BY <1>1, <1>2, <1>9, <1>11, <2>1 DEF TypeInv
  <2>4. QueueInv'
    <3>1. \A c \in Calls : caller'[c].pc = "waiting" <=> c \in Plugin!ToSet(queue')
          \cup {actor'.call}
      BY <1>2, <1>4, <1>6, <1>9, <1>11, <2>1
    <3>2. \A c \in Calls : caller'[c].pc # "answered" => caller'[c].answer = Plugin!NoAnswer
      <4>1. \A c \in Calls : caller[c].pc # "answered" => caller[c].answer = Plugin!NoAnswer
        BY <1>1 DEF QueueInv
      <4> QED
        BY <1>9, <1>11, <4>1
    <3> QED
      BY <1>1, <1>2, <1>4, <1>5, <2>1, <2>2, <3>1, <3>2 DEF QueueInv
  <2>5. IdInv'
    <3>1. \A c \in Calls : caller'[c].id < actor'.next
      BY <1>9, <1>11, <1>15, <2>1
    <3>2. \A c, d \in Calls : c # d /\ caller'[c].id = caller'[d].id => caller'[c].id = 0
      <4>1. \A c \in Calls : caller[c].id # actor.next
        BY <1>10, <1>14
      <4>2. \A c, d \in Calls : c # d /\ caller[c].id = caller[d].id => caller[c].id = 0
        BY <1>1 DEF IdInv
      <4> QED
        BY <1>9, <1>11, <4>1, <4>2
    <3>3. \A c \in Calls :
            caller'[c].pc \in {"idle", "looked"} \/ c \in Plugin!ToSet(queue') => caller'[c].id = 0
      BY <1>1, <1>2, <1>4, <1>9, <1>11 DEF IdInv
    <3>4. actor'.id = caller'[actor'.call].id /\ actor'.id # 0
      BY <1>1, <1>9, <1>11, <2>1
    <3>5. actor'.next # 0 /\ peer.seen \cup Ids(inn) \subseteq 1 .. actor'.next - 1
      BY <1>1, <1>10, <2>1
    <3> QED
      BY <1>10, <2>1, <3>1, <3>2, <3>3, <3>4, <3>5 DEF IdInv
  <2>6. EarlyInv'
    BY <2>1, <2>2 DEF EarlyInv
  <2>7. HonestInv'
    BY <1>1, <2>1, <2>2 DEF HonestInv, Honest, Unjudged, Pending
  <2>8. AnswerInv'
    <3>1. Given(actor, out)'
      BY <2>1 DEF Given, Inbound
    <3>2. ASSUME NEW c \in Calls  PROVE Truthful(caller[c].answer, caller[c].id, c)'
      <4>1. CASE c = h
        BY <1>7, <1>9, <1>11, <4>1 DEF Truthful, Plugin!Unstarted, Plugin!Settled
      <4>2. CASE c # h
        BY <1>1, <1>9, <1>11, <4>2 DEF AnswerInv, Truthful, Justified
      <4> QED
        BY <4>1, <4>2
    <3> QED
      BY <2>1, <3>1, <3>2 DEF AnswerInv, Truthful
  <2> QED
    BY <2>3, <2>4, <2>5, <2>6, <2>7, <2>8 DEF PluginInv
<1>12. CASE /\ actor' = [a EXCEPT !.next = @ + 1]
            /\ caller' = Plugin!Told(mid, h, inv)
  <2>1. /\ actor' \in Actors /\ actor'.pc = "idle" /\ actor'.call = NoCall
        /\ actor'.next = actor.next + 1 /\ actor'.lines = a.lines /\ actor'.part = a.part
        /\ actor'.fault = actor.fault
    <3>1. actor' = [a EXCEPT !.next = actor.next + 1]
      BY <1>12, <1>14 DEF Actors
    <3> QED
      BY <1>3, <1>14, <3>1 DEF Actors
  <2>2. actor'.pc \notin Held \cup Driving \cup Early
    BY <2>1 DEF Held, Driving, Early
  <2>3. /\ caller' \in Callers
        /\ caller'[h].pc = "answered" /\ caller'[h].id = actor.next /\ caller'[h].answer = inv
        /\ \A c \in Calls : c # h => caller'[c] = caller[c]
    <3>1. /\ caller' \in Callers
          /\ caller'[h] = [pc |-> "answered", id |-> actor.next, answer |-> inv]
          /\ \A c \in Calls : c # h => caller'[c] = caller[c]
      BY <1>2, <1>7, <1>9, <1>12, ToldIs
    <3> QED
      BY <3>1
  <2>4. TypeInv'
    BY <1>1, <1>2, <2>1, <2>3 DEF TypeInv
  <2>5. QueueInv'
    <3>1. ASSUME NEW c \in Calls
          PROVE  caller'[c].pc = "waiting" <=> c \in Plugin!ToSet(queue') \cup {actor'.call}
      <4>1. actor'.call \notin Calls
        BY <1>1, <2>1
      <4>2. CASE c = h
        BY <1>4, <2>3, <4>1, <4>2
      <4>3. CASE c # h
        <5>1. caller'[c] = caller[c]
          BY <2>3, <4>3
        <5>2. caller[c].pc = "waiting" <=> c \in Plugin!ToSet(queue)
          BY <1>6
        <5>3. c \in Plugin!ToSet(queue') <=> c \in Plugin!ToSet(queue)
          BY <1>2, <4>3
        <5> QED
          BY <4>1, <5>1, <5>2, <5>3
      <4> QED
        BY <4>2, <4>3
    <3>2. \A c \in Calls : caller'[c].pc # "answered" => caller'[c].answer = Plugin!NoAnswer
      BY <1>1, <2>3, SMTT(60) DEF QueueInv
    <3>3. actor'.call \notin Plugin!ToSet(queue')
      BY <1>1, <1>2, <2>1 DEF Plugin!ToSet
    <3> QED
      BY <1>1, <1>2, <1>5, <2>1, <2>2, <3>1, <3>2, <3>3 DEF QueueInv
  <2>6. IdInv'
    <3>1. \A c \in Calls : caller'[c].id < actor'.next
      BY <1>15, <2>1, <2>3, ZenonT(60)
    <3>2. \A c, d \in Calls : c # d /\ caller'[c].id = caller'[d].id => caller'[c].id = 0
      <4>1. \A c \in Calls : caller[c].id # actor.next
        BY <1>10, <1>14
      <4>2. \A c, d \in Calls : c # d /\ caller[c].id = caller[d].id => caller[c].id = 0
        BY <1>1 DEF IdInv
      <4>3. \A c \in Calls : caller'[c].id = IF c = h THEN actor.next ELSE caller[c].id
        BY <2>3
      <4> QED
        BY <4>1, <4>2, <4>3
    <3>3. \A c \in Calls :
            caller'[c].pc \in {"idle", "looked"} \/ c \in Plugin!ToSet(queue') => caller'[c].id = 0
      BY <1>1, <1>2, <1>4, <2>3 DEF IdInv
    <3>5. actor'.next # 0 /\ peer.seen \cup Ids(inn) \subseteq 1 .. actor'.next - 1
      BY <1>1, <1>10, <2>1, SMTT(60)
    <3> QED
      BY <2>1, <2>2, <3>1, <3>2, <3>3, <3>5 DEF IdInv
  <2>7. EarlyInv'
    BY <2>1, <2>2 DEF EarlyInv, Early
  <2>8. HonestInv'
    BY <1>1, <2>1, <2>2 DEF HonestInv, Unjudged, Pending
  <2>9. AnswerInv'
    <3>1. Given(actor, out)'
      BY <2>1 DEF Given, Inbound
    <3>2. ASSUME NEW c \in Calls  PROVE Truthful(caller[c].answer, caller[c].id, c)'
      <4>1. CASE c = h
        BY <1>7, <1>10, <2>3, <4>1 DEF Truthful, Plugin!Settled
      <4>2. CASE c # h
        BY <1>1, <2>3, <4>2 DEF AnswerInv, Truthful, Justified
      <4> QED
        BY <4>1, <4>2
    <3> QED
      BY <2>1, <2>2, <3>1, <3>2 DEF AnswerInv, Truthful
  <2> QED
    BY <2>4, <2>5, <2>6, <2>7, <2>8, <2>9 DEF PluginInv
<1> QED
  BY <1>3, <1>11, <1>12 DEF h, inv, mid

LEMMA IdleTurns ==
    ASSUME Plugin!ActorAssumption, PluginInv, Plugin!IdleTurn
    PROVE  PluginInv'
<1>1. /\ actor.pc = "idle" /\ actor.pc \notin Held /\ actor \in Actors /\ actor.call = NoCall
      /\ UNCHANGED <<shutdown, pluginDue, peer, inn>> /\ HonestInv /\ peer \in Peers
      /\ state \in {"starting", "ready", "faulted", "stopping", "exited"}
  <2>1. actor.pc = "idle" /\ UNCHANGED <<shutdown, pluginDue, peer, inn>> /\ actor.pc \notin Held
    BY DEF Plugin!IdleTurn, Held, Driving
  <2> QED
    BY <2>1, Facts
<1>2. CASE Plugin!ShutdownBegins(actor, caller) /\ UNCHANGED <<state, out>>
  <2>1. /\ actor' = [actor EXCEPT !.pc = "cleaning", !.call = NoCall]
        /\ caller' = Plugin!RejectAll(caller, TRUE) /\ queue' = <<>>
    BY <1>2 DEF Plugin!ShutdownBegins
  <2>2. /\ actor' \in Actors /\ actor'.pc = "cleaning" /\ actor'.call = NoCall
        /\ actor'.next = actor.next /\ actor'.lines = actor.lines
        /\ actor'.part = actor.part /\ actor'.fault = actor.fault
    BY <1>1, <2>1 DEF Actors, ActorPcs
  <2>3. actor'.pc \in Loose \ {"idle"}
    BY <2>2 DEF Loose, ActorPcs, Early, Held, Driving
  <2>4. WellTold
    BY <1>1, <2>1, QueueRejected
  <2> QED
    BY <1>1, <1>2, <2>1, <2>2, <2>3, <2>4, Closing DEF HonestInv
<1>3. ASSUME NEW p \in Plugin!Pumped, out' = Plugin!Rest(p),
             NEW fault \in {"protocol", p.fault}, Plugin!IdleFault(Plugin!Read(actor, p), fault),
             fault # "none",
             fault = "protocol" => p.got \/ actor.lines # <<>> \/ actor.part,
             UNCHANGED <<queue, caller>>
      PROVE  PluginInv'
  <2> DEFINE a == Plugin!Read(actor, p)
  <2>1. /\ a \in Actors /\ out' \in Seq(Lines) /\ Given(a, out') /\ (a.part => out' # <<>>)
        /\ \E f \in Nat, ls \in Seq(Lines), b \in BOOLEAN :
             a = [actor EXCEPT !.lines = ls, !.part = b, !.faults = f]
        /\ fault \in Faults
        /\ peer.honest => fault # "protocol"
    BY <1>1, <1>3, IdlePump DEF Faults
  <2>2. a.next = actor.next /\ a.call = NoCall
    BY <1>1, <2>1 DEF Actors
  <2> HIDE DEF a
  <2>3. /\ actor' = [a EXCEPT !.pc = "poisoned", !.fault = fault] /\ state' = "faulted"
    BY <1>3 DEF Plugin!IdleFault, a
  <2>4. /\ actor' \in Actors /\ actor'.pc = "poisoned" /\ actor'.call = NoCall
        /\ actor'.next = actor.next /\ actor'.lines = a.lines
        /\ actor'.part = a.part /\ actor'.fault = fault
    BY <2>1, <2>2, <2>3 DEF Actors, ActorPcs
  <2>5. actor'.pc \in Loose \ {"idle"}
    BY <2>4 DEF Loose, ActorPcs, Early, Held, Driving
  <2>6. WellTold
    BY <1>1, <1>3, Untold
  <2>7. Given(actor', out')
    BY <2>1, <2>4 DEF Given, Inbound
  <2> QED
    BY <1>1, <1>3, <2>1, <2>3, <2>4, <2>5, <2>6, <2>7, CallLeft DEF WellTold
<1>4. ASSUME NEW p \in Plugin!Pumped, out' = Plugin!Rest(p), queue # <<>>, queue' = Tail(queue),
             UNCHANGED state,
             \/ /\ actor' = [Plugin!Read(actor, p) EXCEPT !.pc = "writing", !.call = Head(queue),
                                !.id = Plugin!Read(actor, p).next, !.next = @ + 1,
                                !.evidence = "not", !.stop = "none"]
                /\ caller' = [caller EXCEPT ![Head(queue)].id = Plugin!Read(actor, p).next]
             \/ /\ actor' = [Plugin!Read(actor, p) EXCEPT !.next = @ + 1]
                /\ caller' = Plugin!Told([caller EXCEPT ![Head(queue)].id = Plugin!Read(actor,
                     p).next],
                                  Head(queue), Plugin!Answer("invalid_arguments", "none"))
      PROVE  PluginInv'
  <2> DEFINE a == Plugin!Read(actor, p)
  <2>1. /\ a \in Actors /\ out' \in Seq(Lines) /\ Given(a, out') /\ (a.part => out' # <<>>)
        /\ \E f \in Nat, ls \in Seq(Lines), b \in BOOLEAN :
             a = [actor EXCEPT !.lines = ls, !.part = b, !.faults = f]
        /\ Unjudged(a, out') = Unjudged(actor, out)
    BY <1>1, <1>4, IdlePump
  <2> HIDE DEF a
  <2>2. \/ /\ actor' = [a EXCEPT !.pc = "writing", !.call = Head(queue),
                                 !.id = a.next, !.next = @ + 1,
                                 !.evidence = "not", !.stop = "none"]
           /\ caller' = [caller EXCEPT ![Head(queue)].id = a.next]
        \/ /\ actor' = [a EXCEPT !.next = @ + 1]
           /\ caller' = Plugin!Told([caller EXCEPT ![Head(queue)].id = a.next],
                             Head(queue), Plugin!Answer("invalid_arguments", "none"))
    BY <1>4 DEF a
  <2> QED
    BY <1>1, <1>4, <2>1, <2>2, CallTaken
<1> QED
  <2>1. ASSUME ~shutdown
        PROVE  \E p \in Plugin!Pumped :
                 /\ out' = Plugin!Rest(p)
                 /\ \/ \E fault \in {"protocol", p.fault} :
                         /\ Plugin!IdleFault(Plugin!Read(actor, p), fault) /\ fault # "none"
                         /\ fault = "protocol"
                              => p.got \/ actor.lines # <<>> \/ actor.part \/ p.fault = "protocol"
                         /\ UNCHANGED <<queue, caller>>
                    \/ /\ queue # <<>> /\ queue' = Tail(queue) /\ UNCHANGED state
                       /\ \/ /\ actor' = [Plugin!Read(actor, p) EXCEPT
                                           !.pc = "writing", !.call = Head(queue),
                                           !.id = Plugin!Read(actor, p).next, !.next = @ + 1,
                                           !.evidence = "not", !.stop = "none"]
                             /\ caller' = [caller EXCEPT
                                             ![Head(queue)].id = Plugin!Read(actor, p).next]
                          \/ /\ actor' = [Plugin!Read(actor, p) EXCEPT !.next = @ + 1]
                             /\ caller' = Plugin!Told(
                                   [caller EXCEPT ![Head(queue)].id = Plugin!Read(actor, p).next],
                                   Head(queue), Plugin!Answer("invalid_arguments", "none"))
    BY <2>1 DEF Plugin!IdleTurn
  <2>2. \A p \in Plugin!Pumped : p.fault # "protocol"
    BY <1>1, IdlePump
  <2> QED
    BY <1>2, <1>3, <1>4, <2>1, <2>2 DEF Plugin!IdleTurn

-----------------------------------------------------------------------------
(* The callers and the clocks.                                             *)

\* One caller moves; nobody else does.
LEMMA CallerMoves ==
    ASSUME Plugin!ActorAssumption, PluginInv, NEW c \in Calls, caller[c].pc \in {"idle", "looked"},
           actor.pc \notin Early,
           caller' \in Callers, \A d \in Calls : d # c => caller'[d] = caller[d],
           caller'[c].id = caller[c].id,
           \/ caller'[c].pc \in {"looked", "waiting"} /\ caller'[c].answer = caller[c].answer
           \/ caller'[c].pc = "answered" /\ caller'[c].answer.kind \in {"busy", "unavailable"},
           queue' = (IF caller'[c].pc = "waiting" THEN Append(queue, c) ELSE queue),
           Len(queue') <= Capacity,
           UNCHANGED <<state, shutdown, pluginDue, actor, peer, out, inn>>
    PROVE  PluginInv'
<1>1. /\ TypeInv /\ QueueInv /\ IdInv /\ EarlyInv /\ HonestInv /\ AnswerInv
      /\ queue \in Seq(Calls) /\ NoCall \notin Calls
  BY Facts
<1>2. c \notin Plugin!ToSet(queue) /\ c # actor.call /\ caller[c].id = 0
      /\ caller[c].answer = Plugin!NoAnswer
  BY <1>1 DEF QueueInv, IdInv
<1>3. /\ queue' \in Seq(Calls)
      /\ Plugin!ToSet(queue') = Plugin!ToSet(queue) \cup (IF caller'[c].pc = "waiting" THEN {c}
           ELSE {})
  BY <1>1, AppendIs
<1>4. \A i, j \in DOMAIN queue' : queue'[i] = queue'[j] => i = j
  <2>1. \A i, j \in DOMAIN queue : queue[i] = queue[j] => i = j
    BY <1>1 DEF QueueInv
  <2>2. \A i \in DOMAIN queue : queue[i] # c
    BY <1>2 DEF Plugin!ToSet
  <2>3. /\ DOMAIN Append(queue, c) = DOMAIN queue \cup {Len(queue) + 1}
        /\ \A i \in DOMAIN queue : Append(queue, c)[i] = queue[i]
        /\ Append(queue, c)[Len(queue) + 1] = c
    BY <1>1, AppendIs
  <2> DEFINE t == Append(queue, c)
  <2> HIDE DEF t
  <2>4. \A i, j \in DOMAIN t : t[i] = t[j] => i = j
    BY <2>1, <2>2, <2>3 DEF t
  <2> QED
    BY <2>1, <2>4 DEF t
<1>5. TypeInv'
  BY <1>1, <1>3 DEF TypeInv
<1>6. QueueInv'
  <2>1. \A d \in Calls : caller'[d].pc = "waiting" <=> d \in Plugin!ToSet(queue') \cup {actor'.call}
    <3>1. \A d \in Calls : caller[d].pc = "waiting" <=> d \in Plugin!ToSet(queue) \cup {actor.call}
      BY <1>1 DEF QueueInv
    <3> QED
      BY <1>2, <1>3, <3>1
  <2>2. \A d \in Calls : caller'[d].pc # "answered" => caller'[d].answer = Plugin!NoAnswer
    BY <1>1, <1>2 DEF QueueInv
  <2>3. actor'.call \notin Plugin!ToSet(queue')
    BY <1>1, <1>2, <1>3 DEF QueueInv
  <2>4. actor'.call # NoCall <=> actor'.pc \in Held
    BY <1>1 DEF QueueInv
  <2> QED
    BY <1>4, <2>1, <2>2, <2>3, <2>4 DEF QueueInv
<1>7. \A d \in Calls : caller'[d].id = caller[d].id
  OBVIOUS
<1>8. IdInv'
  <2>1. \A d \in Calls :
          caller'[d].pc \in {"idle", "looked"} \/ d \in Plugin!ToSet(queue') => caller'[d].id = 0
    BY <1>1, <1>2, <1>3 DEF IdInv
  <2>2. actor'.pc \in Held => actor'.id = caller'[actor'.call].id /\ actor'.id # 0
    BY <1>1, <1>7, Facts DEF IdInv
  <2> QED
    BY <1>1, <1>7, <2>1, <2>2 DEF IdInv
<1>9. EarlyInv'
  BY <1>1 DEF EarlyInv, Early
<1>10. HonestInv'
  BY <1>1 DEF HonestInv, Honest, Unjudged, Pending, Inbound, Plugin!OwnResult
<1>11. AnswerInv'
  <2>1. Given(actor, out)'
    BY <1>1 DEF AnswerInv, Given, Inbound
  <2>2. ASSUME NEW d \in Calls  PROVE Truthful(caller[d].answer, caller[d].id, d)'
    <3>1. CASE d = c
      <4>1. 0 \notin peer.seen \cup Ids(inn)
        BY <1>1 DEF IdInv
      <4>2. caller'[c].answer.kind \notin Plugin!Settled \cup {"unknown", "stopped_after"}
        BY <1>2 DEF Plugin!Settled, Plugin!NoAnswer
      <4> QED
        BY <1>2, <3>1, <4>1, <4>2 DEF Truthful, Plugin!Settled
    <3>2. CASE d # c
      BY <1>1, <3>2 DEF AnswerInv, Truthful, Justified
    <3> QED
      BY <3>1, <3>2
  <2>3. actor'.stop # "none" /\ actor'.pc \in Held => Justified(actor.stop, actor.call)'
    BY <1>1 DEF AnswerInv, Justified
  <2> QED
    BY <1>1, <2>1, <2>2, <2>3 DEF AnswerInv, Truthful
<1> QED
  BY <1>5, <1>6, <1>8, <1>9, <1>10, <1>11 DEF PluginInv

LEMMA CallersMove ==
    ASSUME Plugin!ActorAssumption, PluginInv, NEW c \in Calls, Plugin!Look(c) \/ Plugin!Send(c)
    PROVE  PluginInv'
<1>1. /\ caller \in Callers /\ QueueInv /\ queue \in Seq(Calls) /\ Len(queue) <= Capacity
      /\ caller[c] \in [pc : CallerPcs, id : Nat, answer : Answers]
      /\ Len(queue) \in Nat /\ Capacity \in Nat /\ EarlyInv
  BY Facts DEF Plugin!ActorAssumption, QueueInv, Callers
<1>2. /\ Plugin!Answer("unavailable", "none") \in Answers /\ Plugin!Answer("busy",
           "none") \in Answers
      /\ Plugin!Answer("unavailable", "none").kind = "unavailable" /\ Plugin!Answer("busy",
           "none").kind = "busy"
  BY AnswerIs DEF Kinds, Plugin!Unstarted, PluginStops
<1>3. caller[c].pc \in {"idle", "looked"} /\ actor.pc \notin Early
      /\ UNCHANGED <<state, shutdown, pluginDue, actor, peer, out, inn>>
  <2>1. CASE Plugin!Look(c)
    BY <2>1 DEF Plugin!Look, Plugin!Acquainted, Early
  <2>2. CASE Plugin!Send(c)
    BY <1>1, <2>2 DEF Plugin!Send, EarlyInv
  <2> QED
    BY <2>1, <2>2
<1>4. CASE /\ queue' = queue
           /\ \/ caller' = [caller EXCEPT ![c].pc = "looked"]
              \/ caller' = Plugin!Told(caller, c, Plugin!Answer("unavailable", "none"))
              \/ caller' = Plugin!Told(caller, c, Plugin!Answer("busy", "none"))
  <2>1. CASE caller' = [caller EXCEPT ![c].pc = "looked"]
    <3>1. /\ caller' \in Callers /\ caller'[c].pc = "looked" /\ caller'[c].id = caller[c].id
          /\ caller'[c].answer = caller[c].answer
          /\ \A d \in Calls : d # c => caller'[d] = caller[d]
      BY <1>1, <2>1 DEF Callers, CallerPcs
    <3> QED
      BY <1>1, <1>3, <1>4, <3>1, CallerMoves
  <2>2. ASSUME NEW a \in Answers, a.kind \in {"busy", "unavailable"}, caller' = Plugin!Told(caller,
        c, a)
        PROVE  PluginInv'
    <3>1. /\ caller' \in Callers
          /\ caller'[c] = [pc |-> "answered", id |-> caller[c].id, answer |-> a]
          /\ \A d \in Calls : d # c => caller'[d] = caller[d]
      BY <1>1, <2>2, ToldIs
    <3> QED
      BY <1>1, <1>3, <1>4, <2>2, <3>1, CallerMoves
  <2> QED
    BY <1>2, <1>4, <2>1, <2>2
<1>5. CASE /\ caller' = [caller EXCEPT ![c].pc = "waiting"] /\ queue' = Append(queue, c)
           /\ ~(Len(queue) >= Capacity)
  <2>1. /\ caller' \in Callers /\ caller'[c].pc = "waiting" /\ caller'[c].id = caller[c].id
        /\ caller'[c].answer = caller[c].answer
        /\ \A d \in Calls : d # c => caller'[d] = caller[d]
    BY <1>1, <1>5 DEF Callers, CallerPcs
  <2>2. Len(queue') <= Capacity
    BY <1>1, <1>5, AppendIs
  <2> QED
    BY <1>1, <1>3, <1>5, <2>1, <2>2, CallerMoves
<1> QED
  BY <1>4, <1>5 DEF Plugin!Look, Plugin!Send

\* A stop comes for a call, or for all of them.
LEMMA StopsCome ==
    ASSUME Plugin!ActorAssumption, PluginInv,
           \/ Plugin!RequestShutdown
           \/ \E c \in Calls, s \in StopKinds : Plugin!StopFires(c, s)
    PROVE  PluginInv'
<1>1. /\ TypeInv /\ QueueInv /\ IdInv /\ EarlyInv /\ HonestInv /\ AnswerInv
  BY Facts
<1>2. /\ UNCHANGED <<queue, caller, actor, peer, out, inn>>
      /\ pluginDue' \in [Calls -> SUBSET StopKinds]
      /\ \A c \in Calls : pluginDue[c] \subseteq pluginDue'[c]
      /\ shutdown' \in BOOLEAN /\ (shutdown => shutdown')
      /\ state' \in {"starting", "ready", "faulted", "stopping", "exited"}
  <2>1. CASE Plugin!RequestShutdown
    BY <1>1, <2>1 DEF TypeInv, Plugin!RequestShutdown
  <2>2. CASE \E k \in Calls, s \in StopKinds : Plugin!StopFires(k, s)
    <3> PICK k \in Calls, s \in StopKinds : Plugin!StopFires(k, s)
      BY <2>2
    <3>1. /\ pluginDue' = [pluginDue EXCEPT ![k] = @ \cup {s}]
          /\ UNCHANGED <<state, shutdown, queue, caller, actor, peer, out, inn>>
      BY DEF Plugin!StopFires, Plugin!Ours
    <3> QED
      BY <1>1, <3>1 DEF TypeInv
  <2> QED
    BY <2>1, <2>2
<1>3. TypeInv'
  BY <1>1, <1>2 DEF TypeInv
<1>4. QueueInv'
  BY <1>1, <1>2 DEF QueueInv
<1>5. IdInv'
  BY <1>1, <1>2 DEF IdInv
<1>6. EarlyInv'
  BY <1>1, <1>2 DEF EarlyInv
<1>7. HonestInv'
  BY <1>1, <1>2 DEF HonestInv, Honest, Pending
<1>8. AnswerInv'
  <2>1. Given(actor, out)'
    BY <1>1, <1>2 DEF AnswerInv, Given
  <2>2. \A s, c : c \in Calls /\ Justified(s, c) => Justified(s, c)'
    BY <1>2 DEF Justified
  <2>3. ASSUME NEW d \in Calls  PROVE Truthful(caller[d].answer, caller[d].id, d)'
    BY <1>1, <1>2, <2>2 DEF AnswerInv, Truthful
  <2>4. actor'.stop # "none" /\ actor'.pc \in Held => Justified(actor.stop, actor.call)'
    <3>1. actor.pc \in Held => actor.call \in Calls
      BY Facts
    <3> QED
      BY <1>1, <1>2, <2>2, <3>1 DEF AnswerInv
  <2> QED
    BY <1>1, <1>2, <2>1, <2>3, <2>4 DEF AnswerInv, Truthful
<1> QED
  BY <1>3, <1>4, <1>5, <1>6, <1>7, <1>8 DEF PluginInv

-----------------------------------------------------------------------------
(* The plugin.                                                             *)

\* What it did before it was started well it cannot have done dishonestly.
LEMMA PeerMoves ==
    ASSUME Plugin!ActorAssumption, PluginInv, UNCHANGED Plugin!Ours, pluginDue' = pluginDue,
           peer' \in Peers, out' \in Seq(Lines),
           inn' \in Seq(Lines), (peer'.alive => peer.alive), (peer'.honest => peer.honest),
           peer.said \subseteq peer'.said, Given(actor, out)', actor.part => out' # <<>>,
           peer'.seen \cup Ids(inn') \subseteq peer.seen \cup Ids(inn),
           actor.pc \in Early => out' \in {out, <<Plugin!Line("hello", 0)>>} /\ inn' = inn
                                 /\ peer'.said = peer.said /\ peer'.seen = peer.seen
                                 /\ peer'.honest = peer.honest
                                 /\ (out' # out => actor.pc = "hello"),
           peer'.honest /\ actor.pc = "idle" =>
                Unjudged(actor, out)' = 0 /\ Pending(inn)' = {},
           peer'.honest /\ actor.pc \in Driving => Honest(actor, out, inn)'
    PROVE  PluginInv'
<1>1. /\ TypeInv /\ QueueInv /\ IdInv /\ EarlyInv /\ HonestInv /\ AnswerInv
      /\ UNCHANGED <<state, shutdown, queue, caller, actor>>
  BY Facts DEF Plugin!Ours
<1>2. TypeInv'
  BY <1>1 DEF TypeInv
<1>3. QueueInv'
  BY <1>1 DEF QueueInv
<1>4. IdInv'
  BY <1>1 DEF IdInv
<1>5. EarlyInv'
  BY <1>1 DEF EarlyInv, Early
<1>6. HonestInv'
  BY <1>1 DEF HonestInv
<1>7. AnswerInv'
  <2>1. ASSUME NEW d \in Calls  PROVE Truthful(caller[d].answer, caller[d].id, d)'
    BY <1>1 DEF AnswerInv, Truthful, Justified
  <2>2. actor'.stop # "none" /\ actor'.pc \in Held => Justified(actor.stop, actor.call)'
    BY <1>1 DEF AnswerInv, Justified
  <2> QED
    BY <1>1, <2>1, <2>2 DEF AnswerInv, Truthful
<1> QED
  BY <1>2, <1>3, <1>4, <1>5, <1>6, <1>7 DEF PluginInv

LEMMA PeerSteps ==
    ASSUME Plugin!ActorAssumption, PluginInv, Plugin!Peer
    PROVE  PluginInv'
<1>1. /\ TypeInv /\ EarlyInv /\ HonestInv /\ AnswerInv /\ IdInv /\ peer \in Peers
           /\ actor \in Actors
      /\ out \in Seq(Lines) /\ inn \in Seq(Lines) /\ (actor.part => out # <<>>) /\ Given(actor, out)
      /\ (peer.honest /\ actor.pc = "idle" => Unjudged(actor, out) = 0 /\ Pending(inn) = {})
      /\ (peer.honest /\ actor.pc \in Driving => Honest(actor, out, inn))
  BY Facts DEF HonestInv
<1>2. CASE Plugin!PeerHello
  <2>1. /\ actor.pc = "hello" /\ actor.pc \in Early /\ actor.pc \notin Driving /\ actor.lines = <<>>
        /\ out' = <<Plugin!Line("hello", 0)>> /\ UNCHANGED <<pluginDue, peer, inn, actor>>
             /\ UNCHANGED Plugin!Ours
    BY <1>1, <1>2 DEF Plugin!PeerHello, Early, EarlyInv, Driving, Plugin!Ours
  <2>2. Plugin!Line("hello", 0) \in Lines /\ Plugin!Line("hello", 0).kind = "hello"
    BY DEF Plugin!Line, Lines
  <2>3. out' \in Seq(Lines) /\ out' # <<>>
    BY <2>1, <2>2
  <2>4. Given(actor, out)'
    <3>1. Plugin!ToSet(<<>>) = {} /\ Plugin!ToSet(<<Plugin!Line("hello",
          0)>>) = {Plugin!Line("hello", 0)}
      BY DEF Plugin!ToSet
    <3> QED
      BY <2>1, <2>2, <3>1 DEF Given, Inbound
  <2> QED
    BY <1>1, <2>1, <2>3, <2>4, PeerMoves
<1>3. CASE Plugin!PeerReads
  <2>1. /\ inn # <<>> /\ inn' = Tail(inn) /\ UNCHANGED <<pluginDue, out, actor>>
             /\ UNCHANGED Plugin!Ours
        /\ peer' = IF Head(inn).kind = "call" THEN [peer EXCEPT !.seen = @ \cup {Head(inn).id}]
                   ELSE peer
    BY <1>3 DEF Plugin!PeerReads, Plugin!Ours
  <2>2. /\ Tail(inn) \in Seq(Lines) /\ Head(inn) \in Lines
        /\ Ids(Tail(inn)) \subseteq Ids(inn) /\ Head(inn).id \in Ids(inn)
        /\ CallsIn(Tail(inn)) \subseteq CallsIn(inn)
        /\ (Head(inn).kind = "call" => Head(inn).id \in CallsIn(inn))
    BY <1>1, <2>1, TailLine
  <2>3. Head(inn).id \in Nat
    BY <2>2 DEF Lines
  <2>4. /\ peer' \in Peers /\ peer'.said = peer.said /\ peer'.alive = peer.alive
        /\ peer'.honest = peer.honest
        /\ peer'.seen = peer.seen \cup (IF Head(inn).kind = "call" THEN {Head(inn).id} ELSE {})
    BY <1>1, <2>1, <2>3 DEF Peers
  <2>5. Pending(inn)' \subseteq Pending(inn)
    BY <2>1, <2>2, <2>4 DEF Pending
  <2>6. actor.pc \notin Early
    BY <1>1, <2>1 DEF EarlyInv
  <2>7. Given(actor, out)'
    BY <1>1, <2>1, <2>4 DEF Given
  <2>8. peer'.honest /\ actor.pc = "idle" => Unjudged(actor, out)' = 0 /\ Pending(inn)' = {}
    BY <1>1, <2>1, <2>4, <2>5 DEF Unjudged
  <2>9. peer'.honest /\ actor.pc \in Driving => Honest(actor, out, inn)'
    <3> SUFFICES ASSUME peer'.honest, actor.pc \in Driving  PROVE Honest(actor, out, inn)'
      OBVIOUS
    <3>1. Honest(actor, out, inn)
      BY <1>1, <2>4
    <3>2. Unjudged(actor, out)' = Unjudged(actor, out) /\ Inbound(actor, out)' = Inbound(actor, out)
      BY <2>1
    <3> QED
      BY <2>1, <2>5, <3>1, <3>2 DEF Honest
  <2>10. /\ peer'.seen \cup Ids(inn') \subseteq peer.seen \cup Ids(inn) /\ inn' \in Seq(Lines)
         /\ (actor.part => out' # <<>>) /\ out' \in Seq(Lines)
    BY <1>1, <2>1, <2>2, <2>4
  <2> QED
    BY <2>1, <2>4, <2>6, <2>7, <2>8, <2>9, <2>10, PeerMoves
<1>4. ASSUME NEW id \in peer.seen, NEW kind \in {"result", "bad_result"}, Plugin!PeerAnswers(id,
      kind)
      PROVE  PluginInv'
  <2> DEFINE l == Plugin!Line(kind, id)
  <2>1. /\ id \in peer.seen /\ id \notin peer.said /\ out' = Append(out, l)
        /\ peer' = [peer EXCEPT !.said = @ \cup {id}]
        /\ UNCHANGED <<pluginDue, inn, actor>> /\ UNCHANGED Plugin!Ours
    BY <1>4 DEF Plugin!PeerAnswers, Plugin!Ours
  <2>2. id \in Nat /\ l \in Lines /\ l.kind = kind /\ l.id = id
    BY <1>1, <1>4 DEF Peers, Plugin!Line, Lines
  <2> HIDE DEF l
  <2>3. /\ peer' \in Peers /\ peer'.said = peer.said \cup {id} /\ peer'.alive = peer.alive
        /\ peer'.honest = peer.honest /\ peer'.seen = peer.seen
    BY <1>1, <2>1, <2>2 DEF Peers
  <2>4. /\ out' \in Seq(Lines) /\ Len(out') = Len(out) + 1 /\ Len(out) \in Nat
        /\ Plugin!ToSet(out') = Plugin!ToSet(out) \cup {l}
    BY <1>1, <2>1, <2>2, AppendIs
  <2>5. out' # <<>>
    BY <2>4
  <2>6. id \in Pending(inn) /\ Pending(inn)' = Pending(inn) \ {id}
    BY <2>1, <2>3 DEF Pending
  <2>7. actor.pc \notin Early
    BY <1>1, <2>1 DEF EarlyInv
  <2>8. Given(actor, out)'
    BY <1>1, <2>1, <2>2, <2>3, <2>4 DEF Given, Inbound
  <2>9. peer'.honest /\ actor.pc \in Driving => Honest(actor, out, inn)'
    <3> SUFFICES ASSUME peer'.honest, actor.pc \in Driving  PROVE Honest(actor, out, inn)'
      OBVIOUS
    <3>1. /\ Honest(actor, out, inn) /\ actor.lines \in Seq(Lines) /\ Len(actor.lines) \in Nat
      BY <1>1, <2>3 DEF Actors
    <3>2. /\ actor.evidence = "all" /\ Unjudged(actor, out) = 0 /\ id = actor.id
          /\ Pending(inn) \subseteq {id}
      BY <2>6, <3>1 DEF Honest
    <3>3. Len(actor.lines) = 0 /\ Len(out) = 0
      BY <2>4, <3>1, <3>2 DEF Unjudged
    <3>4. actor.lines = <<>> /\ out = <<>>
      BY <1>1, <3>1, <3>3
    <3>5. Plugin!ToSet(actor.lines) = {} /\ Plugin!ToSet(out) = {}
      BY <3>4 DEF Plugin!ToSet
    <3>6. Inbound(actor, out)' = {l} /\ Unjudged(actor, out)' = 1 /\ Pending(inn)' = {}
      BY <2>1, <2>4, <2>6, <3>2, <3>3, <3>5 DEF Inbound, Unjudged
    <3>7. Plugin!OwnResult(actor, l)'
      BY <1>4, <2>1, <2>2, <3>2 DEF Plugin!OwnResult
    <3> QED
      BY <2>1, <3>2, <3>6, <3>7 DEF Honest
  <2>10. ~(peer'.honest /\ actor.pc = "idle")
    BY <1>1, <2>3, <2>6
  <2> QED
    BY <1>1, <2>1, <2>3, <2>4, <2>5, <2>7, <2>8, <2>9, <2>10, PeerMoves
<1>5. ASSUME NEW l \in Plugin!Lies, Plugin!PeerLies(l)  PROVE PluginInv'
  <2>1. /\ out' = Append(out, l) /\ actor.pc \notin Early
        /\ peer' = [peer EXCEPT !.lies = @ + 1, !.honest = FALSE,
                                !.said = IF l.kind = "result" THEN @ \cup {l.id} ELSE @]
        /\ UNCHANGED <<pluginDue, inn, actor>> /\ UNCHANGED Plugin!Ours
    BY <1>5 DEF Plugin!PeerLies, Plugin!Ours, Plugin!Acquainted, Early
  <2>2. l \in Lines /\ l.kind \in {"junk", "result"}
    <3>1. ASSUME NEW id \in 1 .. Plugin!Cardinality(Calls)  PROVE id \in Nat
      OBVIOUS
    <3> QED
      BY <1>5, <3>1 DEF Plugin!Lies, Plugin!Line, Lines
  <2>3. /\ peer' \in Peers /\ peer'.alive = peer.alive /\ peer'.honest = FALSE
        /\ peer'.seen = peer.seen /\ peer.said \subseteq peer'.said
        /\ (l.kind = "result" => l.id \in peer'.said)
    <3>1. l.id \in Nat /\ peer.said \subseteq Nat /\ peer.lies + 1 \in Nat
      BY <1>1, <2>2 DEF Peers, Lines
    <3> DEFINE said == IF l.kind = "result" THEN peer.said \cup {l.id} ELSE peer.said
    <3>2. said \in SUBSET Nat /\ peer.said \subseteq said /\ (l.kind = "result" => l.id \in said)
      BY <3>1
    <3>3. peer' = [peer EXCEPT !.lies = peer.lies + 1, !.honest = FALSE, !.said = said]
      BY <1>1, <2>1 DEF Peers
    <3> HIDE DEF said
    <3> QED
      BY <1>1, <3>1, <3>2, <3>3 DEF Peers
  <2>4. /\ out' \in Seq(Lines) /\ Len(out') = Len(out) + 1 /\ Len(out) \in Nat
        /\ Plugin!ToSet(out') = Plugin!ToSet(out) \cup {l}
    BY <1>1, <2>1, <2>2, AppendIs
  <2>5. out' # <<>>
    BY <2>4
  <2>6. Given(actor, out)'
    BY <1>1, <2>1, <2>2, <2>3, <2>4 DEF Given, Inbound
  <2> QED
    BY <1>1, <2>1, <2>3, <2>4, <2>5, <2>6, PeerMoves
<1>6. CASE Plugin!PeerDies
  <2>1. /\ peer' = [peer EXCEPT !.alive = FALSE] /\ UNCHANGED <<pluginDue, out, inn, actor>>
        /\ UNCHANGED Plugin!Ours
    BY <1>6 DEF Plugin!PeerDies, Plugin!Ours
  <2>2. /\ peer' \in Peers /\ peer'.alive = FALSE /\ peer'.honest = peer.honest
        /\ peer'.seen = peer.seen /\ peer.said = peer'.said
    BY <1>1, <2>1 DEF Peers
  <2>3. Given(actor, out)'
    BY <1>1, <2>1, <2>2 DEF Given
  <2>4. Pending(inn)' = Pending(inn) /\ Unjudged(actor, out)' = Unjudged(actor, out)
        /\ (Honest(actor, out, inn) => Honest(actor, out, inn)')
    BY <2>1, <2>2 DEF Pending, Honest
  <2> QED
    BY <1>1, <2>1, <2>2, <2>3, <2>4, PeerMoves
<1> QED
  BY <1>2, <1>3, <1>4, <1>5, <1>6 DEF Plugin!Peer

-----------------------------------------------------------------------------
(* The theorems.                                                           *)

LEMMA Starts ==
    ASSUME Plugin!ActorAssumption, Plugin!Init
    PROVE  PluginInv
<1>1. /\ actor.pc = "launch" /\ actor.lines = <<>> /\ actor.part = FALSE /\ actor.fault = "none"
      /\ actor.next = 1 /\ actor.call = NoCall /\ actor \in Actors
  BY DEF Plugin!Init, Plugin!NewActor, Actors, ActorPcs, Early, PluginStops, Faults
<1>2. /\ queue = <<>> /\ inn = <<>> /\ out = <<>> /\ shutdown = FALSE /\ state = "starting"
      /\ caller = [c \in Calls |-> [pc |-> "idle", id |-> 0, answer |-> Plugin!NoAnswer]]
      /\ pluginDue = [c \in Calls |-> {}]
      /\ peer = [alive |-> FALSE, honest |-> TRUE, seen |-> {}, said |-> {}, lies |-> 0]
  BY DEF Plugin!Init
<1>3. /\ Plugin!ToSet(queue) = {} /\ Plugin!ToSet(actor.lines) = {} /\ Plugin!ToSet(out) = {}
           /\ Ids(inn) = {}
      /\ NoCall \notin Calls /\ Capacity \in Nat /\ DOMAIN queue = {} /\ Len(queue) = 0
  BY <1>1, <1>2 DEF Plugin!ActorAssumption, Plugin!ToSet, Ids
<1>4. Plugin!NoAnswer \in Answers /\ Plugin!NoAnswer.kind = "none"
  BY AnswerIs DEF Kinds, PluginStops, Plugin!NoAnswer, Answers
<1>5. TypeInv
  <2>1. caller \in Callers
    BY <1>2, <1>4 DEF Callers, CallerPcs
  <2>2. peer \in Peers /\ pluginDue \in [Calls -> SUBSET StopKinds]
    BY <1>2 DEF Peers
  <2>3. queue \in Seq(Calls) /\ out \in Seq(Lines) /\ inn \in Seq(Lines)
    BY <1>2
  <2> QED
    BY <1>1, <1>2, <2>1, <2>2, <2>3 DEF TypeInv
<1>6. actor.pc \in Early /\ actor.pc \notin Held /\ actor.pc \notin Driving
  BY <1>1 DEF Early, Held, Driving
<1>7. QueueInv
  BY <1>1, <1>2, <1>3, <1>6 DEF QueueInv
<1>8. IdInv
  BY <1>1, <1>2, <1>3, <1>6 DEF IdInv
<1>9. EarlyInv
  BY <1>1, <1>2, <1>6 DEF EarlyInv
<1>10. HonestInv
  BY <1>1, <1>6 DEF HonestInv
<1>11. AnswerInv
  BY <1>1, <1>2, <1>3, <1>4, <1>6 DEF AnswerInv, Given, Inbound, Plugin!Unstarted, Plugin!Settled
<1> QED
  BY <1>5, <1>7, <1>8, <1>9, <1>10, <1>11 DEF PluginInv

LEMMA Steps ==
    ASSUME Plugin!ActorAssumption, PluginInv, [Plugin!Next]_Plugin!vars
    PROVE  PluginInv'
<1>1. CASE Plugin!Actor
  <2>1. ASSUME NEW r \in {"clean", "lost"}, Plugin!CleanUp(r)  PROVE PluginInv'
    BY <2>1, CleanedUp
  <2> QED
    BY <1>1, <2>1, Ends, IdleTurns, WriteTurns, WaitTurns, CancelledTurns, Judged, Dropped
          DEF Plugin!Actor
<1>2. CASE Plugin!Peer
  BY <1>2, PeerSteps
<1>3. CASE Plugin!RequestShutdown \/ \E c \in Calls, s \in StopKinds : Plugin!StopFires(c, s)
  BY <1>3, StopsCome
<1>4. ASSUME NEW c \in Calls, Plugin!Look(c) \/ Plugin!Send(c)  PROVE PluginInv'
  BY <1>4, CallersMove
<1>5. CASE UNCHANGED Plugin!vars
  <2> USE <1>5 DEF Plugin!vars
  <2>1. TypeInv' /\ QueueInv' /\ IdInv' /\ EarlyInv'
    BY Facts DEF TypeInv, QueueInv, IdInv, EarlyInv
  <2>2. HonestInv' /\ AnswerInv'
    BY Facts DEF HonestInv, AnswerInv, Honest, Pending, Given, Justified
  <2> QED
    BY <2>1, <2>2 DEF PluginInv
<1> QED
  BY <1>1, <1>2, <1>3, <1>4, <1>5 DEF Plugin!Next

LEMMA Means ==
    ASSUME Plugin!ActorAssumption, PluginInv
    PROVE  Plugin!AnswerIsTrue
<1>1. /\ TypeInv /\ QueueInv /\ IdInv /\ HonestInv /\ AnswerInv /\ actor \in Actors
  BY Facts
<1>2. Plugin!TypeOK
  <2>1. actor.call # NoCall <=>
          actor.pc \in {"writing", "waiting", "cancelled", "fatal", "verdict"}
    BY <1>1 DEF QueueInv, Held, Driving
  <2>2. actor.evidence \in {"not", "may", "all"}
    BY <1>1 DEF Actors
  <2> QED
    BY <1>1, <2>1, <2>2 DEF Plugin!TypeOK, TypeInv, QueueInv
<1>3. Plugin!HonestNeverBlamed
  BY <1>1 DEF HonestInv, Plugin!HonestNeverBlamed
<1>4. ASSUME NEW c \in Calls
      PROVE  LET a == caller[c].answer  id == caller[c].id IN
             /\ a.kind \in Plugin!Unstarted =>
                   id \notin peer.seen /\ \A i \in DOMAIN inn : inn[i].id # id
             /\ a.kind \in Plugin!Settled => id \in peer.said
             /\ a.kind = "unknown" => ~peer.alive
             /\ a.kind = "stopped_after" => a.stop \in pluginDue[c] \/ (a.stop = "caller"
                  /\ shutdown)
  BY <1>1 DEF AnswerInv, Ids, Justified
<1> QED
  BY <1>2, <1>3, <1>4 DEF Plugin!AnswerIsTrue

\* Whatever the plugin does, whatever is lost and whenever a call is stopped or
\* the actor shut down, what invoke tells its caller is true: "never started" of
\* a call whose number the plugin never reads, "settled" of one it has answered
\* under that number, "unknown" only when the process is gone; and a plugin that
\* answers each call once is not found at fault (tools/plugin/actor.rs).
THEOREM AnswersAreTrue == Plugin!ActorAssumption => (Plugin!Spec => []Plugin!AnswerIsTrue)
<1> SUFFICES ASSUME Plugin!ActorAssumption PROVE Plugin!Spec => []Plugin!AnswerIsTrue
  OBVIOUS
<1>1. Plugin!Init => PluginInv
  BY Starts
<1>2. PluginInv /\ [Plugin!Next]_Plugin!vars => PluginInv'
  BY Steps
<1>3. PluginInv => Plugin!AnswerIsTrue
  BY Means
<1> QED
  BY <1>1, <1>2, <1>3, PTL DEF Plugin!Spec

-----------------------------------------------------------------------------
(* The language servers. *)

Busy == {"start", "init", "initialized", "open", "ask", "close", "abort", "drop"}
Young == {"init", "initialized", "abort"}
Served == {"open", "ask", "close", "drop", "farewell"}
Off == {"start", "leaving", "gone"}
Pcs == Busy \cup {"idle", "farewell", "leaving", "gone"}
Failures == {"none", "transport", "protocol", "stopped", "server", "malformed", "lost"}
LspKinds == Failures \cup {"process", "busy", "success", "unsupported"}
LspStops == {"none", "cancelled", "timeout"}
Responses == {"ok", "bad", "error"}
Requested == {"initialize", "ask", "cancel"}
Messages == [kind : Responses \cup Requested \cup {"request"}, id : Nat]
Answered == [kind : LspKinds, stop : LspStops]
LspActors == [pc : Pcs, query : Queries \cup {NoQuery}, attempt : Nat, id : Nat,
           failure : Failures, stop : LspStops, exit : {"none", "clean", "lost"}]
Caller == [pc : {"idle", "looked", "waiting", "answered"}, asked : Nat \X Nat, answer : Answered]
Conns == [up : BOOLEAN, next : Nat, able : BOOLEAN, inbox : Seq(Messages)]
Servers == [alive : BOOLEAN, torn : BOOLEAN, inn : Seq(Messages), out : Seq(Messages),
            said : SUBSET Nat]
Fates == {"live", "gone", "lost"}

LspTypeInv ==
    /\ lspShutdown \in BOOLEAN
    /\ lspQueue \in Seq(Queries)
    /\ lspCaller \in [Queries -> Caller]
    /\ lspDue \in [Queries -> SUBSET {"cancelled", "timeout"}]
    /\ lspActor \in LspActors
    /\ conn \in Conns
    /\ server \in Servers
    /\ procs \in Seq(Fates)
    /\ trouble \in Nat /\ trouble <= LspMaxTrouble

\* A caller waits in the queue, once, or for the query that is served.
LspQueueInv ==
    /\ Len(lspQueue) <= LspCapacity
    /\ \A i, j \in DOMAIN lspQueue : lspQueue[i] = lspQueue[j] => i = j
    /\ \A q \in Queries : lspCaller[q].pc = "waiting" <=> q \in Lsp!ToSet(lspQueue)
         \cup {lspActor.query}
    /\ lspActor.query \notin Lsp!ToSet(lspQueue)
    /\ lspActor.query # NoQuery <=> lspActor.pc \in Busy

\* A server lives exactly as long as the thread has a connection to it.
Connected == conn.up \/ lspActor.pc \in Young

LiveInv ==
    /\ lspActor.pc \in Served => conn.up
    /\ lspActor.pc \in Young \cup Off => ~conn.up
    /\ Connected => procs # <<>> /\ Lsp!Last(procs) = "live" /\ conn.next > 1
    /\ \A g \in DOMAIN procs : procs[g] = "live" => g = Len(procs) /\ Connected

\* The numbers of requests: every response is to one that was sent.
LspInbound == Lsp!ToSet(conn.inbox) \cup Lsp!ToSet(server.out)

LspIdInv ==
    /\ lspActor.pc \in {"ask", "close"} =>
          lspCaller[lspActor.query].asked = <<Lsp!Gen, lspActor.id>> /\ lspActor.id > 1
    /\ lspActor.pc = "close" => lspActor.id \in server.said
    /\ \A m \in LspInbound : m.kind \in Responses => m.id \in {0, 1} \cup server.said
    /\ \A m \in Lsp!ToSet(server.inn) :
          m.kind \in Requested /\ (m.kind = "initialize" => m.id = 1)

LspInv == LspTypeInv /\ LspQueueInv /\ LiveInv /\ LspIdInv

-----------------------------------------------------------------------------
(* Sequences.                                                              *)

LEMMA LspAppendIs ==
    ASSUME NEW S, NEW s \in Seq(S), NEW x \in S
    PROVE  /\ Append(s, x) \in Seq(S) /\ Len(Append(s, x)) = Len(s) + 1
           /\ DOMAIN Append(s, x) = DOMAIN s \cup {Len(s) + 1} /\ Len(s) \in Nat
           /\ \A i \in DOMAIN s : Append(s, x)[i] = s[i] /\ i # Len(s) + 1
           /\ Append(s, x)[Len(s) + 1] = x /\ Lsp!ToSet(Append(s, x)) = Lsp!ToSet(s) \cup {x}
<1>1. /\ Append(s, x) \in Seq(S) /\ Len(Append(s, x)) = Len(s) + 1
      /\ DOMAIN Append(s, x) = DOMAIN s \cup {Len(s) + 1} /\ Len(s) \in Nat
      /\ \A i \in DOMAIN s : Append(s, x)[i] = s[i] /\ i # Len(s) + 1
      /\ Append(s, x)[Len(s) + 1] = x
  OBVIOUS
<1> DEFINE t == Append(s, x)
<1> HIDE DEF t
<1>2. Lsp!ToSet(t) = Lsp!ToSet(s) \cup {x}
  BY <1>1 DEF Lsp!ToSet, t
<1> QED
  BY <1>1, <1>2 DEF t

LEMMA LspTailIs ==
    ASSUME NEW S, NEW s \in Seq(S), s # <<>>
    PROVE  /\ Head(s) \in S /\ Tail(s) \in Seq(S) /\ Len(Tail(s)) = Len(s) - 1
           /\ Len(s) \in Nat /\ 1 \in DOMAIN s /\ Head(s) = s[1]
           /\ \A i \in DOMAIN Tail(s) : i + 1 \in DOMAIN s /\ Tail(s)[i] = s[i + 1]
           /\ \A i \in DOMAIN s : i = 1 \/ (i - 1 \in DOMAIN Tail(s) /\ s[i] = Tail(s)[i - 1])
           /\ Lsp!ToSet(s) = {Head(s)} \cup Lsp!ToSet(Tail(s))
<1>1. /\ Head(s) \in S /\ Tail(s) \in Seq(S) /\ Len(Tail(s)) = Len(s) - 1
      /\ Len(s) \in Nat /\ 1 \in DOMAIN s /\ Head(s) = s[1] /\ DOMAIN s = 1 .. Len(s)
  OBVIOUS
<1>2. \A i \in DOMAIN Tail(s) : i + 1 \in DOMAIN s /\ Tail(s)[i] = s[i + 1]
  BY <1>1
<1>3. \A i \in DOMAIN s : i = 1 \/ (i - 1 \in DOMAIN Tail(s) /\ s[i] = Tail(s)[i - 1])
  BY <1>1
<1> DEFINE t == Tail(s)
<1> HIDE DEF t
<1>4. Lsp!ToSet(s) = {Head(s)} \cup Lsp!ToSet(t)
  <2>1. /\ 1 \in DOMAIN s /\ Head(s) = s[1]
        /\ \A i \in DOMAIN t : i + 1 \in DOMAIN s /\ t[i] = s[i + 1]
        /\ \A i \in DOMAIN s : i = 1 \/ (i - 1 \in DOMAIN t /\ s[i] = t[i - 1])
    BY <1>1, <1>2, <1>3 DEF t
  <2>2. \A i \in DOMAIN s : s[i] \in {Head(s)} \cup Lsp!ToSet(t)
    BY <2>1 DEF Lsp!ToSet
  <2>3. Head(s) \in Lsp!ToSet(s) /\ \A i \in DOMAIN t : t[i] \in Lsp!ToSet(s)
    BY <2>1 DEF Lsp!ToSet
  <2> QED
    BY <2>2, <2>3 DEF Lsp!ToSet
<1> QED
  BY <1>1, <1>2, <1>3, <1>4 DEF t


LEMMA SuffixIs ==
    ASSUME NEW S, NEW s \in Seq(S), NEW k \in DOMAIN s
    PROVE  /\ SubSeq(s, k + 1, Len(s)) \in Seq(S)
           /\ Lsp!ToSet(SubSeq(s, k + 1, Len(s))) \subseteq Lsp!ToSet(s)
<1>1. /\ k \in 1 .. Len(s) /\ Len(s) \in Nat
      /\ SubSeq(s, k + 1, Len(s)) \in Seq(S) /\ Len(SubSeq(s, k + 1, Len(s))) = Len(s) - k
      /\ \A i \in 1 .. Len(s) - k : SubSeq(s, k + 1, Len(s))[i] = s[k + i]
  OBVIOUS
<1> DEFINE t == SubSeq(s, k + 1, Len(s))
<1> HIDE DEF t
<1>2. \A i \in DOMAIN t : t[i] \in Lsp!ToSet(s)
  <2>1. \A i \in DOMAIN t : k + i \in DOMAIN s /\ t[i] = s[k + i]
    BY <1>1 DEF t
  <2> QED
    BY <2>1 DEF Lsp!ToSet
<1>3. Lsp!ToSet(t) \subseteq Lsp!ToSet(s)
  BY <1>2 DEF Lsp!ToSet
<1> QED
  BY <1>1, <1>3 DEF t

LEMMA JoinIs ==
    ASSUME NEW S, NEW s \in Seq(S), NEW t \in Seq(S)
    PROVE  s \o t \in Seq(S) /\ Lsp!ToSet(s \o t) = Lsp!ToSet(s) \cup Lsp!ToSet(t)
<1>1. /\ s \o t \in Seq(S) /\ Len(s \o t) = Len(s) + Len(t) /\ Len(s) \in Nat /\ Len(t) \in Nat
      /\ \A i \in 1 .. Len(s) : (s \o t)[i] = s[i]
      /\ \A i \in 1 .. Len(t) : (s \o t)[Len(s) + i] = t[i]
      /\ DOMAIN s = 1 .. Len(s) /\ DOMAIN t = 1 .. Len(t)
  OBVIOUS
<1> DEFINE u == s \o t
<1> HIDE DEF u
<1>2. ASSUME NEW i \in DOMAIN u  PROVE u[i] \in Lsp!ToSet(s) \cup Lsp!ToSet(t)
  <2>1. CASE i \in 1 .. Len(s)
    BY <1>1, <2>1 DEF Lsp!ToSet, u
  <2>2. CASE i \notin 1 .. Len(s)
    <3>1. PICK k \in 1 .. Len(t) : i = Len(s) + k
      <4>1. i - Len(s) \in 1 .. Len(t) /\ i = Len(s) + (i - Len(s))
        BY <1>1, <2>2 DEF u
      <4> QED
        BY <4>1
    <3> QED
      BY <1>1, <3>1 DEF Lsp!ToSet, u
  <2> QED
    BY <2>1, <2>2
<1>3. ASSUME NEW i \in DOMAIN s  PROVE s[i] \in Lsp!ToSet(u)
  <2>1. i \in DOMAIN u /\ u[i] = s[i]
    BY <1>1 DEF u
  <2> QED
    BY <2>1 DEF Lsp!ToSet
<1>4. ASSUME NEW i \in DOMAIN t  PROVE t[i] \in Lsp!ToSet(u)
  <2>1. Len(s) + i \in DOMAIN u /\ u[Len(s) + i] = t[i]
    BY <1>1 DEF u
  <2> QED
    BY <2>1 DEF Lsp!ToSet
<1>5. Lsp!ToSet(u) = Lsp!ToSet(s) \cup Lsp!ToSet(t)
  BY <1>2, <1>3, <1>4 DEF Lsp!ToSet
<1> QED
  BY <1>1, <1>5 DEF u

LEMMA MinIs ==
    ASSUME NEW S, S \subseteq Nat, S # {}
    PROVE  Lsp!Min(S) \in S
<1>1. PICK x \in S : \A y \in S : ~(<<y, x>> \in OpToRel(<, Nat))
  BY NatLessThanWellFounded, WFMin
<1>2. ASSUME NEW y \in S  PROVE x <= y
  <2>1. ~(y < x)
    BY <1>1 DEF OpToRel
  <2> QED
    BY <2>1
<1> QED
  BY <1>2 DEF Lsp!Min

-----------------------------------------------------------------------------
(* The parts of the steps.                                                 *)

LEMMA LspFacts ==
    ASSUME Lsp!LspAssumption, LspInv
    PROVE  /\ LspTypeInv /\ LspQueueInv /\ LiveInv /\ LspIdInv
           /\ lspActor \in LspActors /\ conn \in Conns /\ server \in Servers /\ procs \in Seq(Fates)
           /\ lspCaller \in [Queries -> Caller] /\ lspQueue \in Seq(Queries)
           /\ Lsp!ToSet(lspQueue) \subseteq Queries /\ NoQuery \notin Queries
           /\ (lspActor.pc \in Busy => lspActor.query \in Queries)
           /\ (lspActor.pc \notin Busy => lspActor.query = NoQuery)
BY DEF Lsp!LspAssumption, LspInv, LspTypeInv, LspQueueInv, Lsp!ToSet, LspActors

LEMMA LspToldIs ==
    ASSUME NEW cs \in [Queries -> Caller], NEW q \in Queries, NEW kind \in LspKinds,
           NEW how \in LspStops
    PROVE  /\ Lsp!Told(cs, q, kind, how) \in [Queries -> Caller]
           /\ Lsp!Told(cs, q, kind, how)[q].pc = "answered"
           /\ Lsp!Told(cs, q, kind, how)[q].asked = cs[q].asked
           /\ \A p \in Queries : p # q => Lsp!Told(cs, q, kind, how)[p] = cs[p]
<1>1. [kind |-> kind, stop |-> how] \in Answered
  BY DEF Answered
<1>2. cs[q] \in Caller
  OBVIOUS
<1> DEFINE t == [cs[q] EXCEPT !.pc = "answered", !.answer = [kind |-> kind, stop |-> how]]
<1>3. t \in Caller /\ t.pc = "answered" /\ t.asked = cs[q].asked
  BY <1>1, <1>2 DEF Caller
<1>4. Lsp!Told(cs, q, kind, how) = [cs EXCEPT ![q] = t]
  BY <1>2 DEF Lsp!Told, Caller
<1> HIDE DEF t
<1> QED
  BY <1>3, <1>4

LEMMA LspStopIs == ASSUME NEW q PROVE Lsp!StopOf(q) \in LspStops
BY DEF Lsp!StopOf, LspStops

\* Nobody is answered.
LEMMA QueueKept ==
    ASSUME Lsp!LspAssumption, LspInv, lspQueue' = lspQueue, lspActor'.query = lspActor.query,
           lspActor'.pc \in Busy <=> lspActor.pc \in Busy,
           \A q \in Queries : lspCaller'[q].pc = lspCaller[q].pc
    PROVE  LspQueueInv'
BY LspFacts DEF LspQueueInv

\* The query that is served is answered.
LEMMA Replied ==
    ASSUME Lsp!LspAssumption, LspInv, lspActor.pc \in Busy, NEW kind \in LspKinds,
           NEW how \in LspStops, Lsp!Reply(kind, how),
           lspQueue' = lspQueue
    PROVE  /\ lspCaller' \in [Queries -> Caller] /\ LspQueueInv'
           /\ lspActor' = Lsp!Idle /\ lspActor' \in LspActors /\ lspActor'.pc = "idle"
<1>1. /\ LspQueueInv /\ lspCaller \in [Queries -> Caller] /\ lspActor.query \in Queries
      /\ NoQuery \notin Queries /\ Lsp!ToSet(lspQueue) \subseteq Queries
  BY LspFacts
<1>2. /\ lspCaller' \in [Queries -> Caller] /\ lspCaller'[lspActor.query].pc = "answered"
      /\ \A p \in Queries : p # lspActor.query => lspCaller'[p] = lspCaller[p]
  BY <1>1, LspToldIs DEF Lsp!Reply
<1>3. lspActor' = Lsp!Idle /\ lspActor' \in LspActors /\ lspActor'.pc = "idle"
      /\ lspActor'.query = NoQuery
  BY DEF Lsp!Reply, Lsp!Idle, LspActors, Pcs, Failures, LspStops
<1>4. LspQueueInv'
  <2>1. \A q \in Queries : lspCaller[q].pc = "waiting" <=> q \in Lsp!ToSet(lspQueue)
        \cup {lspActor.query}
    BY <1>1 DEF LspQueueInv
  <2>2. lspActor.query \notin Lsp!ToSet(lspQueue)
    BY <1>1 DEF LspQueueInv
  <2>3. \A q \in Queries : lspCaller'[q].pc = "waiting" <=> q \in Lsp!ToSet(lspQueue')
        \cup {lspActor'.query}
    BY <1>1, <1>2, <1>3, <2>1, <2>2
  <2> QED
    BY <1>1, <1>3, <2>3 DEF LspQueueInv, Busy
<1> QED
  BY <1>2, <1>3, <1>4

\* The queue is rejected.
LEMMA RejectedIs ==
    ASSUME Lsp!LspAssumption, LspInv, lspActor.pc \notin Busy, NEW kind \in LspKinds,
           NEW how \in LspStops,
           lspCaller' = Lsp!Rejected(kind, how), lspQueue' = <<>>,
           lspActor'.query = NoQuery, lspActor'.pc \notin Busy
    PROVE  lspCaller' \in [Queries -> Caller] /\ LspQueueInv'
<1>1. /\ LspQueueInv /\ lspCaller \in [Queries -> Caller] /\ lspActor.query = NoQuery
      /\ NoQuery \notin Queries /\ Lsp!ToSet(lspQueue) \subseteq Queries /\ LspCapacity \in Nat
  BY LspFacts DEF Lsp!LspAssumption
<1>2. ASSUME NEW q \in Queries
      PROVE  /\ lspCaller'[q] \in Caller
             /\ lspCaller'[q].pc # "waiting"
             /\ lspCaller'[q].pc # lspCaller[q].pc => lspCaller'[q].pc = "answered"
  <2>1. CASE q \in Lsp!ToSet(lspQueue)
    <3>1. lspCaller'[q] = Lsp!Told(lspCaller, q, kind, how)[q]
      BY <2>1 DEF Lsp!Rejected
    <3> QED
      BY <1>1, <3>1, LspToldIs
  <2>2. CASE q \notin Lsp!ToSet(lspQueue)
    BY <1>1, <2>2 DEF Lsp!Rejected, LspQueueInv
  <2> QED
    BY <2>1, <2>2
<1>3. lspCaller' \in [Queries -> Caller]
  BY <1>2 DEF Lsp!Rejected
<1>4. Lsp!ToSet(lspQueue') = {} /\ Len(lspQueue') = 0 /\ DOMAIN lspQueue' = {}
  BY DEF Lsp!ToSet
<1>5. LspQueueInv'
  BY <1>1, <1>2, <1>4 DEF LspQueueInv
<1> QED
  BY <1>3, <1>5

LEMMA TerminatedIs ==
    ASSUME Lsp!LspAssumption, LspInv, Connected, NEW r \in {"gone", "lost"}
    PROVE  /\ Lsp!Terminated(r) \in Seq(Fates) /\ Lsp!Terminated(r) # <<>>
           /\ \A g \in DOMAIN Lsp!Terminated(r) : Lsp!Terminated(r)[g] # "live"
<1>1. /\ procs \in Seq(Fates) /\ procs # <<>> /\ Len(procs) \in Nat
      /\ \A g \in DOMAIN procs : procs[g] = "live" => g = Len(procs)
  BY LspFacts DEF LiveInv
<1>2. /\ Lsp!Front(procs) \in Seq(Fates) /\ Len(Lsp!Front(procs)) = Len(procs) - 1
      /\ \A g \in 1 .. Len(procs) - 1 : Lsp!Front(procs)[g] = procs[g]
  <2>1. Lsp!Front(procs) = SubSeq(procs, 1, Len(procs) - 1)
    BY DEF Lsp!Front
  <2>2. Len(procs) # 0
    BY <1>1
  <2>3. Len(procs) - 1 \in 0 .. Len(procs) /\ Len(procs) - 1 \in Nat
    BY <1>1, <2>2
  <2>4. ASSUME NEW k \in 0 .. Len(procs)
        PROVE  /\ SubSeq(procs, 1, k) \in Seq(Fates) /\ Len(SubSeq(procs, 1, k)) = k
               /\ \A g \in 1 .. k : SubSeq(procs, 1, k)[g] = procs[g]
    BY <1>1
  <2> QED
    BY <2>1, <2>3, <2>4
<1>3. \A g \in DOMAIN Lsp!Front(procs) : Lsp!Front(procs)[g] # "live"
  BY <1>1, <1>2
<1>4. r \in Fates /\ r # "live"
  BY DEF Fates
<1> DEFINE f == Lsp!Front(procs)
<1> HIDE DEF f
<1>5. f \in Seq(Fates) /\ \A g \in DOMAIN f : f[g] # "live"
  BY <1>2, <1>3 DEF f
<1>6. /\ Append(f, r) \in Seq(Fates) /\ Len(Append(f, r)) = Len(f) + 1
      /\ DOMAIN Append(f, r) = DOMAIN f \cup {Len(f) + 1}
      /\ \A i \in DOMAIN f : Append(f, r)[i] = f[i]
      /\ Append(f, r)[Len(f) + 1] = r /\ Len(f) \in Nat
  BY <1>4, <1>5, LspAppendIs
<1>7. \A g \in DOMAIN Append(f, r) : Append(f, r)[g] # "live"
  BY <1>4, <1>5, <1>6
<1>8. Append(f, r) # <<>>
  BY <1>6
<1> QED
  BY <1>6, <1>7, <1>8 DEF Lsp!Terminated, f

\* The connection is over, and its server gone or given up.
LEMMA ServerEnds ==
    ASSUME Lsp!LspAssumption, LspInv, Connected, NEW r \in {"gone", "lost"},
           procs' = Lsp!Terminated(r),
           conn' = Lsp!NoConn, server' = Lsp!NoServer, lspActor' \in LspActors,
           lspActor'.pc \in {"idle", "start", "leaving"},
           LspQueueInv', lspCaller' \in [Queries -> Caller], lspQueue' \in Seq(Queries),
           lspShutdown' = lspShutdown, lspDue' = lspDue, trouble' \in Nat, trouble' <= LspMaxTrouble
    PROVE  LspInv'
<1>1. /\ LspTypeInv /\ procs' \in Seq(Fates)
      /\ \A g \in DOMAIN procs' : procs'[g] # "live"
  BY LspFacts, TerminatedIs
<1>2. /\ conn' \in Conns /\ server' \in Servers /\ conn'.up = FALSE
      /\ conn'.inbox = <<>> /\ server'.out = <<>> /\ server'.inn = <<>>
  BY DEF Lsp!NoConn, Lsp!NoServer, Conns, Servers
<1>3. LspTypeInv'
  BY <1>1, <1>2 DEF LspTypeInv
<1>4. LiveInv'
  BY <1>1, <1>2 DEF LiveInv, Connected, Served, Young
<1>5. LspIdInv'
  <2>1. Lsp!ToSet(<<>>) = {}
    BY DEF Lsp!ToSet
  <2> QED
    BY <1>2, <2>1 DEF LspIdInv, LspInbound
<1> QED
  BY <1>3, <1>4, <1>5 DEF LspInv

\* The connection is kept, and so is what is known of the requests.
LEMMA ServerStays ==
    ASSUME Lsp!LspAssumption, LspInv, procs' = procs, conn' \in Conns, conn'.up = conn.up,
           conn'.next = conn.next,
           server' \in Servers, server'.said = server.said,
           Lsp!ToSet(conn'.inbox) \cup Lsp!ToSet(server'.out) \subseteq LspInbound,
           \A m \in Lsp!ToSet(server'.inn) : m \in Lsp!ToSet(server.inn) \/ m.kind = "cancel",
           lspActor' \in LspActors, lspCaller' \in [Queries -> Caller], lspQueue' \in Seq(Queries),
                 LspQueueInv',
           lspActor'.pc \in Served => conn.up, lspActor'.pc \in Off => ~conn.up
                 /\ lspActor.pc \notin Young,
           lspActor'.pc \in Young <=> lspActor.pc \in Young,
           lspActor'.pc \in {"ask", "close"} =>
                /\ lspActor.pc \in {"ask", "close"} /\ lspActor'.id = lspActor.id
                /\ lspActor'.query = lspActor.query
                /\ lspCaller'[lspActor.query].asked = lspCaller[lspActor.query].asked,
           lspActor'.pc = "close" => lspActor.id \in server.said,
           lspShutdown' = lspShutdown, lspDue' = lspDue, trouble' \in Nat, trouble' <= LspMaxTrouble
    PROVE  LspInv'
<1>1. LspTypeInv /\ LiveInv /\ LspIdInv /\ conn \in Conns
  BY LspFacts
<1>2. LspTypeInv'
  BY <1>1 DEF LspTypeInv
<1>3. LiveInv'
  BY <1>1 DEF LiveInv, Connected
<1>4. LspIdInv'
  <2>1. lspActor'.pc \in {"ask", "close"} =>
          lspCaller'[lspActor'.query].asked = <<Len(procs'), lspActor'.id>> /\ lspActor'.id > 1
    BY <1>1 DEF LspIdInv, Lsp!Gen
  <2>2. \A m \in LspInbound' : m.kind \in Responses => m.id \in {0, 1} \cup server'.said
    BY <1>1 DEF LspIdInv, LspInbound
  <2>3. \A m \in Lsp!ToSet(server'.inn) :
          m.kind \in Requested /\ (m.kind = "initialize" => m.id = 1)
    BY <1>1 DEF LspIdInv, Requested
  <2> QED
    BY <1>1, <2>1, <2>2, <2>3 DEF LspIdInv, Lsp!Gen
<1> QED
  BY <1>2, <1>3, <1>4 DEF LspInv

LEMMA TroubleIs ==
    ASSUME Lsp!LspAssumption, LspInv, Lsp!Trouble \/ Lsp!Calm
    PROVE  trouble' \in Nat /\ trouble' <= LspMaxTrouble
BY DEF Lsp!LspAssumption, LspInv, LspTypeInv, Lsp!Trouble, Lsp!Calm

LEMMA SameServer ==
    ASSUME Lsp!LspAssumption, LspInv, UNCHANGED <<conn, server>>
    PROVE  /\ conn' \in Conns /\ conn'.up = conn.up /\ conn'.next = conn.next
           /\ server' \in Servers /\ server'.said = server.said
           /\ Lsp!ToSet(conn'.inbox) \cup Lsp!ToSet(server'.out) \subseteq LspInbound
           /\ \A m \in Lsp!ToSet(server'.inn) : m \in Lsp!ToSet(server.inn) \/ m.kind = "cancel"
BY LspFacts DEF LspInbound

\* What the server said and got in a step that keeps the connection.
Kept ==
    /\ procs' = procs /\ conn' \in Conns /\ conn'.up = conn.up /\ conn'.next = conn.next
    /\ server' \in Servers /\ server'.said = server.said
    /\ Lsp!ToSet(conn'.inbox) \cup Lsp!ToSet(server'.out) \subseteq LspInbound
    /\ \A m \in Lsp!ToSet(server'.inn) : m \in Lsp!ToSet(server.inn) \/ m.kind = "cancel"
    /\ lspShutdown' = lspShutdown /\ lspDue' = lspDue

LEMMA Fails ==
    ASSUME Lsp!LspAssumption, LspInv, lspActor.pc \in {"init", "initialized", "open", "ask"},
           NEW f \in Failures,
           NEW st \in LspStops, Lsp!Fail(f, st), lspQueue' = lspQueue, Kept, Lsp!Trouble \/ Lsp!Calm
    PROVE  LspInv'
<1>1. /\ lspActor \in LspActors /\ LiveInv /\ lspCaller \in [Queries -> Caller]
           /\ lspQueue \in Seq(Queries)
  BY LspFacts
<1>2. /\ lspActor' \in LspActors /\ lspActor'.query = lspActor.query /\ lspCaller' = lspCaller
      /\ lspActor'.pc = (IF lspActor.pc \in {"init", "initialized"} THEN "abort" ELSE "drop")
  BY <1>1 DEF Lsp!Fail, LspActors, Pcs, Busy
<1>3. lspActor'.pc \in Busy /\ lspActor.pc \in Busy
  BY <1>2 DEF Busy
<1>4. LspQueueInv'
  BY <1>2, <1>3, QueueKept
<1>5. /\ lspActor'.pc \in Served => conn.up
      /\ lspActor'.pc \notin Off /\ lspActor'.pc \notin {"ask", "close"}
      /\ lspActor'.pc \in Young <=> lspActor.pc \in Young
  BY <1>1, <1>2 DEF Served, Off, Young, LiveInv
<1>6. trouble' \in Nat /\ trouble' <= LspMaxTrouble
  BY TroubleIs
<1> QED
  BY <1>1, <1>2, <1>4, <1>5, <1>6, ServerStays DEF Kept

\* The query is answered, and the connection is kept, or there is none.
LEMMA Replies ==
    ASSUME Lsp!LspAssumption, LspInv, lspActor.pc \in Busy \ Young, NEW kind \in LspKinds,
           NEW how \in LspStops,
           Lsp!Reply(kind, how), lspQueue' = lspQueue, Kept, Lsp!Trouble \/ Lsp!Calm
    PROVE  LspInv'
<1>1. /\ lspCaller' \in [Queries -> Caller] /\ LspQueueInv' /\ lspActor' \in LspActors
           /\ lspActor'.pc = "idle"
      /\ lspQueue \in Seq(Queries)
  BY LspFacts, Replied
<1>2. trouble' \in Nat /\ trouble' <= LspMaxTrouble
  BY TroubleIs
<1>3. lspActor'.pc \notin Served \cup Off \cup Young \cup {"ask", "close"}
  BY <1>1 DEF Served, Off, Young
<1> QED
  BY <1>1, <1>2, <1>3, ServerStays DEF Kept

\* The server is given up in the middle of a query.
LEMMA Loses ==
    ASSUME Lsp!LspAssumption, LspInv, lspActor.pc \in Busy, Connected, Lsp!Lose,
           lspQueue' = lspQueue, UNCHANGED Lsp!Stays
    PROVE  LspInv'
<1>1. "process" \in LspKinds /\ "none" \in LspStops
  BY DEF LspKinds, LspStops
<1>2. /\ lspCaller' \in [Queries -> Caller] /\ LspQueueInv' /\ lspActor' \in LspActors
           /\ lspActor'.pc = "idle"
      /\ lspQueue \in Seq(Queries)
  BY <1>1, LspFacts, Replied DEF Lsp!Lose
<1>3. trouble' \in Nat /\ trouble' <= LspMaxTrouble
  BY TroubleIs DEF Lsp!Lose
<1> QED
  BY <1>2, <1>3, ServerEnds DEF Lsp!Lose, Lsp!Stays

LEMMA WriteFailures ==
    ASSUME Lsp!LspAssumption, LspInv, lspActor.pc \in {"initialized", "open"}, Lsp!WriteFails,
           UNCHANGED <<lspQueue, conn, server, procs, Lsp!Stays>>
    PROVE  LspInv'
<1>1. Kept
  BY SameServer DEF Kept, Lsp!Stays
<1>2. /\ Lsp!Stop \in LspStops /\ "none" \in LspStops /\ {"stopped", "transport"} \subseteq Failures
  BY LspStopIs DEF Lsp!Stop, LspStops, Failures
<1>3. \E f \in Failures, st \in LspStops : Lsp!Fail(f, st) /\ (Lsp!Trouble \/ Lsp!Calm)
  BY <1>2 DEF Lsp!WriteFails
<1> QED
  BY <1>1, <1>3, Fails

\* Everything that the server has written is read, or the reading fails.
LEMMA Pumps ==
    ASSUME Lsp!LspAssumption, LspInv, lspActor.pc \in {"init", "ask"}, Lsp!Pump,
           UNCHANGED <<lspQueue, Lsp!Stays>>
    PROVE  LspInv'
<1>1. /\ lspActor \in LspActors /\ conn \in Conns /\ server \in Servers /\ LiveInv
           /\ lspActor.pc \in Busy
      /\ lspCaller \in [Queries -> Caller] /\ lspQueue \in Seq(Queries) /\ Connected
  BY LspFacts DEF LiveInv, Connected, Young, Served, Busy
<1>2. ASSUME NEW f \in {"transport", "protocol", "lost"}, Lsp!Fail(f, "none"),
      Lsp!Trouble \/ Lsp!Calm,
             UNCHANGED <<conn, server, procs>>
      PROVE  LspInv'
  <2>1. Kept
    BY <1>2, SameServer DEF Kept, Lsp!Stays
  <2>2. f \in Failures /\ "none" \in LspStops
    BY <1>2 DEF Failures, LspStops
  <2> QED
    BY <1>2, <2>1, <2>2, Fails
<1>3. CASE /\ conn' = [conn EXCEPT !.inbox = @ \o server.out]
           /\ server' = [server EXCEPT !.out = <<>>]
           /\ Lsp!Calm /\ UNCHANGED <<lspActor, lspCaller, procs>>
  <2>1. /\ conn.inbox \in Seq(Messages) /\ server.out \in Seq(Messages)
    BY <1>1 DEF Conns, Servers
  <2>2. /\ conn.inbox \o server.out \in Seq(Messages)
        /\ Lsp!ToSet(conn.inbox \o server.out) = Lsp!ToSet(conn.inbox) \cup Lsp!ToSet(server.out)
    BY <2>1, JoinIs
  <2>3. /\ conn' \in Conns /\ conn'.up = conn.up /\ conn'.next = conn.next
        /\ conn'.inbox = conn.inbox \o server.out
    BY <1>1, <1>3, <2>2 DEF Conns
  <2>4. server' \in Servers /\ server'.said = server.said /\ server'.out = <<>>
        /\ server'.inn = server.inn
    <3>1. server' = [server EXCEPT !.out = <<>>] /\ <<>> \in Seq(Messages)
      BY <1>3
    <3> QED
      BY <1>1, <3>1 DEF Servers
  <2>5. Lsp!ToSet(<<>>) = {}
    BY DEF Lsp!ToSet
  <2>6. Lsp!ToSet(conn'.inbox) \cup Lsp!ToSet(server'.out) \subseteq LspInbound
    BY <2>2, <2>3, <2>4, <2>5 DEF LspInbound
  <2>7. LspQueueInv'
    BY <1>3, QueueKept
  <2>8. trouble' \in Nat /\ trouble' <= LspMaxTrouble
    BY <1>3, TroubleIs
  <2>9. lspActor'.pc \in Served => conn.up
    BY <1>1, <1>3 DEF LiveInv
  <2>10. lspActor'.pc \notin Off /\ lspActor'.pc # "close"
    BY <1>3 DEF Off
  <2> QED
    BY <1>1, <1>3, <2>3, <2>4, <2>6, <2>7, <2>8, <2>9, <2>10, ServerStays DEF Lsp!Stays
<1>4. CASE Lsp!Lose
  BY <1>1, <1>4, Loses
<1> QED
  BY <1>2, <1>3, <1>4 DEF Lsp!Pump

LEMMA LspWaitTurns ==
    ASSUME Lsp!LspAssumption, LspInv, Lsp!WaitTurn
    PROVE  LspInv'
<1>1. /\ lspActor \in LspActors /\ conn \in Conns /\ server \in Servers /\ LiveInv
           /\ lspActor.pc \in Busy
      /\ lspCaller \in [Queries -> Caller] /\ lspQueue \in Seq(Queries) /\ lspActor.pc \in {"init",
           "ask"}
      /\ UNCHANGED <<lspQueue, Lsp!Stays>> /\ LspIdInv
  <2>1. lspActor.pc \in {"init", "ask"} /\ UNCHANGED <<lspQueue, Lsp!Stays>>
    BY DEF Lsp!WaitTurn, Lsp!Waiting
  <2> QED
    BY <2>1, LspFacts DEF Busy
<1>2. /\ {"stopped", "transport", "protocol", "server"} \subseteq Failures
      /\ {"none", "timeout"} \subseteq LspStops /\ Lsp!Stop \in LspStops
  BY LspStopIs DEF Failures, LspStops, Lsp!Stop
<1>3. CASE Lsp!AnswerRequestFails
  <2>1. Kept
    BY <1>1, <1>3, SameServer DEF Lsp!AnswerRequestFails, Kept, Lsp!Stays
  <2>2. \E f \in Failures, st \in LspStops : Lsp!Fail(f, st)
    BY <1>2, <1>3 DEF Lsp!AnswerRequestFails
  <2> QED
    BY <1>1, <1>3, <2>1, <2>2, Fails DEF Lsp!AnswerRequestFails
<1>4. CASE /\ Lsp!Answers # {}
           /\ conn' = [conn EXCEPT !.inbox = SubSeq(@, Lsp!Min(Lsp!Answers) + 1, Len(@))]
           /\ Lsp!Received(conn.inbox[Lsp!Min(Lsp!Answers)])
           /\ Lsp!Calm /\ UNCHANGED <<server, procs>>
  <2> DEFINE k == Lsp!Min(Lsp!Answers)
             m == conn.inbox[k]
  <2>1. conn.inbox \in Seq(Messages) /\ k \in DOMAIN conn.inbox /\ Lsp!Mine(m)
    <3>1. conn.inbox \in Seq(Messages)
      BY <1>1 DEF Conns
    <3>2. Lsp!Answers \subseteq Nat
      BY <3>1 DEF Lsp!Answers
    <3>3. k \in Lsp!Answers
      BY <1>4, <3>2, MinIs
    <3> QED
      BY <3>1, <3>3 DEF Lsp!Answers
  <2> HIDE DEF k
  <2>2. /\ SubSeq(conn.inbox, k + 1, Len(conn.inbox)) \in Seq(Messages)
        /\ Lsp!ToSet(SubSeq(conn.inbox, k + 1, Len(conn.inbox))) \subseteq Lsp!ToSet(conn.inbox)
        /\ m \in Lsp!ToSet(conn.inbox)
    <3>1. m \in Lsp!ToSet(conn.inbox)
      BY <2>1 DEF Lsp!ToSet
    <3> QED
      BY <2>1, <3>1, SuffixIs
  <2> HIDE DEF m
  <2>3. conn' = [conn EXCEPT !.inbox = SubSeq(conn.inbox, k + 1, Len(conn.inbox))]
    BY <1>1, <1>4 DEF Conns, k
  <2>4. /\ conn' \in Conns /\ conn'.up = conn.up /\ conn'.next = conn.next
        /\ Lsp!ToSet(conn'.inbox) \subseteq Lsp!ToSet(conn.inbox)
    BY <1>1, <2>2, <2>3 DEF Conns
  <2>5. Kept
    <3>1. server' = server /\ procs' = procs
      BY <1>4
    <3> QED
      BY <1>1, <2>4, <3>1 DEF Kept, Lsp!Stays, LspInbound
  <2>6. CASE \E f \in {"server", "protocol"} : Lsp!Fail(f, "none")
    BY <1>1, <1>2, <1>4, <2>5, <2>6, Fails
  <2>7. CASE /\ lspActor.pc = "init" /\ lspActor' = [lspActor EXCEPT !.pc = "initialized"]
             /\ UNCHANGED lspCaller
    <3>1. lspActor' \in LspActors /\ lspActor'.pc = "initialized"
          /\ lspActor'.query = lspActor.query
      BY <1>1, <2>7 DEF LspActors, Pcs, Busy
    <3>2. LspQueueInv'
      BY <1>1, <2>7, <3>1, QueueKept DEF Busy
    <3>3. trouble' \in Nat /\ trouble' <= LspMaxTrouble
      BY <1>4, TroubleIs
    <3>4. /\ lspActor'.pc \notin Served \cup Off /\ lspActor'.pc \in Young /\ lspActor.pc \in Young
          /\ lspActor'.pc \notin {"ask", "close"}
      BY <2>7, <3>1 DEF Served, Off, Young
    <3> QED
      BY <1>1, <2>5, <2>7, <3>1, <3>2, <3>3, <3>4, ServerStays DEF Kept
  <2>8. CASE /\ lspActor.pc = "ask"
             /\ \E f \in {lspActor.failure, "protocol", "malformed"} :
                   lspActor' = [lspActor EXCEPT !.pc = "close", !.failure = f]
             /\ UNCHANGED lspCaller
    <3>1. /\ lspActor' \in LspActors /\ lspActor'.pc = "close" /\ lspActor'.query = lspActor.query
          /\ lspActor'.id = lspActor.id
      BY <1>1, <2>8 DEF LspActors, Pcs, Busy, Failures
    <3>2. LspQueueInv'
      BY <1>1, <2>8, <3>1, QueueKept DEF Busy
    <3>3. trouble' \in Nat /\ trouble' <= LspMaxTrouble
      BY <1>4, TroubleIs
    <3>4. /\ lspActor'.pc \notin Off \cup Young /\ lspActor.pc \notin Young /\ conn.up
      BY <1>1, <2>8, <3>1 DEF Served, Off, Young, LiveInv
    <3>5. lspActor.id \in server.said
      <4>1. m.kind \in Responses /\ m.id = lspActor.id /\ m \in LspInbound
        BY <2>1, <2>2 DEF Lsp!Mine, Responses, LspInbound
      <4>2. lspActor.id > 1 /\ lspActor.id \in Nat
        BY <1>1, <2>8 DEF LspIdInv, LspActors
      <4> QED
        BY <1>1, <4>1, <4>2 DEF LspIdInv
    <3> QED
      BY <1>1, <2>5, <2>8, <3>1, <3>2, <3>3, <3>4, <3>5, ServerStays DEF Kept
  <2>9. Lsp!Received(m)
    BY <1>4 DEF m, k
  <2>10. CASE m.kind = "error"
    <3>1. CASE lspActor.pc = "init"
      <4>1. Lsp!Fail("server", "none")
        BY <2>9, <2>10, <3>1 DEF Lsp!Received
      <4> QED
        BY <2>6, <4>1
    <3>2. CASE lspActor.pc = "ask"
      <4>1. /\ lspActor' = [lspActor EXCEPT !.pc = "close", !.failure = "protocol"]
            /\ UNCHANGED lspCaller
        BY <2>9, <2>10, <3>2 DEF Lsp!Received
      <4> QED
        BY <2>8, <3>2, <4>1
    <3> QED
      BY <1>1, <3>1, <3>2
  <2>11. CASE m.kind # "error" /\ lspActor.pc = "init"
    BY <2>7, <2>9, <2>11 DEF Lsp!Received
  <2>12. CASE m.kind # "error" /\ lspActor.pc = "ask"
    <3>1. CASE m.kind = "ok"
      <4>1. lspActor' = [lspActor EXCEPT !.pc = "close"] /\ UNCHANGED lspCaller
        BY <2>9, <2>12, <3>1 DEF Lsp!Received
      <4>2. lspActor' = [lspActor EXCEPT !.pc = "close", !.failure = lspActor.failure]
        BY <1>1, <4>1 DEF LspActors
      <4> QED
        BY <2>8, <2>12, <4>1, <4>2
    <3>2. CASE m.kind # "ok"
      <4>1. \/ Lsp!Fail("protocol", "none")
            \/ /\ lspActor' = [lspActor EXCEPT !.pc = "close", !.failure = "malformed"]
               /\ UNCHANGED lspCaller
        BY <2>9, <2>12, <3>2 DEF Lsp!Received
      <4> QED
        BY <2>6, <2>8, <2>12, <4>1
    <3> QED
      BY <3>1, <3>2
  <2> QED
    BY <1>1, <2>10, <2>11, <2>12
<1>5. CASE /\ conn' = [conn EXCEPT !.inbox = <<>>]
           /\ \/ Lsp!Written(Lsp!Message("cancel", lspActor.id))
              \/ UNCHANGED server
           /\ \/ Lsp!Fail("stopped", Lsp!Stop) /\ Lsp!Calm
              \/ ~server.alive /\ Lsp!Fail("transport", "none") /\ Lsp!Calm
              \/ Lsp!Trouble /\ \E f \in {"transport", "protocol"} : Lsp!Fail(f, "none")
           /\ UNCHANGED procs
  <2>1. /\ conn' \in Conns /\ conn'.up = conn.up /\ conn'.next = conn.next /\ conn'.inbox = <<>>
    <3>1. conn' = [conn EXCEPT !.inbox = <<>>] /\ <<>> \in Seq(Messages)
      BY <1>5
    <3> QED
      BY <1>1, <3>1 DEF Conns
  <2>2. /\ Lsp!Message("cancel", lspActor.id) \in Messages
        /\ Lsp!Message("cancel", lspActor.id).kind = "cancel"
    BY <1>1 DEF Lsp!Message, Messages, Requested, LspActors
  <2>3. /\ server.inn \in Seq(Messages)
    BY <1>1 DEF Servers
  <2>4. /\ Append(server.inn, Lsp!Message("cancel", lspActor.id)) \in Seq(Messages)
        /\ Lsp!ToSet(Append(server.inn, Lsp!Message("cancel", lspActor.id)))
             = Lsp!ToSet(server.inn) \cup {Lsp!Message("cancel", lspActor.id)}
    BY <2>2, <2>3, LspAppendIs
  <2> DEFINE more == Append(server.inn, Lsp!Message("cancel", lspActor.id))
  <2>5. server' = [server EXCEPT !.inn = server'.inn] /\ server'.inn \in {server.inn, more}
    BY <1>1, <1>5 DEF Lsp!Written, Servers
  <2> HIDE DEF more
  <2>6. server' \in Servers /\ server'.said = server.said /\ server'.out = server.out
    BY <1>1, <2>3, <2>4, <2>5 DEF Servers, more
  <2>7. \A m \in Lsp!ToSet(server'.inn) : m \in Lsp!ToSet(server.inn) \/ m.kind = "cancel"
    BY <2>2, <2>4, <2>5 DEF more
  <2>8. Lsp!ToSet(<<>>) = {}
    BY DEF Lsp!ToSet
  <2>9. Kept
    BY <1>1, <1>5, <2>1, <2>6, <2>7, <2>8 DEF Kept, Lsp!Stays, LspInbound
  <2>10. \E f \in Failures, st \in LspStops : Lsp!Fail(f, st) /\ (Lsp!Trouble \/ Lsp!Calm)
    BY <1>2, <1>5
  <2> QED
    BY <1>1, <2>9, <2>10, Fails
<1>6. CASE Lsp!Pump
  BY <1>1, <1>6, Pumps
<1> QED
  BY <1>3, <1>4, <1>5, <1>6 DEF Lsp!WaitTurn

-----------------------------------------------------------------------------
(* A query is taken, a server started, and the query asked.                *)

LEMMA HeadIs ==
    ASSUME Lsp!LspAssumption, LspInv, lspQueue # <<>>
    PROVE  /\ Head(lspQueue) \in Queries /\ Tail(lspQueue) \in Seq(Queries)
           /\ Lsp!ToSet(lspQueue) = {Head(lspQueue)} \cup Lsp!ToSet(Tail(lspQueue))
           /\ Head(lspQueue) \notin Lsp!ToSet(Tail(lspQueue))
           /\ \A i, j \in DOMAIN Tail(lspQueue) : Tail(lspQueue)[i] = Tail(lspQueue)[j] => i = j
           /\ Len(Tail(lspQueue)) <= LspCapacity
<1> DEFINE t == Tail(lspQueue)
<1>1. /\ lspQueue \in Seq(Queries) /\ Len(lspQueue) <= LspCapacity /\ LspCapacity \in Nat
      /\ \A i, j \in DOMAIN lspQueue : lspQueue[i] = lspQueue[j] => i = j
  BY LspFacts DEF Lsp!LspAssumption, LspQueueInv
<1>2. /\ Head(lspQueue) \in Queries /\ t \in Seq(Queries) /\ Len(t) = Len(lspQueue) - 1
      /\ Len(lspQueue) \in Nat /\ 1 \in DOMAIN lspQueue /\ Head(lspQueue) = lspQueue[1]
      /\ \A i \in DOMAIN t : i + 1 \in DOMAIN lspQueue /\ t[i] = lspQueue[i + 1]
      /\ Lsp!ToSet(lspQueue) = {Head(lspQueue)} \cup Lsp!ToSet(t)
      /\ DOMAIN t \subseteq Nat \ {0}
  <2>1. DOMAIN t = 1 .. Len(t) /\ Len(t) \in Nat
    BY <1>1, LspTailIs
  <2> QED
    BY <1>1, <2>1, LspTailIs
<1> HIDE DEF t
<1>3. \A i, j \in DOMAIN t : t[i] = t[j] => i = j
  <2>1. ASSUME NEW i \in DOMAIN t, NEW j \in DOMAIN t, t[i] = t[j]  PROVE i = j
    <3>1. i + 1 = j + 1
      BY <1>1, <1>2, <2>1
    <3> QED
      BY <1>2, <2>1, <3>1
  <2> QED
    BY <2>1
<1>4. Head(lspQueue) \notin Lsp!ToSet(t)
  <2>1. ASSUME NEW i \in DOMAIN t, t[i] = Head(lspQueue)  PROVE FALSE
    <3>1. i + 1 = 1
      BY <1>1, <1>2, <2>1
    <3> QED
      BY <1>2, <2>1, <3>1
  <2> QED
    BY <2>1 DEF Lsp!ToSet
<1>5. Len(t) <= LspCapacity
  BY <1>1, <1>2
<1> QED
  BY <1>2, <1>3, <1>4, <1>5 DEF t

LEMMA Takes ==
    ASSUME Lsp!LspAssumption, LspInv, Lsp!TopTake
    PROVE  LspInv'
<1>1. /\ LspQueueInv /\ LiveInv /\ lspActor \in LspActors /\ lspCaller \in [Queries -> Caller]
      /\ lspActor.pc = "idle" /\ lspActor.pc \notin Busy /\ lspActor.query = NoQuery
           /\ NoQuery \notin Queries
      /\ lspQueue # <<>> /\ lspQueue' = Tail(lspQueue) /\ UNCHANGED <<conn, server, procs, trouble,
           Lsp!Stays>>
  <2>1. lspActor.pc = "idle" /\ lspActor.pc \notin Busy
    BY DEF Lsp!TopTake, Busy
  <2> QED
    BY <2>1, LspFacts DEF Lsp!TopTake
<1> DEFINE h == Head(lspQueue)
<1>2. /\ h \in Queries /\ lspQueue' \in Seq(Queries) /\ Len(lspQueue') <= LspCapacity
      /\ Lsp!ToSet(lspQueue) = {h} \cup Lsp!ToSet(lspQueue') /\ h \notin Lsp!ToSet(lspQueue')
      /\ \A i, j \in DOMAIN lspQueue' : lspQueue'[i] = lspQueue'[j] => i = j
  BY <1>1, HeadIs
<1>3. \A q \in Queries : lspCaller[q].pc = "waiting" <=> q \in Lsp!ToSet(lspQueue)
  BY <1>1 DEF LspQueueInv
<1>4. Kept /\ trouble' \in Nat /\ trouble' <= LspMaxTrouble
  BY <1>1, SameServer, LspFacts DEF Kept, Lsp!Stays, LspTypeInv
<1> HIDE DEF h
<1>5. CASE Lsp!StopOf(h) # "none" /\ lspCaller' = Lsp!Told(lspCaller, h, "stopped", Lsp!StopOf(h))
      /\ lspActor' = lspActor
  <2>1. "stopped" \in LspKinds /\ Lsp!StopOf(h) \in LspStops
    BY LspStopIs DEF LspKinds, Failures
  <2>2. /\ lspCaller' \in [Queries -> Caller] /\ lspCaller'[h].pc = "answered"
        /\ \A p \in Queries : p # h => lspCaller'[p] = lspCaller[p]
    BY <1>1, <1>2, <1>5, <2>1, LspToldIs
  <2>3. LspQueueInv'
    <3>1. \A q \in Queries : lspCaller'[q].pc = "waiting" <=> q \in Lsp!ToSet(lspQueue')
          \cup {lspActor'.query}
      BY <1>1, <1>2, <1>3, <1>5, <2>2
    <3>2. lspActor'.query \notin Lsp!ToSet(lspQueue')
      BY <1>1, <1>2, <1>5 DEF LspQueueInv
    <3> QED
      BY <1>1, <1>2, <1>5, <3>1, <3>2 DEF LspQueueInv
  <2>4. /\ lspActor'.pc \notin Served \cup Off \cup Young \cup {"ask", "close"}
             /\ lspActor.pc \notin Young
        /\ lspActor' \in LspActors
    BY <1>1, <1>5 DEF Served, Off, Young
  <2> QED
    BY <1>2, <1>4, <2>2, <2>3, <2>4, ServerStays DEF Kept
<1>6. CASE /\ lspCaller' = lspCaller
           /\ lspActor' = [Lsp!Idle EXCEPT !.pc = IF conn.up THEN "open" ELSE "start", !.query = h]
  <2>1. /\ lspActor' \in LspActors /\ lspActor'.pc = (IF conn.up THEN "open" ELSE "start")
        /\ lspActor'.query = h
    BY <1>2, <1>6 DEF Lsp!Idle, LspActors, Pcs, Busy, Failures, LspStops
  <2>2. LspQueueInv'
    <3>1. \A q \in Queries : lspCaller'[q].pc = "waiting" <=> q \in Lsp!ToSet(lspQueue')
          \cup {lspActor'.query}
      BY <1>2, <1>3, <1>6, <2>1
    <3>2. \A q \in Queries : lspActor'.pc \in Busy /\ lspActor'.query # NoQuery
      BY <1>1, <1>2, <2>1 DEF Busy
    <3> QED
      BY <1>1, <1>2, <2>1, <3>1, <3>2 DEF LspQueueInv
  <2>3. /\ lspActor'.pc \in Served => conn.up
        /\ lspActor'.pc \in Off => ~conn.up
        /\ lspActor'.pc \notin Young /\ lspActor.pc \notin Young /\ lspActor'.pc \notin {"ask",
             "close"}
    BY <1>1, <2>1 DEF Served, Off, Young
  <2> QED
    BY <1>1, <1>2, <1>4, <1>6, <2>1, <2>2, <2>3, ServerStays DEF Kept
<1> QED
  BY <1>5, <1>6 DEF Lsp!TopTake, h

LEMMA LspStarts ==
    ASSUME Lsp!LspAssumption, LspInv, Lsp!Start
    PROVE  LspInv'
<1>1. /\ LspTypeInv /\ LspQueueInv /\ LiveInv /\ LspIdInv /\ lspActor \in LspActors
      /\ lspActor.pc = "start" /\ lspActor.pc \in Busy \ Young /\ ~conn.up /\ ~Connected
      /\ UNCHANGED <<lspQueue, Lsp!Stays>> /\ procs \in Seq(Fates) /\ lspQueue \in Seq(Queries)
      /\ lspCaller \in [Queries -> Caller] /\ trouble \in Nat
  <2>1. lspActor.pc = "start" /\ lspActor.pc \in Busy \ Young /\ UNCHANGED <<lspQueue, Lsp!Stays>>
        /\ lspActor.pc \in Off
    BY DEF Lsp!Start, Busy, Young, Off
  <2> QED
    BY <2>1, LspFacts DEF LiveInv, Connected, LspTypeInv
<1>2. /\ Lsp!Stop \in LspStops /\ "none" \in LspStops /\ {"stopped", "process"} \subseteq LspKinds
  BY LspStopIs DEF Lsp!Stop, LspStops, LspKinds, Failures
<1>3. ASSUME UNCHANGED <<conn, server, procs>>, Lsp!Trouble \/ Lsp!Calm,
             \E kind \in LspKinds, how \in LspStops : Lsp!Reply(kind, how)
      PROVE  LspInv'
  BY <1>1, <1>3, SameServer, Replies DEF Kept, Lsp!Stays
<1>4. ASSUME UNCHANGED <<conn, server, procs>>, Lsp!Trouble, Lsp!Again
      PROVE  LspInv'
  <2>1. /\ lspActor' \in LspActors /\ lspActor'.pc = "start" /\ lspActor'.query = lspActor.query
             /\ lspCaller' = lspCaller
    BY <1>1, <1>4 DEF Lsp!Again, LspActors, Failures, Pcs, Busy
  <2>2. LspQueueInv'
    BY <1>1, <2>1, QueueKept
  <2>3. trouble' \in Nat /\ trouble' <= LspMaxTrouble
    BY <1>4, TroubleIs
  <2>4. Kept
    BY <1>1, <1>4, SameServer DEF Kept, Lsp!Stays
  <2>5. lspActor'.pc \notin Served \cup Young \cup {"ask", "close"} /\ lspActor.pc \notin Young
    BY <1>1, <2>1 DEF Served, Young
  <2> QED
    BY <1>1, <2>1, <2>2, <2>3, <2>4, <2>5, ServerStays DEF Kept
<1>5. ASSUME Lsp!Trouble, procs' = Append(procs, "lost"), Lsp!Reply("process", "none"),
             UNCHANGED <<conn, server>>
      PROVE  LspInv'
  <2>1. /\ lspCaller' \in [Queries -> Caller] /\ LspQueueInv' /\ lspActor' \in LspActors
             /\ lspActor'.pc = "idle"
    BY <1>1, <1>2, <1>5, Replied
  <2>2. /\ procs' \in Seq(Fates) /\ DOMAIN procs' = DOMAIN procs \cup {Len(procs) + 1}
        /\ \A i \in DOMAIN procs : procs'[i] = procs[i]
        /\ procs'[Len(procs) + 1] = "lost"
    BY <1>1, <1>5, LspAppendIs DEF Fates
  <2>3. \A g \in DOMAIN procs' : procs'[g] # "live"
    BY <1>1, <2>2 DEF LiveInv
  <2>4. trouble' \in Nat /\ trouble' <= LspMaxTrouble
    BY <1>5, TroubleIs
  <2>5. LspTypeInv'
    BY <1>1, <1>5, <2>1, <2>2, <2>4 DEF LspTypeInv, Lsp!Stays
  <2>6. LiveInv'
    BY <1>1, <1>5, <2>1, <2>3 DEF LiveInv, Connected, Served, Young
  <2>7. LspIdInv'
    BY <1>1, <1>5, <2>1 DEF LspIdInv, LspInbound
  <2> QED
    BY <2>1, <2>5, <2>6, <2>7 DEF LspInv
<1>6. ASSUME /\ procs' = Append(procs, "live")
             /\ server' = [Lsp!NoServer EXCEPT !.alive = TRUE, !.inn = <<Lsp!Message("initialize",
                  1)>>]
             /\ conn' = [Lsp!NoConn EXCEPT !.next = 2]
             /\ lspActor' = [lspActor EXCEPT !.pc = "init", !.id = 1]
             /\ Lsp!Calm /\ UNCHANGED lspCaller
      PROVE  LspInv'
  <2>1. /\ lspActor' \in LspActors /\ lspActor'.pc = "init" /\ lspActor'.query = lspActor.query
    BY <1>1, <1>6 DEF LspActors, Pcs, Busy
  <2>2. LspQueueInv'
    BY <1>1, <1>6, <2>1, QueueKept DEF Busy
  <2>3. /\ procs' \in Seq(Fates) /\ DOMAIN procs' = DOMAIN procs \cup {Len(procs) + 1}
        /\ Len(procs') = Len(procs) + 1 /\ Len(procs) \in Nat
        /\ \A i \in DOMAIN procs : procs'[i] = procs[i]
        /\ procs'[Len(procs) + 1] = "live"
    BY <1>1, <1>6, LspAppendIs DEF Fates
  <2>4. /\ procs' # <<>> /\ Lsp!Last(procs') = "live"
        /\ \A g \in DOMAIN procs' : procs'[g] = "live" => g = Len(procs')
    <3>1. Lsp!Last(procs') = procs'[Len(procs')]
      BY DEF Lsp!Last
    <3>2. \A g \in DOMAIN procs : procs[g] # "live"
      BY <1>1 DEF LiveInv
    <3> QED
      BY <2>3, <3>1, <3>2
  <2>5. /\ conn' \in Conns /\ conn'.up = FALSE /\ conn'.next = 2 /\ conn'.inbox = <<>>
    <3>1. conn' = [up |-> FALSE, next |-> 2, able |-> TRUE, inbox |-> <<>>]
      BY <1>6 DEF Lsp!NoConn
    <3>2. <<>> \in Seq(Messages)
      OBVIOUS
    <3> QED
      BY <3>1, <3>2 DEF Conns
  <2>6. Lsp!Message("initialize", 1) \in Messages /\ Lsp!Message("initialize", 1).id = 1
        /\ Lsp!Message("initialize", 1).kind = "initialize"
    BY DEF Lsp!Message, Messages, Requested
  <2>7. /\ server' \in Servers /\ server'.out = <<>> /\ server'.inn = <<Lsp!Message("initialize",
             1)>>
    <3>1. /\ server' = [alive |-> TRUE, torn |-> FALSE, inn |-> <<Lsp!Message("initialize", 1)>>,
                        out |-> <<>>, said |-> {}]
      BY <1>6 DEF Lsp!NoServer
    <3>2. <<Lsp!Message("initialize", 1)>> \in Seq(Messages)
      BY <2>6
    <3>3. <<>> \in Seq(Messages)
      OBVIOUS
    <3> QED
      BY <3>1, <3>2, <3>3 DEF Servers
  <2>8. LspTypeInv'
    BY <1>1, <1>6, <2>1, <2>3, <2>5, <2>7 DEF LspTypeInv, Lsp!Stays, Lsp!Calm
  <2>9. LiveInv'
    BY <2>1, <2>4, <2>5 DEF LiveInv, Connected, Served, Young, Off
  <2>10. LspIdInv'
    <3>1. Lsp!ToSet(<<>>) = {} /\ Lsp!ToSet(<<Lsp!Message("initialize",
          1)>>) = {Lsp!Message("initialize", 1)}
      BY DEF Lsp!ToSet
    <3> QED
      BY <2>1, <2>5, <2>6, <2>7, <3>1 DEF LspIdInv, LspInbound, Requested
  <2> QED
    BY <2>2, <2>8, <2>9, <2>10 DEF LspInv
<1> QED
  BY <1>2, <1>3, <1>4, <1>5, <1>6 DEF Lsp!Start

LEMMA Initializes ==
    ASSUME Lsp!LspAssumption, LspInv, Lsp!Initialized
    PROVE  LspInv'
<1>1. /\ LspTypeInv /\ LspQueueInv /\ LiveInv /\ LspIdInv /\ lspActor \in LspActors
           /\ conn \in Conns
      /\ lspActor.pc = "initialized" /\ lspActor.pc \in Busy /\ lspActor.pc \in Young /\ Connected
      /\ UNCHANGED <<lspQueue, procs, Lsp!Stays>> /\ trouble \in Nat
  BY LspFacts DEF Lsp!Initialized, Busy, Young, Connected, LspTypeInv
<1>2. CASE Lsp!WriteFails /\ UNCHANGED <<conn, server>>
  BY <1>1, <1>2, WriteFailures
<1>3. CASE /\ \E able \in BOOLEAN : conn' = [conn EXCEPT !.up = TRUE, !.able = able]
           /\ lspActor' = [lspActor EXCEPT !.pc = "open"]
           /\ Lsp!Calm /\ UNCHANGED <<server, lspCaller>>
  <2>1. /\ lspActor' \in LspActors /\ lspActor'.pc = "open" /\ lspActor'.query = lspActor.query
    BY <1>1, <1>3 DEF LspActors, Pcs, Busy
  <2>2. LspQueueInv'
    BY <1>1, <1>3, <2>1, QueueKept DEF Busy
  <2>3. /\ conn' \in Conns /\ conn'.up = TRUE /\ conn'.next = conn.next /\ conn'.inbox = conn.inbox
    BY <1>1, <1>3 DEF Conns
  <2>4. LspTypeInv'
    BY <1>1, <1>3, <2>1, <2>3 DEF LspTypeInv, Lsp!Stays, Lsp!Calm
  <2>5. LiveInv'
    BY <1>1, <2>1, <2>3 DEF LiveInv, Connected, Served, Young, Off
  <2>6. LspIdInv'
    BY <1>1, <1>3, <2>1, <2>3 DEF LspIdInv, LspInbound
  <2> QED
    BY <2>2, <2>4, <2>5, <2>6 DEF LspInv
<1> QED
  BY <1>2, <1>3 DEF Lsp!Initialized

LEMMA Opens ==
    ASSUME Lsp!LspAssumption, LspInv, Lsp!Open
    PROVE  LspInv'
<1>1. /\ LspTypeInv /\ LspQueueInv /\ LiveInv /\ LspIdInv /\ lspActor \in LspActors
           /\ conn \in Conns
      /\ server \in Servers /\ lspCaller \in [Queries -> Caller] /\ lspActor.query \in Queries
      /\ lspActor.pc = "open" /\ lspActor.pc \in Busy \ Young /\ conn.up
      /\ UNCHANGED <<lspQueue, procs, Lsp!Stays>> /\ trouble \in Nat
      /\ NoQuery \notin Queries
  <2>1. lspActor.pc = "open" /\ lspActor.pc \in Busy \ Young /\ UNCHANGED <<lspQueue, procs,
        Lsp!Stays>>
        /\ lspActor.pc \in Served /\ lspActor.pc \in Busy
    BY DEF Lsp!Open, Busy, Young, Served
  <2> QED
    BY <2>1, LspFacts DEF LiveInv, LspTypeInv
<1>2. CASE Lsp!WriteFails /\ UNCHANGED <<conn, server>>
  BY <1>1, <1>2, WriteFailures
<1>3. CASE Lsp!Reply("unsupported", "none") /\ Lsp!Calm /\ UNCHANGED <<conn, server>>
  <2>1. "unsupported" \in LspKinds /\ "none" \in LspStops
    BY DEF LspKinds, LspStops
  <2> QED
    BY <1>1, <1>3, <2>1, SameServer, Replies DEF Kept, Lsp!Stays
<1>4. CASE /\ Lsp!Written(Lsp!Message("ask", conn.next))
           /\ conn' = [conn EXCEPT !.next = @ + 1]
           /\ lspActor' = [lspActor EXCEPT !.pc = "ask", !.id = conn.next]
           /\ lspCaller' = [lspCaller EXCEPT ![lspActor.query].asked = <<Lsp!Gen, conn.next>>]
           /\ Lsp!Calm
  <2> DEFINE m == Lsp!Message("ask", conn.next)
             more == Append(server.inn, m)
  <2>1. m \in Messages /\ m.kind = "ask"
    BY <1>1 DEF Lsp!Message, Messages, Requested, Conns
  <2>2. /\ server.inn \in Seq(Messages)
    BY <1>1 DEF Servers
  <2>3. more \in Seq(Messages) /\ Lsp!ToSet(more) = Lsp!ToSet(server.inn) \cup {m}
    BY <2>1, <2>2, LspAppendIs
  <2>4. server' = [server EXCEPT !.inn = server'.inn] /\ server'.inn \in {server.inn, more}
    BY <1>1, <1>4 DEF Lsp!Written, Servers
  <2> HIDE DEF m, more
  <2>5. server' \in Servers /\ server'.said = server.said /\ server'.out = server.out
    BY <1>1, <2>2, <2>3, <2>4 DEF Servers
  <2>6. /\ conn' \in Conns /\ conn'.up = TRUE /\ conn'.next > 1 /\ conn'.inbox = conn.inbox
        /\ conn.next > 1 /\ conn.next \in Nat
    <3>1. conn.next > 1 /\ conn.next \in Nat
      BY <1>1 DEF LiveInv, Connected, Conns
    <3> QED
      BY <1>1, <1>4, <3>1 DEF Conns
  <2>7. /\ lspActor' \in LspActors /\ lspActor'.pc = "ask" /\ lspActor'.query = lspActor.query
        /\ lspActor'.id = conn.next
    BY <1>1, <1>4, <2>6 DEF LspActors, Pcs, Busy
  <2>8. Lsp!Gen \in Nat
    BY <1>1 DEF Lsp!Gen, LspTypeInv
  <2>9. /\ lspCaller' \in [Queries -> Caller] /\ lspCaller'[lspActor.query].asked = <<Lsp!Gen,
             conn.next>>
        /\ \A q \in Queries : lspCaller'[q].pc = lspCaller[q].pc
    <3>1. lspCaller[lspActor.query] \in Caller /\ <<Lsp!Gen, conn.next>> \in Nat \X Nat
      BY <1>1, <2>6, <2>8
    <3> DEFINE c == [lspCaller[lspActor.query] EXCEPT !.asked = <<Lsp!Gen, conn.next>>]
    <3>2. c \in Caller /\ c.asked = <<Lsp!Gen, conn.next>> /\ c.pc = lspCaller[lspActor.query].pc
      BY <3>1 DEF Caller
    <3>3. lspCaller' = [lspCaller EXCEPT ![lspActor.query] = c]
      BY <1>4
    <3> HIDE DEF c
    <3> QED
      BY <1>1, <3>2, <3>3
  <2>10. LspQueueInv'
    BY <1>1, <2>7, <2>9, QueueKept DEF Busy
  <2>11. LspTypeInv'
    BY <1>1, <1>4, <2>5, <2>6, <2>7, <2>9 DEF LspTypeInv, Lsp!Stays, Lsp!Calm
  <2>12. LiveInv'
    BY <1>1, <2>6, <2>7 DEF LiveInv, Connected, Young, Off
  <2>13. LspIdInv'
    <3>1. \A x \in Lsp!ToSet(server'.inn) : x.kind \in Requested /\ (x.kind = "initialize"
          => x.id = 1)
      BY <1>1, <2>1, <2>3, <2>4 DEF LspIdInv, Requested
    <3>2. \A x \in LspInbound' : x.kind \in Responses => x.id \in {0, 1} \cup server'.said
      BY <1>1, <2>5, <2>6 DEF LspIdInv, LspInbound
    <3>3. lspCaller'[lspActor'.query].asked = <<Len(procs'), lspActor'.id>> /\ lspActor'.id > 1
      BY <1>1, <2>6, <2>7, <2>9 DEF Lsp!Gen
    <3> QED
      BY <2>7, <3>1, <3>2, <3>3 DEF LspIdInv, Lsp!Gen
  <2> QED
    BY <2>10, <2>11, <2>12, <2>13 DEF LspInv
<1> QED
  BY <1>2, <1>3, <1>4 DEF Lsp!Open

LEMMA Closes ==
    ASSUME Lsp!LspAssumption, LspInv, Lsp!Close
    PROVE  LspInv'
<1>1. /\ lspActor \in LspActors /\ conn \in Conns /\ server \in Servers
      /\ lspActor.pc = "close" /\ lspActor.pc \in Busy \ Young
      /\ UNCHANGED <<lspQueue, conn, procs, Lsp!Stays>> /\ (Lsp!Trouble \/ Lsp!Calm)
      /\ \/ server' = server
         \/ server' = [server EXCEPT !.torn = TRUE]
  <2>1. lspActor.pc = "close" /\ lspActor.pc \in Busy \ Young
    BY DEF Lsp!Close, Busy, Young
  <2> QED
    BY <2>1, LspFacts DEF Lsp!Close
<1>2. /\ server' \in Servers /\ server'.said = server.said /\ server'.out = server.out
      /\ server'.inn = server.inn
  BY <1>1 DEF Servers
<1>3. Kept
  BY <1>1, <1>2 DEF Kept, Lsp!Stays, LspInbound
<1>4. \E kind \in LspKinds, how \in LspStops : Lsp!Reply(kind, how)
  <2>1. lspActor.failure \in LspKinds /\ "success" \in LspKinds /\ "none" \in LspStops
    BY <1>1 DEF LspActors, LspKinds, LspStops
  <2> QED
    BY <2>1 DEF Lsp!Close
<1> QED
  BY <1>1, <1>3, <1>4, Replies

-----------------------------------------------------------------------------
(* The ends of a server and of the thread.                                 *)

LEMMA Terminates ==
    ASSUME Lsp!LspAssumption, LspInv, NEW r \in {"gone", "lost"}, Lsp!Terminate(r)
    PROVE  LspInv'
<1>1. /\ lspActor \in LspActors /\ LiveInv /\ LspQueueInv /\ lspActor.pc \in {"abort", "drop"}
      /\ lspActor.pc \in Busy /\ Connected /\ UNCHANGED <<lspQueue, Lsp!Stays>>
           /\ lspQueue \in Seq(Queries)
      /\ lspCaller \in [Queries -> Caller] /\ (Lsp!Trouble \/ Lsp!Calm)
      /\ procs' = Lsp!Terminated(r) /\ conn' = Lsp!NoConn /\ server' = Lsp!NoServer
  <2>1. lspActor.pc \in {"abort", "drop"} /\ lspActor.pc \in Busy
        /\ (lspActor.pc \in Young \/ lspActor.pc \in Served)
    BY DEF Lsp!Terminate, Busy, Young, Served
  <2> QED
    BY <2>1, LspFacts DEF LiveInv, Connected, Lsp!Terminate
<1>2. trouble' \in Nat /\ trouble' <= LspMaxTrouble
  BY <1>1, TroubleIs
<1>3. CASE \E kind \in LspKinds, how \in LspStops : Lsp!Reply(kind, how)
  <2>1. /\ lspCaller' \in [Queries -> Caller] /\ LspQueueInv' /\ lspActor' \in LspActors
             /\ lspActor'.pc = "idle"
    BY <1>1, <1>3, Replied
  <2> QED
    BY <1>1, <1>2, <2>1, ServerEnds DEF Lsp!Stays
<1>4. CASE Lsp!Again
  <2>1. /\ lspActor' \in LspActors /\ lspActor'.pc = "start" /\ lspActor'.query = lspActor.query
             /\ lspCaller' = lspCaller
    BY <1>1, <1>4 DEF Lsp!Again, LspActors, Failures, Pcs, Busy
  <2>2. LspQueueInv'
    BY <1>1, <2>1, QueueKept DEF Busy
  <2> QED
    BY <1>1, <1>2, <2>1, <2>2, ServerEnds DEF Lsp!Stays
<1>5. lspActor.stop \in LspStops /\ "none" \in LspStops /\ {"stopped", "process"} \subseteq LspKinds
  BY <1>1 DEF LspActors, LspStops, LspKinds, Failures
<1> QED
  BY <1>3, <1>4, <1>5 DEF Lsp!Terminate

LEMMA LspEnds ==
    ASSUME Lsp!LspAssumption, LspInv,
           Lsp!TopPump \/ Lsp!TopShutdown \/ Lsp!Leave \/ \E r \in {"gone",
                 "lost"} : Lsp!Farewell(r)
    PROVE  LspInv'
<1>1. /\ LspTypeInv /\ LspQueueInv /\ LiveInv /\ lspActor \in LspActors /\ conn \in Conns
           /\ server \in Servers
      /\ lspActor.pc \in {"idle", "leaving", "farewell"} /\ lspActor.pc \notin Busy \cup Young
      /\ lspActor.query = NoQuery /\ lspCaller \in [Queries -> Caller] /\ lspQueue \in Seq(Queries)
      /\ trouble \in Nat /\ trouble <= LspMaxTrouble
  <2>1. lspActor.pc \in {"idle", "leaving", "farewell"} /\ lspActor.pc \notin Busy \cup Young
    BY DEF Lsp!TopPump, Lsp!TopShutdown, Lsp!Leave, Lsp!Farewell, Busy, Young
  <2> QED
    BY <2>1, LspFacts DEF LspTypeInv
<1>2. {"stopped", "process"} \subseteq LspKinds /\ {"cancelled", "none"} \subseteq LspStops
  BY DEF LspKinds, Failures, LspStops
<1>3. ASSUME Lsp!TopPump  PROVE LspInv'
  <2>1. conn.up /\ Connected /\ lspActor.pc = "idle" /\ UNCHANGED <<lspQueue, lspCaller, Lsp!Stays>>
    BY <1>3 DEF Lsp!TopPump, Connected
  <2>2. CASE /\ conn' = [conn EXCEPT !.inbox = <<>>]
             /\ server' = [server EXCEPT !.out = <<>>]
             /\ Lsp!Calm /\ UNCHANGED <<procs, lspActor>>
    <3>1. <<>> \in Seq(Messages) /\ Lsp!ToSet(<<>>) = {}
      BY DEF Lsp!ToSet
    <3>2. /\ conn' \in Conns /\ conn'.up = conn.up /\ conn'.next = conn.next /\ conn'.inbox = <<>>
      BY <1>1, <2>2, <3>1 DEF Conns
    <3>3. /\ server' \in Servers /\ server'.said = server.said /\ server'.out = <<>>
          /\ server'.inn = server.inn
      BY <1>1, <2>2, <3>1 DEF Servers
    <3>4. LspQueueInv'
      BY <2>1, <2>2, QueueKept
    <3>5. lspActor'.pc \notin Served \cup Off \cup Young \cup {"ask", "close"}
      BY <2>1, <2>2 DEF Served, Off, Young
    <3> QED
      BY <1>1, <2>1, <2>2, <3>1, <3>2, <3>3, <3>4, <3>5, ServerStays DEF Lsp!Stays, Lsp!Calm
  <2>3. ASSUME NEW r \in {"gone", "lost"}, procs' = Lsp!Terminated(r), conn' = Lsp!NoConn,
        server' = Lsp!NoServer,
               Lsp!Trouble \/ Lsp!Calm, \/ lspActor' = lspActor
                                \/ lspActor' = [lspActor EXCEPT !.pc = "leaving", !.exit = "lost"]
        PROVE  LspInv'
    <3>1. /\ lspActor' \in LspActors /\ lspActor'.pc \in {"idle", "leaving"}
               /\ lspActor'.query = lspActor.query
      BY <1>1, <2>1, <2>3 DEF LspActors, Pcs
    <3>2. LspQueueInv'
      BY <1>1, <2>1, <3>1, QueueKept DEF Busy
    <3>3. trouble' \in Nat /\ trouble' <= LspMaxTrouble
      BY <2>3, TroubleIs
    <3> QED
      BY <1>1, <2>1, <2>3, <3>1, <3>2, <3>3, ServerEnds DEF Lsp!Stays
  <2> QED
    BY <1>3, <2>2, <2>3 DEF Lsp!TopPump
<1>4. ASSUME NEW r \in {"gone", "lost"}, Lsp!Farewell(r)  PROVE LspInv'
  <2>1. /\ lspActor.pc = "farewell" /\ UNCHANGED <<lspQueue, lspCaller, Lsp!Stays>>
             /\ (Lsp!Trouble \/ Lsp!Calm)
        /\ procs' = Lsp!Terminated(r) /\ conn' = Lsp!NoConn /\ server' = Lsp!NoServer
        /\ lspActor' = [lspActor EXCEPT !.pc = "leaving",
                                  !.exit = IF r = "gone" THEN "clean" ELSE "lost"]
    BY <1>4 DEF Lsp!Farewell
  <2>2. Connected
    BY <1>1, <2>1 DEF LiveInv, Served, Connected
  <2>3. /\ lspActor' \in LspActors /\ lspActor'.pc = "leaving" /\ lspActor'.query = lspActor.query
    BY <1>1, <2>1 DEF LspActors, Pcs
  <2>4. LspQueueInv'
    BY <1>1, <2>1, <2>3, QueueKept DEF Busy
  <2>5. trouble' \in Nat /\ trouble' <= LspMaxTrouble
    BY <2>1, TroubleIs
  <2> QED
    BY <1>1, <2>1, <2>2, <2>3, <2>4, <2>5, ServerEnds DEF Lsp!Stays
<1>5. ASSUME Lsp!TopShutdown \/ Lsp!Leave  PROVE LspInv'
  <2>1. /\ UNCHANGED <<conn, server, procs, trouble, Lsp!Stays>> /\ lspQueue' = <<>>
        /\ \E kind \in LspKinds, how \in LspStops : lspCaller' = Lsp!Rejected(kind, how)
        /\ \/ lspActor.pc = "idle" /\ lspActor'.pc = IF conn.up THEN "farewell" ELSE "leaving"
           \/ lspActor.pc = "leaving" /\ lspActor'.pc = "gone"
        /\ lspActor'.query = NoQuery /\ lspActor' \in LspActors
    <3>1. CASE Lsp!TopShutdown
      <4>1. /\ lspActor' = [lspActor EXCEPT !.pc = IF conn.up THEN "farewell" ELSE "leaving",
                              !.exit = IF conn.up THEN "none" ELSE "clean"]
            /\ lspActor.pc = "idle"
        BY <3>1 DEF Lsp!TopShutdown
      <4>2. /\ lspActor' \in LspActors /\ lspActor'.query = NoQuery
            /\ lspActor'.pc = IF conn.up THEN "farewell" ELSE "leaving"
        BY <1>1, <4>1 DEF LspActors, Pcs
      <4> QED
        BY <1>2, <3>1, <4>1, <4>2 DEF Lsp!TopShutdown
    <3>2. CASE Lsp!Leave
      <4>1. lspActor' = [lspActor EXCEPT !.pc = "gone"] /\ lspActor.pc = "leaving"
        BY <3>2 DEF Lsp!Leave
      <4>2. lspActor' \in LspActors /\ lspActor'.query = NoQuery /\ lspActor'.pc = "gone"
        BY <1>1, <4>1 DEF LspActors, Pcs
      <4> QED
        BY <1>2, <3>2, <4>1, <4>2 DEF Lsp!Leave
    <3> QED
      BY <1>5, <3>1, <3>2
  <2>2. lspActor'.pc \notin Busy \cup Young \cup {"ask", "close"}
    BY <2>1 DEF Busy, Young
  <2>3. lspCaller' \in [Queries -> Caller] /\ LspQueueInv'
    BY <1>1, <2>1, <2>2, RejectedIs
  <2>4. /\ lspActor'.pc \in Served => conn.up
        /\ lspActor'.pc \in Off => ~conn.up
    BY <1>1, <2>1 DEF LiveInv, Served, Off
  <2>5. Kept /\ lspQueue' \in Seq(Queries)
    BY <2>1, SameServer DEF Kept, Lsp!Stays
  <2> QED
    BY <1>1, <2>1, <2>2, <2>3, <2>4, <2>5, ServerStays DEF Kept
<1> QED
  BY <1>3, <1>4, <1>5

-----------------------------------------------------------------------------
(* The callers, the server and the clocks.                                 *)

\* The thread is not concerned.
LEMMA Outside ==
    ASSUME Lsp!LspAssumption, LspInv, UNCHANGED <<lspActor, conn, procs>>, LspQueueInv',
           lspQueue' \in Seq(Queries),
           lspCaller' \in [Queries -> Caller],
           \A q \in Queries : lspCaller'[q].asked = lspCaller[q].asked,
           server' \in Servers, server.said \subseteq server'.said,
           \A m \in Lsp!ToSet(server'.out) :
               m \in Lsp!ToSet(server.out) \/ m.id \in {0, 1} \cup server'.said
               \/ m.kind \notin Responses,
           Lsp!ToSet(server'.inn) \subseteq Lsp!ToSet(server.inn),
           lspShutdown' \in BOOLEAN, lspDue' \in [Queries -> SUBSET {"cancelled", "timeout"}],
           trouble' \in Nat, trouble' <= LspMaxTrouble
    PROVE  LspInv'
<1>1. /\ LspTypeInv /\ LiveInv /\ LspIdInv /\ (lspActor.pc \in {"ask", "close"}
           => lspActor.query \in Queries)
  BY LspFacts DEF Busy
<1>2. LspTypeInv'
  BY <1>1 DEF LspTypeInv
<1>3. LiveInv'
  BY <1>1 DEF LiveInv, Connected
<1>4. LspIdInv'
  <2>1. \A m \in LspInbound' : m.kind \in Responses => m.id \in {0, 1} \cup server'.said
    BY <1>1 DEF LspIdInv, LspInbound
  <2> QED
    BY <1>1, <2>1 DEF LspIdInv, Lsp!Gen
<1> QED
  BY <1>2, <1>3, <1>4 DEF LspInv

LEMMA LspCallersMove ==
    ASSUME Lsp!LspAssumption, LspInv, NEW q \in Queries, Lsp!Look(q) \/ Lsp!Send(q)
    PROVE  LspInv'
<1>1. /\ LspTypeInv /\ LspQueueInv /\ lspCaller \in [Queries -> Caller] /\ lspQueue \in Seq(Queries)
      /\ NoQuery \notin Queries /\ server \in Servers /\ trouble \in Nat /\ trouble <= LspMaxTrouble
      /\ Len(lspQueue) \in Nat /\ LspCapacity \in Nat /\ lspCaller[q] \in Caller
      /\ UNCHANGED <<lspActor, conn, server, procs, trouble, Lsp!Stays>>
      /\ lspCaller[q].pc \in {"idle", "looked"}
  <2>1. /\ UNCHANGED <<lspActor, conn, server, procs, trouble, Lsp!Stays>>
        /\ lspCaller[q].pc \in {"idle", "looked"}
    BY DEF Lsp!Look, Lsp!Send
  <2> QED
    BY <2>1, LspFacts DEF Lsp!LspAssumption, LspTypeInv
<1>2. q \notin Lsp!ToSet(lspQueue) /\ q # lspActor.query
      /\ \A p \in Queries : lspCaller[p].pc = "waiting" <=> p \in Lsp!ToSet(lspQueue)
           \cup {lspActor.query}
  BY <1>1 DEF LspQueueInv
<1>3. {"process", "busy"} \subseteq LspKinds /\ "none" \in LspStops
  BY DEF LspKinds, LspStops
<1>4. CASE /\ lspQueue' = lspQueue
           /\ \/ \E kind \in {"process", "busy"} : lspCaller' = Lsp!Told(lspCaller, q, kind, "none")
              \/ lspCaller' = [lspCaller EXCEPT ![q].pc = "looked"]
  <2>1. /\ lspCaller' \in [Queries -> Caller] /\ lspCaller'[q].pc # "waiting"
        /\ lspCaller'[q].asked = lspCaller[q].asked
        /\ \A p \in Queries : p # q => lspCaller'[p] = lspCaller[p]
    <3>1. CASE lspCaller' = [lspCaller EXCEPT ![q].pc = "looked"]
      BY <1>1, <3>1 DEF Caller
    <3>2. CASE \E kind \in {"process", "busy"} : lspCaller' = Lsp!Told(lspCaller, q, kind, "none")
      BY <1>1, <1>3, <3>2, LspToldIs
    <3> QED
      BY <1>4, <3>1, <3>2
  <2>2. LspQueueInv'
    BY <1>1, <1>2, <1>4, <2>1 DEF LspQueueInv
  <2>3. /\ \A p \in Queries : lspCaller'[p].asked = lspCaller[p].asked
        /\ lspQueue' \in Seq(Queries)
    BY <1>1, <1>4, <2>1
  <2> QED
    BY <1>1, <2>1, <2>2, <2>3, Outside DEF Lsp!Stays, LspTypeInv
<1>5. CASE /\ lspCaller' = [lspCaller EXCEPT ![q].pc = "waiting"] /\ lspQueue' = Append(lspQueue, q)
           /\ ~(Len(lspQueue) >= LspCapacity)
  <2>1. /\ lspCaller' \in [Queries -> Caller] /\ lspCaller'[q].pc = "waiting"
        /\ lspCaller'[q].asked = lspCaller[q].asked
        /\ \A p \in Queries : p # q => lspCaller'[p] = lspCaller[p]
    BY <1>1, <1>5 DEF Caller
  <2>2. /\ lspQueue' \in Seq(Queries) /\ Lsp!ToSet(lspQueue') = Lsp!ToSet(lspQueue) \cup {q}
        /\ DOMAIN lspQueue' = DOMAIN lspQueue \cup {Len(lspQueue) + 1}
             /\ Len(lspQueue') = Len(lspQueue) + 1
        /\ \A i \in DOMAIN lspQueue : lspQueue'[i] = lspQueue[i]
        /\ lspQueue'[Len(lspQueue) + 1] = q
    BY <1>1, <1>5, LspAppendIs
  <2>3. \A i, j \in DOMAIN lspQueue' : lspQueue'[i] = lspQueue'[j] => i = j
    <3>1. \A i, j \in DOMAIN lspQueue : lspQueue[i] = lspQueue[j] => i = j
      BY <1>1 DEF LspQueueInv
    <3>2. \A i \in DOMAIN lspQueue : lspQueue[i] # q
      BY <1>2 DEF Lsp!ToSet
    <3> QED
      BY <2>2, <3>1, <3>2
  <2>4. Len(lspQueue') <= LspCapacity
    BY <1>1, <1>5, <2>2
  <2>5. LspQueueInv'
    <3>1. \A p \in Queries : lspCaller'[p].pc = "waiting" <=> p \in Lsp!ToSet(lspQueue')
          \cup {lspActor'.query}
      BY <1>1, <1>2, <2>1, <2>2
    <3>2. lspActor'.query \notin Lsp!ToSet(lspQueue')
      BY <1>1, <1>2, <2>2 DEF LspQueueInv
    <3> QED
      BY <1>1, <2>3, <2>4, <3>1, <3>2 DEF LspQueueInv
  <2>6. \A p \in Queries : lspCaller'[p].asked = lspCaller[p].asked
    BY <2>1
  <2> QED
    BY <1>1, <2>1, <2>2, <2>5, <2>6, Outside DEF Lsp!Stays, LspTypeInv
<1> QED
  BY <1>4, <1>5 DEF Lsp!Look, Lsp!Send

LEMMA LspStopsCome ==
    ASSUME Lsp!LspAssumption, LspInv, \/ Lsp!RequestShutdown
                \/ \E q \in Queries, s \in {"cancelled", "timeout"} : Lsp!StopFires(q, s)
    PROVE  LspInv'
<1>1. /\ LspTypeInv /\ LspQueueInv /\ UNCHANGED <<lspQueue, lspCaller, lspActor, conn, server,
           procs, trouble>>
  BY LspFacts DEF Lsp!RequestShutdown, Lsp!StopFires, Lsp!Ours
<1>2. /\ lspShutdown' \in BOOLEAN /\ lspDue' \in [Queries -> SUBSET {"cancelled", "timeout"}]
  <2>1. CASE Lsp!RequestShutdown
    BY <1>1, <2>1 DEF LspTypeInv, Lsp!RequestShutdown
  <2>2. ASSUME NEW q \in Queries, NEW s \in {"cancelled", "timeout"}, Lsp!StopFires(q, s)
        PROVE  lspShutdown' \in BOOLEAN /\ lspDue' \in [Queries -> SUBSET {"cancelled", "timeout"}]
    <3>1. lspShutdown' = lspShutdown /\ lspDue' = [lspDue EXCEPT ![q] = @ \cup {s}]
      BY <2>2 DEF Lsp!StopFires
    <3> QED
      BY <1>1, <3>1 DEF LspTypeInv
  <2> QED
    BY <2>1, <2>2
<1>3. LspQueueInv'
  BY <1>1, QueueKept
<1> QED
  BY <1>1, <1>2, <1>3, Outside DEF LspTypeInv

LEMMA ServerSteps ==
    ASSUME Lsp!LspAssumption, LspInv, Lsp!Server
    PROVE  LspInv'
<1>1. /\ LspTypeInv /\ LspQueueInv /\ LspIdInv /\ server \in Servers
      /\ UNCHANGED <<lspQueue, lspCaller, lspActor, conn, procs, lspShutdown, lspDue>>
           /\ (Lsp!Trouble \/ Lsp!Calm)
  BY LspFacts DEF Lsp!Server, Lsp!ServerDies, Lsp!ServerAnswers, Lsp!ServerSays, Lsp!Ours, Lsp!Stays
<1>2. trouble' \in Nat /\ trouble' <= LspMaxTrouble /\ LspQueueInv'
  BY <1>1, TroubleIs, QueueKept
<1>3. /\ server.inn \in Seq(Messages) /\ server.out \in Seq(Messages) /\ server.said \subseteq Nat
  BY <1>1 DEF Servers
<1>4. ASSUME /\ server' \in Servers /\ server.said \subseteq server'.said
             /\ Lsp!ToSet(server'.inn) \subseteq Lsp!ToSet(server.inn)
             /\ \A m \in Lsp!ToSet(server'.out) :
                  m \in Lsp!ToSet(server.out) \/ m.id \in {0, 1} \cup server'.said
                  \/ m.kind \notin Responses
      PROVE  LspInv'
  BY <1>1, <1>2, <1>4, Outside DEF LspTypeInv
<1>5. CASE Lsp!ServerDies
  <2>1. server' \in Servers /\ server'.said = server.said /\ server'.inn = server.inn
        /\ server'.out = server.out
    BY <1>1, <1>5 DEF Lsp!ServerDies, Servers
  <2> QED
    BY <1>4, <2>1
<1>6. ASSUME NEW m \in {Lsp!Message("request", 0), Lsp!Message("ok", 0)}, Lsp!ServerSays(m)
      PROVE LspInv'
  <2>1. m \in Messages /\ m.id = 0
    BY <1>6 DEF Lsp!Message, Messages, Responses
  <2>2. Append(server.out, m) \in Seq(Messages)
        /\ Lsp!ToSet(Append(server.out, m)) = Lsp!ToSet(server.out) \cup {m}
    BY <1>3, <2>1, LspAppendIs
  <2>3. server' \in Servers /\ server'.said = server.said /\ server'.inn = server.inn
        /\ server'.out = Append(server.out, m)
    BY <1>1, <1>6, <2>2 DEF Lsp!ServerSays, Servers
  <2> QED
    BY <1>4, <2>1, <2>2, <2>3
<1>7. ASSUME NEW kind \in {"ok", "bad", "error"}, Lsp!ServerAnswers(kind)  PROVE LspInv'
  <2> DEFINE m == Head(server.inn)
             o == IF m.kind = "cancel" THEN server.out ELSE Append(server.out, Lsp!Message(kind,
                   m.id))
             said == IF m.kind = "ask" THEN server.said \cup {m.id} ELSE server.said
  <2>1. /\ server.inn # <<>> /\ m \in Messages /\ Tail(server.inn) \in Seq(Messages)
        /\ Lsp!ToSet(server.inn) = {m} \cup Lsp!ToSet(Tail(server.inn))
    BY <1>3, <1>7, LspTailIs DEF Lsp!ServerAnswers
  <2> HIDE DEF m
  <2>2. m.id \in Nat /\ Lsp!Message(kind, m.id) \in Messages /\ Lsp!Message(kind, m.id).id = m.id
    BY <1>7, <2>1 DEF Lsp!Message, Messages, Responses
  <2>3. /\ o \in Seq(Messages)
        /\ \A x \in Lsp!ToSet(o) : x \in Lsp!ToSet(server.out) \/ (m.kind # "cancel" /\ x.id = m.id)
    <3>1. Append(server.out, Lsp!Message(kind, m.id)) \in Seq(Messages)
          /\ Lsp!ToSet(Append(server.out, Lsp!Message(kind, m.id)))
               = Lsp!ToSet(server.out) \cup {Lsp!Message(kind, m.id)}
      BY <1>3, <2>2, LspAppendIs
    <3> QED
      BY <1>3, <2>2, <3>1
  <2>4. said \in SUBSET Nat /\ server.said \subseteq said
    BY <1>3, <2>2
  <2>5. m.kind # "cancel" => m.id \in {0, 1} \cup said
    BY <1>1, <2>1 DEF LspIdInv, Requested
  <2>6. server' = [server EXCEPT !.inn = Tail(server.inn), !.out = o, !.said = said]
    BY <1>1, <1>7 DEF Lsp!ServerAnswers, Servers, m
  <2> HIDE DEF o, said
  <2>7. server' \in Servers /\ server'.said = said /\ server'.inn = Tail(server.inn)
        /\ server'.out = o
    BY <1>1, <2>1, <2>3, <2>4, <2>6 DEF Servers
  <2> QED
    BY <1>4, <2>1, <2>3, <2>4, <2>5, <2>7
<1> QED
  BY <1>5, <1>6, <1>7 DEF Lsp!Server

-----------------------------------------------------------------------------
(* The theorem.                                                            *)

LEMMA Begins ==
    ASSUME Lsp!LspAssumption, Lsp!Init
    PROVE  LspInv
<1>1. /\ lspActor = Lsp!Idle /\ conn = Lsp!NoConn /\ server = Lsp!NoServer /\ procs = <<>>
           /\ lspQueue = <<>>
      /\ trouble = 0 /\ lspShutdown = FALSE /\ lspDue = [q \in Queries |-> {}]
      /\ lspCaller = [q \in Queries |-> [pc |-> "idle", asked |-> <<0, 0>>,
           answer |-> Lsp!NoAnswer]]
      /\ LspMaxTrouble \in Nat /\ LspCapacity \in Nat /\ NoQuery \notin Queries
  BY DEF Lsp!LspAssumption, Lsp!Init
<1>2. lspActor \in LspActors /\ lspActor.pc = "idle" /\ lspActor.query = NoQuery
  BY <1>1 DEF Lsp!Idle, LspActors, Pcs, Failures, LspStops
<1>3. <<>> \in Seq(Messages) /\ <<>> \in Seq(Fates) /\ <<>> \in Seq(Queries) /\ Lsp!ToSet(<<>>) = {}
  BY DEF Lsp!ToSet
<1>4. conn \in Conns /\ conn.up = FALSE /\ conn.inbox = <<>>
  BY <1>1, <1>3 DEF Lsp!NoConn, Conns
<1>5. server \in Servers /\ server.inn = <<>> /\ server.out = <<>>
  BY <1>1, <1>3 DEF Lsp!NoServer, Servers
<1>6. lspCaller \in [Queries -> Caller]
  <2>1. [pc |-> "idle", asked |-> <<0, 0>>, answer |-> Lsp!NoAnswer] \in Caller
    BY DEF Caller, Lsp!NoAnswer, Answered, LspKinds, Failures, LspStops
  <2> QED
    BY <1>1, <2>1
<1>7. LspTypeInv
  <2>1. /\ lspQueue \in Seq(Queries) /\ procs \in Seq(Fates)
        /\ lspDue \in [Queries -> SUBSET {"cancelled", "timeout"}]
    BY <1>1, <1>3
  <2>2. trouble = 0 /\ LspMaxTrouble \in Nat /\ lspShutdown = FALSE
    BY <1>1
  <2>3. trouble \in Nat /\ trouble <= LspMaxTrouble
    BY <2>2
  <2> QED
    BY <1>2, <1>4, <1>5, <1>6, <2>1, <2>2, <2>3 DEF LspTypeInv
<1>8. LspQueueInv
  <2>1. DOMAIN lspQueue = {} /\ Len(lspQueue) = 0 /\ Lsp!ToSet(lspQueue) = {}
    BY <1>1, <1>3
  <2> QED
    BY <1>1, <1>2, <2>1 DEF LspQueueInv, Busy
<1>9. LiveInv
  BY <1>1, <1>2, <1>4 DEF LiveInv, Connected, Served, Young, Off
<1>10. LspIdInv
  BY <1>2, <1>3, <1>4, <1>5 DEF LspIdInv, LspInbound
<1> QED
  BY <1>7, <1>8, <1>9, <1>10 DEF LspInv

LEMMA LspSteps ==
    ASSUME Lsp!LspAssumption, LspInv, [Lsp!Next]_Lsp!vars
    PROVE  LspInv'
<1>1. CASE Lsp!Actor
  BY <1>1, Takes, LspStarts, Initializes, Opens, Closes, LspWaitTurns, LspEnds, Terminates
        DEF Lsp!Actor
<1>2. CASE Lsp!Server
  BY <1>2, ServerSteps
<1>3. CASE Lsp!RequestShutdown \/ \E q \in Queries, s \in {"cancelled",
      "timeout"} : Lsp!StopFires(q, s)
  BY <1>3, LspStopsCome
<1>4. ASSUME NEW q \in Queries, Lsp!Look(q) \/ Lsp!Send(q)  PROVE LspInv'
  BY <1>4, LspCallersMove
<1>5. CASE UNCHANGED Lsp!vars
  <2>1. LspQueueInv'
    BY <1>5, QueueKept DEF Lsp!vars
  <2> QED
    BY <1>5, <2>1, LspFacts, Outside DEF Lsp!vars, LspTypeInv, Lsp!Stays
<1> QED
  BY <1>1, <1>2, <1>3, <1>4, <1>5 DEF Lsp!Next

LEMMA LspMeans ==
    ASSUME Lsp!LspAssumption, LspInv
    PROVE  Lsp!ResultIsOwn
<1>1. LspTypeInv /\ LspQueueInv /\ LiveInv /\ LspIdInv
  BY LspFacts
<1>2. Lsp!TypeOK
  BY <1>1 DEF Lsp!TypeOK, LspTypeInv, LspQueueInv, LiveInv, Connected
<1>3. Lsp!OneServer
  BY <1>1 DEF Lsp!OneServer, LiveInv, Connected, Off, Young, Lsp!Gen
<1>4. ASSUME NEW q \in Queries, lspActor.query = q, lspActor.pc = "close"
      PROVE  lspCaller[q].asked[1] = Lsp!Gen /\ lspCaller[q].asked[2] \in server.said
  BY <1>1, <1>4 DEF LspIdInv
<1> QED
  BY <1>2, <1>3, <1>4 DEF Lsp!ResultIsOwn

\* A result that the thread is about to show is the answer to this query's own
\* request on the connection that is open, however many servers failed, whatever
\* they said unasked and whenever the query was stopped; and there is never a
\* second server beside a live one (tools/lsp/actor.rs).
THEOREM ResultsAreOwn == Lsp!LspAssumption => (Lsp!Spec => []Lsp!ResultIsOwn)
<1> SUFFICES ASSUME Lsp!LspAssumption PROVE Lsp!Spec => []Lsp!ResultIsOwn
  OBVIOUS
<1>1. Lsp!Init => LspInv
  BY Begins
<1>2. LspInv /\ [Lsp!Next]_Lsp!vars => LspInv'
  BY LspSteps
<1>3. LspInv => Lsp!ResultIsOwn
  BY LspMeans
<1> QED
  BY <1>1, <1>2, <1>3, PTL DEF Lsp!Spec

=============================================================================
