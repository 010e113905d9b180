--------------------------- MODULE JournalProofs ---------------------------
(***************************************************************************)
(* Proofs about JournalWriter, for every number of batches and every       *)
(* channel capacity; and, behind them, what a repair may never do to a     *)
(* journal, for any calls, any length and any number of stops.             *)
(***************************************************************************)
EXTENDS JournalWriter, SequenceTheorems, TLAPS

CONSTANTS CallLists, MaxRows, MaxStops                                   \* of SessionRecovery
VARIABLES journalFile, disk, phase, projection, suffix, dispatched, goal, stops

Recovery == INSTANCE SessionRecovery WITH file <- journalFile

\* Every acknowledgement built from a cursor and an offset is well formed.
LEMMA AckType ==
    ASSUME NEW tag \in AckTags, NEW c \in Cursors, NEW d \in Offsets
    PROVE  Ack(tag, c, d) \in Acks
  BY DEF Ack, Acks

LEMMA ConstantTypes ==
    /\ Zero \in Cursors /\ Waiting \in Acks /\ Lost \in Acks
    /\ Poisoned \in Acks
    /\ NoCommand \in Command /\ NoFlight \in Flights /\ NoCall \in Calls
  BY BatchesAssumption
     DEF Zero, Cursors, Waiting, Lost, Poisoned, Acks, AckTags, Ack, NoCommand,
         Command, Kinds, NoFlight, Flights, NoCall, Calls, Offsets, ReadOps,
         Ops, Refusals

LEMMA InitInv ==
    ASSUME Init
    PROVE  Inv
<1>1. TypeOK
  <2>1. chan \in Seq(Command) /\ Len(chan) <= COMMAND_CAPACITY
    BY CapacityAssumption, EmptySeq DEF Init
  <2>2. file \in Seq(Batches) /\ Len(file) <= MaxBatches
    BY BatchesAssumption, EmptySeq DEF Init
  <2>3. flight \in [Slots -> Flights] /\ token \in [ReadSlots -> BOOLEAN]
    BY ConstantTypes DEF Init
  <2>4. 0 \in Offsets
    BY BatchesAssumption DEF Offsets
  <2> QED
    BY <2>1, <2>2, <2>3, <2>4, ConstantTypes DEF Init, TypeOK, NoBatch
<1>2. FlightInv
  <2>1. Len(chan) = 0
    BY EmptySeq DEF Init
  <2> QED
    BY <2>1 DEF Init, FlightInv, InFlight
<1>3. WorkerInv /\ BatchInv /\ CursorInv /\ OwnerInv
  <2>1. Len(file) = 0 /\ Len(chan) = 0
    BY EmptySeq DEF Init
  <2>2. \A s \in Slots : ~InFlight(s)
    BY DEF Init, InFlight
  <2>3. WorkerInv /\ BatchInv
    BY <2>1, <2>2, BatchesAssumption
       DEF Init, WorkerInv, BatchInv, Zero, NoBatch, Slots, Appending,
           InTransit, NoCommand
  <2>4. CursorInv
    BY <2>2 DEF Init, CursorInv, Slots, Zero
  <2>5. OwnerInv
    BY <2>2 DEF Init, OwnerInv, Slots, Idle, WorkerGone, NoCall
  <2> QED
    BY <2>3, <2>4, <2>5
<1> QED
  BY <1>1, <1>2, <1>3 DEF Inv

-----------------------------------------------------------------------------
(* Sequences: the file and the channel *)

\* A file cut back to its first n batches.
LEMMA PrefixFacts ==
    ASSUME NEW S, NEW seq \in Seq(S), NEW n \in 0..Len(seq)
    PROVE  /\ SubSeq(seq, 1, n) \in Seq(S)
           /\ Len(SubSeq(seq, 1, n)) = n
           /\ \A i \in 1..n : SubSeq(seq, 1, n)[i] = seq[i]
  <1>1. \A i \in 1..n : seq[i] \in S
    OBVIOUS
  <1>2. /\ SubSeq(seq, 1, n) \in Seq(S)
        /\ Len(SubSeq(seq, 1, n)) = IF 1 <= n THEN n - 1 + 1 ELSE 0
        /\ \A i \in 1..(n - 1 + 1) : SubSeq(seq, 1, n)[i] = seq[1 + i - 1]
    BY <1>1, SubSeqProperties
  <1> QED
    BY <1>2

LEMMA AppendFacts ==
    ASSUME NEW S, NEW seq \in Seq(S), NEW e \in S
    PROVE  /\ Append(seq, e) \in Seq(S)
           /\ Len(Append(seq, e)) = Len(seq) + 1
           /\ \A i \in 1..Len(seq) : Append(seq, e)[i] = seq[i]
           /\ Append(seq, e)[Len(seq) + 1] = e
  OBVIOUS

\* The channel, which holds at most one command.
LEMMA ChannelFacts ==
    ASSUME NEW S, NEW seq \in Seq(S), Len(seq) <= 1
    PROVE  /\ seq = <<>> \/ Len(seq) = 1
           /\ seq = <<>> <=> Len(seq) = 0
           /\ Len(seq) = 1 => /\ seq[1] \in S
                              /\ Head(seq) = seq[1]
                              /\ Tail(seq) = <<>>
  <1>1. Len(seq) = 0 \/ Len(seq) = 1
    <2>1. Len(seq) \in Nat
      OBVIOUS
    <2>2. \A n \in Nat : n <= 1 => n = 0 \/ n = 1
      OBVIOUS
    <2> QED
      BY <2>1, <2>2
  <1>2. seq = <<>> <=> Len(seq) = 0
    BY EmptySeq
  <1>3. Len(seq) = 1 => Tail(seq) = <<>>
    <2> SUFFICES ASSUME Len(seq) = 1 PROVE Tail(seq) = <<>>
      OBVIOUS
    <2>1. seq # <<>>
      BY <1>2
    <2>2. Tail(seq) \in Seq(S) /\ Len(Tail(seq)) = 0
      BY <2>1, HeadTailProperties
    <2> QED
      BY <2>2, EmptySeq
  <1>4. Len(seq) = 1 => seq[1] \in S /\ Head(seq) = seq[1]
    OBVIOUS
  <1> QED
    BY <1>1, <1>2, <1>3, <1>4

-----------------------------------------------------------------------------
(* The command under way *)

\* An owner with no flight has a worker with nothing to do.
LEMMA QuietOwner ==
    ASSUME Inv, \A s \in Slots : ~InFlight(s)
    PROVE  job = NoCommand /\ chan = <<>>
  BY DEF Inv, FlightInv

\* The command in the worker's hands belongs to the one flight, which waits.
LEMMA ServedSlot ==
    ASSUME Inv, job # NoCommand, NEW s \in Slots, job.kind \in SlotKinds(s)
    PROVE  /\ InFlight(s) /\ flight[s].ack.tag = "waiting"
           /\ flight[s].kind = job.kind /\ flight[s].arg = job.arg
           /\ chan = <<>> /\ worker = "running" /\ pending = NoBatch
           /\ \A t \in Slots \ {s} : ~InFlight(t)
  <1>1. PICK u \in Slots : InFlight(u) /\ flight[u].ack.tag = "waiting"
    BY DEF Inv, FlightInv
  <1>2. /\ flight[u].kind \in SlotKinds(u) /\ pending = NoBatch
        /\ worker = "running"
        /\ InTransit([kind |-> flight[u].kind, arg |-> flight[u].arg])
        /\ \A t \in Slots \ {u} : ~InFlight(t)
    BY <1>1 DEF Inv, FlightInv
  <1>3. job = [kind |-> flight[u].kind, arg |-> flight[u].arg] /\ chan = <<>>
    BY <1>2 DEF InTransit
  <1>4. u = s
    BY <1>2, <1>3 DEF SlotKinds, Slots
  <1> QED
    BY <1>1, <1>2, <1>3, <1>4

\* What an answer leaves behind.
LEMMA ReplyFacts ==
    ASSUME Inv, job # NoCommand, NEW s \in Slots, job.kind \in SlotKinds(s),
           NEW ack \in Acks, ack.tag # "waiting", Reply(s, ack)
    PROVE  /\ flight' \in [Slots -> Flights]
           /\ flight'[s] = [kind |-> job.kind, arg |-> job.arg, ack |-> ack]
           /\ \A t \in Slots \ {s} : flight'[t] = flight[t] /\ ~InFlight(t)'
           /\ InFlight(s)'
           /\ job' = NoCommand /\ chan' = <<>>
  <1>1. flight[s].kind = job.kind /\ flight[s].arg = job.arg /\ chan = <<>>
        /\ \A t \in Slots \ {s} : ~InFlight(t)
    BY ServedSlot
  <1>2. flight[s] \in Flights /\ flight \in [Slots -> Flights]
    BY DEF Inv, TypeOK
  <1>3. flight' = [flight EXCEPT ![s].ack = ack]
    BY <1>1 DEF Reply
  <1>4. flight'[s] = [kind |-> job.kind, arg |-> job.arg, ack |-> ack]
    BY <1>1, <1>2, <1>3 DEF Flights
  <1>5. flight' \in [Slots -> Flights]
    BY <1>2, <1>3 DEF Flights
  <1>6. InFlight(s)'
    <2>1. job.kind # "none"
      BY DEF SlotKinds, Slots
    <2> QED
      BY <1>4, <2>1 DEF InFlight, NoFlight
  <1>7. \A t \in Slots \ {s} : flight'[t] = flight[t] /\ ~InFlight(t)'
    BY <1>1, <1>2, <1>3 DEF InFlight
  <1> QED
    BY <1>1, <1>4, <1>5, <1>6, <1>7 DEF Reply

\* What sending a command leaves behind.
LEMMA SendFacts ==
    ASSUME Inv, NEW s \in Slots, NEW kind \in SlotKinds(s), NEW arg \in Offsets,
           \A t \in Slots : ~InFlight(t), Send(s, kind, arg)
    PROVE  /\ flight' \in [Slots -> Flights]
           /\ flight'[s] = [kind |-> kind, arg |-> arg, ack |-> Waiting]
           /\ \A t \in Slots \ {s} : flight'[t] = flight[t] /\ ~InFlight(t)'
           /\ InFlight(s)'
           /\ chan' \in Seq(Command) /\ Len(chan') = 1
           /\ chan'[1] = [kind |-> kind, arg |-> arg]
           /\ job = NoCommand /\ chan = <<>> /\ worker = "running" /\ sender
  <1> DEFINE command == [kind |-> kind, arg |-> arg]
  <1>1. job = NoCommand /\ chan = <<>>
    BY QuietOwner
  <1>2. command \in Command /\ kind # "none"
    BY DEF Command, Kinds, SlotKinds, Slots, ReadOps
  <1>3. [kind |-> kind, arg |-> arg, ack |-> Waiting] \in Flights
    BY <1>2, ConstantTypes DEF Flights, Command
  <1>4. chan' = Append(<<>>, command)
    BY <1>1 DEF Send
  <1>5. chan' \in Seq(Command) /\ Len(chan') = 1 /\ chan'[1] = command
    BY <1>2, <1>4
  <1>6. flight' = [flight EXCEPT ![s] = [kind |-> kind, arg |-> arg,
                                         ack |-> Waiting]]
    BY DEF Send
  <1>7. flight \in [Slots -> Flights]
    BY DEF Inv, TypeOK
  <1> QED
    BY <1>1, <1>2, <1>3, <1>5, <1>6, <1>7
       DEF Send, CanSend, WorkerGone, InFlight, NoFlight

LEMMA StageInv ==
    ASSUME Inv, Stage
    PROVE  Inv'
<1> USE DEF Inv, Stage, Stageable, workerVars
<1>1. TypeOK'
  BY ConstantTypes, BatchesAssumption
     DEF TypeOK, Offsets, ReadSlots, Slots, Flights, Calls, Command, Cursors,
         Conclude, NoBatch, Batches, NoCall, LatchedError, Usable
<1>2. FlightInv'
  BY ConstantTypes, BatchesAssumption
     DEF FlightInv, InFlight, InTransit, TypeOK, Slots, Conclude, WorkerGone,
         NoBatch
<1>3. WorkerInv'
  BY ConstantTypes, BatchesAssumption
     DEF WorkerInv, Healthy, TypeOK
<1>4. BatchInv'
  <2>1. job = NoCommand /\ chan = <<>>
    BY QuietOwner
  <2>2. ~Appending /\ ~Appending'
    BY <2>1, EmptySeq DEF Appending, InTransit, NoCommand
  <2>3. ~poisoned /\ ~finished /\ finishError = "none"
    BY DEF Usable, OwnerInv, TypeOK
  <2>4. Healthy => Len(file) = staged
    BY <2>2, <2>3 DEF BatchInv
  <2>5. /\ Healthy' => Len(file') + 1 = staged'
        /\ ~InFlight("write")'
        /\ pending' = staged' /\ pending' # NoBatch
    BY <2>4 DEF Healthy, InFlight, Slots, TypeOK, Offsets, NoBatch
  <2> QED
    BY <2>2, <2>5, BatchesAssumption DEF BatchInv, TypeOK, Offsets
<1>5. CursorInv'
  BY ConstantTypes, BatchesAssumption
     DEF CursorInv, FlightInv, InFlight, Healthy, TypeOK, Slots, Conclude
<1>6. OwnerInv'
  BY ConstantTypes, BatchesAssumption
     DEF OwnerInv, FlightInv, InFlight, Healthy, Usable, Slots, WorkerGone,
         Idle, TypeOK, Conclude, LatchedError, NoCall, NoBatch
<1> QED
  BY <1>1, <1>2, <1>3, <1>4, <1>5, <1>6

LEMMA StageInvalidPrunePrefixInv ==
    ASSUME Inv, StageInvalidPrunePrefix
    PROVE  Inv'
<1> USE DEF Inv, StageInvalidPrunePrefix, Stageable, workerVars
<1>1. TypeOK'
  BY ConstantTypes, BatchesAssumption
     DEF TypeOK, Offsets, ReadSlots, Slots, Flights, Calls, Command, Cursors,
         Conclude, NoBatch, Batches, NoCall, LatchedError
<1>2. FlightInv'
  BY ConstantTypes, BatchesAssumption
     DEF FlightInv, InFlight, InTransit, TypeOK, Slots, Conclude, WorkerGone,
         NoBatch
<1>3. WorkerInv'
  BY ConstantTypes, BatchesAssumption
     DEF WorkerInv, Healthy, TypeOK
<1>4. BatchInv'
  BY ConstantTypes, BatchesAssumption
     DEF BatchInv, FlightInv, InFlight, OwnerInv, Healthy, Appending,
         InTransit, TypeOK, Usable, Slots, NoBatch, Offsets, LatchedError,
         Conclude
<1>5. CursorInv'
  BY ConstantTypes, BatchesAssumption
     DEF CursorInv, FlightInv, InFlight, Healthy, TypeOK, Slots, Conclude
<1>6. OwnerInv'
  BY ConstantTypes, BatchesAssumption
     DEF OwnerInv, FlightInv, InFlight, Healthy, Usable, Slots, WorkerGone,
         Idle, TypeOK, Conclude, LatchedError, NoCall, NoBatch
<1> QED
  BY <1>1, <1>2, <1>3, <1>4, <1>5, <1>6

LEMMA LatchPoisonInv ==
    ASSUME Inv, LatchPoison
    PROVE  Inv'
<1> USE DEF Inv, LatchPoison, workerVars
<1>1. TypeOK'
  BY ConstantTypes, BatchesAssumption
     DEF TypeOK, Offsets, ReadSlots, Slots, Flights, Calls, Command, Cursors,
         Conclude, NoBatch, Batches, NoCall, LatchedError
<1>2. FlightInv'
  BY ConstantTypes, BatchesAssumption
     DEF FlightInv, InFlight, InTransit, TypeOK, Slots, Conclude, WorkerGone,
         NoBatch
<1>3. WorkerInv'
  BY ConstantTypes, BatchesAssumption
     DEF WorkerInv, Healthy, TypeOK
<1>4. BatchInv'
  BY ConstantTypes, BatchesAssumption
     DEF BatchInv, FlightInv, InFlight, OwnerInv, Healthy, Appending,
         InTransit, TypeOK, Usable, Slots, NoBatch, Offsets, LatchedError,
         Conclude
<1>5. CursorInv'
  BY ConstantTypes, BatchesAssumption
     DEF CursorInv, FlightInv, InFlight, Healthy, TypeOK, Slots, Conclude
<1>6. OwnerInv'
  BY ConstantTypes, BatchesAssumption
     DEF OwnerInv, FlightInv, InFlight, Healthy, Usable, Slots, WorkerGone,
         Idle, TypeOK, Conclude, LatchedError, NoCall, NoBatch
<1> QED
  BY <1>1, <1>2, <1>3, <1>4, <1>5, <1>6

LEMMA BeginInv ==
    ASSUME Inv, NEW op \in Ops, NEW row \in Offsets, Begin(op, row)
    PROVE  Inv'
<1> USE DEF Inv, Begin, workerVars
<1>1. TypeOK'
  BY ConstantTypes, BatchesAssumption
     DEF TypeOK, Offsets, ReadSlots, Slots, Flights, Calls, Command, Cursors,
         Conclude, NoBatch, Batches, NoCall, LatchedError, Ops, Rejoins
<1>2. FlightInv'
  BY QuietOwner
     DEF FlightInv, InFlight, InTransit, TypeOK, Slots, Conclude, WorkerGone,
         NoBatch
<1>3. WorkerInv'
  BY ConstantTypes, BatchesAssumption
     DEF WorkerInv, Healthy, TypeOK
<1>4. BatchInv'
  BY ConstantTypes, BatchesAssumption
     DEF BatchInv, FlightInv, InFlight, OwnerInv, Healthy, Appending,
         InTransit, TypeOK, Usable, Slots, NoBatch, Offsets, LatchedError,
         Conclude
<1>5. CursorInv'
  BY ConstantTypes, BatchesAssumption
     DEF CursorInv, FlightInv, InFlight, Healthy, TypeOK, Slots, Conclude
<1>6. OwnerInv'
  BY ConstantTypes, BatchesAssumption
     DEF OwnerInv, FlightInv, InFlight, Healthy, Usable, Slots, WorkerGone,
         Idle, TypeOK, Conclude, LatchedError, NoCall, NoBatch
<1> QED
  BY <1>1, <1>2, <1>3, <1>4, <1>5, <1>6

LEMMA SettleCursorInv ==
    ASSUME Inv, SettleCursor
    PROVE  Inv'
<1> USE DEF Inv, SettleCursor, TakeAck, workerVars
<1>a. PICK settled \in Flights : settled = flight["write"]
  BY DEF TypeOK, Slots
<1>b. /\ settled # NoFlight /\ settled.ack.tag = "cursor"
      /\ flight' = [flight EXCEPT !["write"] = NoFlight]
      /\ cursor' = settled.ack.cursor
      /\ finished' = (finished \/ settled.kind = "finish")
      /\ sender' = (sender /\ settled.kind # "finish")
      /\ Conclude(AfterWrite(settled.kind))
  BY <1>a DEF InFlight
<1>c. /\ pending = NoBatch /\ ~wpoisoned /\ cursor' = wcursor
      /\ settled.kind \in {"append", "barrier", "finish"}
      /\ settled.kind = "finish" => worker = "exited"
      /\ \A s \in Slots : ~InFlight(s)'
  BY <1>a, <1>b DEF FlightInv, CursorInv, InFlight, Slots, SlotKinds, TypeOK
<1>1. TypeOK'
  BY ConstantTypes, BatchesAssumption
     DEF TypeOK, Offsets, ReadSlots, Slots, Flights, Calls, Command, Cursors,
         Conclude, NoBatch, Batches, NoCall, LatchedError, AckTags, Acks,
         InFlight
<1>2. FlightInv'
  BY ConstantTypes, BatchesAssumption
     DEF FlightInv, InFlight, InTransit, TypeOK, Slots, Conclude, WorkerGone,
         NoBatch
<1>3. WorkerInv'
  BY ConstantTypes, BatchesAssumption
     DEF WorkerInv, Healthy, TypeOK
<1>4. BatchInv'
  BY ConstantTypes, BatchesAssumption
     DEF BatchInv, FlightInv, InFlight, OwnerInv, Healthy, Appending,
         InTransit, TypeOK, Usable, Slots, NoBatch, Offsets, LatchedError,
         Conclude
<1>5. CursorInv'
  BY <1>a, <1>b, <1>c DEF CursorInv, Slots, WorkerInv, TypeOK, Cursors, Offsets
<1>6. OwnerInv'
  <2>1. settled.kind \in {"barrier", "finish"} /\ finishError = "none" =>
          synced = staged
    BY <1>a, <1>b DEF OwnerInv, InFlight
  <2>2. acked' <= synced
    <3>1. CASE AfterWrite(settled.kind) = "ok"
               /\ call.op \in {"barrier", "finish"}
      <4>1. settled.kind \in {"barrier", "finish"} /\ finishError = "none"
        BY <3>1, <1>c DEF AfterWrite, OwnerInv
      <4> QED
        BY <3>1, <4>1, <2>1, <1>b DEF Conclude, TypeOK, Offsets
    <3>2. CASE ~(AfterWrite(settled.kind) = "ok"
                 /\ call.op \in {"barrier", "finish"})
      BY <3>2, <1>b DEF Conclude, OwnerInv
    <3> QED
      BY <3>1, <3>2
  <2>3. call' \in {call, NoCall}
    BY <1>b DEF Conclude
  <2>4. call.op # "none" /\ owner = "live"
    BY DEF Handles, OwnerInv, Idle, NoCall
  <2> QED
    BY <1>b, <1>c, <2>1, <2>2, <2>3, <2>4
       DEF OwnerInv, WorkerGone, Idle, NoCall, TypeOK, Slots
<1> QED
  BY <1>1, <1>2, <1>3, <1>4, <1>5, <1>6

LEMMA SettleFailureInv ==
    ASSUME Inv, NEW s \in Slots, SettleFailure(s)
    PROVE  Inv'
<1> USE DEF Inv, SettleFailure, TakeAck, workerVars
<1>1. TypeOK'
  BY ConstantTypes, BatchesAssumption
     DEF TypeOK, Offsets, ReadSlots, Slots, Flights, Calls, Command, Cursors,
         Conclude, NoBatch, Batches, NoCall, LatchedError, AckTags, Acks,
         InFlight
<1>2. FlightInv'
  BY ConstantTypes, BatchesAssumption
     DEF FlightInv, InFlight, InTransit, TypeOK, Slots, Conclude, WorkerGone,
         NoBatch
<1>3. WorkerInv'
  BY ConstantTypes, BatchesAssumption
     DEF WorkerInv, Healthy, TypeOK
<1>4. BatchInv'
  BY ConstantTypes, BatchesAssumption
     DEF BatchInv, FlightInv, InFlight, OwnerInv, Healthy, Appending,
         InTransit, TypeOK, Usable, Slots, NoBatch, Offsets, LatchedError,
         Conclude
<1>5. CursorInv'
  BY ConstantTypes, BatchesAssumption
     DEF CursorInv, FlightInv, InFlight, Healthy, TypeOK, Slots, Conclude
<1>6. OwnerInv'
  BY ConstantTypes, BatchesAssumption
     DEF OwnerInv, FlightInv, InFlight, Healthy, Usable, Slots, WorkerGone,
         Idle, TypeOK, Conclude, LatchedError, NoCall, NoBatch
<1> QED
  BY <1>1, <1>2, <1>3, <1>4, <1>5, <1>6

LEMMA SettleReadInv ==
    ASSUME Inv, NEW s \in Slots, SettleRead(s)
    PROVE  Inv'
<1> USE DEF Inv, SettleRead, TakeAck, workerVars
<1>a. PICK settled \in Flights : settled = flight[s]
  BY DEF TypeOK
<1>b. /\ s \in ReadSlots /\ InFlight(s) /\ s # "write"
      /\ settled.ack \in Acks /\ settled.ack.data \in Offsets
      /\ flight' = [flight EXCEPT ![s] = NoFlight]
      /\ boundary' \in {boundary, settled.ack.data}
      /\ call' \in {call, NoCall}
  BY <1>a DEF Conclude, ReadSlots, Flights, Acks
<1>c. acked' = acked
  <2>1. call.op \in {"barrier", "finish"} => ~IsOwn(s)
    BY <1>b DEF IsOwn, SlotOf, ReadSlots
  <2> QED
    BY <2>1 DEF Conclude
<1>d. pending = NoBatch /\ \A t \in Slots : ~InFlight(t)'
  BY <1>b DEF FlightInv, InFlight, TypeOK
<1>1. TypeOK'
  BY <1>a, <1>b, <1>c, ConstantTypes DEF TypeOK
<1>2. FlightInv'
  BY ConstantTypes, BatchesAssumption
     DEF FlightInv, InFlight, InTransit, TypeOK, Slots, Conclude, WorkerGone,
         NoBatch
<1>3. WorkerInv'
  BY ConstantTypes, BatchesAssumption
     DEF WorkerInv, Healthy, TypeOK
<1>4. BatchInv'
  BY ConstantTypes, BatchesAssumption
     DEF BatchInv, FlightInv, InFlight, OwnerInv, Healthy, Appending,
         InTransit, TypeOK, Usable, Slots, NoBatch, Offsets, LatchedError,
         Conclude
<1>5. CursorInv'
  <2>1. ~InFlight("write")
    BY <1>b DEF FlightInv, Slots, ReadSlots
  <2> QED
    BY <1>d, <2>1 DEF CursorInv, Slots, Healthy, InFlight
<1>6. OwnerInv'
  <2>1. wpoisoned => poisoned
    <3>1. settled.ack.tag # "poisoned" /\ \A t \in Slots : InFlight(t) => t = s
      BY <1>a, <1>b DEF FlightInv, Refusals
    <3> QED
      BY <1>a, <3>1 DEF OwnerInv, TypeOK
  <2>2. call.op # "none" /\ owner = "live"
    BY DEF Handles, OwnerInv, Idle, NoCall
  <2> QED
    BY <1>b, <1>c, <1>d, <2>1, <2>2
       DEF OwnerInv, WorkerGone, Idle, NoCall, TypeOK, Slots
<1> QED
  BY <1>1, <1>2, <1>3, <1>4, <1>5, <1>6

LEMMA FlushPendingInv ==
    ASSUME Inv, FlushPending
    PROVE  Inv'
<1> USE DEF Inv, FlushPending, workerVars
<1>a. \A t \in Slots : ~InFlight(t)
  BY DEF ReadyToSend, Handles, FlightInv
<1>b. /\ flight' \in [Slots -> Flights]
      /\ flight'["write"] = [kind |-> "append", arg |-> pending, ack |-> Waiting]
      /\ \A t \in Slots \ {"write"} : flight'[t] = flight[t] /\ ~InFlight(t)'
      /\ InFlight("write")'
      /\ chan' \in Seq(Command) /\ Len(chan') = 1
      /\ chan'[1] = [kind |-> "append", arg |-> pending]
      /\ job = NoCommand /\ chan = <<>> /\ worker = "running" /\ sender
  BY <1>a, SendFacts DEF Slots, SlotKinds, TypeOK
<1>1. TypeOK'
  BY <1>b, CapacityAssumption, BatchesAssumption DEF TypeOK, Offsets, NoBatch
<1>2. FlightInv'
  BY <1>b
     DEF FlightInv, InTransit, Slots, SlotKinds, Waiting, Ack, TypeOK, NoBatch
<1>3. WorkerInv'
  BY ConstantTypes, BatchesAssumption
     DEF WorkerInv, Healthy, TypeOK
<1>4. BatchInv'
  <2>1. pending = staged /\ staged # 0
    BY DEF BatchInv, NoBatch
  <2>2. Appending'
    BY <1>b, <2>1 DEF Appending, InTransit
  <2>3. Healthy' = Healthy /\ flight'["write"].arg = staged
    BY <1>b, <2>1 DEF Healthy
  <2> QED
    BY <1>b, <2>1, <2>2, <2>3 DEF BatchInv, NoBatch
<1>5. CursorInv'
  BY <1>a, <1>b DEF CursorInv, Slots, Waiting, Ack
<1>6. OwnerInv'
  BY <1>a, <1>b
     DEF OwnerInv, WorkerGone, Idle, Slots, Waiting, Ack, TypeOK
<1> QED
  BY <1>1, <1>2, <1>3, <1>4, <1>5, <1>6

LEMMA SynchroniseInv ==
    ASSUME Inv, Synchronise
    PROVE  Inv'
<1> USE DEF Inv, Synchronise, workerVars
<1>0. 0 \in Offsets /\ "barrier" \in SlotKinds("write") /\ "write" \in Slots
  BY BatchesAssumption DEF Offsets, SlotKinds, Slots
<1>a. \A t \in Slots : ~InFlight(t)
  BY DEF ReadyToSend, Handles, NeedsSync, ReadOps
<1>b. /\ flight' \in [Slots -> Flights]
      /\ flight'["write"] = [kind |-> "barrier", arg |-> 0, ack |-> Waiting]
      /\ \A t \in Slots \ {"write"} : flight'[t] = flight[t] /\ ~InFlight(t)'
      /\ InFlight("write")'
      /\ chan' \in Seq(Command) /\ Len(chan') = 1
      /\ chan'[1] = [kind |-> "barrier", arg |-> 0]
      /\ job = NoCommand /\ chan = <<>> /\ worker = "running" /\ sender
  BY <1>a, SendFacts, <1>0
<1>1. TypeOK'
  BY <1>b, CapacityAssumption DEF TypeOK
<1>2. FlightInv'
  BY <1>b
     DEF FlightInv, InTransit, Slots, SlotKinds, Waiting, Ack, TypeOK
<1>3. WorkerInv'
  BY ConstantTypes, BatchesAssumption
     DEF WorkerInv, Healthy, TypeOK
<1>4. BatchInv'
  <2>1. ~Appending /\ ~Appending'
    BY <1>b, EmptySeq DEF Appending, InTransit, NoCommand
  <2>2. Healthy' = Healthy /\ flight'["write"].kind = "barrier"
    BY <1>b DEF Healthy
  <2> QED
    BY <1>b, <2>1, <2>2 DEF BatchInv
<1>5. CursorInv'
  BY <1>a, <1>b DEF CursorInv, Slots, Waiting, Ack
<1>6. OwnerInv'
  BY <1>a, <1>b
     DEF OwnerInv, WorkerGone, Idle, Slots, Waiting, Ack, TypeOK
<1> QED
  BY <1>1, <1>2, <1>3, <1>4, <1>5, <1>6

LEMMA SendOwnInv ==
    ASSUME Inv, SendOwn
    PROVE  Inv'
<1> USE DEF Inv, SendOwn, workerVars
<1>o. PICK op \in Ops, s \in Slots, arg \in Offsets :
        /\ op = call.op /\ s = SlotOf(op) /\ op \in SlotKinds(s)
        /\ op \in {"barrier", "finish"} \cup ReadOps
        /\ arg = CASE op = "read" -> call.row
                   [] op = "copy" -> boundary
                   [] OTHER -> 0
  <2>1. SlotOf(call.op) \in Slots /\ call.op \in SlotKinds(SlotOf(call.op))
    BY DEF SlotOf, Slots, SlotKinds, ReadOps
  <2>2. call.row \in Offsets /\ boundary \in Offsets /\ 0 \in Offsets
    BY BatchesAssumption DEF TypeOK, Calls, Offsets
  <2> QED
    BY <2>1, <2>2 DEF Ops, ReadOps
<1>a. \A t \in Slots : ~InFlight(t)
  BY <1>o DEF ReadyToSend, Handles, ReadOps
<1>b. /\ flight' \in [Slots -> Flights]
      /\ flight'[s] = [kind |-> op, arg |-> arg, ack |-> Waiting]
      /\ \A t \in Slots \ {s} : flight'[t] = flight[t] /\ ~InFlight(t)'
      /\ InFlight(s)'
      /\ chan' \in Seq(Command) /\ Len(chan') = 1
      /\ chan'[1] = [kind |-> op, arg |-> arg]
      /\ job = NoCommand /\ chan = <<>> /\ worker = "running" /\ sender
  <2>1. Send(s, op, arg)
    BY <1>o
  <2> QED
    BY <1>o, <1>a, <2>1, SendFacts
<1>1. TypeOK'
  <2>1. call' \in Calls
    BY DEF Calls, TypeOK
  <2>2. token' \in [ReadSlots -> BOOLEAN]
    BY DEF TypeOK
  <2> QED
    BY <1>b, <2>1, <2>2, CapacityAssumption DEF TypeOK
<1>2. FlightInv'
  <2>1. flight'[s].kind = op /\ flight'[s].arg = arg
        /\ flight'[s].ack.tag = "waiting"
    BY <1>b DEF Waiting, Ack
  <2>2. worker' = "running" /\ pending' = NoBatch /\ job' = NoCommand
    BY <1>b
  <2> QED
    BY <1>o, <1>b, <2>1, <2>2 DEF FlightInv, InTransit
<1>3. WorkerInv'
  BY ConstantTypes, BatchesAssumption
     DEF WorkerInv, Healthy, TypeOK
<1>4. BatchInv'
  <2>1. ~Appending /\ ~Appending'
    BY <1>o, <1>b, EmptySeq DEF Appending, InTransit, NoCommand, ReadOps
  <2>2. Healthy' = Healthy
    BY DEF Healthy
  <2>3. InFlight("write")' => flight'["write"].kind # "append"
    BY <1>o, <1>b DEF Slots, ReadOps
  <2> QED
    BY <2>1, <2>2, <2>3 DEF BatchInv
<1>5. CursorInv'
  <2>1. Healthy' = Healthy /\ cursor' = cursor /\ wcursor' = wcursor
    BY DEF Healthy
  <2>2. s = "write" => flight'["write"].ack.tag = "waiting"
    BY <1>b DEF Waiting, Ack
  <2>3. Healthy => cursor = wcursor
    BY <1>a DEF CursorInv, Slots
  <2>4. s \in {"export", "fork"} => cursor.physical = cursor.durable
    BY <1>o DEF SlotOf, NeedsSync, ReadOps
  <2>5. s = "read" => flight'["read"].arg <= cursor.durable
    BY <1>o, <1>b DEF SlotOf
  <2>6. s = "fork" /\ op = "copy" => flight'["fork"].arg = cursor.durable
    BY <1>o, <1>b
  <2>7. s = "fork" => flight'["fork"].kind = op
    BY <1>b
  <2>8. cursor.durable <= wcursor.durable
    BY DEF CursorInv
  <2> HIDE DEF SendOwn, Inv
  <2> QED
    BY <1>o, <1>b, <2>1, <2>2, <2>3, <2>4, <2>5, <2>6, <2>7, <2>8
       DEF CursorInv, Slots
<1>6. OwnerInv'
  <2>1. InFlight("write")' => flight'["write"].ack.tag = "waiting"
    BY <1>o, <1>b DEF Slots, Waiting, Ack
  <2>2. wpoisoned => poisoned
    BY <1>a DEF OwnerInv, TypeOK
  <2>3. call'.op = call.op /\ call.op # "none"
    BY <1>o DEF ReadOps, TypeOK, Calls
  <2>4. sender /\ ~finished
    BY <1>b DEF OwnerInv, TypeOK
  <2> QED
    BY <2>1, <2>2, <2>3, <2>4 DEF OwnerInv, WorkerGone, Idle, TypeOK, NoCall
<1> QED
  BY <1>1, <1>2, <1>3, <1>4, <1>5, <1>6

LEMMA DeclineInv ==
    ASSUME Inv, Decline
    PROVE  Inv'
<1> USE DEF Inv, Decline, ReadyToSend, Handles, workerVars
<1>1. TypeOK'
  BY ConstantTypes, BatchesAssumption
     DEF TypeOK, Offsets, ReadSlots, Slots, Flights, Calls, Command, Cursors,
         Conclude, NoBatch, Batches, NoCall, LatchedError
<1>2. FlightInv'
  BY ConstantTypes, BatchesAssumption
     DEF FlightInv, InFlight, InTransit, TypeOK, Slots, Conclude, WorkerGone,
         NoBatch
<1>3. WorkerInv'
  BY ConstantTypes, BatchesAssumption
     DEF WorkerInv, Healthy, TypeOK
<1>4. BatchInv'
  BY ConstantTypes, BatchesAssumption
     DEF BatchInv, FlightInv, InFlight, OwnerInv, Healthy, Appending,
         InTransit, TypeOK, Usable, Slots, NoBatch, Offsets, LatchedError,
         Conclude
<1>5. CursorInv'
  BY ConstantTypes, BatchesAssumption
     DEF CursorInv, FlightInv, InFlight, Healthy, TypeOK, Slots, Conclude
<1>6. OwnerInv'
  BY ConstantTypes, BatchesAssumption
     DEF OwnerInv, FlightInv, InFlight, Healthy, Usable, Slots, WorkerGone,
         Idle, TypeOK, Conclude, LatchedError, NoCall, NoBatch
<1> QED
  BY <1>1, <1>2, <1>3, <1>4, <1>5, <1>6

LEMMA NothingToSettleInv ==
    ASSUME Inv, NothingToSettle
    PROVE  Inv'
<1> USE DEF Inv, NothingToSettle, ReadyToSend, Handles, workerVars
<1>1. TypeOK'
  BY ConstantTypes, BatchesAssumption
     DEF TypeOK, Offsets, ReadSlots, Slots, Flights, Calls, Command, Cursors,
         Conclude, NoBatch, Batches, NoCall, LatchedError
<1>2. FlightInv'
  BY ConstantTypes, BatchesAssumption
     DEF FlightInv, InFlight, InTransit, TypeOK, Slots, Conclude, WorkerGone,
         NoBatch
<1>3. WorkerInv'
  BY ConstantTypes, BatchesAssumption
     DEF WorkerInv, Healthy, TypeOK
<1>4. BatchInv'
  BY ConstantTypes, BatchesAssumption
     DEF BatchInv, FlightInv, InFlight, OwnerInv, Healthy, Appending,
         InTransit, TypeOK, Usable, Slots, NoBatch, Offsets, LatchedError,
         Conclude
<1>5. CursorInv'
  BY ConstantTypes, BatchesAssumption
     DEF CursorInv, FlightInv, InFlight, Healthy, TypeOK, Slots, Conclude
<1>6. OwnerInv'
  <2>1. acked' = acked /\ call' = NoCall
    BY DEF Conclude
  <2>2. owner = "live"
    BY DEF OwnerInv, Idle, ReadyToSend, NoCall
  <2> QED
    BY <2>1, <2>2 DEF OwnerInv, InFlight, WorkerGone, Idle, NoCall, TypeOK
<1> QED
  BY <1>1, <1>2, <1>3, <1>4, <1>5, <1>6

LEMMA FinishDropsPendingInv ==
    ASSUME Inv, FinishDropsPending
    PROVE  Inv'
<1> USE DEF Inv, FinishDropsPending, ReadyToSend, Handles, workerVars
<1>1. TypeOK'
  BY ConstantTypes, BatchesAssumption
     DEF TypeOK, Offsets, ReadSlots, Slots, Flights, Calls, Command, Cursors,
         Conclude, NoBatch, Batches, NoCall, LatchedError
<1>2. FlightInv'
  <2>1. \A s \in Slots : ~InFlight(s)
    BY DEF FlightInv
  <2> QED
    BY <2>1 DEF FlightInv, InFlight, InTransit
<1>3. WorkerInv'
  BY ConstantTypes, BatchesAssumption
     DEF WorkerInv, Healthy, TypeOK
<1>4. BatchInv'
  BY ConstantTypes, BatchesAssumption
     DEF BatchInv, FlightInv, InFlight, OwnerInv, Healthy, Appending,
         InTransit, TypeOK, Usable, Slots, NoBatch, Offsets, LatchedError,
         Conclude
<1>5. CursorInv'
  BY ConstantTypes, BatchesAssumption
     DEF CursorInv, FlightInv, InFlight, Healthy, TypeOK, Slots, Conclude
<1>6. OwnerInv'
  BY ConstantTypes, BatchesAssumption
     DEF OwnerInv, FlightInv, InFlight, Healthy, Usable, Slots, WorkerGone,
         Idle, TypeOK, Conclude, LatchedError, NoCall, NoBatch
<1> QED
  BY <1>1, <1>2, <1>3, <1>4, <1>5, <1>6

LEMMA SendRefusedInv ==
    ASSUME Inv, SendRefused
    PROVE  Inv'
<1> USE DEF Inv, SendRefused, ReadyToSend, Handles, workerVars
<1>1. TypeOK'
  BY ConstantTypes, BatchesAssumption, ZenonT(60)
     DEF TypeOK, Offsets, ReadSlots, Slots, Flights, Calls, Command, Cursors,
         Conclude, NoBatch, Batches, NoCall, LatchedError
<1>2. FlightInv'
  BY ConstantTypes, BatchesAssumption
     DEF FlightInv, InFlight, InTransit, TypeOK, Slots, Conclude, WorkerGone,
         NoBatch
<1>3. WorkerInv'
  BY ConstantTypes, BatchesAssumption
     DEF WorkerInv, Healthy, TypeOK
<1>4. BatchInv'
  BY ConstantTypes, BatchesAssumption
     DEF BatchInv, FlightInv, InFlight, OwnerInv, Healthy, Appending,
         InTransit, TypeOK, Usable, Slots, NoBatch, Offsets, LatchedError,
         Conclude
<1>5. CursorInv'
  BY ConstantTypes, BatchesAssumption
     DEF CursorInv, FlightInv, InFlight, Healthy, TypeOK, Slots, Conclude
<1>6. OwnerInv'
  BY ConstantTypes, BatchesAssumption
     DEF OwnerInv, FlightInv, InFlight, Healthy, Usable, Slots, WorkerGone,
         Idle, TypeOK, Conclude, LatchedError, NoCall, NoBatch
<1> QED
  BY <1>1, <1>2, <1>3, <1>4, <1>5, <1>6

LEMMA CancelCallInv ==
    ASSUME Inv, CancelCall
    PROVE  Inv'
<1> USE DEF Inv, CancelCall, workerVars
<1>1. TypeOK'
  BY ConstantTypes, BatchesAssumption
     DEF TypeOK, Offsets, ReadSlots, Slots, Flights, Calls, Command, Cursors,
         Conclude, NoBatch, Batches, NoCall, LatchedError
<1>2. FlightInv'
  BY ConstantTypes, BatchesAssumption
     DEF FlightInv, InFlight, InTransit, TypeOK, Slots, Conclude, WorkerGone,
         NoBatch
<1>3. WorkerInv'
  BY ConstantTypes, BatchesAssumption
     DEF WorkerInv, Healthy, TypeOK
<1>4. BatchInv'
  BY ConstantTypes, BatchesAssumption
     DEF BatchInv, FlightInv, InFlight, OwnerInv, Healthy, Appending,
         InTransit, TypeOK, Usable, Slots, NoBatch, Offsets, LatchedError,
         Conclude
<1>5. CursorInv'
  BY ConstantTypes, BatchesAssumption
     DEF CursorInv, FlightInv, InFlight, Healthy, TypeOK, Slots, Conclude
<1>6. OwnerInv'
  BY ConstantTypes, BatchesAssumption
     DEF OwnerInv, FlightInv, InFlight, Healthy, Usable, Slots, WorkerGone,
         Idle, TypeOK, Conclude, LatchedError, NoCall, NoBatch
<1> QED
  BY <1>1, <1>2, <1>3, <1>4, <1>5, <1>6

LEMMA CancelTokenInv ==
    ASSUME Inv, NEW s \in ReadSlots, CancelToken(s)
    PROVE  Inv'
<1> USE DEF Inv, CancelToken, workerVars
<1>1. TypeOK'
  BY ConstantTypes, BatchesAssumption
     DEF TypeOK, Offsets, ReadSlots, Slots, Flights, Calls, Command, Cursors,
         Conclude, NoBatch, Batches, NoCall, LatchedError
<1>2. FlightInv'
  BY ConstantTypes, BatchesAssumption
     DEF FlightInv, InFlight, InTransit, TypeOK, Slots, Conclude, WorkerGone,
         NoBatch
<1>3. WorkerInv'
  BY ConstantTypes, BatchesAssumption
     DEF WorkerInv, Healthy, TypeOK
<1>4. BatchInv'
  BY ConstantTypes, BatchesAssumption
     DEF BatchInv, FlightInv, InFlight, OwnerInv, Healthy, Appending,
         InTransit, TypeOK, Usable, Slots, NoBatch, Offsets, LatchedError,
         Conclude
<1>5. CursorInv'
  BY ConstantTypes, BatchesAssumption
     DEF CursorInv, FlightInv, InFlight, Healthy, TypeOK, Slots, Conclude
<1>6. OwnerInv'
  BY ConstantTypes, BatchesAssumption
     DEF OwnerInv, FlightInv, InFlight, Healthy, Usable, Slots, WorkerGone,
         Idle, TypeOK, Conclude, LatchedError, NoCall, NoBatch
<1> QED
  BY <1>1, <1>2, <1>3, <1>4, <1>5, <1>6

LEMMA DropInv ==
    ASSUME Inv, Drop
    PROVE  Inv'
<1> USE DEF Inv, Drop, workerVars
<1>1. TypeOK'
  BY ConstantTypes, BatchesAssumption
     DEF TypeOK, Offsets, ReadSlots, Slots, Flights, Calls, Command, Cursors,
         Conclude, NoBatch, Batches, NoCall, LatchedError
<1>2. FlightInv'
  BY ConstantTypes, BatchesAssumption
     DEF FlightInv, InFlight, InTransit, TypeOK, Slots, Conclude, WorkerGone,
         NoBatch
<1>3. WorkerInv'
  BY ConstantTypes, BatchesAssumption
     DEF WorkerInv, Healthy, TypeOK
<1>4. BatchInv'
  BY ConstantTypes, BatchesAssumption
     DEF BatchInv, FlightInv, InFlight, OwnerInv, Healthy, Appending,
         InTransit, TypeOK, Usable, Slots, NoBatch, Offsets, LatchedError,
         Conclude
<1>5. CursorInv'
  BY ConstantTypes, BatchesAssumption
     DEF CursorInv, FlightInv, InFlight, Healthy, TypeOK, Slots, Conclude
<1>6. OwnerInv'
  BY ConstantTypes, BatchesAssumption
     DEF OwnerInv, FlightInv, InFlight, Healthy, Usable, Slots, WorkerGone,
         Idle, TypeOK, Conclude, LatchedError, NoCall, NoBatch
<1> QED
  BY <1>1, <1>2, <1>3, <1>4, <1>5, <1>6

LEMMA JoinInv ==
    ASSUME Inv, Join
    PROVE  Inv'
<1> USE DEF Inv, Join, workerVars
<1>1. TypeOK'
  BY ConstantTypes, BatchesAssumption
     DEF TypeOK, Offsets, ReadSlots, Slots, Flights, Calls, Command, Cursors,
         Conclude, NoBatch, Batches, NoCall, LatchedError
<1>2. FlightInv'
  BY ConstantTypes, BatchesAssumption
     DEF FlightInv, InFlight, InTransit, TypeOK, Slots, Conclude, WorkerGone,
         NoBatch
<1>3. WorkerInv'
  BY ConstantTypes, BatchesAssumption
     DEF WorkerInv, Healthy, TypeOK
<1>4. BatchInv'
  BY ConstantTypes, BatchesAssumption
     DEF BatchInv, FlightInv, InFlight, OwnerInv, Healthy, Appending,
         InTransit, TypeOK, Usable, Slots, NoBatch, Offsets, LatchedError,
         Conclude
<1>5. CursorInv'
  BY ConstantTypes, BatchesAssumption
     DEF CursorInv, FlightInv, InFlight, Healthy, TypeOK, Slots, Conclude
<1>6. OwnerInv'
  BY ConstantTypes, BatchesAssumption
     DEF OwnerInv, FlightInv, InFlight, Healthy, Usable, Slots, WorkerGone,
         Idle, TypeOK, Conclude, LatchedError, NoCall, NoBatch
<1> QED
  BY <1>1, <1>2, <1>3, <1>4, <1>5, <1>6

LEMMA ReceiveInv ==
    ASSUME Inv, Receive
    PROVE  Inv'
<1> USE DEF Inv, Receive, ownerVars, history
<1>a. /\ Len(chan) = 1 /\ chan[1] \in Command
      /\ job' = chan[1] /\ chan' = <<>>
  BY ChannelFacts DEF TypeOK, FlightInv
<1>b. chan' \in Seq(Command) /\ Len(chan') = 0
  <2>1. <<>> \in Seq(Command) /\ Len(<<>>) = 0
    BY EmptySeq
  <2> QED
    BY <1>a, <2>1
<1>1. TypeOK'
  <2>1. Len(chan') <= COMMAND_CAPACITY
    BY <1>b, CapacityAssumption
  <2> QED
    BY <1>a, <1>b, <2>1 DEF TypeOK
<1>2. FlightInv'
  <2>1. \A c : InTransit(c) => InTransit(c)'
    BY <1>a, EmptySeq DEF InTransit
  <2> QED
    BY <1>b, <2>1 DEF FlightInv, InFlight
<1>3. WorkerInv'
  BY ConstantTypes, BatchesAssumption
     DEF WorkerInv, Healthy, TypeOK
<1>4. BatchInv'
  <2>1. Appending' = Appending
    BY <1>a, EmptySeq DEF Appending, InTransit, NoCommand
  <2> QED
    BY <2>1 DEF BatchInv, InFlight, Healthy
<1>5. CursorInv'
  BY ConstantTypes, BatchesAssumption
     DEF CursorInv, FlightInv, InFlight, Healthy, TypeOK, Slots, Conclude
<1>6. OwnerInv'
  BY ConstantTypes, BatchesAssumption
     DEF OwnerInv, FlightInv, InFlight, Healthy, Usable, Slots, WorkerGone,
         Idle, TypeOK, Conclude, LatchedError, NoCall, NoBatch
<1> QED
  BY <1>1, <1>2, <1>3, <1>4, <1>5, <1>6

LEMMA DisconnectedInv ==
    ASSUME Inv, Disconnected
    PROVE  Inv'
<1> USE DEF Inv, Disconnected, ownerVars, history
<1>1. TypeOK'
  BY ConstantTypes, BatchesAssumption
     DEF TypeOK, Offsets, ReadSlots, Slots, Flights, Calls, Command, Cursors,
         Conclude, NoBatch, Batches, NoCall, LatchedError
<1>2. FlightInv'
  <2>1. \A s \in Slots : InFlight(s) => flight[s].ack.tag # "waiting"
    <3>1. \A c \in Command : c.kind # "none" => ~InTransit(c)
      BY EmptySeq DEF InTransit, NoCommand
    <3>2. \A s \in Slots : InFlight(s) => flight[s].kind # "none" /\ flight[s] \in Flights
      BY DEF FlightInv, SlotKinds, Slots, TypeOK
    <3> QED
      BY <3>1, <3>2 DEF FlightInv, Flights, Command
  <2> QED
    BY <2>1, EmptySeq DEF FlightInv, InFlight
<1>3. WorkerInv'
  BY ConstantTypes, BatchesAssumption
     DEF WorkerInv, Healthy, TypeOK
<1>4. BatchInv'
  BY ConstantTypes, BatchesAssumption
     DEF BatchInv, FlightInv, InFlight, OwnerInv, Healthy, Appending,
         InTransit, TypeOK, Usable, Slots, NoBatch, Offsets, LatchedError,
         Conclude
<1>5. CursorInv'
  BY ConstantTypes, BatchesAssumption
     DEF CursorInv, FlightInv, InFlight, Healthy, TypeOK, Slots, Conclude
<1>6. OwnerInv'
  BY ConstantTypes, BatchesAssumption
     DEF OwnerInv, FlightInv, InFlight, Healthy, Usable, Slots, WorkerGone,
         Idle, TypeOK, Conclude, LatchedError, NoCall, NoBatch
<1> QED
  BY <1>1, <1>2, <1>3, <1>4, <1>5, <1>6

\* One answered command: what its handler must respect for Inv to survive.
LEMMA AnswerInv ==
    ASSUME Inv, job # NoCommand,
           NEW s \in Slots, job.kind \in SlotKinds(s),
           NEW ack \in Acks, ack.tag \notin {"waiting", "lost"}, Reply(s, ack),
           worker' = IF job.kind = "finish" THEN "exited" ELSE worker,
           wcursor' \in Cursors, wpoisoned' \in BOOLEAN, torn' \in BOOLEAN,
           file' \in Seq(Batches), synced' \in Offsets, WorkerInv',
           \A i \in 1..Len(file') : file'[i] = i,
           Len(file') <= staged,
           Healthy' /\ finishError = "none" => Len(file') = staged,
           ack.tag = "poisoned" => wpoisoned',
           wpoisoned => wpoisoned',
           wpoisoned' => wpoisoned \/ ack.tag = "poisoned",
           ack.tag = "cursor" => ~wpoisoned' /\ ack.cursor = wcursor',
           s # "write" => wcursor' = wcursor,
           wcursor.durable <= wcursor'.durable, synced <= synced',
           /\ ack.tag = "cursor" /\ job.kind \in {"barrier", "finish"}
           /\ finishError = "none"
           => synced' = staged
    PROVE  Inv'
<1> USE DEF Inv
<1>a. /\ InFlight(s) /\ flight[s].ack.tag = "waiting"
      /\ worker = "running" /\ pending = NoBatch
      /\ flight[s].kind = job.kind /\ flight[s].arg = job.arg
      /\ \A t \in Slots \ {s} : ~InFlight(t)
  BY ServedSlot
<1>b. /\ flight' \in [Slots -> Flights]
      /\ flight'[s] = [kind |-> job.kind, arg |-> job.arg, ack |-> ack]
      /\ \A t \in Slots \ {s} : flight'[t] = flight[t] /\ ~InFlight(t)'
      /\ InFlight(s)'
      /\ job' = NoCommand /\ chan' = <<>>
  BY ReplyFacts
<1>c. /\ staged' = staged /\ acked' = acked /\ pending' = pending
      /\ token' = token /\ cursor' = cursor /\ poisoned' = poisoned
      /\ finished' = finished /\ finishError' = finishError
      /\ sender' = sender /\ owner' = owner /\ boundary' = boundary
      /\ call' = call
  BY DEF Reply, history
<1>d. chan' \in Seq(Command) /\ Len(chan') = 0
  BY <1>b, EmptySeq
<1>e. ~finished /\ (wpoisoned => poisoned)
  BY <1>a DEF OwnerInv, WorkerGone, TypeOK
<1>1. TypeOK'
  <2>1. Len(chan') <= COMMAND_CAPACITY
    BY <1>d, CapacityAssumption
  <2>2. Len(file') <= MaxBatches
    BY BatchesAssumption DEF TypeOK, BatchInv, Offsets
  <2>3. worker' \in {"running", "exited", "died"}
    BY DEF TypeOK
  <2> HIDE DEF Inv
  <2> QED
    BY <1>b, <1>c, <1>d, <2>1, <2>2, <2>3, ConstantTypes DEF TypeOK, Inv
<1>2. FlightInv'
  <2>1. job'  = NoCommand /\ Len(chan') <= 1 /\ chan' = <<>>
    BY <1>b, <1>d
  <2>2. job.kind = "finish" => worker' = "exited"
    OBVIOUS
  <2> QED
    BY <1>a, <1>b, <1>c, <2>1, <2>2 DEF FlightInv
<1>3. BatchInv'
  <2>1. ~Appending'
    BY <1>b, <1>d DEF Appending, InTransit, NoCommand
  <2>2. s = "write" /\ job.kind = "append" => job.arg = staged
    BY <1>a DEF BatchInv
  <2>3. InFlight("write")' => s = "write"
    BY <1>b DEF Slots
  <2> QED
    BY <1>a, <1>b, <1>c, <2>1, <2>2, <2>3 DEF BatchInv
<1>4. CursorInv'
  <2>1. cursor.durable <= wcursor'.durable
    BY DEF CursorInv, TypeOK, Cursors, Offsets
  <2>2. Healthy' /\ ~InFlight("write")' => cursor = wcursor'
    <3>1. Healthy' => Healthy
      BY <1>a DEF Healthy, TypeOK
    <3>2. ~InFlight("write")' => s # "write" /\ ~InFlight("write")
      BY <1>a, <1>b DEF Slots
    <3> QED
      BY <3>1, <3>2 DEF CursorInv
  <2>3. \A t \in Slots : InFlight(t)' =>
          /\ InFlight(t) /\ flight'[t].kind = flight[t].kind
          /\ flight'[t].arg = flight[t].arg /\ flight'[t].ack = ack
    BY <1>a, <1>b
  <2> QED
    BY <1>c, <2>1, <2>2, <2>3 DEF CursorInv, Slots
<1>5. OwnerInv'
  <2>1. wpoisoned' /\ ~poisoned' =>
          \E t \in Slots : InFlight(t)' /\ flight'[t].ack.tag = "poisoned"
    BY <1>b, <1>c, <1>e
  <2>2. ~sender /\ owner = "live" => FALSE
    BY <1>a DEF OwnerInv, WorkerGone
  <2>3. acked' <= synced'
    BY <1>c DEF OwnerInv, TypeOK, Offsets
  <2>4. InFlight("write")' => /\ s = "write"
                              /\ flight'["write"].kind = job.kind
                              /\ flight'["write"].ack = ack
    BY <1>b DEF Slots
  <2>5. Idle' = Idle
    BY <1>c DEF Idle
  <2> QED
    BY <1>c, <1>e, <2>1, <2>2, <2>3, <2>4, <2>5 DEF OwnerInv
<1> QED
  BY <1>1, <1>2, <1>3, <1>4, <1>5

\* A rollback keeps the durable prefix and repeats nothing.
LEMMA RollbackFacts ==
    ASSUME Inv, Healthy, NEW t \in BOOLEAN, Rollback(t)
    PROVE  /\ wpoisoned' = TRUE /\ wcursor' \in Cursors /\ torn' \in BOOLEAN
           /\ file' \in Seq(Batches) /\ synced' \in Offsets
           /\ WorkerInv'
           /\ \A i \in 1..Len(file') : file'[i] = i
           /\ Len(file') <= staged
           /\ wcursor'.durable = wcursor.durable /\ synced' = synced
<1> DEFINE d == wcursor.durable
<1>1. /\ wcursor \in Cursors /\ d \in Offsets /\ file \in Seq(Batches)
      /\ staged \in Offsets /\ torn \in BOOLEAN /\ synced \in Offsets
      /\ Len(file) \in Nat
  BY DEF Inv, TypeOK, Cursors
<1>2. /\ d = synced /\ synced <= Len(file)
      /\ \A i \in 1..Len(file) : file[i] = i
      /\ Len(file) <= staged
  BY DEF Inv, WorkerInv, BatchInv, Healthy
<1>3. /\ wpoisoned' = TRUE /\ synced' = synced
      /\ wcursor' = [wcursor EXCEPT !.physical = d]
      /\ torn' \in BOOLEAN
  BY <1>1 DEF Rollback
<1>4. wcursor' \in Cursors /\ wcursor'.durable = d /\ wcursor'.physical = d
  BY <1>1, <1>3 DEF Cursors
<1>5. /\ file' \in Seq(Batches) /\ Len(file') \in {d, Len(file)}
      /\ \A i \in 1..Len(file') : file'[i] = i
  <2>1. CASE file' = SubSeq(file, 1, d)
    <3>1. d \in 0..Len(file)
      BY <1>1, <1>2 DEF Offsets
    <3>2. /\ SubSeq(file, 1, d) \in Seq(Batches) /\ Len(SubSeq(file, 1, d)) = d
          /\ \A i \in 1..d : SubSeq(file, 1, d)[i] = file[i]
      BY <1>1, <3>1, PrefixFacts
    <3> QED
      BY <1>1, <1>2, <2>1, <3>1, <3>2 DEF Offsets
  <2>2. CASE file' = file
    BY <1>1, <1>2, <2>2
  <2> QED
    BY <2>1, <2>2 DEF Rollback
<1>6. WorkerInv' /\ Len(file') <= staged
  BY <1>1, <1>2, <1>3, <1>4, <1>5 DEF WorkerInv, Healthy, Offsets
<1> QED
  BY <1>1, <1>3, <1>4, <1>5, <1>6

\* A poisoned worker answers every command with an error and does nothing.
LEMMA PoisonedAnswerInv ==
    ASSUME Inv, job # NoCommand, wpoisoned,
           NEW s \in Slots, job.kind \in SlotKinds(s), Reply(s, Poisoned),
           worker' = IF job.kind = "finish" THEN "exited" ELSE worker,
           UNCHANGED <<wcursor, wpoisoned, file, torn, synced>>
    PROVE  Inv'
<1>1. Poisoned \in Acks /\ Poisoned.tag = "poisoned"
  BY ConstantTypes DEF Poisoned, Ack
<1>2. worker = "running"
  BY ServedSlot
<1>3. WorkerInv'
  BY <1>2 DEF Inv, WorkerInv, Healthy
<1>4. /\ wcursor' \in Cursors /\ wpoisoned' \in BOOLEAN /\ torn' \in BOOLEAN
      /\ file' \in Seq(Batches) /\ synced' \in Offsets
      /\ wcursor.durable <= wcursor'.durable /\ synced <= synced'
  BY DEF Inv, TypeOK, Cursors, Offsets
<1>5. (\A i \in 1..Len(file') : file'[i] = i) /\ Len(file') <= staged
  BY DEF Inv, BatchInv
<1>6. ~Healthy'
  BY DEF Healthy
<1> QED
  BY <1>1, <1>3, <1>4, <1>5, <1>6, AnswerInv

LEMMA WorkerAppendInv ==
    ASSUME Inv, WorkerAppend
    PROVE  Inv'
<1>a. /\ job # NoCommand /\ job.kind \in SlotKinds("write") /\ "write" \in Slots
      /\ job.kind = "append"
  BY DEF WorkerAppend, NoCommand, SlotKinds, Slots
<1>b. /\ worker = "running" /\ chan = <<>> /\ job.arg = staged
      /\ job \in Command /\ flight["write"].kind = "append"
  BY <1>a, ServedSlot DEF Inv, BatchInv, TypeOK
<1>c. worker' = IF job.kind = "finish" THEN "exited" ELSE worker
  BY <1>a DEF WorkerAppend
<1>1. CASE wpoisoned /\ Reply("write", Poisoned)
           /\ UNCHANGED <<wcursor, wpoisoned, file, torn, synced>>
  BY <1>1, <1>a, <1>c, PoisonedAnswerInv
<1>2. CASE /\ ~wpoisoned
           /\ file' = Append(file, job.arg)
           /\ wcursor' = [wcursor EXCEPT !.physical = @ + 1]
           /\ Reply("write", Ack("cursor", wcursor', 0))
           /\ UNCHANGED <<wpoisoned, torn, synced>>
  <2>1. Healthy /\ Appending
    BY <1>2, <1>a, <1>b DEF Healthy, Appending, InTransit, Command
  <2>2. /\ Len(file) + 1 = staged /\ wcursor.physical = Len(file)
        /\ wcursor.durable = synced /\ synced <= Len(file)
        /\ \A i \in 1..Len(file) : file[i] = i
    BY <1>b, <2>1 DEF Inv, BatchInv, WorkerInv
  <2>3. /\ wcursor \in Cursors /\ staged \in Offsets /\ file \in Seq(Batches)
        /\ synced \in Offsets /\ torn \in BOOLEAN /\ Len(file) \in Nat
        /\ 0 \in Offsets
    BY BatchesAssumption DEF Inv, TypeOK, Offsets
  <2>4. staged \in Batches
    BY <2>2, <2>3 DEF Batches, Offsets
  <2>5. /\ file' \in Seq(Batches) /\ Len(file') = staged
        /\ \A i \in 1..Len(file') : file'[i] = i
    BY <1>2, <1>b, <2>2, <2>3, <2>4, AppendFacts
  <2>6. /\ wcursor' \in Cursors /\ wcursor'.physical = staged
        /\ wcursor'.durable = wcursor.durable
    BY <1>2, <2>2, <2>3 DEF Cursors
  <2>7. WorkerInv'
    BY <1>2, <1>c, <2>2, <2>3, <2>5, <2>6 DEF WorkerInv, Healthy, Offsets
  <2>8. PICK ack \in Acks : ack = Ack("cursor", wcursor', 0)
    BY <2>3, <2>6, AckType DEF AckTags
  <2>9. ack.tag = "cursor" /\ ack.cursor = wcursor' /\ Reply("write", ack)
    BY <1>2, <2>8 DEF Ack
  <2>10. wcursor.durable <= wcursor'.durable /\ synced <= synced'
    BY <1>2, <2>3, <2>6 DEF Cursors, Offsets
  <2>11. Len(file') <= staged /\ synced' \in Offsets /\ torn' \in BOOLEAN
         /\ wpoisoned' \in BOOLEAN /\ ~wpoisoned'
    <3>1. wpoisoned \in BOOLEAN
      BY DEF Inv, TypeOK
    <3> QED
      BY <1>2, <2>3, <2>5, <3>1 DEF Offsets
  <2>12. "write" \in Slots /\ ack.tag \notin {"waiting", "lost"}
         /\ job.kind \notin {"barrier", "finish"} /\ ~wpoisoned
    BY <1>2, <1>a, <2>9
  <2> QED
    BY <1>a, <1>c, <2>5, <2>6, <2>7, <2>8, <2>9, <2>10, <2>11, <2>12, AnswerInv
<1>3. CASE ~wpoisoned /\ Rollback(TRUE) /\ Reply("write", Poisoned)
  <2>1. Healthy
    BY <1>3, <1>b DEF Healthy
  <2>2. Poisoned \in Acks /\ Poisoned.tag = "poisoned"
    BY ConstantTypes DEF Poisoned, Ack
  <2>3. /\ wpoisoned' = TRUE /\ wcursor' \in Cursors /\ torn' \in BOOLEAN
        /\ file' \in Seq(Batches) /\ synced' \in Offsets
        /\ WorkerInv'
        /\ \A i \in 1..Len(file') : file'[i] = i
        /\ Len(file') <= staged
        /\ wcursor'.durable = wcursor.durable /\ synced' = synced
    BY <1>3, <2>1, RollbackFacts
  <2>4. wcursor.durable <= wcursor'.durable /\ synced <= synced'
    BY <2>3 DEF Inv, TypeOK, Cursors, Offsets
  <2>5. ~Healthy'
    BY <2>3 DEF Healthy
  <2> QED
    BY <1>3, <1>a, <1>c, <2>2, <2>3, <2>4, <2>5, AnswerInv
<1> QED
  BY <1>1, <1>2, <1>3 DEF WorkerAppend

LEMMA WorkerSyncInv ==
    ASSUME Inv, WorkerSync
    PROVE  Inv'
<1>a. /\ job # NoCommand /\ job.kind \in SlotKinds("write") /\ "write" \in Slots
      /\ job.kind \in {"barrier", "finish"}
  BY DEF WorkerSync, NoCommand, SlotKinds, Slots
<1>b. /\ worker = "running" /\ chan = <<>> /\ pending = NoBatch
      /\ flight["write"].kind = job.kind
  BY <1>a, ServedSlot
<1>c. worker' = IF job.kind = "finish" THEN "exited" ELSE worker
  BY DEF WorkerSync
<1>1. CASE wpoisoned /\ Reply("write", Poisoned)
           /\ UNCHANGED <<wcursor, wpoisoned, file, torn, synced>>
  BY <1>1, <1>a, <1>c, PoisonedAnswerInv
<1>2. CASE /\ ~wpoisoned
           /\ synced' = Len(file)
           /\ wcursor' = [wcursor EXCEPT !.durable = wcursor.physical]
           /\ Reply("write", Ack("cursor", wcursor', 0))
           /\ UNCHANGED <<wpoisoned, file, torn>>
  <2>1. Healthy /\ ~Appending
    BY <1>2, <1>a, <1>b, EmptySeq DEF Healthy, Appending, InTransit
  <2>2. /\ wcursor.physical = Len(file)
        /\ wcursor.durable = synced /\ synced <= Len(file)
        /\ \A i \in 1..Len(file) : file[i] = i
        /\ Len(file) <= staged
        /\ finishError = "none" => Len(file) = staged
    BY <1>b, <2>1 DEF Inv, BatchInv, WorkerInv, Healthy
  <2>3. /\ wcursor \in Cursors /\ staged \in Offsets /\ file \in Seq(Batches)
        /\ synced \in Offsets /\ torn \in BOOLEAN /\ Len(file) \in Nat
        /\ wpoisoned \in BOOLEAN /\ 0 \in Offsets /\ Len(file) <= MaxBatches
    BY BatchesAssumption DEF Inv, TypeOK, Offsets
  <2>4. /\ wcursor' \in Cursors /\ wcursor'.physical = Len(file)
        /\ wcursor'.durable = Len(file)
    BY <1>2, <2>2, <2>3 DEF Cursors
  <2>5. WorkerInv'
    BY <1>2, <2>3, <2>4 DEF WorkerInv
  <2>6. PICK ack \in Acks : ack = Ack("cursor", wcursor', 0)
    BY <2>3, <2>4, AckType DEF AckTags
  <2>7. /\ ack.tag = "cursor" /\ ack.cursor = wcursor' /\ Reply("write", ack)
        /\ ack.tag \notin {"waiting", "lost"}
    BY <1>2, <2>6 DEF Ack
  <2>8. wcursor.durable <= wcursor'.durable /\ synced <= synced'
    BY <1>2, <2>2, <2>4
  <2>9. /\ Len(file') <= staged /\ synced' \in Offsets /\ torn' \in BOOLEAN
        /\ file' \in Seq(Batches) /\ wpoisoned' \in BOOLEAN
        /\ wpoisoned' = wpoisoned /\ ~wpoisoned
        /\ \A i \in 1..Len(file') : file'[i] = i
    BY <1>2, <2>2, <2>3 DEF Offsets
  <2>10. finishError = "none" => Len(file') = staged /\ synced' = staged
    BY <1>2, <2>2
  <2> QED
    BY <1>a, <1>c, <2>4, <2>5, <2>6, <2>7, <2>8, <2>9, <2>10, AnswerInv
<1>3. CASE ~wpoisoned /\ Rollback(FALSE) /\ Reply("write", Poisoned)
  <2>1. Healthy
    BY <1>3, <1>b DEF Healthy
  <2>2. Poisoned \in Acks /\ Poisoned.tag = "poisoned"
    BY ConstantTypes DEF Poisoned, Ack
  <2>3. /\ wpoisoned' = TRUE /\ wcursor' \in Cursors /\ torn' \in BOOLEAN
        /\ file' \in Seq(Batches) /\ synced' \in Offsets
        /\ WorkerInv'
        /\ \A i \in 1..Len(file') : file'[i] = i
        /\ Len(file') <= staged
        /\ wcursor'.durable = wcursor.durable /\ synced' = synced
    BY <1>3, <2>1, RollbackFacts
  <2>4. wcursor.durable <= wcursor'.durable /\ synced <= synced'
    BY <2>3 DEF Inv, TypeOK, Cursors, Offsets
  <2>5. ~Healthy'
    BY <2>3 DEF Healthy
  <2> QED
    BY <1>3, <1>a, <1>c, <2>2, <2>3, <2>4, <2>5, AnswerInv
<1> QED
  BY <1>1, <1>2, <1>3 DEF WorkerSync

LEMMA WorkerReadInv ==
    ASSUME Inv, WorkerRead
    PROVE  Inv'
<1>a. PICK s \in Slots : /\ s = SlotOf(job.kind) /\ s # "write"
                         /\ job.kind \in SlotKinds(s)
  BY DEF WorkerRead, ReadOps, SlotOf, SlotKinds, Slots
<1>b. /\ job # NoCommand /\ job.kind \notin {"append", "barrier", "finish"}
      /\ job \in Command
  BY DEF WorkerRead, ReadOps, NoCommand, Inv, TypeOK
<1>c. /\ worker = "running" /\ chan = <<>> /\ pending = NoBatch
  BY <1>a, <1>b, ServedSlot
<1>d. /\ worker' = IF job.kind = "finish" THEN "exited" ELSE worker
      /\ UNCHANGED <<worker, wcursor, file, torn, synced>>
  BY <1>b DEF WorkerRead
<1>e. /\ wcursor \in Cursors /\ staged \in Offsets /\ file \in Seq(Batches)
      /\ synced \in Offsets /\ torn \in BOOLEAN /\ wpoisoned \in BOOLEAN
      /\ 0 \in Offsets /\ wcursor.durable \in Offsets
  BY BatchesAssumption DEF Inv, TypeOK, Offsets, Cursors
<1>f. /\ \A i \in 1..Len(file) : file[i] = i
      /\ Len(file) <= staged
      /\ Healthy /\ finishError = "none" => Len(file) = staged
  <2>1. ~Appending
    BY <1>b, <1>c, EmptySeq DEF Appending, InTransit
  <2> QED
    BY <1>c, <2>1 DEF Inv, BatchInv
<1>g. wcursor.durable <= wcursor'.durable /\ synced <= synced'
  BY <1>d, <1>e DEF Offsets
<1>1. CASE wpoisoned /\ Reply(s, Poisoned) /\ UNCHANGED wpoisoned
  BY <1>1, <1>a, <1>b, <1>d, PoisonedAnswerInv
<1>2. ASSUME ~wpoisoned, UNCHANGED wpoisoned,
             NEW ack \in Acks, Reply(s, ack),
             ack.tag \notin {"waiting", "lost", "poisoned", "cursor"}
      PROVE  Inv'
  <2>1. WorkerInv' /\ Healthy' = Healthy
    BY <1>2, <1>d DEF Inv, WorkerInv, Healthy
  <2>2. wpoisoned' \in BOOLEAN /\ ~wpoisoned'
    BY <1>2, <1>e
  <2> QED
    BY <1>2, <1>a, <1>b, <1>d, <1>e, <1>f, <1>g, <2>1, <2>2, AnswerInv
<1>3. CASE ~wpoisoned /\ Reply(s, Poisoned) /\ wpoisoned' = TRUE
  <2>1. Poisoned \in Acks /\ Poisoned.tag = "poisoned"
    BY ConstantTypes DEF Poisoned, Ack
  <2>2. WorkerInv' /\ ~Healthy'
    BY <1>3, <1>d DEF Inv, WorkerInv, Healthy
  <2> QED
    BY <1>3, <1>a, <1>b, <1>d, <1>e, <1>f, <1>g, <2>1, <2>2, AnswerInv
<1>4. ASSUME NEW tag \in {"cancelled", "data", "changed"} \cup
                         ReadRefusals(job.kind),
             NEW d \in Offsets
      PROVE  /\ Ack(tag, Zero, d) \in Acks
             /\ Ack(tag, Zero, d).tag
                  \notin {"waiting", "lost", "poisoned", "cursor"}
  <2>1. tag \in {"cancelled", "data", "changed", "destination", "unavailable"}
    BY <1>4 DEF ReadRefusals
  <2>2. tag \in AckTags
    BY <2>1 DEF AckTags, Refusals
  <2>3. Ack(tag, Zero, d) \in Acks
    BY <2>2, ConstantTypes, AckType
  <2> QED
    BY <2>1, <2>3 DEF Ack
<1>5. job.arg \in Offsets
  BY <1>b DEF Command
<1>6. CASE ~wpoisoned /\ UNCHANGED wpoisoned
           /\ Reply(s, Ack("cancelled", Zero, 0))
  BY <1>2, <1>4, <1>6, <1>e
<1>7. CASE ~wpoisoned /\ UNCHANGED wpoisoned
           /\ Reply(s, Ack("changed", Zero, 0))
  BY <1>2, <1>4, <1>7, <1>e
<1>8. ASSUME ~wpoisoned, UNCHANGED wpoisoned,
             NEW tag \in ReadRefusals(job.kind), Reply(s, Ack(tag, Zero, 0))
      PROVE  Inv'
  BY <1>2, <1>4, <1>8, <1>e
<1>9. CASE ~wpoisoned /\ UNCHANGED wpoisoned
           /\ Reply(s, Ack("data", Zero, IF job.kind = "read"
                                         THEN job.arg ELSE wcursor.durable))
  <2>1. PICK d \in Offsets :
          d = IF job.kind = "read" THEN job.arg ELSE wcursor.durable
    BY <1>5, <1>e
  <2>2. Reply(s, Ack("data", Zero, d))
    BY <1>9, <2>1
  <2> QED
    BY <1>2, <1>4, <1>9, <2>2
<1> QED
  BY <1>a, <1>1, <1>3, <1>6, <1>7, <1>8, <1>9 DEF WorkerRead

\* The thread's death turns every awaited answer into a lost one.
LEMMA WorkerDiesInv ==
    ASSUME Inv, WorkerDies
    PROVE  Inv'
<1>a. /\ worker = "running" /\ worker' = "died"
      /\ job' = NoCommand /\ chan' = <<>>
      /\ UNCHANGED <<wcursor, wpoisoned, pending, token, cursor, poisoned,
                     finished, finishError, sender, owner, boundary, call,
                     staged, acked>>
  BY DEF WorkerDies, history
<1>b. /\ flight \in [Slots -> Flights] /\ file \in Seq(Batches)
      /\ synced \in Offsets /\ staged \in Offsets /\ acked \in Offsets
      /\ torn \in BOOLEAN /\ wcursor \in Cursors
      /\ Len(file) \in Nat /\ Len(file) <= staged /\ staged <= MaxBatches
      /\ job \in Command /\ wpoisoned \in BOOLEAN
  BY DEF Inv, TypeOK, BatchInv
<1>1. /\ flight' \in [Slots -> Flights]
      /\ \A s \in Slots :
           /\ flight'[s] = flight[s] \/ (InFlight(s) /\ flight'[s].ack = Lost)
           /\ flight'[s].kind = flight[s].kind
           /\ flight'[s].arg = flight[s].arg
           /\ InFlight(s)' = InFlight(s)
           /\ InFlight(s) => flight'[s].ack.tag # "waiting"
  <2>1. flight' = [s \in Slots |->
                    IF InFlight(s) /\ flight[s].ack.tag = "waiting"
                    THEN [flight[s] EXCEPT !.ack = Lost] ELSE flight[s]]
    BY DEF WorkerDies
  <2>2. ASSUME NEW s \in Slots
        PROVE  /\ flight[s] \in Flights
               /\ [flight[s] EXCEPT !.ack = Lost] \in Flights
               /\ [flight[s] EXCEPT !.ack = Lost].ack = Lost
               /\ [flight[s] EXCEPT !.ack = Lost].kind = flight[s].kind
               /\ [flight[s] EXCEPT !.ack = Lost].arg = flight[s].arg
    BY <1>b, ConstantTypes DEF Flights
  <2>3. Lost.tag = "lost" /\ Waiting.tag = "waiting"
    BY DEF Lost, Waiting, Ack
  <2>4. flight' \in [Slots -> Flights]
    BY <2>1, <2>2
  <2>5. ASSUME NEW s \in Slots
        PROVE  /\ flight'[s] = flight[s] \/ (InFlight(s) /\ flight'[s].ack = Lost)
               /\ flight'[s].kind = flight[s].kind
               /\ flight'[s].arg = flight[s].arg
               /\ InFlight(s) => flight'[s].ack.tag # "waiting"
    BY <2>1, <2>2, <2>3
  <2>6. ASSUME NEW s \in Slots
        PROVE  InFlight(s)' = InFlight(s)
    <3>1. CASE flight'[s] = flight[s]
      BY <3>1 DEF InFlight
    <3>2. CASE InFlight(s) /\ flight'[s].ack = Lost
      BY <3>2, <2>3 DEF InFlight, NoFlight
    <3> QED
      BY <3>1, <3>2, <2>5
  <2> QED
    BY <2>4, <2>5, <2>6
<1>2. /\ file' \in Seq(Batches) /\ Len(file') \in Nat
      /\ Len(file) <= Len(file') /\ Len(file') <= staged
      /\ \A i \in 1..Len(file') : file'[i] = i
      /\ torn' \in BOOLEAN
  <2>1. CASE UNCHANGED file /\ torn' \in BOOLEAN
    BY <2>1, <1>b DEF Inv, BatchInv
  <2>2. CASE /\ job.kind = "append" /\ ~wpoisoned
             /\ file' = Append(file, job.arg) /\ torn' = torn
    <3>1. job # NoCommand /\ "write" \in Slots /\ job.kind \in SlotKinds("write")
      BY <2>2 DEF NoCommand, Slots, SlotKinds
    <3>2. /\ InFlight("write") /\ flight["write"].kind = "append"
          /\ flight["write"].arg = job.arg /\ chan = <<>>
      BY <2>2, <3>1, ServedSlot
    <3>3. job.arg = staged
      BY <3>2 DEF Inv, BatchInv
    <3>4. Appending
      BY <2>2, <3>2, <3>3, <1>b DEF Appending, InTransit, Command
    <3>5. Len(file) + 1 = staged
      BY <2>2, <1>a, <3>4 DEF Inv, BatchInv, Healthy
    <3>6. job.arg \in Batches
      BY <3>3, <3>5, <1>b DEF Batches, Offsets
    <3>7. /\ file' \in Seq(Batches) /\ Len(file') = Len(file) + 1
          /\ \A i \in 1..Len(file) : file'[i] = file[i]
          /\ file'[Len(file) + 1] = job.arg
      BY <2>2, <3>6, <1>b, AppendFacts
    <3>8. \A i \in 1..Len(file') : file'[i] = i
      BY <3>3, <3>5, <3>7, <1>b DEF Inv, BatchInv, Offsets
    <3> QED
      BY <2>2, <3>5, <3>7, <3>8, <1>b DEF Offsets
  <2> QED
    BY <2>1, <2>2, <1>b DEF WorkerDies
<1>3. /\ synced' \in Offsets /\ synced <= synced' /\ synced' <= Len(file')
  <2>1. synced <= Len(file)
    BY DEF Inv, WorkerInv
  <2>2. synced' = synced \/ synced' = Len(file)
    BY DEF WorkerDies
  <2> QED
    BY <2>1, <2>2, <1>2, <1>b, BatchesAssumption DEF Offsets
<1>4. TypeOK'
  <2>1. chan' \in Seq(Command) /\ Len(chan') <= COMMAND_CAPACITY
    BY <1>a, CapacityAssumption, EmptySeq
  <2>2. Len(file') <= MaxBatches
    BY <1>2, <1>b, BatchesAssumption DEF Offsets
  <2> QED
    BY <1>a, <1>1, <1>2, <1>3, <2>1, <2>2, ConstantTypes DEF Inv, TypeOK
<1>5. FlightInv'
  <2>1. Len(chan') = 0
    BY <1>a, EmptySeq
  <2>2. Lost.tag = "lost"
    BY DEF Lost, Ack
  <2>3. ASSUME NEW s \in Slots, InFlight(s)'
        PROVE  /\ pending' = NoBatch
               /\ flight'[s].kind \in SlotKinds(s)
               /\ flight'[s].ack.tag # "waiting"
               /\ ~(/\ flight'[s].ack.tag \in {"cursor", "poisoned"}
                    /\ flight'[s].kind = "finish")
               /\ flight'[s].ack.tag = "poisoned" => wpoisoned'
    BY <2>2, <2>3, <1>1, <1>a DEF Inv, FlightInv
  <2>4. \A s, t \in Slots : InFlight(s)' /\ InFlight(t)' => s = t
    BY <1>1 DEF Inv, FlightInv
  <2> QED
    BY <2>1, <2>3, <2>4, <1>a DEF FlightInv
<1>6. WorkerInv'
  <2>1. wcursor.durable \in Nat /\ wcursor.physical \in Nat
    BY <1>b DEF Cursors, Offsets
  <2> QED
    BY <2>1, <1>a, <1>b, <1>2, <1>3 DEF Inv, WorkerInv, Healthy, Offsets
<1>7. BatchInv'
  BY <1>a, <1>b, <1>1, <1>2 DEF Inv, BatchInv, Healthy, Slots
<1>8. CursorInv'
  <2>1. Lost.tag = "lost"
    BY DEF Lost, Ack
  <2> QED
    BY <2>1, <1>a, <1>1 DEF Inv, CursorInv, Healthy, Slots
<1>9. OwnerInv'
  <2>1. Lost.tag = "lost" /\ synced <= Len(file)
    BY DEF Lost, Ack, Inv, WorkerInv
  <2>2. synced = staged => synced' = staged
    BY <2>1, <1>b, <1>2, <1>3 DEF Offsets
  <2>3. acked <= synced'
    BY <1>b, <1>3 DEF Inv, OwnerInv, Offsets
  <2>4. wpoisoned' /\ ~poisoned' =>
          \E s \in Slots : InFlight(s)' /\ flight'[s].ack.tag = "poisoned"
    <3> SUFFICES ASSUME wpoisoned, ~poisoned
                 PROVE \E s \in Slots :
                         InFlight(s)' /\ flight'[s].ack.tag = "poisoned"
      BY <1>a
    <3>1. PICK s \in Slots : InFlight(s) /\ flight[s].ack.tag = "poisoned"
      BY DEF Inv, OwnerInv
    <3>2. flight'[s] = flight[s]
      BY <3>1, <1>1 DEF WorkerDies
    <3> QED
      BY <3>1, <3>2, <1>1
  <2>5. ~finished
    BY <1>a DEF Inv, OwnerInv, WorkerGone
  <2> QED
    BY <2>1, <2>2, <2>3, <2>4, <2>5, <1>a, <1>1
       DEF Inv, OwnerInv, WorkerGone, Idle, Slots
<1> QED
  BY <1>4, <1>5, <1>6, <1>7, <1>8, <1>9 DEF Inv

-----------------------------------------------------------------------------
(* The theorems *)

LEMMA NextInv ==
    ASSUME Inv, [Next]_vars
    PROVE  Inv'
<1>1. CASE UNCHANGED vars
  BY <1>1 DEF vars, Inv, TypeOK, FlightInv, WorkerInv, BatchInv, CursorInv,
              OwnerInv, InFlight, InTransit, Appending, Healthy, WorkerGone,
              Idle
<1>2. CASE Stage \/ StageInvalidPrunePrefix \/ LatchPoison
  BY <1>2, StageInv, StageInvalidPrunePrefixInv, LatchPoisonInv
<1>3. CASE BeginCall
  <2>1. PICK op \in Ops : \E row \in IF op = "read" THEN 1..staged ELSE {0} :
                            Begin(op, row)
    BY <1>3 DEF BeginCall
  <2>2. PICK row \in IF op = "read" THEN 1..staged ELSE {0} : Begin(op, row)
    BY <2>1
  <2>3. row \in Offsets
    BY <2>2, BatchesAssumption DEF Inv, TypeOK, Offsets
  <2> QED
    BY <2>2, <2>3, BeginInv
<1>4. CASE Poll
  BY <1>4, SettleCursorInv, SettleFailureInv, SettleReadInv, FlushPendingInv,
     SynchroniseInv, SendOwnInv, DeclineInv, NothingToSettleInv,
     FinishDropsPendingInv, SendRefusedInv
     DEF Poll
<1>5. CASE CancelCall
  BY <1>5, CancelCallInv
<1>6. CASE \E s \in ReadSlots : CancelToken(s)
  BY <1>6, CancelTokenInv
<1>7. CASE Drop \/ Join
  BY <1>7, DropInv, JoinInv
<1>8. CASE Work
  BY <1>8, ReceiveInv, DisconnectedInv, WorkerAppendInv, WorkerSyncInv,
     WorkerReadInv
     DEF Work
<1>9. CASE WorkerDies
  BY <1>9, WorkerDiesInv
<1>10. CASE Terminated
  BY <1>1, <1>10 DEF Terminated
<1> QED
  BY <1>1, <1>2, <1>3, <1>4, <1>5, <1>6, <1>7, <1>8, <1>9, <1>10 DEF Next

\* The inductive invariant holds in every reachable state.
THEOREM Invariance == Spec => []Inv
<1>1. Init => Inv
  BY InitInv
<1>2. Inv /\ [Next]_vars => Inv'
  BY NextInv
<1> QED
  BY <1>1, <1>2, PTL DEF Spec

\* Type correctness: every variable of the owner and the worker keeps its type,
\* for any number of batches and any channel capacity.
THEOREM TypeCorrect == Spec => []TypeOK
<1>1. Inv => TypeOK
  BY DEF Inv
<1> QED
  BY <1>1, Invariance, PTL

\* The file never repeats, skips or reorders a batch, however waits are
\* cancelled and whatever writes, rollbacks or the thread's death do.
THEOREM NoReordering == Spec => []FileInOrder
<1>1. Inv => FileInOrder
  BY DEF Inv, BatchInv, FileInOrder
<1> QED
  BY <1>1, Invariance, PTL

\* What the owner and the worker call durable was synchronised, and what a
\* successful barrier or finish covered survives a crash.
THEOREM Durability == Spec => [](DurableIsSynced /\ AckedSurvives)
<1>1. Inv => DurableIsSynced /\ AckedSurvives
  BY DEF Inv, CursorInv, WorkerInv, OwnerInv, DurableIsSynced, AckedSurvives
<1> QED
  BY <1>1, Invariance, PTL

\* The owner has one thing under way: a staged batch or one command, and that
\* command is in exactly one place.
THEOREM OneThingUnderWay == Spec => []OneOutstanding
<1>1. ASSUME Inv PROVE OneOutstanding
  <2>1. \A s \in Slots : InFlight(s) =>
          pending = NoBatch /\ \A t \in Slots \ {s} : ~InFlight(t)
    BY <1>1 DEF Inv, FlightInv
  <2>2. ASSUME NEW s \in Slots, InFlight(s), flight[s].ack.tag = "waiting"
        PROVE  (job = NoCommand) # (chan = <<>>)
    <3>1. /\ InTransit([kind |-> flight[s].kind, arg |-> flight[s].arg])
          /\ flight[s].kind \in SlotKinds(s)
      BY <1>1, <2>2 DEF Inv, FlightInv
    <3>2. [kind |-> flight[s].kind, arg |-> flight[s].arg] # NoCommand
      BY <3>1 DEF SlotKinds, NoCommand, Slots
    <3>3. Len(chan) = 1 => chan # <<>>
      BY EmptySeq
    <3> QED
      BY <3>1, <3>2, <3>3 DEF InTransit
  <2>3. ASSUME chan # <<>> PROVE Len(chan) = 1 /\ job = NoCommand
    <3>1. PICK s \in Slots : InFlight(s) /\ flight[s].ack.tag = "waiting"
      BY <1>1, <2>3 DEF Inv, FlightInv
    <3>2. InTransit([kind |-> flight[s].kind, arg |-> flight[s].arg])
      BY <1>1, <3>1 DEF Inv, FlightInv
    <3> QED
      BY <2>3, <3>2 DEF InTransit
  <2> QED
    BY <2>1, <2>2, <2>3 DEF OneOutstanding
<1> QED
  BY <1>1, Invariance, PTL

\* No read, export or fork command that the owner sends can make a healthy
\* worker poison the journal for being out of bounds.
THEOREM ReadersAreHarmless == Spec => []ReadsAreInBounds
<1>1. ASSUME Inv PROVE ReadsAreInBounds
  <2> SUFFICES ASSUME job.kind \in ReadOps, ~wpoisoned
               PROVE  InBounds(job) /\ SameSource(job)
    BY DEF ReadsAreInBounds
  <2>1. PICK s \in Slots : s # "write" /\ job.kind \in SlotKinds(s)
    BY DEF ReadOps, SlotKinds, Slots
  <2>2. job # NoCommand
    BY DEF ReadOps, NoCommand
  <2>3. /\ InFlight(s) /\ flight[s].kind = job.kind /\ flight[s].arg = job.arg
        /\ worker = "running" /\ ~InFlight("write")
    BY <1>1, <2>1, <2>2, ServedSlot DEF Slots
  <2>4. cursor = wcursor
    BY <1>1, <2>3 DEF Inv, CursorInv, Healthy
  <2> QED
    BY <1>1, <2>1, <2>3, <2>4
       DEF Inv, CursorInv, InBounds, SameSource, ReadOps, SlotKinds, Slots
<1> QED
  BY <1>1, Invariance, PTL

\* A finish that reported success left nothing behind, and the thread is gone
\* after every finish.
THEOREM FinishIsClean == Spec => []CleanFinish
<1>1. Inv => CleanFinish
  BY DEF Inv, OwnerInv, CleanFinish
<1> QED
  BY <1>1, Invariance, PTL

\* After the first failure the worker never touches the file again.
THEOREM FailureStopsWriting == Spec => NoWriteAfterFailure
<1>1. ASSUME Inv, [Next]_vars, wpoisoned
      PROVE  UNCHANGED <<file, torn, synced>>
  <2>1. CASE WorkerDies
    BY <1>1, <2>1 DEF WorkerDies
  <2>2. CASE Work
    BY <1>1, <2>2
       DEF Work, Receive, Disconnected, WorkerAppend, WorkerSync, WorkerRead
  <2>3. CASE Poll
    BY <2>3 DEF Poll, SettleCursor, SettleFailure, SettleRead, FlushPending,
                Synchronise, SendOwn, Decline, NothingToSettle,
                FinishDropsPending, SendRefused, workerVars, Send
  <2>4. CASE UNCHANGED vars
    BY <2>4 DEF vars
  <2> QED
    BY <1>1, <2>1, <2>2, <2>3, <2>4
       DEF Next, Stage, StageInvalidPrunePrefix, LatchPoison, BeginCall, Begin,
           CancelCall, CancelToken, Drop, Join, Terminated, workerVars
<1> QED
  BY <1>1, Invariance, PTL DEF Spec, NoWriteAfterFailure

-----------------------------------------------------------------------------
(* Exports: the answer is everything that was staged *)

\* An action that leaves the export, the file, the worker and what was staged
\* alone leaves ExportInv alone.
LEMMA ExportKept ==
    ASSUME ExportInv, flight'["export"] = flight["export"],
           UNCHANGED <<file, staged, worker, wpoisoned>>
    PROVE  ExportInv'
  BY DEF ExportInv, InFlight, Healthy

\* Whatever ends a flight leaves the others as they were.
LEMMA TakeAckExport ==
    ASSUME Inv, ExportInv, NEW s \in Slots, TakeAck(s),
           UNCHANGED <<file, staged, worker, wpoisoned>>
    PROVE  ExportInv'
<1>1. CASE s = "export"
  BY <1>1 DEF Inv, TypeOK, TakeAck, ExportInv, InFlight
<1>2. CASE s # "export"
  <2>1. flight'["export"] = flight["export"]
    BY <1>2 DEF Inv, TypeOK, TakeAck, Slots
  <2> QED
    BY <2>1, ExportKept
<1> QED
  BY <1>1, <1>2

\* Whatever another slot sends or is answered, no export is in flight then.
LEMMA NoExport ==
    ASSUME ~InFlight("export")'
    PROVE  ExportInv'
  BY DEF ExportInv

LEMMA PollExport ==
    ASSUME Inv, ExportInv, Poll
    PROVE  ExportInv'
<1>1. CASE SettleCursor
  BY <1>1, TakeAckExport DEF SettleCursor, Slots, workerVars
<1>2. ASSUME NEW s \in Slots, SettleFailure(s) PROVE ExportInv'
  BY <1>2, TakeAckExport DEF SettleFailure, workerVars
<1>3. ASSUME NEW s \in Slots, SettleRead(s) PROVE ExportInv'
  BY <1>3, TakeAckExport DEF SettleRead, workerVars
<1>4. CASE FlushPending
  <2>1. /\ \A t \in Slots : ~InFlight(t)
        /\ "write" \in Slots /\ "append" \in SlotKinds("write")
        /\ pending \in Offsets
    BY <1>4
       DEF FlushPending, ReadyToSend, Handles, Inv, TypeOK, Slots, FlightInv,
           SlotKinds
  <2> QED
    BY <1>4, <2>1, SendFacts, NoExport DEF FlushPending, Slots
<1>5. CASE Synchronise
  <2>1. /\ \A t \in Slots : ~InFlight(t)
        /\ "write" \in Slots /\ "barrier" \in SlotKinds("write")
        /\ 0 \in Offsets
    BY <1>5, BatchesAssumption
       DEF Synchronise, NeedsSync, ReadOps, ReadyToSend, Handles, Slots,
           SlotKinds, Offsets
  <2> QED
    BY <1>5, <2>1, SendFacts, NoExport DEF Synchronise, Slots
<1>6. CASE SendOwn
  <2> DEFINE s   == SlotOf(call.op)
             arg == CASE call.op = "read" -> call.row
                      [] call.op = "copy" -> boundary
                      [] OTHER -> 0
  <2>1. /\ \A t \in Slots : ~InFlight(t)
        /\ s \in Slots /\ call.op \in SlotKinds(s)
    BY <1>6
       DEF SendOwn, ReadyToSend, Handles, ReadOps, Slots, SlotKinds, SlotOf
  <2>2. arg \in Offsets
    BY BatchesAssumption DEF Inv, TypeOK, Calls, Offsets
  <2>3. Send(s, call.op, arg)
    BY <1>6 DEF SendOwn
  <2>4. CASE call.op # "export"
    <3>1. s # "export"
      BY <1>6, <2>4 DEF SendOwn, SlotOf, ReadOps
    <3> HIDE DEF s, arg
    <3> QED
      BY <2>1, <2>2, <2>3, <3>1, SendFacts, NoExport DEF Slots
  <2>5. CASE call.op = "export"
    <3>1. finishError = "none" /\ pending = NoBatch
      BY <1>6, <2>5 DEF SendOwn, Inv, OwnerInv
    <3>2. job = NoCommand /\ chan = <<>>
      BY <2>1, QuietOwner
    <3>3. ~Appending
      BY <3>2, EmptySeq DEF Appending, InTransit, NoCommand
    <3>4. Healthy => Len(file) = staged
      BY <3>1, <3>3 DEF Inv, BatchInv
    <3>5. s = "export"
      BY <2>5 DEF SlotOf
    <3>6. flight'["export"].ack = Waiting
      <4>1. flight'[s] = [kind |-> call.op, arg |-> arg, ack |-> Waiting]
        <5> HIDE DEF s, arg
        <5> QED
          BY <2>1, <2>2, <2>3, SendFacts
      <4> QED
        BY <4>1, <3>5
    <3>7. UNCHANGED <<file, staged, worker, wpoisoned>>
      BY <1>6 DEF SendOwn, workerVars
    <3> QED
      BY <3>4, <3>6, <3>7 DEF ExportInv, Healthy, Waiting, Ack
  <2> QED
    BY <2>4, <2>5
<1>7. CASE Decline \/ NothingToSettle \/ FinishDropsPending \/ SendRefused
  BY <1>7, ExportKept
     DEF Decline, NothingToSettle, FinishDropsPending, SendRefused, workerVars
<1> QED
  BY <1>1, <1>2, <1>3, <1>4, <1>5, <1>6, <1>7 DEF Poll

\* Only a healthy worker that read the file answers an export with data.
LEMMA WorkExport ==
    ASSUME Inv, ExportInv, Work
    PROVE  ExportInv'
<1>1. CASE Receive
  BY <1>1, ExportKept DEF Receive, ownerVars, history
<1>2. CASE Disconnected
  <2>1. \A s \in Slots : ~InFlight(s)
          \/ flight[s].ack.tag # "waiting"
    <3>1. /\ job = NoCommand /\ Len(chan) = 0
          /\ \A s \in Slots : InFlight(s) => flight[s].kind \in SlotKinds(s)
      BY <1>2, EmptySeq DEF Disconnected, Inv, FlightInv
    <3> QED
      BY <1>2, <3>1
         DEF Disconnected, Inv, FlightInv, InTransit, SlotKinds, NoCommand, Slots
  <2> QED
    BY <1>2, <2>1
       DEF Disconnected, ExportInv, InFlight, Slots, ownerVars, history
<1>3. CASE WorkerAppend \/ WorkerSync
  <2>1. /\ job # NoCommand /\ "write" \in Slots
        /\ job.kind \in SlotKinds("write")
    <3>1. job.kind \in {"append", "barrier", "finish"}
      BY <1>3 DEF WorkerAppend, WorkerSync
    <3> QED
      BY <3>1 DEF NoCommand, Slots, SlotKinds
  <2>2. ~InFlight("export") /\ flight["write"].kind = job.kind
    BY <2>1, ServedSlot DEF Slots
  <2>3. PICK ack : Reply("write", ack)
    BY <1>3 DEF WorkerAppend, WorkerSync
  <2>4. flight'["export"] = flight["export"]
    BY <2>2, <2>3 DEF Reply, Inv, TypeOK, Slots
  <2> QED
    BY <2>2, <2>4, NoExport DEF InFlight
<1>4. CASE WorkerRead
  <2> DEFINE s == SlotOf(job.kind)
  <2>1. job # NoCommand /\ s \in Slots /\ job.kind \in SlotKinds(s)
    BY <1>4 DEF WorkerRead, ReadOps, NoCommand, Slots, SlotKinds, SlotOf
  <2>2. /\ InFlight(s) /\ flight[s].ack.tag = "waiting"
        /\ flight[s].kind = job.kind /\ worker = "running"
        /\ \A t \in Slots \ {s} : ~InFlight(t)
    <3> HIDE DEF s
    <3> QED
      BY <2>1, ServedSlot
  <2>3. UNCHANGED <<worker, file, staged>>
    BY <1>4 DEF WorkerRead, Reply, history
  <2>4. CASE s # "export"
    <3>1. PICK ack : Reply(s, ack)
      BY <1>4 DEF WorkerRead
    <3>2. flight'["export"] = flight["export"]
      <4> HIDE DEF s
      <4> QED
        BY <2>2, <2>4, <3>1, <2>1 DEF Reply, Inv, TypeOK, Slots
    <3>3. ~InFlight("export")
      <4> HIDE DEF s
      <4> QED
        BY <2>2, <2>4 DEF Slots
    <3> QED
      BY <3>2, <3>3, NoExport DEF InFlight
  <2>5. CASE s = "export"
    <3>1. job.kind = "export" /\ InFlight("export")
      BY <2>5, <2>2, <2>1 DEF SlotKinds
    <3>2. PICK ack :
            /\ Reply("export", ack)
            /\ ack.tag # "waiting"
            /\ ack.tag = "data" =>
                 /\ ~wpoisoned /\ wcursor.physical = wcursor.durable
                 /\ ack.data = wcursor.durable
      <4>1. \/ Reply("export", Poisoned)
            \/ \E tag \in {"cancelled", "destination", "changed"} :
                 Reply("export", Ack(tag, Zero, 0))
            \/ /\ Reply("export", Ack("data", Zero, wcursor.durable))
               /\ ~wpoisoned /\ InBounds(job)
        BY <1>4, <2>5, <3>1 DEF WorkerRead, ReadRefusals
      <4>2. InBounds(job) => wcursor.physical = wcursor.durable
        BY <3>1 DEF InBounds
      <4> QED
        BY <4>1, <4>2 DEF Poisoned, Ack
    <3>3. flight'["export"].ack = ack
      BY <2>2, <2>5, <3>2 DEF Reply, Inv, TypeOK, Flights, Slots
    <3>4. ack.tag = "data" => ack.data = staged
      BY <2>2, <2>5, <3>2 DEF Inv, WorkerInv, ExportInv, Healthy
    <3> QED
      BY <2>3, <3>2, <3>3, <3>4 DEF ExportInv
  <2> QED
    BY <2>4, <2>5
<1> QED
  BY <1>1, <1>2, <1>3, <1>4 DEF Work

LEMMA NextExport ==
    ASSUME Inv, ExportInv, [Next]_vars
    PROVE  ExportInv'
<1>1. CASE UNCHANGED vars
  BY <1>1, ExportKept DEF vars
<1>2. CASE Stage
  BY <1>2 DEF Stage, Stageable, ExportInv, InFlight, Slots
<1>3. CASE StageInvalidPrunePrefix \/ LatchPoison \/ BeginCall
  BY <1>3, ExportKept
     DEF StageInvalidPrunePrefix, LatchPoison, BeginCall, Begin, workerVars
<1>4. CASE CancelCall \/ Drop \/ Join
  BY <1>4, ExportKept DEF CancelCall, Drop, Join, workerVars
<1>5. CASE \E s \in ReadSlots : CancelToken(s)
  BY <1>5, ExportKept DEF CancelToken, workerVars
<1>6. CASE WorkerDies
  <2>1. /\ ~Healthy' /\ staged' = staged
        /\ flight'["export"] = flight["export"]
             \/ flight'["export"] = [flight["export"] EXCEPT !.ack = Lost]
        /\ flight["export"] \in Flights
    BY <1>6 DEF WorkerDies, Healthy, history, Slots, Inv, TypeOK
  <2>2. CASE flight'["export"] = flight["export"]
    BY <2>1, <2>2 DEF ExportInv, InFlight
  <2>3. CASE flight'["export"] = [flight["export"] EXCEPT !.ack = Lost]
    BY <2>1, <2>3 DEF ExportInv, Flights, Lost, Ack
  <2> QED
    BY <2>1, <2>2, <2>3
<1>7. CASE Terminated
  BY <1>1, <1>7 DEF Terminated
<1> QED
  BY <1>1, <1>2, <1>3, <1>4, <1>5, <1>6, <1>7, PollExport, WorkExport DEF Next

\* An export that answered with data read everything that was staged before it
\* was asked for, and nothing can be staged while its answer is on its way.
THEOREM ExportComplete == Spec => []ExportIsWhole
<1>1. Init => ExportInv
  BY DEF Init, ExportInv, InFlight, Slots
<1>2. Inv /\ ExportInv /\ [Next]_vars => ExportInv'
  BY NextExport
<1>3. Inv /\ ExportInv => ExportIsWhole
  BY DEF Inv, ExportInv, ExportIsWhole
<1> QED
  BY <1>1, <1>2, <1>3, Invariance, PTL DEF Spec

-----------------------------------------------------------------------------
(* The journal implements the durable log *)

\* finish begins only on a journal without a verdict, and the step that gives
\* the verdict ends the call.
LEMMA NextFinishCall ==
    ASSUME Inv, FinishCallInv, [Next]_vars
    PROVE  FinishCallInv'
<1> USE DEF FinishCallInv
<1>1. CASE UNCHANGED vars
  BY <1>1 DEF vars
<1>2. CASE Stage \/ StageInvalidPrunePrefix \/ LatchPoison
  BY <1>2 DEF Stage, StageInvalidPrunePrefix, LatchPoison
<1>3. CASE BeginCall
  BY <1>3 DEF BeginCall, Begin
<1>4. CASE SettleCursor
  <2>1. call.op = "finish" /\ flight["write"].kind = "finish" =>
          AfterWrite(flight["write"].kind) # "continue"
    BY DEF AfterWrite
  <2> QED
    BY <1>4, <2>1 DEF SettleCursor, Conclude, NoCall
<1>5. ASSUME NEW s \in Slots, SettleFailure(s) PROVE FinishCallInv'
  BY <1>5 DEF SettleFailure, Conclude, NoCall
<1>6. ASSUME NEW s \in Slots, SettleRead(s) PROVE FinishCallInv'
  BY <1>6 DEF SettleRead, Conclude, NoCall
<1>7. CASE FlushPending \/ Synchronise \/ SendOwn
  BY <1>7 DEF FlushPending, Synchronise, SendOwn, Inv, TypeOK, Calls
<1>8. CASE Decline \/ NothingToSettle \/ FinishDropsPending \/ SendRefused
  BY <1>8
     DEF Decline, NothingToSettle, FinishDropsPending, SendRefused, Conclude,
         NoCall
<1>9. CASE CancelCall \/ Drop \/ Join \/ \E s \in ReadSlots : CancelToken(s)
  BY <1>9 DEF CancelCall, Drop, Join, CancelToken, NoCall
<1>10. CASE Work \/ WorkerDies
  BY <1>10
     DEF Work, WorkerDies, Receive, Disconnected, WorkerAppend, WorkerSync,
         WorkerRead, Reply, ownerVars
<1> QED
  BY <1>1, <1>2, <1>3, <1>4, <1>5, <1>6, <1>7, <1>8, <1>9, <1>10
     DEF Next, Poll, Terminated

\* A finish that gave its verdict is over: none is polled again after it, so no
\* later step can touch the error it latched.
THEOREM FinishGivesOneVerdict == Spec => []FinishCallInv
<1>1. Init => FinishCallInv
  BY DEF Init, FinishCallInv
<1>2. Inv /\ FinishCallInv /\ [Next]_vars => FinishCallInv'
  BY NextFinishCall
<1> QED
  BY <1>1, <1>2, Invariance, PTL DEF Spec

\* The log of the first n batches.
FirstBatches(n) == [i \in 1..n |-> i]

LEMMA FirstBatchesFacts ==
    ASSUME NEW n \in Nat
    PROVE  /\ FirstBatches(n) \in Seq(Nat)
           /\ Len(FirstBatches(n)) = n
           /\ FirstBatches(n + 1) = FirstBatches(n) \o <<n + 1>>
           /\ \A m \in 0..n : SubSeq(FirstBatches(n), 1, m) = FirstBatches(m)
<1>1. FirstBatches(n) \in Seq(Nat) /\ Len(FirstBatches(n)) = n
  BY DEF FirstBatches
<1>2. FirstBatches(n + 1) = FirstBatches(n) \o <<n + 1>>
  BY <1>1 DEF FirstBatches
<1>3. ASSUME NEW m \in 0..n
      PROVE  SubSeq(FirstBatches(n), 1, m) = FirstBatches(m)
  BY <1>1 DEF FirstBatches
<1> QED
  BY <1>1, <1>2, <1>3

LEMMA PrefixOfOrdered ==
    ASSUME NEW S, NEW f \in Seq(S), NEW n \in 0..Len(f),
           \A i \in 1..Len(f) : f[i] = i
    PROVE  SubSeq(f, 1, n) = FirstBatches(n)
<1>1. /\ SubSeq(f, 1, n) \in Seq(S) /\ Len(SubSeq(f, 1, n)) = n
      /\ \A i \in 1..n : SubSeq(f, 1, n)[i] = f[i]
  BY PrefixFacts
<1> QED
  BY <1>1 DEF FirstBatches

\* What survives a crash is the first `synced` batches, before a step and after.
LEMMA StableIsPrefix ==
    ASSUME Inv
    PROVE  /\ SubSeq(file, 1, synced) = FirstBatches(synced)
           /\ synced \in Nat /\ staged \in Nat /\ acked \in Nat
           /\ synced <= Len(file) /\ Len(file) <= staged
<1>1. /\ file \in Seq(Batches) /\ synced \in 0..Len(file)
      /\ \A i \in 1..Len(file) : file[i] = i
      /\ staged \in Nat /\ acked \in Nat /\ Len(file) <= staged
  BY DEF Inv, TypeOK, WorkerInv, BatchInv, Offsets
<1> QED
  BY <1>1, PrefixOfOrdered

LEMMA StableIsPrefixNext ==
    ASSUME Inv'
    PROVE  /\ SubSeq(file', 1, synced') = FirstBatches(synced')
           /\ synced' \in Nat
           /\ synced' <= Len(file') /\ Len(file') <= staged'
<1>1. /\ file' \in Seq(Batches) /\ synced' \in 0..Len(file')
      /\ \A i \in 1..Len(file') : file'[i] = i
      /\ Len(file') <= staged'
  BY DEF Inv, TypeOK, WorkerInv, BatchInv, Offsets
<1> QED
  BY <1>1, PrefixOfOrdered

\* The steps that the log does not see.
Unseen == /\ UNCHANGED <<staged, acked, synced, finished>>
          /\ finished => UNCHANGED finishError

LEMMA UnseenStutters ==
    ASSUME Inv, Inv', Unseen
    PROVE  UNCHANGED Log!vars
<1>1. SubSeq(file, 1, synced) = FirstBatches(synced)
  BY StableIsPrefix
<1>2. SubSeq(file', 1, synced') = FirstBatches(synced')
  BY StableIsPrefixNext
<1> QED
  BY <1>1, <1>2 DEF Unseen, Log!vars

\* The sync of the worker, or what its death leaves of one.
LEMMA SyncPersists ==
    ASSUME Inv, Inv', UNCHANGED <<staged, acked, finished, finishError>>,
           ~finished, synced <= synced'
    PROVE  Log!Persist
<1>1. /\ SubSeq(file, 1, synced) = FirstBatches(synced)
      /\ synced \in Nat /\ staged \in Nat
  BY StableIsPrefix
<1>2. /\ SubSeq(file', 1, synced') = FirstBatches(synced')
      /\ synced' \in Nat /\ synced' <= Len(file') /\ Len(file') <= staged'
  BY StableIsPrefixNext
<1>3. file' \in Seq(Batches)
  BY DEF Inv, TypeOK
<1>4. synced' \in synced..staged
  BY <1>1, <1>2, <1>3
<1>5. /\ Len(FirstBatches(synced)) = synced /\ Len(FirstBatches(staged)) = staged
      /\ SubSeq(FirstBatches(staged), 1, synced') = FirstBatches(synced')
  <2>1. synced' \in 0..staged
    BY <1>1, <1>4
  <2> QED
    BY <1>1, <2>1, FirstBatchesFacts
<1> QED
  <2>1. /\ Len(SubSeq(file, 1, synced)) = synced
        /\ Len([i \in 1..staged |-> i]) = staged
        /\ SubSeq(file', 1, synced') = SubSeq([i \in 1..staged |-> i], 1, synced')
        /\ staged' = staged
    BY <1>1, <1>2, <1>5 DEF FirstBatches
  <2>2. \E n \in Len(SubSeq(file, 1, synced))..Len([i \in 1..staged |-> i]) :
          SubSeq(file', 1, synced') = SubSeq([i \in 1..staged |-> i], 1, n)
    BY <2>1, <1>4
  <2> QED
    BY <2>1, <2>2 DEF Log!Persist

\* A verdict of the owner, clean or failed.
LEMMA VerdictCloses ==
    ASSUME Inv, Inv', ~finished, finished', UNCHANGED <<staged, synced>>,
           IF finishError' = "none" THEN acked' \in {acked, staged}
                                    ELSE acked' = acked
    PROVE  Log!CloseClean \/ Log!CloseFailed
<1>1. SubSeq(file, 1, synced) = FirstBatches(synced) /\ staged \in Nat
  BY StableIsPrefix
<1>2. SubSeq(file', 1, synced') = FirstBatches(synced')
  BY StableIsPrefixNext
<1>3. CASE finishError' = "none"
  <2>1. synced = staged
    BY <1>3 DEF Inv, OwnerInv
  <2>2. Len(FirstBatches(staged)) = staged
    BY <1>1, FirstBatchesFacts
  <2> QED
    BY <1>1, <1>2, <1>3, <2>1, <2>2 DEF Log!CloseClean, FirstBatches
<1>4. CASE finishError' # "none"
  BY <1>1, <1>2, <1>4 DEF Log!CloseFailed
<1> QED
  BY <1>3, <1>4

\* Staging a batch extends the log.
LEMMA StageAccepts ==
    ASSUME Inv, Inv', Stage
    PROVE  \E entries \in {<<b>> : b \in Batches} : Log!Accept(entries)
<1>1. SubSeq(file, 1, synced) = FirstBatches(synced) /\ staged \in Nat
  BY StableIsPrefix
<1>2. SubSeq(file', 1, synced') = FirstBatches(synced')
  BY StableIsPrefixNext
<1>3. /\ staged' = staged + 1 /\ staged < MaxBatches /\ ~finished
      /\ UNCHANGED <<acked, synced, finished, finishError>>
  BY DEF Stage, Stageable, Usable, workerVars
<1>4. FirstBatches(staged') = FirstBatches(staged) \o <<staged + 1>>
  BY <1>1, <1>3, FirstBatchesFacts
<1>5. staged + 1 \in Batches
  BY <1>1, <1>3, BatchesAssumption DEF Batches
<1>6. Log!Accept(<<staged + 1>>)
  BY <1>1, <1>2, <1>3, <1>4 DEF Log!Accept, FirstBatches
<1>7. <<staged + 1>> \in {<<b>> : b \in Batches}
  BY <1>5
<1> QED
  BY <1>6, <1>7 DEF Log!Accept

\* Settling an outstanding write: an append's is not seen, a barrier's own is
\* the promise, a finish's is the verdict.
LEMMA SettleCursorRefines ==
    ASSUME Inv, Inv', SettleCursor
    PROVE  [Log!Next]_Log!vars
<1>1. /\ InFlight("write") /\ flight["write"].ack.tag = "cursor"
      /\ flight["write"].kind \in {"append", "barrier", "finish"}
      /\ finished' = (finished \/ flight["write"].kind = "finish")
      /\ UNCHANGED <<staged, synced, finishError>>
      /\ acked' = IF AfterWrite(flight["write"].kind) = "ok"
                     /\ call.op \in {"barrier", "finish"}
                  THEN staged ELSE acked
      /\ ~finished
  BY DEF SettleCursor, TakeAck, Conclude, workerVars, Inv, FlightInv, OwnerInv,
         SlotKinds, Slots
<1>2. CASE flight["write"].kind = "finish"
  <2>1. finishError # "none" => AfterWrite("finish") # "ok"
          \/ call.op \notin {"barrier", "finish"}
    BY DEF AfterWrite
  <2>2. IF finishError' = "none" THEN acked' \in {acked, staged}
                                 ELSE acked' = acked
    BY <1>1, <1>2, <2>1
  <2> QED
    BY <1>1, <1>2, <2>2, VerdictCloses DEF Log!Next
<1>3. CASE flight["write"].kind # "finish" /\ acked' = acked
  <2>1. Unseen
    BY <1>1, <1>3 DEF Unseen, Inv, TypeOK
  <2> QED
    BY <2>1, UnseenStutters
<1>4. CASE flight["write"].kind # "finish" /\ acked' # acked
  <2>1. /\ call.op = "barrier" /\ flight["write"].kind = "barrier"
        /\ acked' = staged
    BY <1>1, <1>4 DEF AfterWrite
  <2>2. synced = staged
    BY <1>1, <2>1 DEF Inv, OwnerInv
  <2>3. SubSeq(file, 1, synced) = FirstBatches(synced) /\ staged \in Nat
    BY StableIsPrefix
  <2>4. SubSeq(file', 1, synced') = FirstBatches(synced')
    BY StableIsPrefixNext
  <2>5. Len(FirstBatches(staged)) = staged
    BY <2>3, FirstBatchesFacts
  <2>6. Log!Promise
    BY <1>1, <1>4, <2>1, <2>2, <2>3, <2>4, <2>5 DEF Log!Promise, FirstBatches
  <2> QED
    BY <2>6 DEF Log!Next
<1> QED
  BY <1>2, <1>3, <1>4

\* A method of the owner goes on, returns, or is refused.
LEMMA PollRefines ==
    ASSUME Inv, Inv', FinishCallInv, Poll
    PROVE  [Log!Next]_Log!vars
<1>1. CASE SettleCursor
  BY <1>1, SettleCursorRefines
<1>2. ASSUME NEW s \in Slots, SettleFailure(s)
      PROVE  [Log!Next]_Log!vars
  <2>1. /\ UNCHANGED <<staged, synced, acked>>
        /\ finished' = (finished \/ flight[s].kind = "finish")
        /\ InFlight(s)
    BY <1>2 DEF SettleFailure, Conclude, workerVars, TakeAck
  <2>2. CASE flight[s].kind = "finish"
    <3>1. s = "write" /\ ~finished
      BY <2>1, <2>2 DEF Inv, FlightInv, SlotKinds, Slots, OwnerInv
    <3>2. finishError' # "none"
      BY <1>2, <2>2 DEF SettleFailure, LatchedError
    <3> QED
      BY <2>1, <2>2, <3>1, <3>2, VerdictCloses DEF Log!Next
  <2>3. CASE flight[s].kind # "finish"
    <3>1. finished => UNCHANGED finishError
      BY <1>2, <2>3 DEF SettleFailure, FinishCallInv
    <3>2. Unseen
      BY <2>1, <2>3, <3>1 DEF Unseen, Inv, TypeOK
    <3> QED
      BY <3>2, UnseenStutters
  <2> QED
    BY <2>2, <2>3
<1>3. ASSUME NEW s \in Slots, SettleRead(s)
      PROVE  [Log!Next]_Log!vars
  <2>1. acked' = acked
    <3>1. IsOwn(s) => call.op \notin {"barrier", "finish"}
      BY <1>3 DEF SettleRead, IsOwn, SlotOf, ReadSlots
    <3> QED
      BY <1>3, <3>1 DEF SettleRead, Conclude
  <2>2. Unseen
    BY <1>3, <2>1 DEF SettleRead, Unseen, workerVars
  <2> QED
    BY <2>2, UnseenStutters
<1>4. CASE FlushPending \/ Synchronise \/ SendOwn
  <2>1. Unseen
    BY <1>4 DEF FlushPending, Synchronise, SendOwn, Unseen, workerVars
  <2> QED
    BY <2>1, UnseenStutters
<1>5. CASE Decline \/ NothingToSettle \/ FinishDropsPending
  <2>1. Unseen
    BY <1>5
       DEF Decline, NothingToSettle, FinishDropsPending, Conclude, Unseen,
           workerVars, FinishCallInv
  <2> QED
    BY <2>1, UnseenStutters
<1>6. CASE SendRefused
  <2>1. UNCHANGED <<staged, synced, acked>>
    BY <1>6 DEF SendRefused, Conclude, workerVars
  <2>2. CASE call.op = "finish"
    <3>1. ~finished /\ finished' /\ finishError' # "none"
      BY <1>6, <2>2 DEF SendRefused, FinishCallInv, LatchedError
    <3> QED
      BY <2>1, <3>1, VerdictCloses DEF Log!Next
  <2>3. CASE call.op # "finish"
    <3>1. Unseen
      BY <1>6, <2>1, <2>3 DEF SendRefused, Unseen
    <3> QED
      BY <3>1, UnseenStutters
  <2> QED
    BY <2>2, <2>3
<1> QED
  BY <1>1, <1>2, <1>3, <1>4, <1>5, <1>6 DEF Poll

\* The worker and its death: only a sync is seen.
LEMMA WorkerRefines ==
    ASSUME Inv, Inv', Work \/ WorkerDies
    PROVE  [Log!Next]_Log!vars
<1>1. UNCHANGED <<staged, acked, finished, finishError>>
  BY DEF Work, WorkerDies, Receive, Disconnected, WorkerAppend, WorkerSync,
         WorkerRead, Reply, ownerVars, history
<1>2. synced \in Nat /\ synced <= Len(file)
  BY StableIsPrefix
<1>3. CASE synced' = synced
  <2>1. Unseen
    BY <1>1, <1>3 DEF Unseen
  <2> QED
    BY <2>1, UnseenStutters
<1>4. CASE synced' # synced
  <2>1. /\ job.kind \in {"barrier", "finish"} /\ synced' = Len(file)
    BY <1>4
       DEF Work, WorkerDies, Receive, Disconnected, WorkerAppend, WorkerSync,
           WorkerRead, Rollback
  <2>2. job # NoCommand /\ "write" \in Slots /\ job.kind \in SlotKinds("write")
    BY <2>1 DEF NoCommand, Slots, SlotKinds
  <2>3. worker = "running"
    BY <2>2, ServedSlot
  <2>4. ~finished
    BY <2>3 DEF Inv, OwnerInv, WorkerGone
  <2> QED
    BY <1>1, <1>2, <2>1, <2>4, SyncPersists DEF Log!Next
<1> QED
  BY <1>3, <1>4

LEMMA NextRefines ==
    ASSUME Inv, Inv', FinishCallInv, [Next]_vars
    PROVE  [Log!Next]_Log!vars
<1>1. CASE UNCHANGED vars
  <2>1. Unseen
    BY <1>1 DEF vars, Unseen
  <2> QED
    BY <2>1, UnseenStutters
<1>2. CASE Stage
  BY <1>2, StageAccepts DEF Log!Next
<1>3. CASE StageInvalidPrunePrefix \/ LatchPoison \/ BeginCall
  <2>1. Unseen
    BY <1>3
       DEF StageInvalidPrunePrefix, Stageable, Usable, LatchPoison, BeginCall,
           Begin, Unseen, workerVars
  <2> QED
    BY <2>1, UnseenStutters
<1>4. CASE CancelCall \/ Drop \/ Join \/ \E s \in ReadSlots : CancelToken(s)
  <2>1. Unseen
    BY <1>4 DEF CancelCall, Drop, Join, CancelToken, Unseen, workerVars
  <2> QED
    BY <2>1, UnseenStutters
<1>5. CASE Work \/ WorkerDies
  BY <1>5, WorkerRefines
<1>6. CASE Poll
  BY <1>6, PollRefines
<1> QED
  BY <1>1, <1>2, <1>3, <1>4, <1>5, <1>6 DEF Next, Terminated

LEMMA InitRefines ==
    ASSUME Init
    PROVE  Log!Init
<1>1. Inv
  BY InitInv
<1>2. SubSeq(file, 1, synced) = FirstBatches(0)
  BY <1>1, StableIsPrefix DEF Init
<1>3. FirstBatches(0) = <<>>
  BY FirstBatchesFacts, EmptySeq
<1> QED
  BY <1>2, <1>3 DEF Init, Log!Init, FirstBatches

\* Seen from the session, the owner and its worker thread are a durable log: no
\* cancelled wait, failed write, rollback or death of the thread takes back a
\* promise, reorders what survives or turns an unsafe end into a clean one.
THEOREM JournalIsDurableLog == Spec => ImplementsDurableLog
<1>1. Init => Log!Init
  BY InitRefines
<1>2. Inv /\ Inv' /\ FinishCallInv /\ [Next]_vars => [Log!Next]_Log!vars
  BY NextRefines
<1> QED
  BY <1>1, <1>2, Invariance, FinishGivesOneVerdict, PTL
     DEF Spec, ImplementsDurableLog, Log!Spec

-----------------------------------------------------------------------------
(* Repairs.  The arguments need no more of a row than whether recovery     *)
(* alone may write it, so nothing is said of the scan but that it refuses  *)
(* a bad line before a readable row.                                       *)

IsSequence(rows) == \E S : rows \in Seq(S)

Prefix(rows, whole) ==
    \A i \in DOMAIN rows : i \in DOMAIN whole /\ whole[i] = rows[i]

\* The durable rows are the first rows of the file.
DiskIsPrefix ==
    /\ IsSequence(journalFile.rows) /\ IsSequence(disk.rows)
    /\ journalFile = [rows |-> journalFile.rows, tail |-> journalFile.tail]
    /\ disk = [rows |-> disk.rows, tail |-> disk.tail]
    /\ Prefix(disk.rows, journalFile.rows)

\* A body starts only behind a durable row.
DispatchIsDurable == dispatched \subseteq DOMAIN disk.rows

\* Where the tail can be bad, and what a power failure leaves is durable.
TailInv ==
    /\ phase \in {"live", "truncated", "writing"} => journalFile.tail = "none"
    /\ phase = "prepared" => journalFile.tail # "interior"
    /\ journalFile.tail = "interior" => disk = journalFile

RecoveryInv == DiskIsPrefix /\ DispatchIsDurable /\ TailInv /\ Recovery!RepairIsDurable

-----------------------------------------------------------------------------
(* Sequences *)

LEMMA SequenceFacts ==
    ASSUME NEW rows, IsSequence(rows)
    PROVE  Len(rows) \in Nat /\ DOMAIN rows = 1..Len(rows)
<1>1. PICK S : rows \in Seq(S)
  BY DEF IsSequence
<1> QED BY <1>1

\* A row is appended: the others stay where they are.
LEMMA Appended ==
    ASSUME NEW whole, NEW row, IsSequence(whole)
    PROVE  /\ IsSequence(Append(whole, row))
           /\ Prefix(whole, Append(whole, row))
           /\ \A i \in DOMAIN Append(whole, row) \ DOMAIN whole :
                 Append(whole, row)[i] = row
<1>1. PICK S : whole \in Seq(S)
  BY DEF IsSequence
<1> DEFINE U == S \cup {row}
<1>2. \A i \in 1..Len(whole) : whole[i] \in U
  BY <1>1
<1>3. whole \in Seq(U) /\ row \in U
  BY <1>1, <1>2, SeqDef
<1>4. /\ Append(whole, row) \in Seq(U)
      /\ Len(Append(whole, row)) = Len(whole) + 1
      /\ \A i \in 1..Len(whole) : Append(whole, row)[i] = whole[i]
      /\ Append(whole, row)[Len(whole) + 1] = row
  BY <1>3, AppendProperties
<1>5. DOMAIN Append(whole, row) = 1..Len(whole) + 1 /\ DOMAIN whole = 1..Len(whole)
      /\ Len(whole) \in Nat
  BY <1>3, <1>4
<1>6. IsSequence(Append(whole, row))
  BY <1>4 DEF IsSequence
<1>7. Prefix(whole, Append(whole, row))
  BY <1>4, <1>5 DEF Prefix
<1>8. \A i \in DOMAIN Append(whole, row) \ DOMAIN whole : i = Len(whole) + 1
  BY <1>5
<1> QED BY <1>4, <1>6, <1>7, <1>8

\* Rows behind position n are cut off.
LEMMA Cut ==
    ASSUME NEW whole, IsSequence(whole), NEW n \in 0..Len(whole)
    PROVE  /\ IsSequence(SubSeq(whole, 1, n))
           /\ DOMAIN SubSeq(whole, 1, n) = 1..n
           /\ Prefix(SubSeq(whole, 1, n), whole)
<1>1. PICK S : whole \in Seq(S)
  BY DEF IsSequence
<1>2. n \in Nat /\ n <= Len(whole) /\ Len(whole) \in Nat
  BY <1>1
<1>3. \A i \in 1..n : whole[i] \in S
  BY <1>1, <1>2
<1>4. /\ SubSeq(whole, 1, n) \in Seq(S)
      /\ Len(SubSeq(whole, 1, n)) = IF 1 <= n THEN n - 1 + 1 ELSE 0
      /\ \A i \in 1..(n - 1 + 1) : SubSeq(whole, 1, n)[i] = whole[1 + i - 1]
  BY <1>2, <1>3, SubSeqProperties
<1>5. DOMAIN SubSeq(whole, 1, n) = 1..n /\ DOMAIN whole = 1..Len(whole)
  BY <1>1, <1>2, <1>4
<1>6. \A i \in 1..n : i \in 1..Len(whole) /\ SubSeq(whole, 1, n)[i] = whole[i]
  BY <1>2, <1>4
<1> QED BY <1>4, <1>5, <1>6 DEF Prefix, IsSequence

-----------------------------------------------------------------------------
(* The invariant *)

\* Only these steps change the journal or take a session live; what they leave.
LEMMA FileOfAStep ==
    ASSUME RecoveryInv, Recovery!Next
    PROVE  \/ UNCHANGED <<journalFile, disk>>
           \/ disk' = journalFile /\ UNCHANGED journalFile /\ phase # "prepared"
           \/ Recovery!PowerFails
           \/ /\ UNCHANGED disk /\ journalFile.tail # "interior"
              /\ \/ journalFile' = [journalFile EXCEPT !.tail = "torn"]
                 \/ journalFile' = [journalFile EXCEPT !.tail = "none"]
                 \/ \E row : journalFile' = [journalFile EXCEPT !.rows = Append(@, row)]
                 \/ journalFile' = [rows |-> SubSeq(journalFile.rows, 1, Len(disk.rows)),
                             tail |-> "none"]
<1>1. CASE \E row \in Recovery!LiveRows : Recovery!AppendRow(row)
  BY <1>1 DEF Recovery!AppendRow, RecoveryInv, TailInv
<1>2. CASE \E i \in DOMAIN projection.calls : Recovery!Dispatch(projection.calls[i])
  BY <1>2 DEF Recovery!Dispatch
<1>3. CASE Recovery!Barrier
  BY <1>3 DEF Recovery!Barrier
<1>4. CASE Recovery!ProcessDies
  BY <1>4 DEF Recovery!ProcessDies, RecoveryInv, TailInv
<1>5. CASE Recovery!PowerFails
  BY <1>5
<1>6. CASE Recovery!Prepare \/ Recovery!GiveUp
  BY <1>6 DEF Recovery!Prepare, Recovery!GiveUp
<1>7. CASE Recovery!Truncate
  BY <1>7 DEF Recovery!Truncate, RecoveryInv, TailInv
<1>8. CASE Recovery!SyncCut
  BY <1>8 DEF Recovery!SyncCut
<1>9. CASE Recovery!WriteRow
  BY <1>9 DEF Recovery!WriteRow, RecoveryInv, TailInv
<1>10. CASE Recovery!WriteFails
  BY <1>10 DEF Recovery!WriteFails, RecoveryInv, TailInv
<1>11. CASE Recovery!SyncSuffix
  BY <1>11 DEF Recovery!SyncSuffix
<1> QED BY <1>1, <1>2, <1>3, <1>4, <1>5, <1>6, <1>7, <1>8, <1>9, <1>10, <1>11 DEF Recovery!Next

\* What a power failure leaves: at least the durable rows, and nothing else of a
\* journal that was entirely durable.
LEMMA PowerLeaves ==
    ASSUME RecoveryInv, Recovery!PowerFails
    PROVE  /\ IsSequence(journalFile'.rows)
           /\ journalFile' = [rows |-> journalFile'.rows, tail |-> journalFile'.tail]
           /\ disk' = journalFile'
           /\ Prefix(disk.rows, journalFile'.rows)
           /\ journalFile.tail = "interior" => journalFile' = journalFile
<1>1. PICK f \in Recovery!Images : journalFile' = f /\ disk' = f
  BY DEF Recovery!PowerFails
<1>2. PICK n \in Len(disk.rows)..Len(journalFile.rows) : f.rows = SubSeq(journalFile.rows, 1, n)
  BY DEF Recovery!Images
<1>3. f = [rows |-> f.rows, tail |-> f.tail]
  BY DEF Recovery!Images
<1>4. /\ IsSequence(journalFile.rows) /\ Len(journalFile.rows) \in Nat
      /\ DOMAIN journalFile.rows = 1..Len(journalFile.rows)
      /\ Len(disk.rows) \in Nat /\ DOMAIN disk.rows = 1..Len(disk.rows)
  BY SequenceFacts DEF RecoveryInv, DiskIsPrefix
<1>5. n \in 0..Len(journalFile.rows) /\ n \in Nat /\ Len(disk.rows) <= n
  BY <1>4
<1>6. /\ IsSequence(f.rows) /\ DOMAIN f.rows = 1..n
      /\ Prefix(f.rows, journalFile.rows)
  BY <1>2, <1>4, <1>5, Cut
<1>7. Prefix(disk.rows, f.rows)
  <2>1. Prefix(disk.rows, journalFile.rows)
    BY DEF RecoveryInv, DiskIsPrefix
  <2>2. \A i \in 1..Len(disk.rows) : i \in 1..n
    BY <1>4, <1>5
  <2> QED BY <2>1, <2>2, <1>4, <1>6 DEF Prefix
<1>8. ASSUME journalFile.tail = "interior" PROVE f = journalFile
  <2>1. disk = journalFile /\ journalFile = [rows |-> journalFile.rows, tail |-> journalFile.tail]
    BY <1>8 DEF RecoveryInv, TailInv, DiskIsPrefix
  <2>2. n = Len(journalFile.rows)
    BY <2>1, <1>4, <1>5
  <2>3. Len(f.rows) = Len(journalFile.rows)
    <3>1. PICK S : f.rows \in Seq(S)
      BY <1>6 DEF IsSequence
    <3>2. Len(f.rows) \in Nat /\ DOMAIN f.rows = 1..Len(f.rows)
      BY <3>1
    <3>3. 1..Len(f.rows) = 1..n
      BY <3>2, <1>6
    <3> QED BY <3>2, <3>3, <2>2, <1>4
  <2>4. f.rows = journalFile.rows /\ f.tail = journalFile.tail
    BY <2>1, <2>3, <1>4 DEF Recovery!Images
  <2> QED BY <2>1, <2>4, <1>3
<1> QED BY <1>1, <1>3, <1>6, <1>7, <1>8

\* No step changes or removes a durable row.
LEMMA RowsStay ==
    ASSUME RecoveryInv, Recovery!Next
    PROVE  /\ DiskIsPrefix'
           /\ Prefix(disk.rows, disk'.rows)
           /\ journalFile.tail = "interior" => journalFile' = journalFile
           /\ journalFile'.tail = "interior" => disk' = journalFile'
<1> DEFINE Good(f) == IsSequence(f.rows) /\ f = [rows |-> f.rows, tail |-> f.tail]
<1>1. /\ Good(journalFile) /\ Good(disk)
      /\ Prefix(disk.rows, journalFile.rows)
      /\ Prefix(disk.rows, disk.rows) /\ Prefix(journalFile.rows, journalFile.rows)
      /\ journalFile.tail = "interior" => disk = journalFile
  BY DEF RecoveryInv, DiskIsPrefix, TailInv, Prefix
<1>2. SUFFICES /\ Good(journalFile') /\ Good(disk')
               /\ Prefix(disk'.rows, journalFile'.rows)
               /\ Prefix(disk.rows, disk'.rows)
               /\ journalFile.tail = "interior" => journalFile' = journalFile
               /\ journalFile'.tail = "interior" => disk' = journalFile'
  BY DEF DiskIsPrefix
<1>3. CASE UNCHANGED <<journalFile, disk>>
  BY <1>1, <1>3
<1>4. CASE disk' = journalFile /\ UNCHANGED journalFile
  BY <1>1, <1>4
<1>5. CASE Recovery!PowerFails
  BY <1>5, PowerLeaves DEF Prefix
<1>6. ASSUME UNCHANGED disk, journalFile.tail # "interior",
             \/ journalFile' = [journalFile EXCEPT !.tail = "torn"]
             \/ journalFile' = [journalFile EXCEPT !.tail = "none"]
      PROVE  /\ Good(journalFile') /\ Prefix(disk.rows, journalFile'.rows)
             /\ journalFile'.tail # "interior"
  BY <1>1, <1>6
<1>7. ASSUME UNCHANGED disk, journalFile.tail # "interior",
             NEW row, journalFile' = [journalFile EXCEPT !.rows = Append(@, row)]
      PROVE  /\ Good(journalFile') /\ Prefix(disk.rows, journalFile'.rows)
             /\ journalFile'.tail # "interior"
  <2>1. journalFile' = [rows |-> Append(journalFile.rows, row), tail |-> journalFile.tail]
    BY <1>1, <1>7
  <2>2. IsSequence(Append(journalFile.rows, row))
    BY <1>1, Appended
  <2>3. Prefix(journalFile.rows, Append(journalFile.rows, row))
    BY <1>1, Appended
  <2>4. Prefix(disk.rows, Append(journalFile.rows, row))
    BY <1>1, <2>3 DEF Prefix
  <2> QED BY <2>1, <2>2, <2>4, <1>7
<1>8. ASSUME UNCHANGED disk, journalFile.tail # "interior",
             journalFile' = [rows |-> SubSeq(journalFile.rows, 1, Len(disk.rows)), tail |-> "none"]
      PROVE  /\ Good(journalFile') /\ Prefix(disk.rows, journalFile'.rows)
             /\ journalFile'.tail # "interior"
  <2>1. /\ Len(journalFile.rows) \in Nat /\ DOMAIN journalFile.rows = 1..Len(journalFile.rows)
        /\ Len(disk.rows) \in Nat /\ DOMAIN disk.rows = 1..Len(disk.rows)
    BY <1>1, SequenceFacts
  <2>2. Len(disk.rows) \in 0..Len(journalFile.rows)
    <3>1. Len(disk.rows) # 0 => Len(disk.rows) \in DOMAIN disk.rows
      BY <2>1
    <3>2. Len(disk.rows) # 0 => Len(disk.rows) \in DOMAIN journalFile.rows
      BY <3>1, <1>1 DEF Prefix
    <3> QED BY <2>1, <3>2
  <2> DEFINE rows == SubSeq(journalFile.rows, 1, Len(disk.rows))
  <2>3. IsSequence(rows) /\ DOMAIN rows = DOMAIN disk.rows /\ Prefix(rows, journalFile.rows)
    BY <1>1, <2>1, <2>2, Cut
  <2>4. Prefix(disk.rows, rows)
    BY <1>1, <2>3 DEF Prefix
  <2> HIDE DEF rows
  <2>5. journalFile' = [rows |-> rows, tail |-> "none"]
    BY <1>8 DEF rows
  <2> QED BY <2>3, <2>4, <2>5
<1>9. ASSUME UNCHANGED disk, journalFile.tail # "interior",
             Good(journalFile') /\ Prefix(disk.rows, journalFile'.rows),
                   journalFile'.tail # "interior"
      PROVE  /\ Good(journalFile') /\ Good(disk')
             /\ Prefix(disk'.rows, journalFile'.rows)
             /\ Prefix(disk.rows, disk'.rows)
             /\ journalFile.tail = "interior" => journalFile' = journalFile
             /\ journalFile'.tail = "interior" => disk' = journalFile'
  BY <1>1, <1>9
<1> HIDE DEF Good
<1> QED BY <1>3, <1>4, <1>5, <1>6, <1>7, <1>8, <1>9, FileOfAStep
LEMMA InitEstablishesInv == Recovery!Init => RecoveryInv
<1> SUFFICES ASSUME Recovery!Init PROVE RecoveryInv
  OBVIOUS
<1>1. IsSequence(<<>>)
  BY EmptySeq DEF IsSequence
<1>2. DOMAIN <<>> = {}
  OBVIOUS
<1> QED
  BY <1>1, <1>2
  DEF Recovery!Init, Recovery!NoRows, RecoveryInv, DiskIsPrefix, Prefix, DispatchIsDurable, TailInv,
      Recovery!RepairIsDurable

\* A body starts behind a durable row, which then stays.
LEMMA DispatchStaysDurable ==
    ASSUME RecoveryInv, Recovery!Next
    PROVE  DispatchIsDurable'
<1>1. \A i \in DOMAIN disk.rows : i \in DOMAIN disk'.rows
  BY RowsStay DEF Prefix
<1>2. \A i \in dispatched' : i \in dispatched \/ i \in DOMAIN disk.rows
  <2>1. CASE \E i \in DOMAIN projection.calls : Recovery!Dispatch(projection.calls[i])
    BY <2>1 DEF Recovery!Dispatch
  <2>2. CASE ~\E i \in DOMAIN projection.calls : Recovery!Dispatch(projection.calls[i])
    BY <2>2 DEF Recovery!Next, Recovery!AppendRow, Recovery!Barrier, Recovery!ProcessDies,
          Recovery!PowerFails, Recovery!Prepare, Recovery!GiveUp,
                Recovery!Truncate, Recovery!SyncCut, Recovery!WriteRow, Recovery!WriteFails,
                      Recovery!SyncSuffix
  <2> QED BY <2>1, <2>2
<1> QED BY <1>1, <1>2 DEF RecoveryInv, DispatchIsDurable

\* A live journal ends in a good line, and one that ends otherwise is refused or
\* cut before anything is written behind it.
LEMMA TailStays ==
    ASSUME RecoveryInv, Recovery!Next
    PROVE  TailInv'
<1>1. journalFile'.tail = "interior" => disk' = journalFile'
  BY RowsStay
<1> DEFINE Where == /\ phase' \in {"live", "truncated", "writing"} => journalFile'.tail = "none"
                    /\ phase' = "prepared" => journalFile'.tail # "interior"
<1> SUFFICES Where
  BY <1>1 DEF TailInv
<1>2. /\ journalFile = [rows |-> journalFile.rows, tail |-> journalFile.tail]
      /\ phase \in {"live", "truncated", "writing"} => journalFile.tail = "none"
      /\ phase = "prepared" => journalFile.tail # "interior"
  BY DEF RecoveryInv, DiskIsPrefix, TailInv
<1>3. ASSUME NEW row, Recovery!AppendRow(row) PROVE Where
  <2>1. journalFile' = [rows |-> Append(journalFile.rows, row), tail |-> journalFile.tail]
        /\ phase' = "live"
    BY <1>2, <1>3 DEF Recovery!AppendRow
  <2> QED BY <2>1, <1>2, <1>3 DEF Recovery!AppendRow
<1>4. ASSUME NEW c, Recovery!Dispatch(c) PROVE Where
  BY <1>2, <1>4 DEF Recovery!Dispatch
<1>5. CASE Recovery!Barrier
  BY <1>2, <1>5 DEF Recovery!Barrier
<1>6. CASE Recovery!ProcessDies \/ Recovery!PowerFails
  BY <1>6 DEF Recovery!ProcessDies, Recovery!PowerFails
<1>7. CASE Recovery!Prepare
  <2>1. CASE phase' = "prepared"
    <3>1. Recovery!Scan(journalFile).ok /\ UNCHANGED journalFile
      BY <2>1, <1>7 DEF Recovery!Prepare, Recovery!Repairable
    <3>2. Recovery!Corrupt.ok = FALSE
      BY DEF Recovery!Corrupt, Recovery!Start
    <3>3. journalFile.tail # "interior"
      BY <3>1, <3>2 DEF Recovery!Scan
    <3> QED BY <2>1, <3>1, <3>3
  <2>2. CASE phase' = "refused"
    BY <2>2
  <2> QED BY <2>1, <2>2, <1>7 DEF Recovery!Prepare
<1>8. CASE Recovery!GiveUp
  BY <1>8 DEF Recovery!GiveUp
<1>9. CASE Recovery!Truncate
  BY <1>2, <1>9 DEF Recovery!Truncate
<1>10. CASE Recovery!SyncCut
  BY <1>2, <1>10 DEF Recovery!SyncCut
<1>11. CASE Recovery!WriteRow
  BY <1>2, <1>11 DEF Recovery!WriteRow
<1>12. CASE Recovery!WriteFails
  BY <1>12 DEF Recovery!WriteFails
<1>13. CASE Recovery!SyncSuffix
  BY <1>2, <1>13 DEF Recovery!SyncSuffix
<1> HIDE DEF Where
<1> QED BY <1>3, <1>4, <1>5, <1>6, <1>7, <1>8, <1>9, <1>10, <1>11, <1>12, <1>13 DEF Recovery!Next

\* A session goes live only when its file is durable, and then adds no row that
\* recovery alone may write.
LEMMA RepairStaysDurable ==
    ASSUME RecoveryInv, Recovery!Next
    PROVE  Recovery!RepairIsDurable'
<1> USE DEF Recovery!RepairIsDurable
<1>1. ASSUME NEW row \in Recovery!LiveRows, Recovery!AppendRow(row) PROVE Recovery!RepairIsDurable'
  <2>1. ~Recovery!RecoveryOnly(row)
    BY <1>1 DEF Recovery!AppendRow, Recovery!AdmitsOrdinary
  <2>2. journalFile'.rows = Append(journalFile.rows, row) /\ UNCHANGED disk /\ phase = "live"
    BY <1>1 DEF Recovery!AppendRow, RecoveryInv, DiskIsPrefix
  <2>3. Prefix(journalFile.rows, journalFile'.rows)
        /\ \A i \in DOMAIN journalFile'.rows \ DOMAIN journalFile.rows : journalFile'.rows[i] = row
    BY <2>2, Appended DEF RecoveryInv, DiskIsPrefix
  <2> QED BY <2>1, <2>2, <2>3 DEF RecoveryInv, Prefix
<1>2. CASE \E i \in DOMAIN projection.calls : Recovery!Dispatch(projection.calls[i])
  BY <1>2 DEF Recovery!Dispatch, RecoveryInv
<1>3. CASE Recovery!Barrier
  BY <1>3 DEF Recovery!Barrier
<1>4. CASE Recovery!ProcessDies \/ Recovery!PowerFails
  BY <1>4 DEF Recovery!ProcessDies, Recovery!PowerFails
<1>5. CASE Recovery!Prepare \/ Recovery!GiveUp
  BY <1>5 DEF Recovery!Prepare, Recovery!GiveUp
<1>6. CASE Recovery!Truncate \/ Recovery!SyncCut \/ Recovery!WriteRow \/ Recovery!WriteFails
  BY <1>6 DEF Recovery!Truncate, Recovery!SyncCut, Recovery!WriteRow, Recovery!WriteFails
<1>7. CASE Recovery!SyncSuffix
  BY <1>7 DEF Recovery!SyncSuffix
<1> QED BY <1>1, <1>2, <1>3, <1>4, <1>5, <1>6, <1>7 DEF Recovery!Next

LEMMA InvStutters == RecoveryInv /\ UNCHANGED Recovery!vars => RecoveryInv'
  BY DEF RecoveryInv, DiskIsPrefix, IsSequence, Prefix, DispatchIsDurable, TailInv,
         Recovery!RepairIsDurable, Recovery!vars

LEMMA StepPreservesInv == RecoveryInv /\ [Recovery!Next]_Recovery!vars => RecoveryInv'
  BY RowsStay, DispatchStaysDurable, TailStays, RepairStaysDurable, InvStutters DEF RecoveryInv

-----------------------------------------------------------------------------
(* Theorems *)

\* The invariant holds of every reachable state.
THEOREM RecoveryInvariance == Recovery!Spec => []RecoveryInv
<1> QED BY InitEstablishesInv, StepPreservesInv, PTL DEF Recovery!Spec

\* A body runs only behind the durable row that announces it, and that row is
\* never lost: recovery can tell that the call was started.
THEOREM BodiesAreAnnounced == Recovery!Spec => []DispatchIsDurable
<1>1. RecoveryInv => DispatchIsDurable
  BY DEF RecoveryInv
<1> QED BY <1>1, RecoveryInvariance, PTL

\* The rows by which a live session was repaired cannot be lost again.
THEOREM LiveRepairIsDurable == Recovery!Spec => []Recovery!RepairIsDurable
<1>1. RecoveryInv => Recovery!RepairIsDurable
  BY DEF RecoveryInv
<1> QED BY <1>1, RecoveryInvariance, PTL

\* No append, stop, cut, failed write or repair changes a durable row.
THEOREM DurableRowsNeverChange == Recovery!Spec => Recovery!DurableRowsStay
<1>1. RecoveryInv /\ [Recovery!Next]_Recovery!vars =>
        [\A i \in DOMAIN disk.rows :
            i \in DOMAIN disk'.rows /\ disk'.rows[i] = disk.rows[i]]_Recovery!vars
  BY RowsStay DEF Prefix
<1> QED BY <1>1, RecoveryInvariance, PTL DEF Recovery!Spec, Recovery!DurableRowsStay

\* A journal damaged before its last readable row is never written to.
THEOREM DamagedJournalIsLeft == Recovery!Spec => Recovery!InteriorIsKept
<1>1. RecoveryInv /\ [Recovery!Next]_Recovery!vars => [journalFile.tail = "interior"
      => journalFile' = journalFile]_Recovery!vars
  BY RowsStay
<1> QED BY <1>1, RecoveryInvariance, PTL DEF Recovery!Spec, Recovery!InteriorIsKept

=============================================================================
