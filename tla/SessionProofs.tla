--------------------------- MODULE SessionProofs ---------------------------
(***************************************************************************)
(* Proofs about the threads of a monitor, for every set of setups and all  *)
(* bounds.  First AsyncMonitor alone: Base holds whatever becomes of the   *)
(* output: the handle and the result, the end of the input, the events and *)
(* the launch.  VerdictInv is what is in the output; a reader that loses a *)
(* verdict would break only that.                                          *)
(*                                                                         *)
(* Then Session.  The drain thread may panic, which loses the verdict it   *)
(* held: from then on only what was written before counts.                 *)
(***************************************************************************)
EXTENDS Session, SequenceTheorems, TLAPS
-----------------------------------------------------------------------------
(* AsyncMonitor *)
Verdict == Nat \X {"timed", "event", "end"}

ATypeOK ==
  /\ setup \in Setup
  /\ input \in Seq(Nat)
  /\ owner \in {"idle", "send", "join", "gone"}
  /\ sending \in Nat \cup {NoItem}
  /\ has_handle \in BOOLEAN /\ shut_down \in BOOLEAN /\ closing \in BOOLEAN
  /\ accepted \in Nat /\ submitted \in Nat /\ launches \in Nat
  /\ worker \in {"setup", "await", "init", "process", "send", "done"}
  /\ processed \in Seq(Nat)
  /\ outbox \in Seq(Verdict) /\ produced \in Seq(Verdict)
  /\ output \in Seq(Verdict) /\ delivered \in Seq(Verdict)

\* Outside a call nothing is being sent; a handle is given up only when the
\* worker has ended, and with its error.
Told == worker = "done" /\ (result = "Ok" \/ result \in returned)

HandleInv ==
  /\ owner = "send" <=> sending # NoItem
  /\ worker = "done" <=> result # None
  /\ ~has_handle /\ owner # "gone" => Told
  /\ shut_down => owner \in {"join", "gone"}
  /\ owner = "gone" /\ shut_down => Told

\* The worker leaves its loop when the input is closed and empty.
ClosingInv ==
  /\ closing => InputClosed /\ input = <<>> /\ worker \in {"send", "done"}
  /\ worker # "send" => outbox = <<>>
  /\ result = "Ok" => closing /\ Len(processed) = accepted /\ accepted = submitted

\* While the worker lives every submitted event is accepted or on its way.
EventsInv ==
  worker # "done" =>
    /\ Len(processed) <= accepted
    /\ submitted = IF IsInput(sending) THEN accepted + 1 ELSE accepted
    /\ IsInput(sending) => sending = submitted

OneLaunch(q) == \A i, j \in DOMAIN q : q[i] = LaunchItem /\ q[j] = LaunchItem => i = j

\* Before a launch there is no launch item, and at the first one only one.
LaunchInv ==
  /\ worker \in {"setup", "await"} => processed = <<>> /\ produced = <<>>
  /\ launches = 0 =>
       /\ sending # LaunchItem /\ LaunchItem \notin Range(input)
       /\ worker \in {"init", "process", "send"} => InputClosed /\ input = <<>>
  /\ launches = 1 =>
       /\ sending = LaunchItem => LaunchItem \notin Range(input)
       /\ OneLaunch(input)
       /\ worker \in {"init", "process", "send"} =>
            sending # LaunchItem /\ LaunchItem \notin Range(input)

Base ==
  /\ ATypeOK /\ HandleInv /\ ClosingInv
  /\ EventsInv /\ EventsInOrder
  /\ LaunchInv /\ LaunchProtocol

VerdictInv ==
  /\ VerdictsInSequence
  /\ result = "Ok" => delivered \o output = produced
-----------------------------------------------------------------------------
\* A queue of items, each with a first one, and what is left behind it.
LEMMA QueueHead ==
  ASSUME NEW T, NEW q \in Seq(T), q # <<>>
  PROVE  /\ Head(q) \in T /\ Tail(q) \in Seq(T) /\ Head(q) = q[1]
         /\ Len(q) \in Nat /\ Len(q) > 0 /\ DOMAIN q = 1 .. Len(q)
         /\ DOMAIN Tail(q) = 1 .. (Len(q) - 1)
         /\ \A i \in 1 .. (Len(q) - 1) : Tail(q)[i] = q[i + 1]
         /\ Range(q) = {Head(q)} \cup Range(Tail(q))
<1>1. /\ Head(q) \in T /\ Tail(q) \in Seq(T) /\ Head(q) = q[1]
      /\ Len(q) \in Nat /\ Len(q) > 0 /\ DOMAIN q = 1 .. Len(q)
      /\ Len(Tail(q)) = Len(q) - 1
      /\ \A i \in 1 .. Len(Tail(q)) : Tail(q)[i] = q[i + 1]
  BY HeadTailProperties, LenProperties, EmptySeq
<1>2. DOMAIN Tail(q) = 1 .. (Len(q) - 1)
  BY <1>1, LenProperties
<1>3. \A x : x \in Range(q) <=> x = q[1] \/ x \in Range(Tail(q))
  <2>1. ASSUME NEW i \in DOMAIN q, i # 1 PROVE q[i] \in Range(Tail(q))
    <3>1. i - 1 \in DOMAIN Tail(q) /\ Tail(q)[i - 1] = q[i]
      BY <1>1, <1>2, <2>1
    <3> QED  BY <3>1 DEF Range
  <2>2. ASSUME NEW i \in DOMAIN Tail(q) PROVE Tail(q)[i] \in Range(q)
    <3>1. i + 1 \in DOMAIN q /\ Tail(q)[i] = q[i + 1]
      BY <1>1, <1>2, <2>2
    <3> QED  BY <3>1 DEF Range
  <2>3. q[1] \in Range(q)
    BY <1>1 DEF Range
  <2> QED  BY <2>1, <2>2, <2>3 DEF Range
<1> QED  BY <1>1, <1>2, <1>3

LEMMA QueueAppend ==
  ASSUME NEW T, NEW q \in Seq(T), NEW x \in T
  PROVE  /\ Append(q, x) \in Seq(T)
         /\ Len(q) \in Nat /\ DOMAIN q = 1 .. Len(q)
         /\ Len(Append(q, x)) = Len(q) + 1
         /\ DOMAIN Append(q, x) = 1 .. (Len(q) + 1)
         /\ \A i \in 1 .. Len(q) : Append(q, x)[i] = q[i]
         /\ Append(q, x)[Len(q) + 1] = x
         /\ Range(Append(q, x)) = Range(q) \cup {x}
<1>1. /\ Append(q, x) \in Seq(T)
      /\ Len(q) \in Nat /\ DOMAIN q = 1 .. Len(q)
      /\ Len(Append(q, x)) = Len(q) + 1
      /\ \A i \in 1 .. Len(q) : Append(q, x)[i] = q[i]
      /\ Append(q, x)[Len(q) + 1] = x
  BY AppendProperties, LenProperties
<1>2. DOMAIN Append(q, x) = 1 .. (Len(q) + 1)
  BY <1>1, LenProperties
<1>3. \A y : y \in Range(Append(q, x)) <=> y \in Range(q) \/ y = x
  <2>1. Len(q) + 1 \in DOMAIN Append(q, x)
    BY <1>1, <1>2
  <2>2. \A i \in DOMAIN Append(q, x) : i \in DOMAIN q \/ i = Len(q) + 1
    BY <1>1, <1>2
  <2>3. \A i \in DOMAIN q : i \in DOMAIN Append(q, x)
    BY <1>1, <1>2
  <2> QED  BY <1>1, <2>1, <2>2, <2>3 DEF Range
<1> QED  BY <1>1, <1>2, <1>3

\* The step of the head from one sequence to the end of the one before it.
LEMMA MoveHead ==
  ASSUME NEW T, NEW p \in Seq(T), NEW q \in Seq(T), q # <<>>
  PROVE  /\ Append(p, Head(q)) \in Seq(T) /\ Tail(q) \in Seq(T)
         /\ Append(p, Head(q)) \o Tail(q) = p \o q
<1>1. Head(q) \in T /\ Tail(q) \in Seq(T) /\ q = <<Head(q)>> \o Tail(q)
  BY HeadTailProperties, ConcatProperties, SeqEqual, EmptySeq
<1>2. Append(p, Head(q)) = p \o <<Head(q)>> /\ <<Head(q)>> \in Seq(T)
  BY <1>1, AppendIsConcat
<1>3. Append(p, Head(q)) \in Seq(T)
  BY <1>1, AppendProperties
<1> QED  BY <1>1, <1>2, <1>3, ConcatAssociative

LEMMA PrefixOfConcat ==
  ASSUME NEW T, NEW p \in Seq(T), NEW q \in Seq(T)
  PROVE  IsPrefix(p, p \o q)
<1>1. SubSeq(p \o q, 1, Len(p)) = p /\ SubSeq(p, 1, Len(p)) = p
  BY SubSeqOfConcat1, SubSeqFull, ConcatProperties, LenProperties
<1>2. Len(p) <= Len(p \o q)
  BY ConcatProperties, LenProperties
<1> QED  BY <1>1, <1>2 DEF IsPrefix
-----------------------------------------------------------------------------
LEMMA OneVerdict ==
  ASSUME NEW n \in Nat, NEW k \in {"timed", "event", "end"}
  PROVE  <<<<n, k>>>> \in Seq(Verdict)
BY DEF Verdict

\* What a step of the worker's loop makes is a sequence of verdicts.
LEMMA ProducesVerdicts ==
  ASSUME ATypeOK, ProcessEvent \/ TimedOut \/ Disconnected
  PROVE  \E v \in Seq(Verdict) : Produce(v)
<1>1. CASE ProcessEvent
  <2>1. Head(input) \in Nat
    BY <1>1, QueueHead DEF ProcessEvent, ATypeOK
  <2>2. PICK t \in {<<>>, <<<<Head(input), "timed">>>>}, e \in {<<>>, <<<<Head(input), "event">>>>} :
          Produce(t \o e)
    BY <1>1 DEF ProcessEvent
  <2>3. t \in Seq(Verdict) /\ e \in Seq(Verdict)
    BY <2>1, <2>2, OneVerdict, EmptySeq
  <2>4. t \o e \in Seq(Verdict)
    BY <2>3, ConcatProperties
  <2> QED  BY <2>2, <2>4
<1>2. CASE TimedOut
  <2>1. PICK v \in {<<>>, <<<<Len(produced), "timed">>>>} : Produce(v)
    BY <1>2 DEF TimedOut
  <2>2. v \in Seq(Verdict)
    BY <2>1, LenProperties, OneVerdict, EmptySeq DEF ATypeOK
  <2> QED  BY <2>1, <2>2
<1>3. CASE Disconnected
  <2>1. CASE setup.mode = "replay" /\ processed # <<>>
    <3>1. Last(processed) \in Nat
      BY <2>1, LenProperties, EmptySeq, ElementOfSeq DEF Last, ATypeOK
    <3>2. \A v \in {<<>>, <<<<Last(processed), "end">>>>} : v \in Seq(Verdict)
      BY <3>1, OneVerdict, EmptySeq
    <3> QED  BY <1>3, <2>1, <3>2 DEF Disconnected
  <2> QED  BY <1>3, <2>1, EmptySeq DEF Disconnected
<1> QED  BY <1>1, <1>2, <1>3

\* The steps by the queue or the state they touch, for the proofs below.
LEMMA TypeStep ==
  ASSUME ATypeOK, HandleInv, Next
  PROVE  ATypeOK'
<1> USE DEF ATypeOK, NoItem, LaunchItem
<1>1. CASE CallFails \/ Shutdown \/ Join \/ DropMonitor
  BY <1>1 DEF Next, CallFails, Shutdown, Join, DropMonitor, Reply, worker_vars, consumer_vars
<1>8. CASE Launch \/ SubmitEvent
  <2>1. /\ owner' = "send" /\ sending' \in Nat /\ launches' \in Nat /\ submitted' \in Nat
    BY <1>8 DEF Launch, SubmitEvent, StartSend
  <2>2. UNCHANGED <<has_handle, shut_down, accepted, input, output, worker_vars, consumer_vars>>
    BY <1>8 DEF Launch, SubmitEvent, StartSend
  <2> QED  BY <2>1, <2>2 DEF Next, worker_vars, consumer_vars
<1>2. CASE FinishSend
  <2>1. sending \in Nat
    BY <1>2 DEF FinishSend, HandleInv
  <2>2. Append(input, sending) \in Seq(Nat)
    BY <2>1, QueueAppend
  <2>3. input' = input \/ input' = Append(input, sending)
    BY <1>2 DEF FinishSend
  <2>4. accepted' \in Nat
    BY <1>2 DEF FinishSend
  <2> QED  BY <1>2, <2>2, <2>3, <2>4 DEF Next, FinishSend, worker_vars, consumer_vars
<1>3. CASE SetupAndInit \/ SetupFails \/ DeadlinePanics \/ NextRound
  BY <1>3, EmptySeq DEF Next, SetupAndInit, SetupFails, DeadlinePanics, NextRound,
                        WorkerEnds, WorkerFrame, owner_vars, consumer_vars
<1>4. CASE AwaitLaunch \/ EventFails \/ SecondLaunch
  <2>1. input' \in Seq(Nat)
    BY <1>4, QueueHead DEF AwaitLaunch, EventFails, SecondLaunch
  <2> QED  BY <1>4, <2>1, EmptySeq
           DEF Next, AwaitLaunch, EventFails, SecondLaunch, WorkerEnds, WorkerFrame,
               owner_vars, consumer_vars
<1>5. CASE ProcessEvent \/ TimedOut \/ Disconnected
  <2>1. PICK v \in Seq(Verdict) : Produce(v)
    BY <1>5, ProducesVerdicts
  <2>2. produced' \in Seq(Verdict) /\ outbox' \in Seq(Verdict) /\ worker' = "send"
    BY <2>1, ConcatProperties DEF Produce
  <2>3. processed' \in Seq(Nat) /\ input' \in Seq(Nat)
    <3>1. /\ input' = input \/ (input # <<>> /\ input' = Tail(input))
          /\ processed' = processed
             \/ (input # <<>> /\ processed' = Append(processed, Head(input)))
      BY <1>5 DEF ProcessEvent, TimedOut, Disconnected
    <3>2. input # <<>> => Tail(input) \in Seq(Nat) /\ Append(processed, Head(input)) \in Seq(Nat)
      BY MoveHead
    <3> QED  BY <3>1, <3>2
  <2> QED  BY <1>5, <2>2, <2>3 DEF Next, ProcessEvent, TimedOut, Disconnected, WorkerFrame,
                                   owner_vars, consumer_vars
<1>6. CASE SendVerdict \/ SendFails
  <2>1. output' \in Seq(Verdict) /\ outbox' \in Seq(Verdict)
    BY <1>6, MoveHead, EmptySeq DEF SendVerdict, SendFails, WorkerEnds, WorkerFrame
  <2> QED  BY <1>6, <2>1 DEF Next, SendVerdict, SendFails, WorkerEnds, WorkerFrame,
                             owner_vars, consumer_vars
<1>7. CASE Receive \/ OutputDisconnected \/ ConsumerStops
  <2>1. output' \in Seq(Verdict) /\ delivered' \in Seq(Verdict)
    BY <1>7, MoveHead DEF Receive, OutputDisconnected, ConsumerStops
  <2>2. UNCHANGED <<input, owner_vars, worker_vars>>
    BY <1>7 DEF Receive, OutputDisconnected, ConsumerStops
  <2> QED  BY <2>1, <2>2 DEF Next, owner_vars, worker_vars
<1> QED  BY <1>1, <1>2, <1>3, <1>4, <1>5, <1>6, <1>7, <1>8 DEF Next, Step, Worker, Consumer

LEMMA HandleStep ==
  ASSUME ATypeOK, HandleInv, Next
  PROVE  HandleInv'
<1> USE DEF HandleInv, Told, NoItem, None
<1>1. CASE CallFails
  BY <1>1 DEF CallFails, WorkerAlive, Reply, worker_vars
<1>2. CASE Launch \/ SubmitEvent
  BY <1>2 DEF ATypeOK, Launch, SubmitEvent, StartSend, WorkerAlive, LaunchItem, worker_vars
<1>3. CASE FinishSend \/ Shutdown \/ DropMonitor
  BY <1>3 DEF FinishSend, Shutdown, DropMonitor, Reply, worker_vars
<1>4. CASE Join
  BY <1>4 DEF Join, Reply, worker_vars
<1>5. CASE Consumer \/ ConsumerStops
  BY <1>5 DEF Consumer, Receive, OutputDisconnected, ConsumerStops, owner_vars, worker_vars
<1>6. CASE Worker
  <2>1. worker # "done" /\ UNCHANGED owner_vars /\ (worker' = "done" <=> result' # None)
    <3> USE DEF WorkerEnds, WorkerFrame
    <3>1. CASE SetupAndInit \/ SetupFails \/ AwaitLaunch
      BY <3>1 DEF SetupAndInit, SetupFails, AwaitLaunch
    <3>2. CASE EventFails \/ DeadlinePanics \/ SecondLaunch
      BY <3>2 DEF EventFails, DeadlinePanics, SecondLaunch
    <3>3. CASE ProcessEvent \/ TimedOut \/ Disconnected
      BY <3>3 DEF ProcessEvent, TimedOut, Disconnected, Produce
    <3>4. CASE SendVerdict \/ SendFails \/ NextRound
      BY <3>4 DEF SendVerdict, SendFails, NextRound
    <3> QED  BY <1>6, <3>1, <3>2, <3>3, <3>4 DEF Worker
  <2> QED  BY <2>1 DEF owner_vars
<1> QED  BY <1>1, <1>2, <1>3, <1>4, <1>5, <1>6 DEF Next, Step

\* With the input empty every accepted event is evaluated.
LEMMA EmptyInput ==
  ASSUME ATypeOK, EventsInv, EventsInOrder, worker # "done", input = <<>>
  PROVE  Len(processed) = accepted
<1>1. Range(input) = {}
  BY DEF Range
<1>2. Len(processed) \in Nat /\ accepted \in Nat
  BY LenProperties DEF ATypeOK
<1>3. Len(processed) + 1 .. accepted = {} /\ Len(processed) <= accepted
  BY <1>1 DEF EventsInOrder, EventsInv
<1> QED  BY <1>2, <1>3

LEMMA ClosingStep ==
  ASSUME ATypeOK, HandleInv, ClosingInv, EventsInv, EventsInOrder, Next
  PROVE  ClosingInv'
<1> USE DEF ClosingInv, InputClosed, None
<1>1. CASE CallFails \/ Launch \/ SubmitEvent \/ FinishSend \/ Shutdown \/ Join \/ DropMonitor
  <2>1. UNCHANGED worker_vars /\ (InputClosed => InputClosed' /\ UNCHANGED input)
    BY <1>1 DEF CallFails, Launch, SubmitEvent, FinishSend, Shutdown, Join, DropMonitor, StartSend
  <2>2. worker = "done" => UNCHANGED <<accepted, submitted>>
    BY <1>1 DEF WorkerAlive, CallFails, Launch, SubmitEvent, FinishSend, Shutdown, Join, DropMonitor, StartSend
  <2> QED  BY <2>1, <2>2 DEF HandleInv, worker_vars
<1>2. CASE Consumer \/ ConsumerStops
  BY <1>2 DEF Consumer, Receive, OutputDisconnected, ConsumerStops, owner_vars, worker_vars
<1>3. CASE Worker
  <2> USE DEF WorkerEnds, WorkerFrame, owner_vars, HandleInv
  <2>1. CASE SetupAndInit \/ SetupFails \/ AwaitLaunch
    BY <1>3, <2>1 DEF SetupAndInit, SetupFails, AwaitLaunch, ATypeOK
  <2>2. CASE EventFails \/ DeadlinePanics \/ SecondLaunch
    BY <2>2 DEF EventFails, DeadlinePanics, SecondLaunch
  <2>3. CASE ProcessEvent \/ TimedOut \/ Disconnected
    BY <2>3 DEF ProcessEvent, TimedOut, Disconnected, Produce
  <2>4. CASE SendVerdict \/ SendFails
    BY <2>4 DEF SendVerdict, SendFails
  <2>5. CASE NextRound
    <3>1. CASE closing
      <4>1. worker # "done" /\ InputClosed /\ input = <<>> /\ sending = NoItem
        BY <2>5, <3>1 DEF NextRound
      <4>2. Len(processed) = accepted /\ accepted = submitted
        BY <4>1, EmptyInput DEF EventsInv, IsInput, NoItem
      <4> QED  BY <2>5, <3>1, <4>1, <4>2 DEF NextRound
    <3> QED  BY <2>5, <3>1 DEF NextRound
  <2> QED  BY <1>3, <2>1, <2>2, <2>3, <2>4, <2>5 DEF Worker
<1> QED  BY <1>1, <1>2, <1>3 DEF Next, Step
-----------------------------------------------------------------------------
\* An event behind the queue, and the first one in front of it.
LEMMA EventAppended ==
  ASSUME ATypeOK, EventsInOrder, worker # "done", Len(processed) <= accepted,
         processed' = processed, input' = Append(input, sending), sending \in Nat,
         \/ sending = LaunchItem /\ accepted' = accepted
         \/ sending = accepted + 1 /\ accepted' = accepted + 1
  PROVE  EventsInOrder'
<1>1. /\ Len(processed) \in Nat /\ accepted \in Nat
      /\ \A i \in DOMAIN input : input[i] \in Nat
  BY LenProperties, ElementOfSeq DEF ATypeOK
<1>2. /\ DOMAIN input = 1 .. Len(input) /\ Len(input) \in Nat
      /\ DOMAIN input' = 1 .. (Len(input) + 1)
      /\ \A i \in 1 .. Len(input) : input'[i] = input[i]
      /\ input'[Len(input) + 1] = sending
      /\ Range(input') = Range(input) \cup {sending}
  <2>1. input \in Seq(Nat) /\ input' = Append(input, sending)
    BY DEF ATypeOK
  <2>2. /\ DOMAIN input = 1 .. Len(input) /\ Len(input) \in Nat
        /\ DOMAIN Append(input, sending) = 1 .. (Len(input) + 1)
        /\ \A i \in 1 .. Len(input) : Append(input, sending)[i] = input[i]
        /\ Append(input, sending)[Len(input) + 1] = sending
        /\ Range(Append(input, sending)) = Range(input) \cup {sending}
    BY <2>1, QueueAppend
  <2> QED  BY <2>1, <2>2
<1>3. Range(input) \ {LaunchItem} = Len(processed) + 1 .. accepted
  BY DEF EventsInOrder
<1>4. Range(input') \ {LaunchItem} = Len(processed) + 1 .. accepted'
  BY <1>1, <1>2, <1>3 DEF LaunchItem
<1>5. \A i \in DOMAIN input : IsInput(input[i]) => input[i] <= accepted
  <2>1. ASSUME NEW i \in DOMAIN input, IsInput(input[i]) PROVE input[i] <= accepted
    <3>1. input[i] \in Range(input) /\ input[i] # LaunchItem
      BY <2>1 DEF Range, IsInput, LaunchItem
    <3>2. input[i] \in Len(processed) + 1 .. accepted
      BY <1>3, <3>1
    <3> QED  BY <3>2
  <2> QED  BY <2>1
<1>6. ASSUME NEW i \in DOMAIN input', NEW j \in DOMAIN input',
             i < j, IsInput(input'[i]), IsInput(input'[j])
      PROVE  input'[i] < input'[j]
  <2>1. i \in DOMAIN input
    BY <1>2, <1>6
  <2>2. CASE j \in DOMAIN input
    BY <1>2, <1>6, <2>1, <2>2 DEF EventsInOrder
  <2>3. CASE j = Len(input) + 1
    BY <1>1, <1>2, <1>5, <1>6, <2>1, <2>3 DEF IsInput, LaunchItem
  <2> QED  BY <1>2, <2>2, <2>3
<1>7. \A i \in DOMAIN processed' : processed'[i] = i
  BY DEF EventsInOrder
<1> QED  BY <1>4, <1>6, <1>7 DEF EventsInOrder

LEMMA EventTaken ==
  ASSUME ATypeOK, EventsInOrder, worker # "done", input # <<>>, IsInput(Head(input)),
         Len(processed) <= accepted, accepted' = accepted,
         processed' = Append(processed, Head(input)), input' = Tail(input)
  PROVE  EventsInOrder' /\ Head(input) = Len(processed) + 1 /\ Head(input) <= accepted
<1>1. /\ Len(processed) \in Nat /\ accepted \in Nat
      /\ \A i \in DOMAIN input : input[i] \in Nat
  BY LenProperties, ElementOfSeq DEF ATypeOK
<1>2. /\ Head(input) \in Nat /\ Head(input) = input[1]
      /\ Len(input) \in Nat /\ Len(input) > 0 /\ DOMAIN input = 1 .. Len(input)
      /\ DOMAIN input' = 1 .. (Len(input) - 1)
      /\ \A i \in 1 .. (Len(input) - 1) : input'[i] = input[i + 1]
      /\ Range(input) = {Head(input)} \cup Range(input')
  BY QueueHead DEF ATypeOK
<1>3. Range(input) \ {LaunchItem} = Len(processed) + 1 .. accepted
  BY DEF EventsInOrder
<1>4. \A i \in DOMAIN input : i # 1 /\ IsInput(input[i]) => Head(input) < input[i]
  BY <1>2 DEF EventsInOrder
<1>5. Head(input) \in Len(processed) + 1 .. accepted
  BY <1>2, <1>3 DEF IsInput, LaunchItem
<1>6. Head(input) = Len(processed) + 1
  <2>1. Len(processed) + 1 \in Range(input) /\ IsInput(Len(processed) + 1)
    BY <1>1, <1>3, <1>5 DEF IsInput
  <2>2. PICK i \in DOMAIN input : input[i] = Len(processed) + 1
    BY <2>1 DEF Range
  <2> QED  BY <1>1, <1>2, <1>4, <1>5, <2>1, <2>2
<1>7. Range(input') \ {LaunchItem} = Len(processed) + 2 .. accepted
  <2>1. \A x \in Range(input') : x # LaunchItem => x # Head(input)
    <3>1. ASSUME NEW i \in DOMAIN input', input'[i] # LaunchItem PROVE input'[i] # Head(input)
      <4>1. i + 1 \in DOMAIN input /\ i + 1 # 1 /\ input[i + 1] = input'[i]
        BY <1>2, <3>1
      <4>2. IsInput(input[i + 1])
        BY <1>1, <3>1, <4>1 DEF IsInput, LaunchItem
      <4> QED  BY <1>1, <1>2, <1>4, <4>1, <4>2
    <3> QED  BY <3>1 DEF Range
  <2>2. \A x : x \in Range(input') \ {LaunchItem}
               <=> x \in Range(input) \ {LaunchItem} /\ x # Head(input)
    BY <1>2, <2>1 DEF IsInput, LaunchItem
  <2> QED  BY <1>1, <1>3, <1>6, <2>2
<1>8. /\ Len(processed') = Len(processed) + 1
      /\ \A i \in DOMAIN processed' : processed'[i] = i
  <2>1. processed \in Seq(Nat) /\ Head(input) \in Nat
    BY <1>2 DEF ATypeOK
  <2>2. /\ DOMAIN processed = 1 .. Len(processed)
        /\ Len(processed') = Len(processed) + 1
        /\ DOMAIN processed' = 1 .. (Len(processed) + 1)
        /\ \A i \in 1 .. Len(processed) : processed'[i] = processed[i]
        /\ processed'[Len(processed) + 1] = Head(input)
    BY <2>1, QueueAppend
  <2>3. \A i \in DOMAIN processed : processed[i] = i
    BY DEF EventsInOrder
  <2> QED  BY <1>1, <1>6, <2>2, <2>3
<1>9. ASSUME NEW i \in DOMAIN input', NEW j \in DOMAIN input',
             i < j, IsInput(input'[i]), IsInput(input'[j])
      PROVE  input'[i] < input'[j]
  <2>1. /\ i + 1 \in DOMAIN input /\ j + 1 \in DOMAIN input /\ i + 1 < j + 1
        /\ input'[i] = input[i + 1] /\ input'[j] = input[j + 1]
    BY <1>2, <1>9
  <2> QED  BY <1>9, <2>1 DEF EventsInOrder
<1>10. Range(input') \ {LaunchItem} = Len(processed') + 1 .. accepted'
  BY <1>1, <1>7, <1>8
<1> QED  BY <1>5, <1>6, <1>8, <1>9, <1>10 DEF EventsInOrder

LEMMA LaunchTaken ==
  ASSUME ATypeOK, EventsInOrder, worker # "done", input # <<>>, Head(input) = LaunchItem,
         UNCHANGED <<accepted, processed>>, input' = Tail(input)
  PROVE  EventsInOrder'
<1>1. /\ Len(input) \in Nat /\ DOMAIN input = 1 .. Len(input)
      /\ DOMAIN input' = 1 .. (Len(input) - 1)
      /\ \A i \in 1 .. (Len(input) - 1) : input'[i] = input[i + 1]
      /\ Range(input) = {LaunchItem} \cup Range(input')
  BY QueueHead DEF ATypeOK
<1>2. Range(input') \ {LaunchItem} = Range(input) \ {LaunchItem}
  BY <1>1
<1>3. ASSUME NEW i \in DOMAIN input', NEW j \in DOMAIN input',
             i < j, IsInput(input'[i]), IsInput(input'[j])
      PROVE  input'[i] < input'[j]
  <2>1. /\ i + 1 \in DOMAIN input /\ j + 1 \in DOMAIN input /\ i + 1 < j + 1
        /\ input'[i] = input[i + 1] /\ input'[j] = input[j + 1]
    BY <1>1, <1>3
  <2> QED  BY <1>3, <2>1 DEF EventsInOrder
<1> QED  BY <1>2, <1>3 DEF EventsInOrder

LEMMA EventsStep ==
  ASSUME ATypeOK, HandleInv, EventsInv, EventsInOrder, Next
  PROVE  EventsInv' /\ EventsInOrder'
<1>1. CASE UNCHANGED <<processed, accepted, submitted, sending, input>> /\ (worker = "done" => worker' = "done")
  BY <1>1 DEF EventsInv, EventsInOrder
<1>2. CASE worker' = "done"
  BY <1>2 DEF EventsInv, EventsInOrder
<1>3. CASE CallFails \/ Shutdown \/ Join \/ DropMonitor \/ Consumer \/ ConsumerStops
  BY <1>1, <1>3 DEF CallFails, Shutdown, Join, DropMonitor, Consumer, Receive,
                    OutputDisconnected, ConsumerStops, owner_vars, worker_vars
<1>4. CASE Launch \/ SubmitEvent
  <2>1. /\ UNCHANGED <<processed, accepted, input, worker>> /\ sending = NoItem
        /\ \/ sending' = LaunchItem /\ submitted' = submitted
           \/ sending' = submitted + 1 /\ submitted' = submitted + 1
    BY <1>4 DEF Launch, SubmitEvent, StartSend, worker_vars, HandleInv
  <2> QED  BY <2>1 DEF EventsInv, EventsInOrder, IsInput, NoItem, LaunchItem, ATypeOK
<1>5. CASE FinishSend /\ worker # "done"
  <2>1. /\ sending \in Nat /\ input' = Append(input, sending)
        /\ UNCHANGED <<processed, submitted, worker>> /\ sending' = NoItem
        /\ accepted' = IF IsInput(sending) THEN accepted + 1 ELSE accepted
    BY <1>5 DEF FinishSend, HandleInv, ATypeOK, worker_vars
  <2>2. \/ sending = LaunchItem /\ accepted' = accepted
        \/ sending = accepted + 1 /\ accepted' = accepted + 1
    BY <1>5, <2>1 DEF EventsInv, IsInput, LaunchItem, ATypeOK
  <2>3. Len(processed) <= accepted /\ Len(processed) \in Nat /\ accepted \in Nat
    BY <1>5, LenProperties DEF EventsInv, ATypeOK
  <2>4. EventsInOrder'
    BY <1>5, <2>1, <2>2, <2>3, EventAppended
  <2>5. EventsInv'
    BY <1>5, <2>1, <2>2, <2>3 DEF EventsInv, IsInput, NoItem, LaunchItem
  <2> QED  BY <2>4, <2>5
<1>6. CASE FinishSend /\ worker = "done"
  BY <1>2, <1>6 DEF FinishSend, worker_vars
<1>7. CASE SetupAndInit \/ TimedOut \/ Disconnected \/ SendVerdict
  BY <1>1, <1>7 DEF SetupAndInit, TimedOut, Disconnected, SendVerdict, Produce, WorkerFrame, owner_vars
<1>8. CASE SetupFails \/ EventFails \/ DeadlinePanics \/ SecondLaunch \/ SendFails
  BY <1>2, <1>8 DEF SetupFails, EventFails, DeadlinePanics, SecondLaunch, SendFails, WorkerEnds
<1>9. CASE NextRound
  BY <1>1, <1>2, <1>9 DEF NextRound, WorkerFrame, owner_vars
<1>10. CASE AwaitLaunch
  <2>1. CASE input = <<>>
    BY <1>1, <1>2, <1>10, <2>1 DEF AwaitLaunch, WorkerEnds, WorkerFrame, owner_vars
  <2>2. CASE input # <<>> /\ worker' # "done"
    <3>1. /\ worker # "done" /\ Head(input) = LaunchItem /\ input' = Tail(input)
          /\ UNCHANGED <<processed, accepted, submitted, sending>>
      BY <1>10, <2>2 DEF AwaitLaunch, WorkerEnds, WorkerFrame, owner_vars
    <3>2. EventsInOrder'
      BY <2>2, <3>1, LaunchTaken
    <3> QED  BY <3>1, <3>2 DEF EventsInv
  <2> QED  BY <1>2, <2>1, <2>2
<1>11. CASE ProcessEvent
  <2>1. /\ worker # "done" /\ input # <<>> /\ IsInput(Head(input))
        /\ processed' = Append(processed, Head(input)) /\ input' = Tail(input)
        /\ UNCHANGED <<accepted, submitted, sending>>
    BY <1>11 DEF ProcessEvent, WorkerFrame, owner_vars
  <2>2. Len(processed) <= accepted
    BY <2>1 DEF EventsInv
  <2>3. EventsInOrder' /\ Head(input) = Len(processed) + 1 /\ Head(input) <= accepted
    BY <2>1, <2>2, EventTaken
  <2>4. Len(processed') = Len(processed) + 1
    <3>1. Head(input) \in Nat
      BY <2>1, QueueHead DEF ATypeOK
    <3> QED  BY <2>1, <3>1, QueueAppend DEF ATypeOK
  <2> QED  BY <2>1, <2>3, <2>4 DEF EventsInv
<1> QED  BY <1>3, <1>4, <1>5, <1>6, <1>7, <1>8, <1>9, <1>10, <1>11 DEF Next, Step, Worker
-----------------------------------------------------------------------------
LEMMA LaunchInQueue ==
  ASSUME NEW q \in Seq(Nat), NEW x \in Nat
  PROVE  /\ LaunchItem \notin Range(q) => OneLaunch(q)
         /\ OneLaunch(q) /\ x # LaunchItem => OneLaunch(Append(q, x))
         /\ LaunchItem \notin Range(q) => OneLaunch(Append(q, x))
         /\ q # <<>> /\ OneLaunch(q) =>
              /\ OneLaunch(Tail(q))
              /\ Head(q) = LaunchItem => LaunchItem \notin Range(Tail(q))
<1>1. LaunchItem \notin Range(q) => OneLaunch(q)
  BY DEF Range, OneLaunch
<1>2. /\ DOMAIN q = 1 .. Len(q) /\ Len(q) \in Nat
      /\ DOMAIN Append(q, x) = 1 .. (Len(q) + 1)
      /\ \A i \in 1 .. Len(q) : Append(q, x)[i] = q[i]
      /\ Append(q, x)[Len(q) + 1] = x
  BY QueueAppend
<1>3. OneLaunch(q) /\ x # LaunchItem => OneLaunch(Append(q, x))
  BY <1>2 DEF OneLaunch
<1>4. LaunchItem \notin Range(q) => OneLaunch(Append(q, x))
  <2>1. LaunchItem \notin Range(q) => \A i \in 1 .. Len(q) : q[i] # LaunchItem
    BY <1>2 DEF Range
  <2> QED  BY <1>2, <2>1 DEF OneLaunch
<1>5. ASSUME q # <<>>, OneLaunch(q)
      PROVE  OneLaunch(Tail(q)) /\ (Head(q) = LaunchItem => LaunchItem \notin Range(Tail(q)))
  <2>1. /\ Head(q) = q[1] /\ Len(q) \in Nat /\ Len(q) > 0 /\ DOMAIN q = 1 .. Len(q)
        /\ DOMAIN Tail(q) = 1 .. (Len(q) - 1)
        /\ \A i \in 1 .. (Len(q) - 1) : Tail(q)[i] = q[i + 1]
    BY <1>5, QueueHead
  <2>2. ASSUME NEW i \in DOMAIN Tail(q)
        PROVE  i + 1 \in DOMAIN q /\ i + 1 # 1 /\ Tail(q)[i] = q[i + 1]
    BY <2>1, <2>2
  <2>3. OneLaunch(Tail(q))
    <3>1. ASSUME NEW i \in DOMAIN Tail(q), NEW j \in DOMAIN Tail(q),
                 Tail(q)[i] = LaunchItem, Tail(q)[j] = LaunchItem
          PROVE  i = j
      <4>1. i + 1 = j + 1
        BY <1>5, <2>2, <3>1 DEF OneLaunch
      <4> QED  BY <2>1, <4>1
    <3> QED  BY <3>1 DEF OneLaunch
  <2>4. Head(q) = LaunchItem => \A i \in DOMAIN Tail(q) : Tail(q)[i] # LaunchItem
    <3>1. 1 \in DOMAIN q
      BY <2>1
    <3> QED  BY <1>5, <2>1, <2>2, <3>1 DEF OneLaunch
  <2> QED  BY <2>3, <2>4 DEF Range
<1> QED  BY <1>1, <1>3, <1>4, <1>5

\* What the worker takes from the queue leaves at most what was in it.
LEMMA LaunchTail ==
  ASSUME ATypeOK, LaunchInv, input # <<>>, input' = Tail(input),
         UNCHANGED <<launches, sending>>
  PROVE  /\ launches = 0 => LaunchItem \notin Range(input')
         /\ launches = 1 => OneLaunch(input') /\ (sending = LaunchItem => LaunchItem \notin Range(input'))
         /\ LaunchItem \notin Range(input) => LaunchItem \notin Range(input')
<1>1. Range(input) = {Head(input)} \cup Range(input')
  BY QueueHead DEF ATypeOK
<1>2. OneLaunch(input) => OneLaunch(input')
  BY LaunchInQueue DEF ATypeOK
<1> QED  BY <1>1, <1>2 DEF LaunchInv

LEMMA LaunchStep ==
  ASSUME Base, Next
  PROVE  LaunchInv' /\ LaunchProtocol'
<1>0. ATypeOK /\ HandleInv /\ EventsInv /\ EventsInOrder /\ LaunchInv /\ LaunchProtocol
  BY DEF Base
<1>1. CASE /\ UNCHANGED <<launches, sending, input, submitted, worker, processed, produced, result>>
           /\ InputClosed => InputClosed'
  BY <1>0, <1>1 DEF LaunchInv, LaunchProtocol, ATypeOK
<1>2. CASE CallFails \/ Shutdown \/ Join \/ DropMonitor \/ Consumer \/ ConsumerStops
  BY <1>1, <1>2 DEF CallFails, Shutdown, Join, DropMonitor, Consumer, Receive, InputClosed,
                    OutputDisconnected, ConsumerStops, owner_vars, worker_vars
<1>3. CASE Launch
  <2>1. /\ launches' = launches + 1 /\ sending' = LaunchItem /\ owner = "idle" /\ worker # "done"
        /\ UNCHANGED <<input, worker, processed, produced, result, submitted>>
    BY <1>3 DEF Launch, StartSend, WorkerAlive, worker_vars
  <2>2. result = None
    BY <1>0, <2>1 DEF HandleInv
  <2>3. launches' = 1 => /\ launches = 0 /\ LaunchItem \notin Range(input)
                         /\ worker \notin {"init", "process", "send"}
    BY <1>0, <2>1 DEF LaunchInv, InputClosed, ATypeOK
  <2>4. launches' # 0
    BY <1>0, <2>1 DEF ATypeOK
  <2>5. LaunchItem \notin Range(input) => OneLaunch(input)
    BY <1>0 DEF Range, OneLaunch
  <2>6. LaunchInv'
    BY <1>0, <2>1, <2>3, <2>4, <2>5 DEF LaunchInv, OneLaunch
  <2>7. LaunchProtocol'
    BY <2>1, <2>2, <2>4 DEF LaunchProtocol, None
  <2> QED  BY <2>6, <2>7
<1>4. CASE SubmitEvent
  <2>1. /\ sending' = submitted + 1 /\ submitted' = submitted + 1 /\ owner = "idle" /\ owner' = "send"
        /\ UNCHANGED <<launches, input, worker, processed, produced, result>>
    BY <1>4 DEF SubmitEvent, StartSend, worker_vars
  <2>2. sending' # LaunchItem /\ submitted <= submitted'
    BY <1>0, <2>1 DEF ATypeOK, LaunchItem
  <2> QED  BY <1>0, <2>1, <2>2 DEF LaunchInv, LaunchProtocol, InputClosed, ATypeOK
<1>5. CASE FinishSend
  <2>1. /\ owner = "send" /\ sending \in Nat /\ sending' = NoItem /\ sending' # LaunchItem
        /\ UNCHANGED <<launches, worker, processed, produced, result, submitted>>
        /\ input' = input \/ input' = Append(input, sending)
    BY <1>0, <1>5 DEF FinishSend, worker_vars, HandleInv, ATypeOK, NoItem, LaunchItem
  <2>2. input \in Seq(Nat) /\ Range(Append(input, sending)) = Range(input) \cup {sending}
    <3>1. input \in Seq(Nat) /\ sending \in Nat
      BY <1>0, <2>1 DEF ATypeOK
    <3> QED  BY <3>1, QueueAppend
  <2>3. launches = 1 => OneLaunch(Append(input, sending))
    BY <1>0, <2>1, <2>2, LaunchInQueue DEF LaunchInv
  <2> QED  BY <1>0, <2>1, <2>2, <2>3 DEF LaunchInv, LaunchProtocol, InputClosed
<1>6. CASE SetupAndInit
  BY <1>0, <1>6 DEF SetupAndInit, WorkerFrame, owner_vars, LaunchInv, LaunchProtocol, InputClosed
<1>7. CASE SetupFails \/ DeadlinePanics \/ SendFails
  BY <1>0, <1>7 DEF SetupFails, DeadlinePanics, SendFails, WorkerEnds, WorkerFrame, owner_vars,
                    LaunchInv, LaunchProtocol, InputClosed
<1>8. CASE EventFails \/ SecondLaunch
  <2>1. /\ worker = "process" /\ worker' = "done" /\ input # <<>> /\ input' = Tail(input)
        /\ UNCHANGED <<owner, launches, sending, processed, produced, submitted>>
        /\ result' # "EventBeforeStart"
    BY <1>8 DEF EventFails, SecondLaunch, WorkerEnds, WorkerFrame, owner_vars
  <2>2. result' = "MultipleStart" => LaunchItem \in Range(input)
    <3>1. Head(input) \in Range(input)
      BY <1>0, <2>1, QueueHead DEF ATypeOK
    <3> QED  BY <1>8, <3>1 DEF EventFails, SecondLaunch, WorkerEnds
  <2>3. result' = "MultipleStart" => launches > 1
    BY <1>0, <2>1, <2>2 DEF LaunchInv, ATypeOK
  <2> QED  BY <1>0, <2>1, <2>3, LaunchTail DEF LaunchInv, LaunchProtocol
<1>9. CASE AwaitLaunch
  <2>1. /\ worker = "await" /\ processed = <<>> /\ produced = <<>> /\ result = None
        /\ UNCHANGED <<owner, launches, sending, processed, produced, submitted>>
    BY <1>0, <1>9 DEF AwaitLaunch, WorkerEnds, WorkerFrame, owner_vars, LaunchInv, HandleInv
  <2>2. CASE input = <<>>
    <3>1. InputClosed /\ worker' = "init" /\ UNCHANGED <<input, result>>
      BY <1>9, <2>2 DEF AwaitLaunch
    <3>2. sending # LaunchItem /\ LaunchItem \notin Range(input)
      BY <1>0, <2>2, <3>1 DEF HandleInv, InputClosed, NoItem, LaunchItem, Range
    <3> QED  BY <1>0, <2>1, <2>2, <3>1, <3>2 DEF LaunchInv, LaunchProtocol, InputClosed, None
  <2>3. CASE input # <<>> /\ IsInput(Head(input))
    <3>1. worker' = "done" /\ result' = "EventBeforeStart" /\ input' = Tail(input)
      BY <1>9, <2>3 DEF AwaitLaunch, WorkerEnds, IsInput, LaunchItem
    <3>2. submitted > 0
      <4>1. Head(input) \in Range(input) /\ Head(input) # LaunchItem
        BY <1>0, <2>3, QueueHead DEF ATypeOK, IsInput, LaunchItem
      <4>2. Head(input) \in Len(processed) + 1 .. accepted
        BY <1>0, <2>1, <4>1 DEF EventsInOrder
      <4>3. accepted > 0 /\ submitted >= accepted
        BY <1>0, <2>1, <4>2, LenProperties DEF EventsInv, ATypeOK
      <4> QED  BY <1>0, <4>3 DEF ATypeOK
    <3> QED  BY <1>0, <2>1, <2>3, <3>1, <3>2, LaunchTail DEF LaunchInv, LaunchProtocol
  <2>4. CASE input # <<>> /\ ~IsInput(Head(input))
    <3>1. worker' = "init" /\ Head(input) = LaunchItem /\ input' = Tail(input) /\ UNCHANGED result
      BY <1>9, <2>4 DEF AwaitLaunch
    <3>2. launches # 0 /\ (launches = 1 => sending # LaunchItem)
      BY <1>0, <2>4, <3>1, QueueHead DEF LaunchInv, ATypeOK
    <3>3. launches = 1 => LaunchItem \notin Range(input')
      BY <1>0, <2>4, <3>1, LaunchInQueue DEF LaunchInv, ATypeOK
    <3> QED  BY <1>0, <2>1, <2>4, <3>1, <3>2, <3>3, LaunchTail DEF LaunchInv, LaunchProtocol, None
  <2> QED  BY <2>2, <2>3, <2>4
<1>10. CASE ProcessEvent
  <2>1. /\ worker = "process" /\ worker' = "send" /\ input # <<>> /\ input' = Tail(input)
        /\ UNCHANGED <<owner, launches, sending, submitted, result>>
    BY <1>10 DEF ProcessEvent, Produce, WorkerFrame, owner_vars
  <2>2. launches # 0 /\ result = None
    BY <1>0, <2>1 DEF LaunchInv, HandleInv
  <2> QED  BY <1>0, <2>1, <2>2, LaunchTail DEF LaunchInv, LaunchProtocol, None
<1>11. CASE TimedOut
  <2>1. /\ worker = "process" /\ worker' = "send" /\ ~InputClosed
        /\ UNCHANGED <<owner, launches, sending, submitted, result, input>>
    BY <1>11 DEF TimedOut, Produce, WorkerFrame, owner_vars
  <2>2. launches # 0 /\ result = None
    BY <1>0, <2>1 DEF LaunchInv, HandleInv
  <2> QED  BY <1>0, <2>1, <2>2 DEF LaunchInv, LaunchProtocol, None
<1>12. CASE Disconnected
  <2>1. /\ worker = "process" /\ worker' = "send"
        /\ UNCHANGED <<owner, launches, sending, submitted, result, input, processed>>
    BY <1>12 DEF Disconnected, Produce, WorkerFrame, owner_vars
  <2>2. result = None
    BY <1>0, <2>1 DEF HandleInv
  <2>3. launches = 0 => processed = <<>> /\ produced = <<>> /\ produced' = produced \o <<>>
    BY <1>0, <1>12 DEF LaunchProtocol, Disconnected, Produce
  <2>4. produced \o <<>> = produced
    BY <1>0, ConcatEmptySeq DEF ATypeOK
  <2> QED  BY <1>0, <2>1, <2>2, <2>3, <2>4 DEF LaunchInv, LaunchProtocol, InputClosed, None
<1>13. CASE SendVerdict \/ NextRound
  BY <1>0, <1>13 DEF SendVerdict, NextRound, WorkerFrame, owner_vars, LaunchInv, LaunchProtocol,
                     InputClosed
<1> QED  BY <1>2, <1>3, <1>4, <1>5, <1>6, <1>7, <1>8, <1>9, <1>10, <1>11, <1>12, <1>13
         DEF Next, Step, Worker
-----------------------------------------------------------------------------
LEMMA VerdictStep ==
  ASSUME Base, VerdictInv, Next
  PROVE  VerdictInv'
<1>0. /\ ATypeOK /\ HandleInv /\ ClosingInv
      /\ output \in Seq(Verdict) /\ delivered \in Seq(Verdict)
      /\ outbox \in Seq(Verdict) /\ produced \in Seq(Verdict)
      /\ delivered \o output \in Seq(Verdict)
  BY ConcatProperties DEF Base, ATypeOK
<1>1. CASE UNCHANGED <<output, outbox, produced, delivered, worker, result>>
  BY <1>1 DEF VerdictInv, VerdictsInSequence
<1>2. CASE CallFails \/ Launch \/ SubmitEvent \/ FinishSend \/ Shutdown \/ Join \/ DropMonitor
  BY <1>1, <1>2 DEF CallFails, Launch, SubmitEvent, FinishSend, Shutdown, Join, DropMonitor,
                    StartSend, worker_vars, consumer_vars
<1>3. CASE OutputDisconnected \/ ConsumerStops
  BY <1>1, <1>3 DEF OutputDisconnected, ConsumerStops, worker_vars
<1>4. CASE Receive
  <2>1. /\ output # <<>> /\ delivered' = Append(delivered, Head(output)) /\ output' = Tail(output)
        /\ UNCHANGED <<outbox, produced, worker, result>>
    BY <1>4 DEF Receive, worker_vars
  <2>2. delivered' \o output' = delivered \o output
    BY <1>0, <2>1, MoveHead
  <2> QED  BY <2>1, <2>2 DEF VerdictInv, VerdictsInSequence
<1>5. CASE SendVerdict
  <2>1. /\ worker = "send" /\ outbox # <<>>
        /\ output' = Append(output, Head(outbox)) /\ outbox' = Tail(outbox)
        /\ UNCHANGED <<delivered, produced, worker, result>>
    BY <1>5 DEF SendVerdict, consumer_vars
  <2>2. output' \o outbox' = output \o outbox /\ output' \in Seq(Verdict) /\ outbox' \in Seq(Verdict)
    BY <1>0, <2>1, MoveHead
  <2>3. ASSUME NEW q \in Seq(Verdict), NEW r \in Seq(Verdict)
        PROVE  (delivered \o q) \o r = delivered \o (q \o r)
    <3>1. delivered \in Seq(Verdict)
      BY <1>0
    <3> QED  BY <3>1, ConcatAssociative
  <2>4. result' # "Ok"
    BY <1>0, <2>1 DEF HandleInv, None
  <2>5. (delivered \o output') \o outbox' = (delivered \o output) \o outbox
    <3>1. (delivered \o output') \o outbox' = delivered \o (output' \o outbox')
      BY <2>2, <2>3
    <3>2. (delivered \o output) \o outbox = delivered \o (output \o outbox)
      BY <1>0, <2>3
    <3> QED  BY <2>2, <3>1, <3>2
  <2>6. (delivered' \o output') \o outbox' = (delivered \o output) \o outbox
    BY <2>1, <2>5
  <2> QED  BY <2>1, <2>4, <2>6 DEF VerdictInv, VerdictsInSequence
\* The worker's other steps leave the queue and the reader alone.
<1>6. CASE /\ UNCHANGED <<output, produced, delivered>> /\ worker # "done"
           /\ outbox' = outbox \/ (outbox' = <<>> /\ worker' = "done")
           /\ result' = "Ok" => outbox = <<>>
  <2>1. (delivered \o output) \o outbox = produced
    BY <1>6 DEF VerdictInv, VerdictsInSequence
  <2>2. IsPrefix(delivered \o output, produced)
    BY <1>0, <2>1, PrefixOfConcat
  <2>3. (delivered \o output) \o <<>> = delivered \o output
    BY <1>0, ConcatEmptySeq
  <2> QED  BY <1>6, <2>1, <2>2, <2>3 DEF VerdictInv, VerdictsInSequence
<1>7. CASE SetupAndInit \/ SetupFails \/ AwaitLaunch
  BY <1>0, <1>6, <1>7 DEF SetupAndInit, SetupFails, AwaitLaunch, WorkerEnds, WorkerFrame,
                          consumer_vars, HandleInv, None
<1>8. CASE EventFails \/ DeadlinePanics \/ SecondLaunch \/ SendFails
  BY <1>6, <1>8 DEF EventFails, DeadlinePanics, SecondLaunch, SendFails, WorkerEnds, WorkerFrame,
                    consumer_vars
<1>9. CASE NextRound
  BY <1>6, <1>9 DEF NextRound, WorkerFrame, consumer_vars
<1>10. ASSUME NEW v \in Seq(Verdict), Produce(v), worker = "process",
              UNCHANGED <<output, delivered>>
       PROVE  VerdictInv'
  <2>1. outbox = <<>> /\ result' # "Ok"
    BY <1>0, <1>10 DEF ClosingInv, HandleInv, Produce, None
  <2>2. (delivered \o output) \o outbox = produced
    BY <1>10 DEF VerdictInv, VerdictsInSequence
  <2>3. delivered \o output = produced
    BY <1>0, <2>1, <2>2, ConcatEmptySeq
  <2>4. (delivered' \o output') \o outbox' = produced'
    BY <1>10, <2>3 DEF Produce
  <2>5. produced \o v \in Seq(Verdict) /\ (produced \o v) \o <<>> = produced \o v
    BY <1>0, <1>10, ConcatProperties, ConcatEmptySeq
  <2>6. IsPrefix(produced', produced')
    BY <1>10, <2>5, EmptySeq, PrefixOfConcat DEF Produce
  <2> QED  BY <2>1, <2>4, <2>6 DEF VerdictInv, VerdictsInSequence
<1>11. CASE ProcessEvent \/ TimedOut \/ Disconnected
  <2>1. \E v \in Seq(Verdict) : Produce(v)
    BY <1>0, <1>11, ProducesVerdicts
  <2> QED  BY <1>10, <1>11, <2>1 DEF ProcessEvent, TimedOut, Disconnected, WorkerFrame, consumer_vars
<1> QED  BY <1>2, <1>3, <1>4, <1>5, <1>7, <1>8, <1>9, <1>11 DEF Next, Step, Worker, Consumer
-----------------------------------------------------------------------------
LEMMA InitInv == Init => Base /\ VerdictInv
<1> SUFFICES ASSUME Init PROVE Base /\ VerdictInv
  OBVIOUS
<1> USE DEF Init, NoItem, LaunchItem, None
<1>1. ATypeOK
  BY AsyncAssumption, EmptySeq DEF ATypeOK
<1>2. /\ DOMAIN input = {} /\ DOMAIN processed = {} /\ Range(input) = {}
      /\ Len(processed) = 0
  BY EmptySeq DEF Range
<1>3. HandleInv /\ ClosingInv /\ EventsInv
  BY <1>2 DEF HandleInv, ClosingInv, EventsInv, Told, IsInput
<1>4. EventsInOrder
  BY <1>2 DEF EventsInOrder
<1>5. LaunchInv /\ LaunchProtocol
  BY <1>2 DEF LaunchInv, LaunchProtocol
<1>6. (delivered \o output) \o outbox = <<>> /\ IsPrefix(<<>>, <<>>)
  <2>1. <<>> \o <<>> = <<>> /\ <<>> \in Seq(Verdict)
    BY EmptySeq, ConcatEmptySeq
  <2> QED  BY <2>1, PrefixOfConcat
<1> QED  BY <1>1, <1>3, <1>4, <1>5, <1>6 DEF Base, VerdictInv, VerdictsInSequence

\* Base is kept by every step, whoever makes it.
LEMMA BaseStep ==
  ASSUME Base, Next
  PROVE  Base'
BY TypeStep, HandleStep, ClosingStep, EventsStep, LaunchStep DEF Base

LEMMA BaseStutter ==
  ASSUME Base, UNCHANGED vars
  PROVE  Base'
<1>1. UNCHANGED <<setup, input, output, owner, sending, has_handle, returned, shut_down,
                  accepted, submitted, launches, worker, result, outbox, closing,
                  processed, produced, delivered>>
  BY DEF vars, owner_vars, worker_vars, consumer_vars
<1>2. ATypeOK' /\ HandleInv' /\ ClosingInv'
  BY <1>1 DEF Base, ATypeOK, HandleInv, Told, ClosingInv, InputClosed
<1>3. EventsInv' /\ EventsInOrder' /\ LaunchInv' /\ LaunchProtocol'
  BY <1>1 DEF Base, EventsInv, EventsInOrder, LaunchInv, LaunchProtocol, InputClosed
<1> QED  BY <1>2, <1>3 DEF Base

LEMMA AsyncInductive == Spec => [](Base /\ VerdictInv)
<1>1. Base /\ VerdictInv /\ [Next]_vars => Base' /\ VerdictInv'
  <2>1. ASSUME Base, VerdictInv, UNCHANGED vars PROVE VerdictInv'
    BY <2>1 DEF VerdictInv, VerdictsInSequence, vars, worker_vars, consumer_vars
  <2> QED  BY <2>1, BaseStep, BaseStutter, VerdictStep
<1> QED  BY <1>1, InitInv, PTL DEF Spec

(***************************************************************************)
(* Type correctness of the three threads and the two queues.               *)
(***************************************************************************)
THEOREM AsyncTypeCorrect == Spec => []ATypeOK
<1>1. Base => ATypeOK
  BY DEF Base
<1> QED  BY <1>1, AsyncInductive, PTL

(***************************************************************************)
(* However many events are submitted, and however long the queue: a live   *)
(* worker evaluates each accepted event once and in the order of the calls *)
(* of submit_event.                                                        *)
(***************************************************************************)
THEOREM EventsStayInOrder == Spec => []EventsInOrder
<1>1. Base => EventsInOrder
  BY DEF Base
<1> QED  BY <1>1, AsyncInductive, PTL

(***************************************************************************)
(* The receiver of the output gets the verdicts in the order in which they *)
(* were made and, while the worker lives, all of them.                     *)
(***************************************************************************)
THEOREM VerdictsStayInSequence == Spec => []VerdictsInSequence
<1>1. VerdictInv => VerdictsInSequence
  BY DEF VerdictInv
<1> QED  BY <1>1, AsyncInductive, PTL

(***************************************************************************)
(* Ok from the worker thread: every accepted event was evaluated and every *)
(* verdict left the worker.                                                *)
(***************************************************************************)
THEOREM OkIsHonest == Spec => []OkMeansAllProcessed
<1>1. Base /\ VerdictInv => OkMeansAllProcessed
  <2>1. Base => (result = "Ok" => worker = "done" /\ outbox = <<>> /\ Len(processed) = accepted)
    BY DEF Base, HandleInv, ClosingInv, None
  <2> QED  BY <2>1 DEF VerdictInv, OkMeansAllProcessed
<1> QED  BY <1>1, AsyncInductive, PTL

(***************************************************************************)
(* Nothing is evaluated without a launch, and the two protocol errors of   *)
(* await_launch and the loops blame a call that was really made.           *)
(***************************************************************************)
THEOREM LaunchIsProtocol == Spec => []LaunchProtocol
<1>1. Base => LaunchProtocol
  BY DEF Base
<1> QED  BY <1>1, AsyncInductive, PTL

(***************************************************************************)
(* An owner that calls shutdown is told the error that ended its worker.   *)
(***************************************************************************)
THEOREM ErrorsSurface == Spec => []WorkerErrorSurfaces
<1>1. Base => WorkerErrorSurfaces
  BY DEF Base, HandleInv, Told, WorkerErrorSurfaces
<1> QED  BY <1>1, AsyncInductive, PTL
-----------------------------------------------------------------------------
(* Session *)


\* run and the handle, and the drain thread when it is done.
RunInv ==
  /\ run \in {"start", "feed", "end"} => has_handle
  /\ run \in {"drain", "Ok"} => owner = "gone" /\ result = "Ok"
  /\ consumer = "finished" => output = <<>> /\ worker = "done"
  /\ run = "Ok" => consumer = "finished"

SessionInv ==
  /\ Base
  /\ consumer # "stopped" => VerdictInv
  /\ OutputHasNoGap
  /\ RunInv
-----------------------------------------------------------------------------
LEMMA PrefixPointwise ==
  ASSUME NEW T, NEW p \in Seq(T), NEW q \in Seq(T)
  PROVE  IsPrefix(p, q) <=> Len(p) <= Len(q) /\ \A i \in 1 .. Len(p) : p[i] = q[i]
<1>1. Len(p) \in Nat /\ Len(q) \in Nat /\ SubSeq(p, 1, Len(p)) = p
  BY LenProperties, SubSeqFull
<1>2. ASSUME Len(p) <= Len(q)
      PROVE  /\ SubSeq(q, 1, Len(p)) \in Seq(T) /\ Len(SubSeq(q, 1, Len(p))) = Len(p)
             /\ \A i \in 1 .. Len(p) : SubSeq(q, 1, Len(p))[i] = q[i]
  <2>1. \A i \in 1 .. Len(p) : q[i] \in T
    BY <1>1, <1>2, ElementOfSeq
  <2> QED  BY <1>1, <2>1, SubSeqProperties
<1>3. Len(p) <= Len(q) =>
        (p = SubSeq(q, 1, Len(p)) <=> \A i \in 1 .. Len(p) : p[i] = q[i])
  BY <1>2, SeqEqual
<1> QED  BY <1>1, <1>3 DEF IsPrefix

LEMMA PrefixGrows ==
  ASSUME NEW T, NEW p \in Seq(T), NEW q \in Seq(T), NEW r \in Seq(T), IsPrefix(p, q)
  PROVE  IsPrefix(p, q \o r)
<1>1. /\ q \o r \in Seq(T) /\ Len(q \o r) = Len(q) + Len(r)
      /\ \A i \in 1 .. Len(q) + Len(r) : (q \o r)[i] = IF i <= Len(q) THEN q[i] ELSE r[i - Len(q)]
      /\ Len(p) \in Nat /\ Len(q) \in Nat /\ Len(r) \in Nat
  BY ConcatProperties, LenProperties
<1>2. Len(p) <= Len(q) /\ \A i \in 1 .. Len(p) : p[i] = q[i]
  BY PrefixPointwise
<1>3. Len(p) <= Len(q \o r) /\ \A i \in 1 .. Len(p) : p[i] = (q \o r)[i]
  BY <1>1, <1>2
<1> QED  BY <1>1, <1>3, PrefixPointwise

LEMMA PrefixOfFront ==
  ASSUME NEW T, NEW p \in Seq(T), NEW q \in Seq(T), NEW r \in Seq(T), IsPrefix(p \o q, r)
  PROVE  IsPrefix(p, r)
<1>1. /\ p \o q \in Seq(T) /\ Len(p \o q) = Len(p) + Len(q)
      /\ \A i \in 1 .. Len(p) + Len(q) : (p \o q)[i] = IF i <= Len(p) THEN p[i] ELSE q[i - Len(p)]
      /\ Len(p) \in Nat /\ Len(q) \in Nat /\ Len(r) \in Nat
  BY ConcatProperties, LenProperties
<1>2. \A s \in Seq(T) : IsPrefix(s, r) =>
        Len(s) <= Len(r) /\ \A i \in 1 .. Len(s) : s[i] = r[i]
  BY PrefixPointwise
<1>3. Len(p \o q) <= Len(r) /\ \A i \in 1 .. Len(p \o q) : (p \o q)[i] = r[i]
  BY <1>1, <1>2, Zenon
<1>4. Len(p) <= Len(r) /\ \A i \in 1 .. Len(p) : p[i] = r[i]
  BY <1>1, <1>3
<1> QED  BY <1>4, PrefixPointwise

\* What was delivered is the front of what was sent.
LEMMA FrontOfSent ==
  ASSUME NEW T, NEW d \in Seq(T), NEW o \in Seq(T), NEW x \in Seq(T), NEW p \in Seq(T),
         IsPrefix((d \o o) \o x, p)
  PROVE  IsPrefix(d, p)
<1>1. d \o o \in Seq(T)
  BY ConcatProperties
<1>2. IsPrefix(d \o o, p)
  BY <1>1, PrefixOfFront
<1> QED  BY <1>2, PrefixOfFront
-----------------------------------------------------------------------------
\* A step of the session is one of the monitor, a step of run alone, or the
\* panic of the drain thread.
LEMMA SessionSteps ==
  ASSUME SNext
  PROVE  \/ Next /\ (consumer' = "stopped" => UNCHANGED <<consumer, delivered>>)
         \/ UNCHANGED vars
         \/ DrainThreadPanics /\ UNCHANGED setup
<1>1. CASE Start \/ CallFailed \/ CallReturned \/ Feed \/ End \/ EndReturned
  <2>1. CallFails \/ Launch \/ SubmitEvent \/ FinishSend \/ Shutdown \/ Join
    BY <1>1 DEF Start, CallFailed, CallReturned, Feed, End, EndReturned
  <2>2. UNCHANGED <<consumer, delivered>>
    BY <2>1 DEF CallFails, Launch, SubmitEvent, FinishSend, Shutdown, Join, StartSend, consumer_vars
  <2> QED  BY <2>1, <2>2 DEF SNext, Next, Step
<1>2. CASE SourceEnds \/ JoinDrain
  BY <1>2 DEF SourceEnds, JoinDrain
<1>3. CASE WorkerThread
  <2>1. Worker => UNCHANGED <<consumer, delivered>>
    BY DEF Worker, SetupAndInit, SetupFails, AwaitLaunch, ProcessEvent, EventFails, DeadlinePanics,
           SecondLaunch, TimedOut, Disconnected, SendVerdict, SendFails, NextRound,
           WorkerFrame, consumer_vars
  <2> QED  BY <1>3, <2>1 DEF SNext, Next, Step, WorkerThread
<1>4. CASE DrainThread
  BY <1>4 DEF SNext, Next, Step, DrainThread, Consumer, Receive, OutputDisconnected
<1>5. CASE DrainThreadPanics
  BY <1>5 DEF SNext
<1> QED  BY <1>1, <1>2, <1>3, <1>4, <1>5 DEF SNext, Main

\* The lost verdict is no matter for the rest of the monitor.
LEMMA PanicKeepsBase ==
  ASSUME Base, DrainPanics, UNCHANGED setup
  PROVE  Base'
<1>1. UNCHANGED <<setup, input, owner, sending, has_handle, returned, shut_down,
                  accepted, submitted, launches, worker, result, outbox, closing,
                  processed, produced, delivered>>
  BY DEF DrainPanics, owner_vars, worker_vars
<1>2. output' \in Seq(Verdict)
  BY QueueHead DEF DrainPanics, Base, ATypeOK
<1>3. ATypeOK' /\ HandleInv' /\ ClosingInv'
  BY <1>1, <1>2 DEF Base, ATypeOK, HandleInv, Told, ClosingInv, InputClosed
<1>4. EventsInv' /\ EventsInOrder' /\ LaunchInv' /\ LaunchProtocol'
  BY <1>1 DEF Base, EventsInv, EventsInOrder, LaunchInv, LaunchProtocol, InputClosed
<1> QED  BY <1>3, <1>4 DEF Base

LEMMA SessionBase ==
  ASSUME Base, SNext
  PROVE  Base'
BY SessionSteps, BaseStep, BaseStutter, PanicKeepsBase DEF DrainThreadPanics

LEMMA SessionVerdicts ==
  ASSUME Base, consumer # "stopped" => VerdictInv, SNext
  PROVE  consumer' # "stopped" => VerdictInv'
<1> SUFFICES ASSUME consumer' # "stopped" PROVE VerdictInv'
  OBVIOUS
<1>1. consumer # "stopped"
  <2>1. CASE Next
    <3>1. consumer = "stopped" => UNCHANGED consumer
      BY <2>1 DEF Next, Step, CallFails, Launch, SubmitEvent, FinishSend, Shutdown, Join, DropMonitor,
                  StartSend, Worker, SetupAndInit, SetupFails, AwaitLaunch, ProcessEvent, EventFails,
                  DeadlinePanics, SecondLaunch, TimedOut, Disconnected, SendVerdict, SendFails,
                  NextRound, WorkerFrame, Consumer, Receive, OutputDisconnected, ConsumerStops,
                  consumer_vars
    <3> QED  BY <3>1
  <2>2. CASE UNCHANGED vars
    BY <2>2 DEF vars, consumer_vars
  <2> QED  BY <2>1, <2>2, SessionSteps DEF DrainThreadPanics, DrainPanics
<1>2. CASE Next
  BY <1>1, <1>2, VerdictStep
<1>3. CASE UNCHANGED vars
  BY <1>1, <1>3 DEF VerdictInv, VerdictsInSequence, vars, worker_vars, consumer_vars
<1> QED  BY <1>2, <1>3, SessionSteps DEF DrainThreadPanics, DrainPanics

LEMMA SessionNoGap ==
  ASSUME Base, Base', OutputHasNoGap, consumer' # "stopped" => VerdictInv', SNext
  PROVE  OutputHasNoGap'
<1>0. delivered \in Seq(Verdict) /\ produced \in Seq(Verdict)
  BY DEF Base, ATypeOK
<1>1. CASE consumer' # "stopped"
  <2>1. /\ delivered' \in Seq(Verdict) /\ output' \in Seq(Verdict)
        /\ outbox' \in Seq(Verdict) /\ produced' \in Seq(Verdict)
    BY DEF Base, ATypeOK
  <2>2. IsPrefix((delivered' \o output') \o outbox', produced')
    BY <1>1 DEF VerdictInv, VerdictsInSequence
  <2>3. IsPrefix(delivered', produced')
    BY <2>1, <2>2, FrontOfSent
  <2> QED  BY <2>3 DEF OutputHasNoGap
<1>2. CASE consumer' = "stopped" /\ Next /\ UNCHANGED delivered
  <2>1. CASE UNCHANGED produced
    BY <1>2, <2>1 DEF OutputHasNoGap
  <2>2. CASE ProcessEvent \/ TimedOut \/ Disconnected
    <3>1. PICK v \in Seq(Verdict) : Produce(v)
      BY <2>2, ProducesVerdicts DEF Base
    <3>2. IsPrefix(delivered, produced \o v)
      BY <1>0, PrefixGrows DEF OutputHasNoGap
    <3> QED  BY <1>2, <3>1, <3>2 DEF Produce, OutputHasNoGap
  <2>3. UNCHANGED produced \/ ProcessEvent \/ TimedOut \/ Disconnected
    BY <1>2 DEF Next, Step, CallFails, Launch, SubmitEvent, FinishSend, Shutdown, Join, DropMonitor,
                StartSend, Worker, SetupAndInit, SetupFails, AwaitLaunch, EventFails, WorkerEnds,
                DeadlinePanics, SecondLaunch, SendVerdict, SendFails, NextRound, WorkerFrame,
                Consumer, Receive, OutputDisconnected, ConsumerStops, worker_vars
  <2> QED  BY <2>1, <2>2, <2>3
<1>3. CASE UNCHANGED <<delivered, produced>>
  BY <1>3 DEF OutputHasNoGap
<1> QED  BY <1>1, <1>2, <1>3, SessionSteps
         DEF vars, worker_vars, consumer_vars, DrainThreadPanics, DrainPanics

LEMMA SessionRun ==
  ASSUME Base, RunInv, SNext
  PROVE  RunInv'
<1>0. HandleInv
  BY DEF Base
<1> USE DEF RunInv, Exited
<1>1. CASE Start \/ Feed \/ End
  BY <1>1 DEF Start, Feed, End, Launch, SubmitEvent, Shutdown, StartSend, worker_vars, consumer_vars
<1>2. CASE CallFailed
  BY <1>2 DEF CallFailed, CallFails, worker_vars, consumer_vars
<1>3. CASE CallReturned
  BY <1>3 DEF CallReturned, FinishSend, worker_vars, consumer_vars
<1>4. CASE SourceEnds \/ JoinDrain
  BY <1>4 DEF SourceEnds, JoinDrain, vars, owner_vars, worker_vars, consumer_vars
<1>5. CASE EndReturned
  <2>1. reply' = result /\ owner' = "gone" /\ UNCHANGED <<output, worker, result, consumer>>
    BY <1>5 DEF EndReturned, Join, Reply, worker_vars, consumer_vars
  <2>2. (run' = "drain" /\ reply' = "Ok") \/ run' = "Err"
    BY <1>5 DEF EndReturned
  <2> QED  BY <2>1, <2>2
<1>6. CASE WorkerThread
  <2>1. worker # "done"
    BY <1>6 DEF WorkerThread, Worker, SetupAndInit, SetupFails, AwaitLaunch, ProcessEvent, EventFails,
                DeadlinePanics, SecondLaunch, TimedOut, Disconnected, SendVerdict, SendFails, NextRound
  <2>2. UNCHANGED <<run, has_handle, consumer>>
    BY <1>6 DEF WorkerThread, Worker, SetupAndInit, SetupFails, AwaitLaunch, ProcessEvent, EventFails,
                DeadlinePanics, SecondLaunch, TimedOut, Disconnected, SendVerdict, SendFails, NextRound,
                WorkerFrame, owner_vars, consumer_vars
  <2> QED  BY <1>0, <1>6, <2>1, <2>2 DEF WorkerThread, HandleInv, None
<1>7. CASE DrainThread \/ DrainThreadPanics
  BY <1>7 DEF DrainThread, DrainThreadPanics, Consumer, Receive, OutputDisconnected, DrainPanics,
              owner_vars, worker_vars
<1> QED  BY <1>1, <1>2, <1>3, <1>4, <1>5, <1>6, <1>7 DEF SNext, Main
-----------------------------------------------------------------------------
LEMMA SessionInductive == SSpec => []SessionInv
<1>1. SInit => SessionInv
  <2> SUFFICES ASSUME SInit PROVE SessionInv
    OBVIOUS
  <2>1. Base /\ VerdictInv
    BY InitInv DEF SInit
  <2>2. IsPrefix(<<>>, <<>>)
    <3>1. <<>> \o <<>> = <<>> /\ <<>> \in Seq(Verdict)
      BY EmptySeq, ConcatEmptySeq
    <3> QED  BY <3>1, PrefixOfConcat
  <2> QED  BY <2>1, <2>2 DEF SessionInv, SInit, Init, RunInv, OutputHasNoGap
<1>2. SessionInv /\ [SNext]_svars => SessionInv'
  <2>1. ASSUME SessionInv, SNext PROVE SessionInv'
    BY <2>1, SessionBase, SessionVerdicts, SessionNoGap, SessionRun DEF SessionInv
  <2>2. ASSUME SessionInv, UNCHANGED svars PROVE SessionInv'
    <3>1. UNCHANGED vars /\ UNCHANGED run
      BY <2>2 DEF svars
    <3>2. Base'
      BY <2>2, <3>1, BaseStutter DEF SessionInv
    <3> QED  BY <2>2, <3>1, <3>2
             DEF SessionInv, VerdictInv, VerdictsInSequence, OutputHasNoGap, RunInv,
                 vars, owner_vars, worker_vars, consumer_vars
  <2> QED  BY <2>1, <2>2
<1> QED  BY <1>1, <1>2, PTL DEF SSpec

(***************************************************************************)
(* However long the source: run returns Ok only when every record was      *)
(* evaluated and every verdict written.                                    *)
(***************************************************************************)
THEOREM OkSessionIsComplete == SSpec => []OkIsComplete
<1>1. SessionInv => OkIsComplete
  <2> SUFFICES ASSUME SessionInv, run = "Ok" PROVE OkIsComplete
    BY DEF OkIsComplete
  <2>1. result = "Ok" /\ output = <<>> /\ consumer = "finished"
    BY DEF SessionInv, RunInv
  <2>2. Len(processed) = submitted /\ delivered \o output = produced /\ delivered \in Seq(Verdict)
    BY <2>1 DEF SessionInv, Base, ClosingInv, VerdictInv, ATypeOK
  <2>3. delivered = produced
    BY <2>1, <2>2, ConcatEmptySeq
  <2> QED  BY <2>1, <2>2, <2>3 DEF OkIsComplete
<1> QED  BY <1>1, SessionInductive, PTL

(***************************************************************************)
(* What was written when run ended, however it ended, is an initial part   *)
(* of the verdicts that were made.                                         *)
(***************************************************************************)
THEOREM SessionLeavesNoGap == SSpec => []OutputHasNoGap
<1>1. SessionInv => OutputHasNoGap
  BY DEF SessionInv
<1> QED  BY <1>1, SessionInductive, PTL
=============================================================================
