---------------------------- MODULE AsyncMonitor ----------------------------
(***************************************************************************)
(* AsyncMonitor of core/src/runtime/iface/async_watcher.rs: the thread     *)
(* that owns the monitor and calls its API, the worker thread behind it,   *)
(* and a thread that takes verdicts from the output queue.                 *)
(*                                                                         *)
(* The owner's calls block, fail and race as the code's do.  What a worker *)
(* computes is abstracted to the verdicts it sends for an event; the       *)
(* evaluation itself is module Monitor.                                    *)
(***************************************************************************)
EXTENDS Integers, Sequences, SequencesExt

CONSTANTS
  Setups,          \* how the owner may have built the monitor
  MaxEvents,       \* bound on the events the owner submits
  MaxLaunches,     \* bound on its calls of launch
  MaxTimed         \* bound on the timed verdicts of the live worker

(***************************************************************************)
(* A setup:  mode      "live" (OnlineWorker) or "replay" (OfflineWorker)   *)
(*           in_cap    QueueLength of the input queue, 0 for Unbounded     *)
(*           out_cap   and of the output queue                             *)
(*           may_stop  the reader may drop its receiver before the end     *)
(***************************************************************************)
Setup == [mode : {"live", "replay"}, in_cap : Nat, out_cap : Nat, may_stop : BOOLEAN]

ASSUME AsyncAssumption ==
  /\ Setups \subseteq Setup
  /\ {MaxEvents, MaxLaunches, MaxTimed} \subseteq Nat

VARIABLES
  setup,        \* the setup of this monitor; it does not change
  input,        \* the input queue of WorkItems
  owner,        \* "idle", "send", "join" or "gone"
  sending,      \* what the owner is sending, or NoItem
  has_handle,   \* AsyncMonitor.worker is Some
  reply,        \* what the owner's last call returned
  returned,     \* every result its calls returned so far
  shut_down,    \* shutdown was called (else the monitor is dropped)
  accepted,     \* the number of events submit_event returned Ok for
  submitted,    \* the number of the last event
  launches,     \* how often launch was called
  worker,       \* "setup", "await", "init", "process", "send" or "done"
  result,       \* what the worker thread returned
  outbox,       \* verdicts the worker still has to send
  closing,      \* the worker saw the input disconnected
  processed,    \* the events the worker evaluated
  produced,     \* the verdicts it made
  output,       \* the output queue
  consumer,     \* "running", "stopped" or "finished"
  delivered     \* the verdicts the consumer received

owner_vars == <<owner, sending, has_handle, reply, returned, shut_down, accepted, submitted, launches>>
worker_vars == <<worker, result, outbox, closing, processed, produced>>
consumer_vars == <<consumer, delivered>>
vars == <<setup, input, output, owner_vars, worker_vars, consumer_vars>>

None == "None"

\* WorkItem: an input is its number, counted from 1.
LaunchItem == 0
NoItem == -1
IsInput(item) == item > 0

Init ==
  /\ setup \in Setups
  /\ input = <<>> /\ output = <<>>
  /\ owner = "idle" /\ sending = NoItem /\ has_handle = TRUE
  /\ reply = None /\ returned = {}
  /\ shut_down = FALSE /\ accepted = 0 /\ submitted = 0 /\ launches = 0
  /\ worker = "setup" /\ result = None /\ outbox = <<>> /\ closing = FALSE
  /\ processed = <<>> /\ produced = <<>>
  /\ consumer = "running" /\ delivered = <<>>

\* Mutant: shutdown drops the sender when it returns, after the join.
SenderDroppedLast == owner = "gone"

\* Every Sender of the input, and every Receiver of the output, is dropped.
InputClosed == owner \in {"join", "gone"}
OutputClosed == owner = "gone" /\ consumer = "stopped"

HasRoom(queue, cap) == cap = 0 \/ Len(queue) < cap
-----------------------------------------------------------------------------
(***************************************************************************)
(* The owner.  launch and submit_event first ask worker_alive: a finished  *)
(* worker is joined and its result returned, once; afterwards there is no  *)
(* handle and every call fails.                                            *)
(***************************************************************************)
WorkerAlive == has_handle /\ worker # "done"

Reply(res) == reply' = res /\ returned' = returned \cup {res}

\* Mutant: the result of the finished worker is thrown away.
CallFailsBlindly ==
  /\ owner = "idle" /\ ~WorkerAlive
  /\ has_handle' = FALSE
  /\ Reply("ThreadSendError")
  /\ UNCHANGED <<owner, sending, shut_down, accepted, submitted, launches,
                 input, output, worker_vars, consumer_vars>>

\* worker_alive fails, or finds a worker that returned Ok, and the call with it
CallFails ==
  /\ owner = "idle" /\ ~WorkerAlive
  /\ has_handle' = FALSE
  /\ Reply(IF ~has_handle THEN "ThreadPanic"
           ELSE IF result = "Ok" THEN "ThreadSendError" ELSE result)
  /\ UNCHANGED <<owner, sending, shut_down, accepted, submitted, launches,
                 input, output, worker_vars, consumer_vars>>

StartSend(msg) ==
  /\ owner = "idle" /\ WorkerAlive
  /\ owner' = "send" /\ sending' = msg
  /\ UNCHANGED <<has_handle, reply, returned, shut_down, accepted,
                 input, output, worker_vars, consumer_vars>>

Launch ==
  /\ launches < MaxLaunches
  /\ StartSend(LaunchItem)
  /\ launches' = launches + 1
  /\ UNCHANGED submitted

SubmitEvent ==
  /\ submitted < MaxEvents
  /\ StartSend(submitted + 1)
  /\ submitted' = submitted + 1
  /\ UNCHANGED launches

\* Sender::send: it waits for room, and fails when the worker has ended,
\* which may be after worker_alive looked.
FinishSend ==
  /\ owner = "send"
  /\ \/ /\ worker = "done"
        /\ Reply("ThreadSendError")
        /\ UNCHANGED <<input, accepted>>
     \/ /\ worker # "done" /\ HasRoom(input, setup.in_cap)
        /\ input' = Append(input, sending)
        /\ accepted' = IF IsInput(sending) THEN accepted + 1 ELSE accepted
        /\ Reply("Ok")
  /\ owner' = "idle" /\ sending' = NoItem
  /\ UNCHANGED <<has_handle, shut_down, submitted, launches, output, worker_vars, consumer_vars>>

\* shutdown drops the sender, joins the worker and returns its result.
Shutdown ==
  /\ owner = "idle"
  /\ owner' = "join" /\ shut_down' = TRUE
  /\ UNCHANGED <<sending, has_handle, reply, returned, accepted, submitted, launches,
                 input, output, worker_vars, consumer_vars>>

Join ==
  /\ owner = "join"
  /\ has_handle => worker = "done"
  /\ Reply(IF has_handle THEN result ELSE "Ok")
  /\ owner' = "gone" /\ has_handle' = FALSE
  /\ UNCHANGED <<sending, shut_down, accepted, submitted, launches,
                 input, output, worker_vars, consumer_vars>>

\* The owner drops the monitor without shutdown, as `?' does in session.rs.
DropMonitor ==
  /\ owner = "idle"
  /\ owner' = "gone" /\ has_handle' = FALSE
  /\ UNCHANGED <<sending, reply, returned, shut_down, accepted, submitted, launches,
                 input, output, worker_vars, consumer_vars>>
-----------------------------------------------------------------------------
(* The worker thread: runner *)

WorkerEnds(res) ==
  /\ worker' = "done" /\ result' = res
  /\ outbox' = <<>>
  /\ UNCHANGED <<closing, processed, produced>>

WorkerFrame == UNCHANGED <<output, owner_vars, consumer_vars>>

\* The live worker builds its source and schedule in setup, the replay worker
\* its whole monitor in init: a source that fails, a schedule that panics.
SetupAndInit ==
  /\ \/ worker = "setup" /\ worker' = "await"
     \/ worker = "init" /\ worker' = "process"
  /\ UNCHANGED <<input, result, outbox, closing, processed, produced>>
  /\ WorkerFrame

SetupFails ==
  /\ worker = IF setup.mode = "live" THEN "setup" ELSE "init"
  /\ \E res \in {"SourceError", "ThreadPanic"} : WorkerEnds(res)
  /\ UNCHANGED input /\ WorkerFrame

\* Mutants: events before the launch are skipped; they are taken for it.
AwaitSkipsEvents ==
  /\ worker = "await"
  /\ IF input = <<>> THEN InputClosed /\ UNCHANGED input ELSE input' = Tail(input)
  /\ IF input # <<>> /\ IsInput(Head(input)) THEN UNCHANGED worker ELSE worker' = "init"
  /\ UNCHANGED <<result, outbox, closing, processed, produced>>
  /\ WorkerFrame

AwaitAnything ==
  /\ worker = "await" /\ (input = <<>> => InputClosed)
  /\ worker' = "init"
  /\ input' = IF input = <<>> THEN input ELSE Tail(input)
  /\ UNCHANGED <<result, outbox, closing, processed, produced>>
  /\ WorkerFrame

\* await_launch
AwaitLaunch ==
  /\ worker = "await"
  /\ \/ /\ input # <<>> /\ IsInput(Head(input))
        /\ WorkerEnds("EventBeforeStart")
     \/ /\ IF input = <<>> THEN InputClosed ELSE Head(input) = LaunchItem
        /\ worker' = "init"
        /\ UNCHANGED <<result, outbox, closing, processed, produced>>
  /\ input' = IF input = <<>> THEN input ELSE Tail(input)
  /\ WorkerFrame

Produce(verdicts) ==
  /\ produced' = produced \o verdicts
  /\ outbox' = verdicts
  /\ worker' = "send"
  /\ UNCHANGED result

\* An event is evaluated; the replay worker first the deadlines before it.
ProcessEvent ==
  /\ worker = "process" /\ input # <<>> /\ IsInput(Head(input))
  /\ LET n == Head(input)
         timed == {<<>>} \cup (IF setup.mode = "replay" THEN {<<<<n, "timed">>>>} ELSE {})
     IN  \E t \in timed, e \in {<<>>, <<<<n, "event">>>>} : Produce(t \o e)
  /\ processed' = Append(processed, Head(input))
  /\ input' = Tail(input)
  /\ UNCHANGED closing /\ WorkerFrame

\* Ingestion fails, or the evaluation panics (a division by zero, an
\* assertion): the thread ends.
EventFails ==
  /\ worker = "process" /\ input # <<>> /\ IsInput(Head(input))
  /\ \E res \in {"SourceError", "ThreadPanic"} : WorkerEnds(res)
  /\ input' = Tail(input)
  /\ WorkerFrame

\* The evaluation of a deadline panics, when it is due or at the end of input.
DeadlinePanics ==
  /\ worker = "process" /\ input = <<>>
  /\ IF setup.mode = "live" THEN ~InputClosed ELSE InputClosed /\ processed # <<>>
  /\ WorkerEnds("ThreadPanic")
  /\ UNCHANGED input /\ WorkerFrame

SecondLaunch ==
  /\ worker = "process" /\ input # <<>> /\ Head(input) = LaunchItem
  /\ WorkerEnds("MultipleStart")
  /\ input' = Tail(input)
  /\ WorkerFrame

\* recv_timeout of the live worker runs out: only while no input is queued.
TimedOut ==
  /\ setup.mode = "live" /\ worker = "process"
  /\ input = <<>> /\ ~InputClosed
  /\ Cardinality({i \in DOMAIN produced : produced[i][2] = "timed"}) < MaxTimed
  /\ \E v \in {<<>>, <<<<Len(produced), "timed">>>>} : Produce(v)
  /\ UNCHANGED <<input, closing, processed>> /\ WorkerFrame

\* Mutant: a closed queue is noticed before the items left in it are taken.
DisconnectedEarly ==
  /\ worker = "process" /\ InputClosed
  /\ Produce(<<>>)
  /\ closing' = TRUE
  /\ UNCHANGED <<input, processed>> /\ WorkerFrame

\* Disconnected.  The replay worker evaluates the deadlines up to its last
\* event; the live worker returns at once.
Disconnected ==
  /\ worker = "process" /\ input = <<>> /\ InputClosed
  /\ IF setup.mode = "replay" /\ processed # <<>>
     THEN \E v \in {<<>>, <<<<Last(processed), "end">>>>} : Produce(v)
     ELSE Produce(<<>>)
  /\ closing' = TRUE
  /\ UNCHANGED <<input, processed>> /\ WorkerFrame

\* Mutant: a verdict that finds the output full is dropped.
SendVerdictOrDrop ==
  /\ worker = "send" /\ outbox # <<>> /\ ~OutputClosed
  /\ output' = IF HasRoom(output, setup.out_cap) THEN Append(output, Head(outbox)) ELSE output
  /\ outbox' = Tail(outbox)
  /\ UNCHANGED <<input, worker, result, closing, processed, produced,
                 owner_vars, consumer_vars>>

\* try_send, for every verdict in turn, then the next round of the loop.
SendVerdict ==
  /\ worker = "send" /\ outbox # <<>> /\ ~OutputClosed
  /\ HasRoom(output, setup.out_cap)
  /\ output' = Append(output, Head(outbox))
  /\ outbox' = Tail(outbox)
  /\ UNCHANGED <<input, worker, result, closing, processed, produced,
                 owner_vars, consumer_vars>>

SendFails ==
  /\ worker = "send" /\ outbox # <<>> /\ OutputClosed
  /\ WorkerEnds("ThreadSendError")
  /\ UNCHANGED input /\ WorkerFrame

\* Mutant: the loop is not left.
RoundsForever ==
  /\ worker = "send" /\ outbox = <<>>
  /\ worker' = "process"
  /\ UNCHANGED <<result, input, outbox, closing, processed, produced>> /\ WorkerFrame

NextRound ==
  /\ worker = "send" /\ outbox = <<>>
  /\ IF closing THEN worker' = "done" /\ result' = "Ok"
                ELSE worker' = "process" /\ UNCHANGED result
  /\ UNCHANGED <<input, outbox, closing, processed, produced>> /\ WorkerFrame

Worker ==
  \/ SetupAndInit \/ SetupFails \/ AwaitLaunch \/ ProcessEvent \/ EventFails \/ DeadlinePanics
  \/ SecondLaunch \/ TimedOut \/ Disconnected \/ SendVerdict \/ SendFails \/ NextRound
-----------------------------------------------------------------------------
(* The consumer, run_output_loop in oorv/src/session.rs *)

Receive ==
  /\ consumer = "running" /\ output # <<>>
  /\ delivered' = Append(delivered, Head(output))
  /\ output' = Tail(output)
  /\ UNCHANGED <<consumer, input, owner_vars, worker_vars>>

\* The worker's Sender is dropped with the thread.
OutputDisconnected ==
  /\ consumer = "running" /\ output = <<>> /\ worker = "done"
  /\ consumer' = "finished"
  /\ UNCHANGED <<delivered, input, output, owner_vars, worker_vars>>

ConsumerStops ==
  /\ setup.may_stop /\ consumer = "running"
  /\ consumer' = "stopped"
  /\ UNCHANGED <<delivered, input, output, owner_vars, worker_vars>>

Consumer == Receive \/ OutputDisconnected

Step ==
  \/ CallFails \/ Launch \/ SubmitEvent \/ FinishSend \/ Shutdown \/ Join \/ DropMonitor
  \/ Worker
  \/ Consumer \/ ConsumerStops

Next == Step /\ UNCHANGED setup

(***************************************************************************)
(* The threads run: a worker that can step does, a consumer that is        *)
(* reading keeps reading, and a call of the owner that can return does.    *)
(* Nothing makes the owner call, or the consumer stop.                     *)
(***************************************************************************)
Runs(A) == A /\ UNCHANGED setup

Fairness ==
  /\ WF_vars(Runs(Worker)) /\ WF_vars(Runs(Consumer))
  /\ WF_vars(Runs(FinishSend)) /\ WF_vars(Runs(Join))

Spec == Init /\ [][Next]_vars /\ Fairness
-----------------------------------------------------------------------------

(***************************************************************************)
(* While the worker lives, the events it evaluated and the ones queued are *)
(* exactly those submit_event returned Ok for, each once and in the order  *)
(* of the calls: the first ones are evaluated, the others wait in order.   *)
(***************************************************************************)
EventsInOrder ==
  worker # "done" =>
    /\ \A i \in DOMAIN processed : processed[i] = i
    /\ Range(input) \ {LaunchItem} = Len(processed) + 1 .. accepted
    /\ \A i, j \in DOMAIN input :
         i < j /\ IsInput(input[i]) /\ IsInput(input[j]) => input[i] < input[j]

(***************************************************************************)
(* A worker that returns Ok has lost nothing: it saw the input closed only *)
(* after every accepted event was evaluated and every verdict was sent.    *)
(***************************************************************************)
OkMeansAllProcessed ==
  result = "Ok" =>
    /\ Len(processed) = accepted /\ outbox = <<>>
    /\ delivered \o output = produced

(***************************************************************************)
(* The receivers see the verdicts in the order in which they were made,    *)
(* and only a worker that fails drops one, and then the last ones.         *)
(***************************************************************************)
VerdictsInSequence ==
  LET sent == delivered \o output \o outbox
  IN  /\ IsPrefix(sent, produced)
      /\ worker # "done" => sent = produced

(***************************************************************************)
(* await_launch lets the worker go on when the queue is closed before a    *)
(* launch; nothing is evaluated then, and the two protocol errors come     *)
(* only from a submit before, or a launch after, the launch.               *)
(***************************************************************************)
LaunchProtocol ==
  /\ launches = 0 => processed = <<>> /\ produced = <<>>
  /\ result = "MultipleStart" => launches > 1
  /\ result = "EventBeforeStart" => processed = <<>> /\ produced = <<>> /\ submitted > 0

(***************************************************************************)
(* The error that ended the worker is not swallowed: an owner that calls   *)
(* shutdown has got it, from shutdown or from an earlier call, whatever    *)
(* the race between worker_alive and the end of the thread.                *)
(***************************************************************************)
WorkerErrorSurfaces ==
  shut_down /\ owner = "gone" /\ result # "Ok" => result \in returned

(***************************************************************************)
(* Every call returns: a blocked send gets its room, shutdown its join,    *)
(* provided that somebody reads a bounded output queue.                    *)
(***************************************************************************)
CallsReturn ==
  /\ (owner = "send") ~> (owner = "idle")
  /\ (owner = "join") ~> (owner = "gone")

(***************************************************************************)
(* A closed input ends the worker, and the end of the worker the reader.   *)
(***************************************************************************)
EverythingEnds ==
  /\ InputClosed ~> (worker = "done")
  /\ (worker = "done") ~> (consumer # "running")
=============================================================================
