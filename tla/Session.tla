------------------------------ MODULE Session ------------------------------
(***************************************************************************)
(* MonitorSession::run of oorv/src/session.rs: the command line's thread   *)
(* as the owner of an AsyncMonitor with unbounded queues, and its drain    *)
(* thread as the consumer.  run's early returns (`?') end the process with *)
(* whatever the two threads still had to do.                               *)
(***************************************************************************)
EXTENDS AsyncMonitor

\* initialize without a QueueLength; the drain thread keeps its receiver.
SessionSetups == [mode : {"live", "replay"}, in_cap : {0}, out_cap : {0}, may_stop : {FALSE}]

VARIABLE run   \* "start", "feed", "end", "drain", or how run ended

svars == <<vars, run>>

SInit == Init /\ run = "start"

Exited == run \in {"Ok", "Err", "Panic"}

Start == run = "start" /\ Launch /\ UNCHANGED run

\* start or submit_event fails at once: `?'
CallFailed ==
  /\ run \in {"start", "feed"} /\ CallFails
  /\ run' = "Err"

CallReturned ==
  /\ run \in {"start", "feed"} /\ FinishSend
  /\ run' = IF reply' = "Ok" THEN "feed" ELSE "Err"

\* next_record: a record, the end of the input, or an error of the source
Feed == run = "feed" /\ SubmitEvent /\ UNCHANGED run

SourceEnds ==
  /\ run = "feed" /\ owner = "idle"
  /\ run' \in {"end", "Err"}
  /\ UNCHANGED vars

End == run = "end" /\ Shutdown /\ UNCHANGED run

\* Mutant: run does not wait for the drain thread.
EndReturnedAtOnce ==
  /\ run = "end" /\ Join
  /\ run' = IF reply' = "Ok" THEN "Ok" ELSE "Err"

EndReturned ==
  /\ run = "end" /\ Join
  /\ run' = IF reply' = "Ok" THEN "drain" ELSE "Err"

\* Mutant: the drain thread goes on after a verdict it could not write.
DrainSkips ==
  /\ consumer = "running" /\ output # <<>>
  /\ output' = Tail(output)
  /\ UNCHANGED <<consumer, delivered, input, owner_vars, worker_vars, run>>

\* The sink fails on a verdict; unwrap ends the drain thread, not the monitor.
DrainPanics ==
  /\ consumer = "running" /\ output # <<>>
  /\ consumer' = "stopped" /\ output' = Tail(output)
  /\ UNCHANGED <<delivered, input, owner_vars, worker_vars, run>>

JoinDrain ==
  /\ run = "drain" /\ consumer # "running"
  /\ run' = IF consumer = "finished" THEN "Ok" ELSE "Panic"
  /\ UNCHANGED vars

Main == Start \/ CallFailed \/ CallReturned \/ Feed \/ SourceEnds
        \/ End \/ EndReturned \/ JoinDrain

\* The other threads run until the process ends.
WorkerThread == ~Exited /\ Worker /\ UNCHANGED run
DrainThread == ~Exited /\ Consumer /\ UNCHANGED run
DrainThreadPanics == ~Exited /\ DrainPanics

SNext == (Main \/ WorkerThread \/ DrainThread \/ DrainThreadPanics) /\ UNCHANGED setup

\* Every thread that can step does; the source is not kept from ending.
SSpec == /\ SInit /\ [][SNext]_svars
         /\ WF_svars(Runs(Main)) /\ WF_svars(Runs(WorkerThread)) /\ WF_svars(Runs(DrainThread))
-----------------------------------------------------------------------------
(***************************************************************************)
(* run returns Ok only when every record of the source was evaluated and   *)
(* every verdict made was written by the drain thread, in order.           *)
(***************************************************************************)
OkIsComplete ==
  run = "Ok" => /\ result = "Ok" /\ Len(processed) = submitted
                /\ delivered = produced

(***************************************************************************)
(* However run ends, what was written is an initial part of the verdicts:  *)
(* an error cuts the output off, it never leaves a gap.                    *)
(***************************************************************************)
OutputHasNoGap == IsPrefix(delivered, produced)

(***************************************************************************)
(* run returns, also when the worker or the drain thread has died.         *)
(***************************************************************************)
RunReturns == <>Exited
=============================================================================
