------------------------------- MODULE Monitor -------------------------------
(***************************************************************************)
(* The single-threaded Monitor of core/src/runtime/iface/watcher.rs:       *)
(* handle_event and advance_clock, the flush of the deadlines before them, *)
(* and the verdicts they return.                                           *)
(*                                                                         *)
(* A call runs to its end before the next one; its cycles and tasks are    *)
(* the steps of the model.  Input timestamps do not go backwards.          *)
(***************************************************************************)
EXTENDS Engine

CONSTANT Inputs    \* the input signals

VARIABLES
  pc,         \* "Idle", "Flush" or "Cycle"
  call,       \* the call in progress: [kind, ts, fresh]
  cycle,      \* the latest evaluation cycle: [source, ts]
  reported    \* what a consumer of the verdicts knows: the instances alive,
              \* each with the time its activation was reported at

monitor_vars == <<pc, call, cycle, reported>>
mvars == <<coordinator_vars, clock, due_work, engine_vars, todo, monitor_vars>>

\* ir.has_periodic_streams()
HasPeriodicStreams ==
  \E s \in Stream : TimeDriven(s) \/ Streams[s].start \in {"global", "local"}

\* Only with periodic streams the coordinator asks for the static schedule; its
\* deadlines have tasks, those of global clocks.
ASSUME MonitorAssumption ==
  \A spec \in IRs :
    /\ ~HasPeriodicStreams => Deadlines[spec] = <<>>
    /\ \A n \in 1 .. Len(Deadlines[spec]) :
         LET due == Deadlines[spec][n].due
         IN  due # <<>> /\ \A i \in 1 .. Len(due) : due[i] \in StaticTasks

NoCall == [kind |-> "none", ts |-> 0, fresh |-> {}]

MInit ==
  /\ Init
  /\ EngineInit
  /\ pc = "Idle"
  /\ call = NoCall
  /\ cycle = [source |-> "none", ts |-> 0]
  /\ reported = [i \in {} |-> 0]

\* handle_event: the event is ingested, its timestamp decoded
HandleEvent(ts, fresh) ==
  /\ pc = "Idle"
  /\ call' = [kind |-> "event", ts |-> ts, fresh |-> fresh]
  /\ pc' = "Flush"
  /\ UNCHANGED <<coordinator_vars, clock, due_work, engine_vars, todo, cycle, reported>>

AdvanceClock(ts) ==
  /\ pc = "Idle"
  /\ call' = [kind |-> "advance", ts |-> ts, fresh |-> {}]
  /\ pc' = "Flush"
  /\ UNCHANGED <<coordinator_vars, clock, due_work, engine_vars, todo, cycle, reported>>

\* The break condition of flush_deadlines; an event is inclusive.
Stops(due) == due > call.ts \/ (call.kind = "event" /\ due = call.ts)

\* One round of the loop of flush_deadlines.  process_timed_tasks begins a
\* cycle only when there are tasks.
FlushDeadline ==
  /\ pc = "Flush"
  /\ HasPeriodicStreams
  /\ \E due \in Dues :
       /\ CollectDueWork(due)
       /\ ~Stops(due)
       /\ cycle' = [source |-> "timed", ts |-> due]
  /\ IF due_work'.items = {} THEN UNCHANGED engine_vars ELSE BeginCycle
  /\ todo' = due_work'.items
  /\ pc' = "Cycle"
  /\ UNCHANGED <<clock, call, reported>>

\* Mutant: only the static schedule is flushed to the end.
FlushDoneStatic ==
  IF next_periodic_due = None THEN TRUE ELSE Stops(next_periodic_due)

FlushDone == ~HasPeriodicStreams \/ \A due \in Dues : Stops(due)

\* process_event
ProcessEvent ==
  /\ pc = "Flush" /\ call.kind = "event" /\ FlushDone
  /\ BeginCycle
  /\ todo' = EventTasks(call.fresh)
  /\ cycle' = [source |-> "event", ts |-> call.ts]
  /\ clock' = call.ts
  /\ pc' = "Cycle"
  /\ UNCHANGED <<coordinator_vars, due_work, call, reported>>

\* advance_clock returns
ClockAdvanced ==
  /\ pc = "Flush" /\ call.kind = "advance" /\ FlushDone
  /\ clock' = call.ts
  /\ pc' = "Idle"
  /\ call' = NoCall
  /\ UNCHANGED <<coordinator_vars, due_work, engine_vars, todo, cycle, reported>>

RunNextTask ==
  /\ pc = "Cycle"
  /\ \E w \in NextTasks :
       /\ RunTask(w, cycle.ts)
       /\ todo' = todo \ {w}
  /\ UNCHANGED <<ir, static_vars, clock, due_work, monitor_vars>>

\* The instances a change of the verdict is about.
Changed(kind) == {<<c.idx, c.params>> : c \in {d \in OutputChanges : d.kind = kind}}

\* The verdict of the cycle is the engine's snapshot.
EndCycle ==
  LET alive == (DOMAIN reported \cup Changed("Activate")) \ Changed("Deactivate")
  IN  /\ pc = "Cycle" /\ todo = {}
      /\ reported' = [i \in alive |->
                        IF i \in Changed("Activate") THEN cycle.ts ELSE reported[i]]
      /\ IF cycle.source = "event"
         THEN pc' = "Idle" /\ call' = NoCall
         ELSE pc' = "Flush" /\ UNCHANGED call
      /\ UNCHANGED <<coordinator_vars, clock, due_work, engine_vars, todo, cycle>>

Internal == FlushDeadline \/ ProcessEvent \/ ClockAdvanced \/ RunNextTask \/ EndCycle

MNext ==
  \/ \E ts \in clock .. MaxTime :
       (\E fresh \in SUBSET Inputs : HandleEvent(ts, fresh)) \/ AdvanceClock(ts)
  \/ Internal

\* A call that was made returns: the thread that made it keeps running.
MSpec == MInit /\ [][MNext]_mvars /\ WF_mvars(Internal)
-----------------------------------------------------------------------------
(***************************************************************************)
(* The queue and the store agree at every moment: an instance with a local *)
(* clock has its evaluation, and a time-driven one its local end check, in *)
(* the queue exactly while it lives.  activate_instance and                *)
(* deactivate_instance are the only ones to keep the two together; a local *)
(* end check of a stream without a start is therefore never scheduled.     *)
(***************************************************************************)
QueueMatchesInstances ==
  /\ \A s \in Stream : Streams[s].startable /\ Streams[s].eval = "local" =>
       {k \in Keys(s) : ComputeEntry(s, k) \in DOMAIN event_queue} = Live(s)
  /\ \A s \in Stream : Streams[s].startable /\ TimeDriven(s) /\ Streams[s].end = "local" =>
       {k \in Keys(s) : EndEntry(s, k) \in DOMAIN event_queue} = Live(s)

(***************************************************************************)
(* A task of a batch that names an instance finds it: the expect of        *)
(* run_stream_instance ("attempted to evaluate a non-existent              *)
(* parameterized instance") and the assertion of schedule_removal hold,    *)
(* although the batch was taken before the cycle removed ended instances.  *)
(***************************************************************************)
NoOrphanTask ==
  \A w \in todo : w.kind \in {"Compute", "Deactivate"} => w.params \in Live(w.idx)

(***************************************************************************)
(* Between the cycles the verdicts have told a consumer exactly which      *)
(* instances are alive: no activation or end is lost or told twice, also   *)
(* when an instance ends and its key is activated again.                   *)
(***************************************************************************)
ReportedIsLive ==
  pc # "Cycle" =>
    DOMAIN reported = UNION {{<<s, k>> : k \in Live(s)} : s \in {r \in Stream : Streams[r].startable}}

(***************************************************************************)
(* A verdict is a correct continuation of the ones before: it activates    *)
(* what was not alive, and updates and ends only what is alive in it.      *)
(***************************************************************************)
VerdictContinues ==
  pc = "Cycle" /\ todo = {} =>
    /\ Changed("Activate") \cap DOMAIN reported = {}
    /\ \A i \in Changed("Update") \cup Changed("Deactivate") :
         Streams[i[1]].startable => i \in DOMAIN reported \cup Changed("Activate")

(***************************************************************************)
(* The clock of a local instance starts at its activation: it is evaluated *)
(* at the reported activation time plus the multiples of its period.       *)
(***************************************************************************)
LocalClockFromActivation ==
  pc # "Cycle" =>
    \A i \in DOMAIN reported :
      LET e == ComputeEntry(i[1], i[2])
      IN  e \in DOMAIN event_queue => (event_queue[e] - reported[i]) % e.period = 0

(***************************************************************************)
(* Cycles, and so verdicts, come in the order of time.                     *)
(***************************************************************************)
VerdictsInOrder ==
  [][cycle' # cycle => cycle'.ts >= cycle.ts]_mvars

(***************************************************************************)
(* An event is evaluated when every deadline before it was, and none after *)
(* it; a call returns with no deadline left before its time.               *)
(***************************************************************************)
NothingOverdue ==
  /\ pc = "Cycle" /\ cycle.source = "event" =>
       due_work.due <= cycle.ts /\ \A d \in Dues : d >= cycle.ts
  /\ pc = "Idle" => \A d \in Dues : d >= clock

\* Every call returns: the loop over the deadlines ends, although each batch
\* and each activation schedules more of them.
CallsReturn == pc = "Flush" ~> pc = "Idle"
=============================================================================
