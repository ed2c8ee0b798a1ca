------------------------------- MODULE Engine -------------------------------
(***************************************************************************)
(* RuntimeEngine (core/src/runtime/eval/engine.rs) on the DataStore of     *)
(* core/src/runtime/store/buffer.rs: the life of stream instances through  *)
(* evaluation cycles, and the entries of the dynamic queue that go with    *)
(* them.  The engine shares the queue with the TaskCoordinator.            *)
(*                                                                         *)
(* Values are abstracted: a start expression yields any key or none, an    *)
(* evaluation writes a value or not, an end condition holds or not.        *)
(***************************************************************************)
EXTENDS TaskCoordinator

CONSTANTS
  Params,    \* parameter tuples a start expression can yield
  Streams    \* the constraint streams, a function from index to description

(***************************************************************************)
(* A stream is described by                                                *)
(*   parameterised    is_parameter, it has one instance per key            *)
(*   startable        is_start, an instance exists only once activated     *)
(*   start, eval, end "event", "global", "local" or "none": the pacing     *)
(*   start_gate, ...  the PacingGate of an event pacing, as the sets of    *)
(*                    inputs each of which satisfies it                    *)
(*   period, end_period   of a periodic eval and end                       *)
(*   start_layer, eval_layer                                               *)
(***************************************************************************)
Stream == DOMAIN Streams
Unit == "()"     \* the key of a stream without parameters
UsizeMax == 1000

VARIABLES
  slots,            \* per stream, the keys that have a live ValueBuffer
  updated,          \* SlotGroup bookkeeping, per stream
  added,
  removed,
  active_outputs,   \* streams that were written in this cycle
  started_outputs,
  ended_outputs,
  todo              \* the tasks this cycle has left

group_vars == <<updated, added, removed>>
flag_vars == <<active_outputs, started_outputs, ended_outputs>>
engine_vars == <<slots, group_vars, flag_vars>>

Keys(s) == IF Streams[s].parameterised THEN Params ELSE {Unit}

\* time_driven_streams[s].is_some()
TimeDriven(s) == Streams[s].eval \in {"global", "local"}

ComputeEntry(s, k) ==
  [item |-> [kind |-> "Compute", idx |-> s, params |-> k], period |-> Streams[s].period]
EndEntry(s, k) ==
  [item |-> [kind |-> "Deactivate", idx |-> s, params |-> k], period |-> Streams[s].end_period]

\* start and end have a pacing only with a start and an end clause; recurring
\* items are those of the instances that can be started.
ASSUME EngineAssumption ==
  /\ Unit \notin Params
  /\ \A s \in Stream :
       /\ Streams[s].parameterised \in BOOLEAN /\ Streams[s].startable \in BOOLEAN
       /\ Streams[s].parameterised \/ Streams[s].start # "none" => Streams[s].startable
       /\ Streams[s].start_layer \in Nat /\ Streams[s].eval_layer \in Nat
       /\ Streams[s].start_layer < Streams[s].eval_layer
       /\ Streams[s].eval_layer < UsizeMax
       /\ \A k \in Keys(s) :
            /\ Streams[s].eval = "local" => ComputeEntry(s, k) \in Entry
            /\ Streams[s].end = "local" => EndEntry(s, k) \in Entry

\* PacingGate::is_satisfied
IsSatisfied(gate, inputs) == \E required \in gate : required \subseteq inputs

\* WorkItem::priority_level
PriorityLevel(w) ==
  CASE w.kind \in {"Compute", "ComputeAll"}       -> Streams[w.idx].eval_layer
    [] w.kind = "Activate"                        -> Streams[w.idx].start_layer
    [] w.kind \in {"Deactivate", "DeactivateAll"} -> UsizeMax
-----------------------------------------------------------------------------
\* DataStore::build
EngineInit ==
  /\ slots = [s \in Stream |-> IF Streams[s].startable THEN {} ELSE {Unit}]
  /\ updated = [s \in Stream |-> {}]
  /\ added = [s \in Stream |-> {}]
  /\ removed = [s \in Stream |-> {}]
  /\ active_outputs = {} /\ started_outputs = {} /\ ended_outputs = {}
  /\ todo = {}

\* Mutant: ended instances keep their slot.
FlushNothing == UNCHANGED slots

\* flush_ended_streams, the first half of begin_cycle
FlushEndedStreams ==
  slots' = [s \in Stream |->
              IF s \notin ended_outputs THEN slots[s]
              ELSE IF Streams[s].parameterised THEN slots[s] \ removed[s] ELSE {}]

\* Mutant: the activations of the cycle before are kept.
BeginCycleKeepsAdded ==
  /\ FlushEndedStreams
  /\ updated' = [s \in Stream |-> {}]
  /\ removed' = [s \in Stream |-> {}]
  /\ active_outputs' = {} /\ ended_outputs' = {}
  /\ UNCHANGED <<added, started_outputs>>

BeginCycle ==
  /\ FlushEndedStreams
  /\ updated' = [s \in Stream |-> {}]
  /\ added' = [s \in Stream |-> {}]
  /\ removed' = [s \in Stream |-> {}]
  /\ active_outputs' = {} /\ started_outputs' = {} /\ ended_outputs' = {}

(***************************************************************************)
(* The tasks run_event_layers runs when exactly the inputs fresh are new.  *)
(* The inputs do not change in a cycle, so a gate is tested here.          *)
(***************************************************************************)
EventTasks(fresh) ==
  LET Task(kind, s) == [kind |-> kind, idx |-> s]
  IN  {Task("Activate", s) : s \in {r \in Stream :
         Streams[r].start = "event" /\ IsSatisfied(Streams[r].start_gate, fresh)}}
      \cup
      {Task("ComputeAll", s) : s \in {r \in Stream :
         Streams[r].eval = "event" /\ IsSatisfied(Streams[r].eval_gate, fresh)}}
      \cup
      {Task("DeactivateAll", s) : s \in {r \in Stream :
         Streams[r].end = "event" /\ IsSatisfied(Streams[r].end_gate, fresh)}}

\* The tasks of the static schedule: those of the streams with a global clock.
StaticTasks ==
  LET Task(kind, field) ==
        {[kind |-> kind, idx |-> s] : s \in {r \in Stream : Streams[r][field] = "global"}}
  IN  Task("ComputeAll", "eval") \cup Task("Activate", "start") \cup Task("DeactivateAll", "end")

\* run_stream_instance for the instances ks, of which written yield a value
WriteInstances(s, written) ==
  /\ updated' = IF Streams[s].parameterised
                THEN [updated EXCEPT ![s] = @ \cup written] ELSE updated
  /\ active_outputs' = IF written = {} THEN active_outputs ELSE active_outputs \cup {s}
  /\ UNCHANGED <<slots, added, removed, started_outputs, ended_outputs, event_queue>>

\* run_all_instances
ComputeAll(s) == \E written \in SUBSET slots[s] : WriteInstances(s, written)

\* WorkItem::Compute
Compute(s, k) == \E written \in SUBSET {k} : WriteInstances(s, written)

\* activate_instance at time ts; nothing when there is no key, or the
\* instance exists, be it one that ended in this cycle
ActivateInstance(s, ts) ==
  \/ UNCHANGED <<engine_vars, event_queue>>
  \/ \E k \in Keys(s) \ slots[s] :
       LET q1 == IF TimeDriven(s) /\ Streams[s].eval = "local"
                 THEN Enqueue(event_queue, ComputeEntry(s, k), ts) ELSE event_queue
           q2 == IF TimeDriven(s) /\ Streams[s].end = "local"
                 THEN Enqueue(q1, EndEntry(s, k), ts) ELSE q1
       IN  /\ slots' = [slots EXCEPT ![s] = @ \cup {k}]
           /\ added' = IF Streams[s].parameterised
                       THEN [added EXCEPT ![s] = @ \cup {k}] ELSE added
           /\ started_outputs' = started_outputs \cup {s}
           /\ event_queue' = q2
           /\ UNCHANGED <<updated, removed, active_outputs, ended_outputs>>

\* Mutants: the end check of an ended instance stays in the queue; or its
\* evaluation does.
EndKeepsEndCheck(s, gone) ==
  LET cancelled == IF TimeDriven(s) THEN {ComputeEntry(s, k) : k \in gone} ELSE {}
  IN  /\ removed' = IF Streams[s].parameterised
                    THEN [removed EXCEPT ![s] = @ \cup gone] ELSE removed
      /\ ended_outputs' = IF gone = {} THEN ended_outputs ELSE ended_outputs \cup {s}
      /\ event_queue' = [e \in DOMAIN event_queue \ cancelled |-> event_queue[e]]
      /\ UNCHANGED <<slots, updated, added, active_outputs, started_outputs>>

EndKeepsEvaluation(s, gone) ==
  LET cancelled == IF TimeDriven(s) /\ Streams[s].end = "local"
                   THEN {EndEntry(s, k) : k \in gone} ELSE {}
  IN  /\ removed' = IF Streams[s].parameterised
                    THEN [removed EXCEPT ![s] = @ \cup gone] ELSE removed
      /\ ended_outputs' = IF gone = {} THEN ended_outputs ELSE ended_outputs \cup {s}
      /\ event_queue' = [e \in DOMAIN event_queue \ cancelled |-> event_queue[e]]
      /\ UNCHANGED <<slots, updated, added, active_outputs, started_outputs>>

\* deactivate_instance for the instances whose end condition holds
EndInstances(s, gone) ==
  LET cancelled ==
        (IF TimeDriven(s) THEN {ComputeEntry(s, k) : k \in gone} ELSE {})
        \cup
        (IF TimeDriven(s) /\ Streams[s].end = "local"
         THEN {EndEntry(s, k) : k \in gone} ELSE {})
  IN  /\ removed' = IF Streams[s].parameterised
                    THEN [removed EXCEPT ![s] = @ \cup gone] ELSE removed
      /\ ended_outputs' = IF gone = {} THEN ended_outputs ELSE ended_outputs \cup {s}
      /\ event_queue' = [e \in DOMAIN event_queue \ cancelled |-> event_queue[e]]
      /\ UNCHANGED <<slots, updated, added, active_outputs, started_outputs>>

\* deactivate_all_instances
DeactivateAll(s) == \E gone \in SUBSET slots[s] : EndInstances(s, gone)

\* WorkItem::Deactivate
Deactivate(s, k) == \E gone \in SUBSET {k} : EndInstances(s, gone)

\* Mutant: an activation starts the clocks of the instance at the time of the
\* call before, not of the cycle.
RunTaskAtClock(w, ts) ==
  \/ w.kind = "ComputeAll" /\ ComputeAll(w.idx)
  \/ w.kind = "Compute" /\ Compute(w.idx, w.params)
  \/ w.kind = "Activate" /\ ActivateInstance(w.idx, clock)
  \/ w.kind = "DeactivateAll" /\ DeactivateAll(w.idx)
  \/ w.kind = "Deactivate" /\ Deactivate(w.idx, w.params)

RunTask(w, ts) ==
  \/ w.kind = "ComputeAll" /\ ComputeAll(w.idx)
  \/ w.kind = "Compute" /\ Compute(w.idx, w.params)
  \/ w.kind = "Activate" /\ ActivateInstance(w.idx, ts)
  \/ w.kind = "DeactivateAll" /\ DeactivateAll(w.idx)
  \/ w.kind = "Deactivate" /\ Deactivate(w.idx, w.params)

\* The tasks that may be next: those of the lowest level left.  Tasks of one
\* level come in the order of the table and of the heap, which is any order.
NextTasks == {w \in todo : \A v \in todo : PriorityLevel(w) <= PriorityLevel(v)}
-----------------------------------------------------------------------------
\* snapshot_output_changes
OutputChanges ==
  LET Change(kind, s, ks) == {[kind |-> kind, idx |-> s, params |-> k] : k \in ks}
      If(s, set) == IF s \in set THEN {Unit} ELSE {}
  IN  UNION {IF Streams[s].parameterised
             THEN Change("Activate", s, added[s]) \cup Change("Update", s, updated[s])
                    \cup Change("Deactivate", s, removed[s])
             ELSE IF Streams[s].startable
             THEN Change("Activate", s, If(s, started_outputs))
                    \cup Change("Update", s, If(s, active_outputs))
                    \cup Change("Deactivate", s, If(s, ended_outputs))
             ELSE Change("Update", s, If(s, active_outputs)) : s \in Stream}

\* The instances that exist and did not end in the present cycle.
Live(s) ==
  slots[s] \ (IF Streams[s].parameterised THEN removed[s]
              ELSE IF s \in ended_outputs THEN {Unit} ELSE {})
=============================================================================
