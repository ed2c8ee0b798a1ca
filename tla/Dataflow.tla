------------------------------ MODULE Dataflow ------------------------------
(***************************************************************************)
(* What streams read of each other through the cycles of RuntimeEngine:    *)
(* the bounds of storage.rs, the ValueBuffers of buffer.rs and the four    *)
(* kinds of access of engine.rs, with the tasks of a cycle in the order of *)
(* the layers that Layers computes.                                        *)
(*                                                                         *)
(* A value is the number of the cycle that wrote it, so that a read tells  *)
(* which write it saw.  Which tasks of a cycle are due is up to gates and  *)
(* deadlines (see Engine): here any of them may be.  One instance stands   *)
(* for all those of a stream.  A specification has two fields more:        *)
(*   startable, ending   is_start and is_end, as sets of streams           *)
(***************************************************************************)
EXTENDS Layers

CONSTANT MaxCycles     \* bound: the cycles of a run, for each specification

\* How far the expressions of p go back in a stream.
Shifts(p, s) == {e.access.offset : e \in {d \in p.edges : d.to = s /\ d.access.mode = "Shift"}}

\* An expression is finite: of its accesses, one goes back furthest.
ASSUME DataflowAssumption ==
  /\ MaxCycles \in [Specs -> Nat]
  /\ \A p \in Specs :
       /\ p.startable \subseteq Constraints /\ p.ending \subseteq Constraints
       /\ \A e \in p.edges : e.access.mode = "Shift" => e.access.offset > 0
       /\ \A s \in Stream : Shifts(p, s) # {} =>
            \E n \in Shifts(p, s) : \A m \in Shifts(p, s) : m <= n

VARIABLES
  cycle,      \* the number of the present cycle
  buffer,     \* per stream, its values, the latest first
  live,       \* the streams whose buffer is enabled
  fresh,      \* active_inputs and active_outputs
  ended,      \* ended_outputs
  todo,       \* the tasks the cycle has left
  due,        \* the tasks it had, for the properties
  ran,        \* the streams it started and those it evaluated, likewise
  reads,      \* what its tasks read: [edge, answer], likewise
  written     \* per stream, the cycles that wrote it since its start, likewise

flow_vars == <<cycle, buffer, live, fresh, ended, todo, due, ran, reads, written>>

None == 0
Yes == 1
Task == [kind : {"Start", "Evaluate", "End"}, idx : Constraints]
-----------------------------------------------------------------------------
(* StorageMap *)

\* Mutant: room for the values back in time only.
CostOfPast(e) == IF e.access.mode = "Shift" THEN e.access.offset ELSE 1

\* storage_cost under the static policy
StorageCost(e) == IF e.access.mode = "Shift" THEN e.access.offset + 1 ELSE 1

\* determine_storage
StorageBound(s) ==
  LET costs == {1} \cup {StorageCost(e) : e \in {d \in spec.edges : d.to = s}}
  IN  CHOOSE c \in costs : \A d \in costs : d <= c

(* ValueBuffer *)

\* read_at(-k)
ReadAt(s, k) == IF s \in live /\ k < Len(buffer[s]) THEN buffer[s][k + 1] ELSE None

\* write: the oldest value goes when the buffer is full
Write(s, v) ==
  LET kept == IF Len(buffer[s]) = StorageBound(s) THEN Len(buffer[s]) - 1 ELSE Len(buffer[s])
  IN  <<v>> \o SubSeq(buffer[s], 1, kept)

(* EvalFrame *)

Adjusted(s, n) == IF s \in fresh THEN n ELSE n - 1

Read(e) ==
  LET s == e.to
  IN  CASE e.access.mode \in {"Strict", "Cached"} -> ReadAt(s, 0)
        [] e.access.mode = "Get"   -> IF s \in fresh THEN ReadAt(s, 0) ELSE None
        [] e.access.mode = "Fresh" -> IF s \in fresh THEN Yes ELSE None
        [] e.access.mode = "Shift" -> ReadAt(s, Adjusted(s, e.access.offset))

\* The expressions of a task read their streams.
ReadEdges(s, sites) ==
  reads' = reads \cup {[edge |-> e, answer |-> Read(e)] :
                         e \in {d \in spec.edges : d.from = s /\ d.site \in sites}}
-----------------------------------------------------------------------------
FlowInit ==
  /\ Init
  /\ cycle = 0
  /\ buffer = [s \in Stream |-> <<>>]
  /\ live = Stream \ spec.startable
  /\ fresh = {} /\ ended = {} /\ todo = {} /\ due = {}
  /\ ran = [start |-> {}, eval |-> {}] /\ reads = {}
  /\ written = [s \in Stream |-> {}]

\* The tasks of an event, or of a deadline: those of the one class of rates.
TasksOf(class) ==
  LET InClass(rate) == (rate = "Conditional") = (class = "event")
  IN  {[kind |-> "Start", idx |-> s] : s \in {t \in spec.startable : InClass(spec.init_rate[t])}}
      \cup
      {[kind |-> "Evaluate", idx |-> s] : s \in {t \in Constraints : InClass(spec.execution_rate[t])}}
      \cup
      {[kind |-> "End", idx |-> s] : s \in {t \in spec.ending : InClass(spec.termination_rate[t])}}

\* flush_ended_streams, disable
AfterEnd(s) == IF s \in ended THEN <<>> ELSE buffer[s]

\* ingest_event_values: each new value is written to the buffer of its signal
Ingested(signals) ==
  [s \in Stream |-> IF s \in signals THEN Write(s, cycle + 1) ELSE AfterEnd(s)]

\* begin_cycle, then the values of the signals given
BeginCycle(signals, tasks) ==
  /\ pass = "done" /\ todo = {} /\ cycle < MaxCycles[spec]
  /\ cycle' = cycle + 1
  /\ live' = live \ ended
  /\ buffer' = Ingested(signals)
  /\ written' = [s \in Stream |-> IF s \in signals THEN written[s] \cup {cycle + 1}
                                  ELSE IF s \in ended THEN {} ELSE written[s]]
  /\ fresh' = signals /\ ended' = {}
  /\ todo' = tasks /\ due' = tasks
  /\ ran' = [start |-> {}, eval |-> {}] /\ reads' = {}
  /\ UNCHANGED layer_vars

ProcessEvent ==
  \E signals \in SUBSET Signals, tasks \in SUBSET TasksOf("event") : BeginCycle(signals, tasks)

ProcessTimedTasks ==
  \E tasks \in (SUBSET TasksOf("clock")) \ {{}} : BeginCycle({}, tasks)
-----------------------------------------------------------------------------
\* The layer of a task; ends have none and come last.
Level(w) == IF w.kind = "Start" THEN start_levels[w.idx] ELSE evaluation_levels[w.idx]

Before(v, w) == v.kind # "End" /\ (w.kind = "End" \/ Level(v) < Level(w))

\* Tasks of one layer come in any order: that of the streams, or of the heap.
NextTasks == {w \in todo : \A v \in todo : ~Before(v, w)}

\* activate_instance: the start expression yields no key, or the instance is
\* there already, or it is enabled.
Start(s) ==
  /\ ReadEdges(s, {"AtStart"})
  /\ \/ UNCHANGED <<live, ran>>
     \/ s \notin live /\ live' = live \cup {s} /\ ran' = [ran EXCEPT !.start = @ \cup {s}]
  /\ UNCHANGED <<buffer, fresh, ended, written>>

\* run_all_instances, run_stream_instance: a value, or none
Evaluate(s) ==
  IF s \notin live THEN UNCHANGED <<buffer, live, fresh, ended, ran, reads, written>>
  ELSE /\ ReadEdges(s, {"AtCondition", "AtBody"})
       /\ ran' = [ran EXCEPT !.eval = @ \cup {s}]
       /\ \/ UNCHANGED <<buffer, fresh, written>>
          \/ /\ buffer' = [buffer EXCEPT ![s] = Write(s, cycle)]
             /\ fresh' = fresh \cup {s}
             /\ written' = [written EXCEPT ![s] = @ \cup {cycle}]
       /\ UNCHANGED <<live, ended>>

\* deactivate_all_instances
End(s) ==
  IF s \notin live THEN UNCHANGED <<buffer, live, fresh, ended, ran, reads, written>>
  ELSE /\ ReadEdges(s, {"AtEnd"})
       /\ \/ UNCHANGED ended
          \/ ended' = ended \cup {s}
       /\ UNCHANGED <<buffer, live, fresh, ran, written>>

RunTask ==
  \E w \in NextTasks :
    /\ todo' = todo \ {w}
    /\ \/ w.kind = "Start" /\ Start(w.idx)
       \/ w.kind = "Evaluate" /\ Evaluate(w.idx)
       \/ w.kind = "End" /\ End(w.idx)
    /\ UNCHANGED <<layer_vars, cycle, due>>

FlowNext ==
  \/ LayerNext /\ UNCHANGED flow_vars
  \/ ProcessEvent \/ ProcessTimedTasks \/ RunTask

\* The compiler goes on while it can; nothing makes an event come.
FlowSpec == FlowInit /\ [][FlowNext]_<<layer_vars, flow_vars>> /\ WF_layer_vars(LayerNext)
-----------------------------------------------------------------------------
\* The n-th latest of a set of cycles, as a read gives it.
NthLatest(cycles, n) ==
  LET nth == {c \in cycles : Cardinality({d \in cycles : d >= c}) = n}
  IN  IF nth = {} THEN None ELSE CHOOSE c \in nth : TRUE

(***************************************************************************)
(* Streams are evaluated as if all at once: whatever an expression read of *)
(* the present cycle is what the cycle ends with, in whichever order its   *)
(* tasks ran and for every kind of access.                                 *)
(***************************************************************************)
ReadsAreFinal ==
  todo = {} =>
    \A r \in reads : LET e == r.edge IN
      /\ e.access.mode \in {"Strict", "Cached"} => r.answer = NthLatest(written[e.to], 1)
      /\ e.access.mode = "Get" =>
           r.answer = IF cycle \in written[e.to] THEN cycle ELSE None
      /\ e.access.mode = "Fresh" => r.answer = IF cycle \in written[e.to] THEN Yes ELSE None

(***************************************************************************)
(* A read n back gives the n-th latest of the values from before the       *)
(* present cycle, since the stream was started: the bound of its buffer is *)
(* high enough, and whether the stream has run yet makes no difference.    *)
(***************************************************************************)
ShiftsReadThePast ==
  \A r \in reads :
    r.edge.access.mode = "Shift" =>
      r.answer = NthLatest(written[r.edge.to] \ {cycle}, r.edge.access.offset)

(***************************************************************************)
(* A stream that is started in a cycle in which its evaluation is due is   *)
(* evaluated in that cycle.                                                *)
(***************************************************************************)
StartedIsEvaluated ==
  todo = {} =>
    \A s \in ran.start : [kind |-> "Evaluate", idx |-> s] \in due => s \in ran.eval
=============================================================================
