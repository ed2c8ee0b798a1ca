------------------------------- MODULE Layers -------------------------------
(***************************************************************************)
(* The dependency and layer passes of core/src/oorvir/source/analysis: the *)
(* cycle check of flow.rs and the loop of layers.rs that gives every       *)
(* stream the layer of its start and of its evaluation.                    *)
(*                                                                         *)
(* A specification is a record                                             *)
(*   edges            a set of [from, to, site, access]: the clause site   *)
(*                    of from reads to, in mode access.mode; access.offset *)
(*                    is how many values a Shift goes back                 *)
(*   init_rate, execution_rate, termination_rate                           *)
(*                    of the constraints: "Conditional" or a clock         *)
(* Rates that are neither do not pass the pacing analysis before.          *)
(***************************************************************************)
EXTENDS Integers, Sequences, FiniteSets

CONSTANTS
  Signals, Constraints,   \* the streams
  Order,                  \* the streams in the order of the graph's nodes
  Specs                   \* the specifications

Stream == Signals \cup Constraints
Rate == {"Conditional", "GlobalClock", "LocalClock"}
Site == {"AtStart", "AtCondition", "AtBody", "AtEnd"}
Edge == [from : Constraints, to : Stream, site : Site,
         access : [mode : {"Strict", "Get", "Fresh", "Cached", "Shift"}, offset : Nat]]

ASSUME LayersAssumption ==
  /\ Signals \cap Constraints = {}
  /\ Order \in Seq(Stream) /\ Len(Order) > 0
  /\ \A s \in Stream : \E i \in 1 .. Len(Order) : Order[i] = s
  /\ \A p \in Specs :
       /\ p.edges \subseteq Edge
       /\ {p.init_rate, p.execution_rate, p.termination_rate} \subseteq [Constraints -> Rate]

VARIABLES
  spec,               \* the specification
  pass,               \* "check", "start", "eval", "done" or "rejected"
  node,               \* the position of the for loop in Order
  start_levels,       \* the levels known, by stream
  evaluation_levels

layer_vars == <<spec, pass, node, start_levels, evaluation_levels>>
-----------------------------------------------------------------------------
(* FlowFilter *)

IsBackwardShift(e) == e.access.mode = "Shift" /\ e.access.offset # 0

ExecutionRate(p, s) == IF s \in Signals THEN "Conditional" ELSE p.execution_rate[s]

RateOfSite(p, e) ==
  LET rates == [AtStart |-> p.init_rate, AtCondition |-> p.execution_rate,
                AtBody |-> p.execution_rate, AtEnd |-> p.termination_rate]
  IN  rates[e.site][e.from]

\* Mutant: only streams of the same clock are compared.
SameClockOnly(p, e) == RateOfSite(p, e) = ExecutionRate(p, e.to)

\* drop_pacing_mismatches keeps an edge between two events or two clocks.
PacingMatches(p, e) ==
  (RateOfSite(p, e) = "Conditional") = (ExecutionRate(p, e.to) = "Conditional")

Filtered(p) ==
  {e \in p.edges : ~IsBackwardShift(e) /\ e.site # "AtEnd" /\ PacingMatches(p, e)}

StartOnly(p) == {e \in Filtered(p) : e.site = "AtStart"}

\* Mutant: starts do not count for a cycle.
CyclicInBodies(p) ==
  \E nodes \in (SUBSET Constraints) \ {{}} :
    \A n \in nodes : \E e \in Filtered(p) : e.site # "AtStart" /\ e.from = n /\ e.to \in nodes

\* find_back_edge: some nodes each have a successor among them.
Cyclic(p) ==
  \E nodes \in (SUBSET Constraints) \ {{}} :
    \A n \in nodes : \E e \in Filtered(p) : e.from = n /\ e.to \in nodes
-----------------------------------------------------------------------------
Known(levels) == DOMAIN levels

Insert(levels, s, l) == [t \in Known(levels) \cup {s} |-> IF t = s THEN l ELSE levels[t]]

\* One above the highest level among the targets, which are all known.
Above(targets, default) ==
  IF targets = {} THEN {default}
  ELSE {l \in {evaluation_levels[t] + 1 : t \in targets} :
          \A t \in targets : evaluation_levels[t] < l}

StartTargets(s) == {e.to : e \in {d \in StartOnly(spec) : d.from = s}}
EvalTargets(s) == {e.to : e \in {d \in Filtered(spec) : d.from = s}} \ {s}

\* Mutant: a target that has no level yet is passed over.
StartLevelOfKnown(s) == Above(StartTargets(s) \cap Known(evaluation_levels), 0)

\* compute_start_layer and compute_eval_layer: no level while a target has none
StartLevel(s) ==
  IF StartTargets(s) \subseteq Known(evaluation_levels) THEN Above(StartTargets(s), 0) ELSE {}

\* Mutant: the level of the start is not looked at.
EvalLevelOfTargets(s) ==
  IF EvalTargets(s) \subseteq Known(evaluation_levels) THEN Above(EvalTargets(s), 1) ELSE {}

EvalLevel(s) ==
  IF EvalTargets(s) \subseteq Known(evaluation_levels)
  THEN {IF l <= start_levels[s] THEN start_levels[s] + 1 ELSE l : l \in Above(EvalTargets(s), 1)}
  ELSE {}

Init ==
  /\ spec \in Specs
  /\ pass = "check" /\ node = 1
  /\ start_levels = [s \in Signals |-> 0]         \* init_seed_layers
  /\ evaluation_levels = [s \in Signals |-> 0]

\* The condition of the while loop.
Unassigned(levels) == Known(levels) # Stream

\* assert_acyclic of the dependency pass, then the entry of the loop
CheckAcyclic ==
  /\ pass = "check"
  /\ pass' = IF Cyclic(spec) THEN "rejected"
             ELSE IF Unassigned(evaluation_levels) THEN "start" ELSE "done"
  /\ UNCHANGED <<spec, node, start_levels, evaluation_levels>>

\* One round of the first for loop.
AssignStart ==
  /\ pass = "start"
  /\ LET s == Order[node]
     IN  IF s \in Known(start_levels) \/ StartLevel(s) = {}
         THEN UNCHANGED start_levels
         ELSE \E l \in StartLevel(s) : start_levels' = Insert(start_levels, s, l)
  /\ IF node < Len(Order)
     THEN node' = node + 1 /\ UNCHANGED pass
     ELSE node' = 1 /\ pass' = "eval"
  /\ UNCHANGED <<spec, evaluation_levels>>

\* One round of the second.
AssignEval ==
  /\ pass = "eval"
  /\ LET s == Order[node]
     IN  IF s \in Known(evaluation_levels) \/ s \notin Known(start_levels) \/ EvalLevel(s) = {}
         THEN UNCHANGED evaluation_levels
         ELSE \E l \in EvalLevel(s) : evaluation_levels' = Insert(evaluation_levels, s, l)
  /\ IF node < Len(Order)
     THEN node' = node + 1 /\ UNCHANGED pass
     ELSE /\ node' = 1
          /\ pass' = IF Unassigned(evaluation_levels') THEN "start" ELSE "done"
  /\ UNCHANGED <<spec, start_levels>>

LayerNext == CheckAcyclic \/ AssignStart \/ AssignEval

LayerSpec == Init /\ [][LayerNext]_layer_vars /\ WF_layer_vars(LayerNext)
-----------------------------------------------------------------------------
LayerTypeOK ==
  /\ spec.edges \subseteq Edge
  /\ spec.execution_rate \in [Constraints -> Rate] /\ spec.init_rate \in [Constraints -> Rate]
  /\ pass \in {"check", "start", "eval", "done", "rejected"}
  /\ node \in 1 .. Len(Order)
  /\ Signals \subseteq Known(evaluation_levels) /\ Known(evaluation_levels) \subseteq Known(start_levels)
  /\ Known(start_levels) \subseteq Stream
  /\ start_levels \in [Known(start_levels) -> Nat]
  /\ evaluation_levels \in [Known(evaluation_levels) -> Nat]

\* Which clauses can run in one cycle: those of events, and those of clocks.
CanCoincide(a, b) == (a = "Conditional") = (b = "Conditional")

\* e reads the value of the present cycle, if there is one.
ReadsThisCycle(e) == e.access.mode = "Shift" => e.access.offset = 0

(***************************************************************************)
(* What is evaluated in one cycle is evaluated before it is read there: an *)
(* evaluation has a higher layer than every stream that it reads, not back *)
(* in time, and that can be evaluated in the same cycle.                   *)
(***************************************************************************)
EvalAfterTargets ==
  \A e \in spec.edges :
    /\ e.site \in {"AtCondition", "AtBody"} /\ ReadsThisCycle(e)
    /\ CanCoincide(spec.execution_rate[e.from], ExecutionRate(spec, e.to))
    /\ e.from \in Known(evaluation_levels)
    => /\ e.to \in Known(evaluation_levels)
       /\ evaluation_levels[e.to] < evaluation_levels[e.from]

(***************************************************************************)
(* The same for a start expression and the streams it reads.               *)
(***************************************************************************)
StartAfterTargets ==
  \A e \in spec.edges :
    /\ e.site = "AtStart" /\ ReadsThisCycle(e)
    /\ CanCoincide(spec.init_rate[e.from], ExecutionRate(spec, e.to))
    /\ e.from \in Known(start_levels)
    => /\ e.to \in Known(evaluation_levels)
       /\ evaluation_levels[e.to] < start_levels[e.from]

(***************************************************************************)
(* An instance is started before it is evaluated, in every cycle in which  *)
(* both are due.                                                           *)
(***************************************************************************)
StartBeforeEval ==
  \A s \in Known(evaluation_levels) \cap Constraints :
    start_levels[s] < evaluation_levels[s]

(***************************************************************************)
(* The loop ends for every specification the cycle check lets through: the *)
(* check looks at the same edges as the loop.                              *)
(***************************************************************************)
LayersEnd == <>(pass \in {"done", "rejected"})
=============================================================================
