---------------------------- MODULE ScheduleBuild ----------------------------
(***************************************************************************)
(* Builds the static schedule of one specification and states what the     *)
(* runtime relies on.  The initial state picks any ir of the set IRs; the  *)
(* one step is ir.build_schedule() as TaskCoordinator::build calls it.     *)
(***************************************************************************)
EXTENDS Schedule

CONSTANT IRs   \* the specifications considered: sets of periodic tasks

\* A stream has one period for its evaluation, one for its start, one for its end.
ASSUME BuildAssumption ==
  \A spec \in IRs :
    /\ IsFiniteSet(spec)
    /\ \A p \in spec : p \in [kind : {"Evaluate", "Start", "End"}, idx : DOMAIN EvalLayer,
                              period : Nat \ {0}, selfRef : BOOLEAN]
    /\ \A p, q \in spec : Task(p) = Task(q) => p = q

VARIABLES
  ir,         \* the specification
  schedule    \* what derive_from_ir returned, or NotBuilt

vars == <<ir, schedule>>

NotBuilt == [result |-> "NotBuilt", hyper_period |-> 0, deadlines |-> <<>>]

Init == ir \in IRs /\ schedule = NotBuilt

Build ==
  /\ schedule = NotBuilt
  /\ schedule' = DeriveFromIR(ir)
  /\ UNCHANGED ir

Next == Build

Spec == Init /\ [][Next]_vars
-----------------------------------------------------------------------------
D == schedule.deadlines

\* When deadline n of the first cycle fires, by the runtime's arithmetic: the
\* pause of a deadline is waited for before it.
DueTime(n) == MapThenSumSet(LAMBDA m : D[m].pause, 1 .. n)

Scheduled(p) == ~(p.kind = "End" /\ p.selfRef)

(***************************************************************************)
(* One cycle fires every periodic task exactly at the multiples of its own *)
(* period, from the first one to the hyper period, and nothing else: the   *)
(* gcd grid, the expansion and the merging of empty slots lose and shift   *)
(* nothing.                                                                *)
(***************************************************************************)
FiresAtMultiples ==
  schedule.result = "Ok" =>
    \A p \in ir : Scheduled(p) =>
      {DueTime(n) : n \in {m \in DOMAIN D : Contains(D[m].due, Task(p))}}
        = {t \in 1 .. schedule.hyper_period : (t * NsTicks) % p.period = 0}

(***************************************************************************)
(* The pauses of one cycle add up to the hyper period, so that repeating   *)
(* the cycle keeps every stream on its frequency ("All deadlines tile the  *)
(* hyper-period").                                                         *)
(***************************************************************************)
TilesHyperPeriod ==
  schedule.result = "Ok" => DueTime(Len(D)) = schedule.hyper_period

(***************************************************************************)
(* Inside a deadline a task comes after every task of a lower layer, ends  *)
(* come last, and no task is there twice: what process_timed_tasks         *)
(* evaluates in that order reads only values of this deadline.             *)
(***************************************************************************)
DeadlinesInLayerOrder ==
  \A n \in DOMAIN D :
    \A i, j \in DOMAIN D[n].due : i < j =>
      /\ TaskLevel(D[n].due[i]) <= TaskLevel(D[n].due[j])
      /\ D[n].due[i] # D[n].due[j]
=============================================================================
