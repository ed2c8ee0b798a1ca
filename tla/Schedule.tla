------------------------------ MODULE Schedule ------------------------------
(***************************************************************************)
(* The static schedule of core/src/oorvir/refined/core.rs: from the        *)
(* periods of the globally clocked streams to one cycle of deadlines       *)
(* (Schedule::derive_from_ir).                                             *)
(*                                                                         *)
(* The code computes with rational nanoseconds.  Here a period is a number *)
(* of ticks and NsTicks ticks make one nanosecond, so that NsTicks = 3 can *)
(* express the thirds of a nanosecond a 3 Hz stream has.  Conversions to   *)
(* Duration (Rational::to_integer) drop the fraction: \div NsTicks.        *)
(***************************************************************************)
EXTENDS Integers, Sequences, FiniteSets, SequencesExt

CONSTANTS
  NsTicks,     \* ticks in a nanosecond
  EvalLayer,   \* eval_layer of a constraint index
  StartLayer,  \* start_layer of a constraint index
  UsizeMax,    \* a number above every layer (usize::MAX)
  MaxSteps     \* the limit on the slots of a cycle (10_000_000)

ASSUME ScheduleAssumption ==
  /\ NsTicks \in Nat \ {0}
  /\ UsizeMax \in Nat
  /\ DOMAIN EvalLayer \subseteq Nat /\ DOMAIN EvalLayer = DOMAIN StartLayer
  /\ \A i \in DOMAIN EvalLayer :
       EvalLayer[i] \in 0 .. UsizeMax - 1 /\ StartLayer[i] \in 0 .. UsizeMax - 1
  /\ MaxSteps \in Nat

(***************************************************************************)
(* An ir is a set of periodic tasks                                        *)
(*   [kind |-> "Evaluate" | "Start" | "End", idx, period, selfRef]         *)
(* one per stream with a global clock in that position.  selfRef is        *)
(* end.has_self_idx: such an end counts as a period but gets no slot.      *)
(***************************************************************************)
Task(p) == [kind |-> p.kind, idx |-> p.idx]

\* num::integer::gcd over the periods.
GcdInterval(periods) ==
  Max({d \in 1 .. Min(periods) : \A p \in periods : p % d = 0})

\* num::integer::lcm, folded over the periods and then with one whole
\* nanosecond.
LcmPeriod(periods) ==
  LET Lcm(a, b) == (a * b) \div GcdInterval({a, b})
  IN  FoldSet(Lcm, NsTicks, periods)

\* The sort key of order_deadline_tasks; ties keep the order in which
\* create_deadline_slots and expand_periodic_slots pushed the tasks: by the
\* slot of the first occurrence, then evaluations, starts, ends, then index.
TaskLevel(t) ==
  CASE t.kind = "Evaluate" -> EvalLayer[t.idx]
    [] t.kind = "Start"    -> StartLayer[t.idx]
    [] t.kind = "End"      -> UsizeMax

PushOrder(p) ==
  <<p.period, CASE p.kind = "Evaluate" -> 0 [] p.kind = "Start" -> 1 [] p.kind = "End" -> 2,
    p.idx>>

\* The order of the pushes, lexicographically.  (Also a mutant of Before: the
\* tasks of a deadline keep the order of their insertion.)
BeforeByInsertion(p, q) ==
  LET a == PushOrder(p)
      b == PushOrder(q)
  IN  \E i \in 1 .. 3 : a[i] < b[i] /\ \A j \in 1 .. i - 1 : a[j] = b[j]

Before(p, q) ==
  \/ TaskLevel(p) < TaskLevel(q)
  \/ TaskLevel(p) = TaskLevel(q) /\ BeforeByInsertion(p, q)

\* The elements of S in the strict total order Less.
Sorted(S, Less(_, _)) ==
  [n \in 1 .. Cardinality(S) |->
     CHOOSE x \in S : Cardinality({y \in S : Less(y, x)}) = n - 1]

\* create_deadline_slots: slot i holds the tasks of period i * gcd.
CreateDeadlineSlots(ir, gcd, steps) ==
  [i \in 1 .. steps |->
     {p \in ir : p.period = i * gcd /\ ~(p.kind = "End" /\ p.selfRef)}]

\* Mutant: the loop over the multiples ends one slot early.
ExpandBelowLast(slots) ==
  [i \in DOMAIN slots |->
     IF i = Len(slots) THEN slots[i]
     ELSE UNION {slots[j] : j \in {k \in DOMAIN slots : i % k = 0}}]

\* expand_periodic_slots: the tasks of slot i recur in every multiple of i.
ExpandPeriodicSlots(slots) ==
  [i \in DOMAIN slots |-> UNION {slots[j] : j \in {k \in DOMAIN slots : i % k = 0}}]

\* Mutant: the gap of empty slots is forgotten.
MergeForgetsGap(gcd, slots) ==
  LET pos == Sorted({i \in DOMAIN slots : slots[i] # {}}, <)
  IN  [n \in 1 .. Len(pos) |-> [pause |-> gcd \div NsTicks, due |-> slots[pos[n]]]]

\* merge_into_deadlines: an empty slot is added to the pause of the next one
\* that is not.
MergeIntoDeadlines(gcd, slots) ==
  LET Filled == {i \in DOMAIN slots : slots[i] # {}}
      Last0(i) == Max({j \in Filled : j < i} \cup {0})
      pos == Sorted(Filled, <)
  IN  [n \in 1 .. Len(pos) |->
         [pause |-> (gcd * (pos[n] - Last0(pos[n]))) \div NsTicks,
          due   |-> slots[pos[n]]]]

\* order_deadline_tasks
OrderDeadlineTasks(deadlines) ==
  [n \in DOMAIN deadlines |->
     [deadlines[n] EXCEPT !.due =
        LET s == Sorted(@, Before) IN [i \in DOMAIN s |-> Task(s[i])]]]

(***************************************************************************)
(* derive_from_ir.  "Err" when the cycle has too many slots; "Panic" when  *)
(* the last slot is empty, where merge_into_deadlines asserts.             *)
(***************************************************************************)
DeriveFromIR(ir) ==
  LET periods == {p.period : p \in ir}
      gcd == GcdInterval(periods)
      hyper == LcmPeriod(periods)
      steps == hyper \div gcd
      slots == ExpandPeriodicSlots(CreateDeadlineSlots(ir, gcd, steps))
  IN  IF ir = {} THEN
        [result |-> "Ok", hyper_period |-> 0, deadlines |-> <<>>]
      ELSE IF steps >= MaxSteps THEN
        [result |-> "Err", hyper_period |-> 0, deadlines |-> <<>>]
      ELSE IF slots[steps] = {} THEN
        [result |-> "Panic", hyper_period |-> 0, deadlines |-> <<>>]
      ELSE
        [result |-> "Ok", hyper_period |-> hyper \div NsTicks,
         deadlines |-> OrderDeadlineTasks(MergeIntoDeadlines(gcd, slots))]
=============================================================================
