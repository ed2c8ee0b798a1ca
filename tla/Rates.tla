-------------------------------- MODULE Rates --------------------------------
(***************************************************************************)
(* The two lattices of core/src/oorvir/source/analysis/pacing.rs: when a   *)
(* stream is evaluated (RateNode, StreamPacingKind) and under which        *)
(* condition (CondCategory).                                               *)
(*                                                                         *)
(* An activation condition is its set of conjunctions of inputs, with      *)
(* True as the set of the empty one, which no parsed condition contains.   *)
(* A rate is a record [kind, ac, freq], a frequency the number of ticks of *)
(* a base clock; AnyPeriodic, which the code never constructs, is left     *)
(* out.  A condition is a record [kind, exprs] of expressions; its         *)
(* polarity is that of the place where it is used.                         *)
(***************************************************************************)
EXTENDS Integers

CONSTANTS
  Inputs,       \* the input streams
  Exprs,        \* the Boolean expressions that a condition is built from
  MaxFreq       \* bound: the highest frequency

ASSUME RatesAssumption == MaxFreq \in Nat \ {0}

Freq == 1 .. MaxFreq
AC == SUBSET SUBSET Inputs
-----------------------------------------------------------------------------
(* ActivationCondition *)

True == {{}}

WithStream(i) == {{i}}

Conjunctions(a, b) == {c \cup d : c \in a, d \in b}

AndAC(a, b) == IF a = True THEN b ELSE IF b = True THEN a ELSE Conjunctions(a, b)

\* Mutant: only inputs that arrive together count for both clauses.
AndForOr(a, b) == IF True \in {a, b} THEN True ELSE Conjunctions(a, b)

\* The union, and every conjunction of a model of each, which it implies.
OrAC(a, b) == IF True \in {a, b} THEN True ELSE a \cup b \cup Conjunctions(a, b)

\* PacingGate::is_satisfied over the inputs that are fresh
Satisfied(a, fresh) == \E c \in a : c \subseteq fresh
-----------------------------------------------------------------------------
(* RateNode *)

Event(a)           == [kind |-> "Event", ac |-> a, freq |-> 0]
GlobalPeriodic(f)  == [kind |-> "GlobalPeriodic", ac |-> {}, freq |-> f]
LocalPeriodic(f)   == [kind |-> "LocalPeriodic", ac |-> {}, freq |-> f]
AnyRate            == [kind |-> "Any", ac |-> {}, freq |-> 0]
RateConflict       == [kind |-> "Conflict", ac |-> {}, freq |-> 0]

Rate == {Event(a) : a \in AC} \cup {GlobalPeriodic(f) : f \in Freq}
          \cup {LocalPeriodic(f) : f \in Freq} \cup {AnyRate}

Divides(f, g) == \E k \in 1 .. g : g = k * f

\* compute_lcm of the periods: the highest frequency that divides both
CommonFreq(f, g) ==
  CHOOSE c \in Freq : /\ Divides(c, f) /\ Divides(c, g)
                      /\ \A d \in Freq : Divides(d, f) /\ Divides(d, g) => d <= c

MeetRates(r, q) ==
  IF r.kind = "Any" THEN q
  ELSE IF q.kind = "Any" THEN r
  ELSE IF r.kind # q.kind \/ r = RateConflict THEN RateConflict
  ELSE IF r.kind = "Event" THEN Event(AndAC(r.ac, q.ac))
  ELSE [r EXCEPT !.freq = CommonFreq(r.freq, q.freq)]

\* join_events, for the clauses of one stream
JoinEvents(r, q) ==
  IF r = RateConflict THEN r
  ELSE IF r.kind = "Event" /\ q.kind = "Event" THEN Event(OrAC(r.ac, q.ac))
  ELSE IF "Any" \in {r.kind, q.kind} THEN AnyRate
  ELSE IF r.kind = q.kind /\ r.freq = q.freq THEN r ELSE RateConflict

\* is_subtype_of: whenever r is due, q is
IsSubtype(r, q) ==
  \/ q.kind = "Any"
  \/ /\ r.kind = "Event" /\ q.kind = "Event"
     /\ q.ac = True \/ (r.ac # True /\ \A c \in r.ac : \E d \in q.ac : d \subseteq c)
  \/ /\ r.kind = q.kind /\ r.kind \in {"GlobalPeriodic", "LocalPeriodic"}
     /\ Divides(r.freq, q.freq)

\* end_is_subtype_of: an end that is never due is below every other
EndIsSubtype(r, q) ==
  \/ r.kind = "Any"
  \/ q.kind # "Any" /\ IsSubtype(r, q)
-----------------------------------------------------------------------------
(* CondCategory and CondKind; the polarity is "Positive" or "Negative" *)

Cond(k, es)  == [kind |-> k, exprs |-> es]
AnyCond      == Cond("Any", {})
CondConflict == Cond("Conflict", {})
Literal(e)   == Cond("Literal", {e})

CondType == {AnyCond, CondConflict} \cup {Literal(e) : e \in Exprs} \cup {Cond("Mixed", {e}) : e \in Exprs}
              \cup [kind : {"Conjunction", "Disjunction"}, exprs : SUBSET Exprs]

\* A set of expressions that all must hold, or one of which must.
OfSet(kind, es) == IF \E e \in es : es = {e} THEN Cond("Literal", es) ELSE Cond(kind, es)

\* What is imposed from two sides: the sets of one kind grow, those of the
\* other shrink to what is shared, and nothing else fits together.
MeetKinds(c, d, grow, shrink) ==
  LET shared == c.exprs \cap d.exprs
  IN  IF c.kind = "Any" THEN d
      ELSE IF d.kind = "Any" \/ c = d THEN c
      ELSE IF {c.kind, d.kind} \subseteq {"Literal", grow} THEN Cond(grow, c.exprs \cup d.exprs)
      ELSE IF /\ {c.kind, d.kind} \in {{"Literal", shrink}, {shrink}}
              /\ shared # {}
           THEN OfSet(shrink, shared) ELSE CondConflict

MeetConds(c, d, polarity) ==
  IF polarity = "Positive" THEN MeetKinds(c, d, "Conjunction", "Disjunction")
                           ELSE MeetKinds(c, d, "Disjunction", "Conjunction")

\* kind_subsumes: c implies d
KindSubsumes(c, d) ==
  \/ d.kind = "Any"
  \/ c.kind = d.kind /\ c.kind \in {"Literal", "Mixed"} /\ c.exprs = d.exprs
  \/ c.kind = "Conjunction" /\ d.kind \in {"Literal", "Conjunction"} /\ d.exprs \subseteq c.exprs
  \/ c.kind \in {"Literal", "Disjunction"} /\ d.kind = "Disjunction" /\ c.exprs \subseteq d.exprs

\* subsumes: an end that never comes is below every other
Subsumes(c, d, polarity) ==
  IF polarity = "Positive" THEN KindSubsumes(c, d)
  ELSE c.kind = "Any" \/ (d.kind # "Any" /\ KindSubsumes(c, d))

\* The value of a condition when the expressions in true are true.
Holds(c, polarity, true) ==
  \/ c.kind = "Any" /\ polarity = "Positive"
  \/ c.kind \in {"Literal", "Mixed", "Conjunction"} /\ c.exprs \subseteq true
  \/ c.kind = "Disjunction" /\ c.exprs \cap true # {}
=============================================================================
