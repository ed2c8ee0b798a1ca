----------------------------- MODULE PacingProofs -----------------------------
(***************************************************************************)
(* Proofs about Rates and Pacing.  First, what the orders and the meets of *)
(* Rates mean: every one of them is justified by when a rate is due and by *)
(* when a condition holds, for any inputs, expressions and frequencies.    *)
(* Then, that the types the analysis accepts keep in the runtime what they *)
(* promise.  A type is the meet of the bounds of its key, and is due       *)
(* exactly when all of them are (MeetIs); the solver stops at sets of      *)
(* bounds that contain those of the keys above (Solution).                 *)
(***************************************************************************)
EXTENDS Pacing, CommonLemmas
-----------------------------------------------------------------------------
(* Rates and conditions *)

\* Whether rate r is due in a cycle with the fresh inputs F, or at tick t of
\* a clock with base ticks a second.  A rate that is Any is always due.
IsDue(r, F, t, base) ==
  \/ r.kind = "Any"
  \/ r.kind = "Event" /\ Satisfied(r.ac, F)
  \/ r.kind \in {"GlobalPeriodic", "LocalPeriodic"} /\ \E k \in Nat : t * r.freq = k * base

\* The conjunction of two activation conditions is satisfied by an event that
\* satisfies both: BitAnd, with True as its neutral element.
THEOREM AndSatisfied ==
  ASSUME NEW a \in AC, NEW b \in AC, NEW F
  PROVE  Satisfied(AndAC(a, b), F) <=> Satisfied(a, F) /\ Satisfied(b, F)
<1>1. Satisfied(True, F)
  BY DEF Satisfied, True
<1>2. CASE a = True \/ b = True
  BY <1>1, <1>2 DEF AndAC
<1>3. CASE a # True /\ b # True
  <2>1. AndAC(a, b) = Conjunctions(a, b)
    BY <1>3 DEF AndAC
  <2>2. \A c \in a, d \in b : c \cup d \in Conjunctions(a, b)
    BY DEF Conjunctions
  <2>3. \A e \in Conjunctions(a, b) : \E c \in a, d \in b : e = c \cup d
    BY DEF Conjunctions
  <2>4. ASSUME Satisfied(a, F), Satisfied(b, F) PROVE Satisfied(Conjunctions(a, b), F)
    <3>1. PICK c \in a : c \subseteq F
      BY <2>4 DEF Satisfied
    <3>2. PICK d \in b : d \subseteq F
      BY <2>4 DEF Satisfied
    <3>3. c \cup d \subseteq F
      BY <3>1, <3>2
    <3> QED
      BY <3>3, <2>2 DEF Satisfied
  <2>5. ASSUME Satisfied(Conjunctions(a, b), F) PROVE Satisfied(a, F) /\ Satisfied(b, F)
    <3>1. PICK e \in Conjunctions(a, b) : e \subseteq F
      BY <2>5 DEF Satisfied
    <3>2. PICK c \in a, d \in b : e = c \cup d
      BY <2>3
    <3>3. c \subseteq F /\ d \subseteq F
      BY <3>1, <3>2
    <3> QED
      BY <3>3 DEF Satisfied
  <2> QED
    BY <2>1, <2>4, <2>5
<1> QED
  BY <1>2, <1>3

\* The disjunction of two activation conditions is satisfied by an event that
\* satisfies either: BitOr, whose extra conjunctions change nothing.
THEOREM OrSatisfied ==
  ASSUME NEW a \in AC, NEW b \in AC, NEW F
  PROVE  Satisfied(OrAC(a, b), F) <=> Satisfied(a, F) \/ Satisfied(b, F)
<1>1. Satisfied(True, F)
  BY DEF Satisfied, True
<1>2. CASE True \in {a, b}
  <2>1. a = True \/ b = True
    BY <1>2
  <2>2. OrAC(a, b) = True
    BY <1>2 DEF OrAC
  <2> QED
    BY <1>1, <2>1, <2>2
<1>3. CASE True \notin {a, b}
  <2>1. OrAC(a, b) = a \cup b \cup Conjunctions(a, b)
    BY <1>3 DEF OrAC
  <2>2. ASSUME NEW e \in Conjunctions(a, b), e \subseteq F PROVE Satisfied(a, F)
    <3>1. PICK c \in a, d \in b : e = c \cup d
      BY DEF Conjunctions
    <3>2. c \subseteq F
      BY <2>2, <3>1
    <3> QED
      BY <3>2 DEF Satisfied
  <2>3. Satisfied(OrAC(a, b), F) => Satisfied(a, F) \/ Satisfied(b, F)
    BY <2>1, <2>2 DEF Satisfied
  <2>4. Satisfied(a, F) \/ Satisfied(b, F) => Satisfied(OrAC(a, b), F)
    BY <2>1 DEF Satisfied
  <2> QED
    BY <2>3, <2>4
<1> QED
  BY <1>2, <1>3

\* A deadline of a frequency is one of every multiple of it.
LEMMA MultipleIsDue ==
  ASSUME NEW f \in Nat, NEW m \in Nat, NEW t \in Nat, NEW k \in Nat, NEW base \in Nat,
         t * f = k * base
  PROVE  t * (m * f) = (m * k) * base /\ m * k \in Nat
<1>1. t * (m * f) = m * (t * f)
  BY SMT
<1>2. m * (k * base) = (m * k) * base
  BY SMT
<1>3. m * k \in Nat
  BY SMT
<1> QED
  BY <1>1, <1>2, <1>3

\* is_subtype_of: whenever the narrower rate is due, so is the wider one, for
\* event-driven and for clocked rates.
THEOREM SubtypeIsDue ==
  ASSUME NEW r \in Rate, NEW q \in Rate, NEW F, NEW t \in Nat, NEW base \in Nat,
         IsSubtype(r, q), IsDue(r, F, t, base)
  PROVE  IsDue(q, F, t, base)
<1>1. CASE q.kind = "Any"
  BY <1>1 DEF IsDue
<1>2. CASE r.kind = "Event" /\ q.kind = "Event"
  <2>1. Satisfied(r.ac, F)
    BY <1>2 DEF IsDue
  <2>2. CASE q.ac = True
    BY <2>2, <1>2 DEF IsDue, Satisfied, True
  <2>3. CASE q.ac # True
    <3>1. \A c \in r.ac : \E d \in q.ac : d \subseteq c
      BY <1>2, <2>3 DEF IsSubtype
    <3>2. PICK c \in r.ac : c \subseteq F
      BY <2>1 DEF Satisfied
    <3>3. PICK d \in q.ac : d \subseteq c
      BY <3>1, <3>2
    <3>4. d \subseteq F
      BY <3>2, <3>3
    <3> QED
      BY <3>4, <1>2 DEF IsDue, Satisfied
  <2> QED
    BY <2>2, <2>3
<1>3. CASE r.kind = q.kind /\ r.kind \in {"GlobalPeriodic", "LocalPeriodic"} /\ Divides(r.freq, q.freq)
  <2>1. r.freq \in Nat /\ q.freq \in Nat
    BY RatesAssumption DEF Rate, Freq, Event, GlobalPeriodic, LocalPeriodic, AnyRate
  <2>2. PICK k \in Nat : t * r.freq = k * base
    BY <1>3 DEF IsDue
  <2>3. PICK m \in 1 .. q.freq : q.freq = m * r.freq
    BY <1>3 DEF Divides
  <2>4. m \in Nat
    BY <2>1, <2>3
  <2>5. t * (m * r.freq) = (m * k) * base /\ m * k \in Nat
    BY <2>1, <2>2, <2>4, MultipleIsDue
  <2>6. t * q.freq = (m * k) * base
    BY <2>3, <2>5
  <2> QED
    BY <1>3, <2>5, <2>6 DEF IsDue
<1> QED
  BY <1>1, <1>2, <1>3 DEF IsSubtype

\* What two bounds of an event-driven stream meet in is due exactly when both
\* are: a reader of two streams is evaluated when both are fresh.
THEOREM EventMeetIsDue ==
  ASSUME NEW a \in AC, NEW b \in AC, NEW F, NEW t, NEW base
  PROVE  IsDue(MeetRates(Event(a), Event(b)), F, t, base)
           <=> IsDue(Event(a), F, t, base) /\ IsDue(Event(b), F, t, base)
<1>1. MeetRates(Event(a), Event(b)) = Event(AndAC(a, b))
  BY DEF MeetRates, Event, RateConflict
<1>2. \A c : IsDue(Event(c), F, t, base) <=> Satisfied(c, F)
  BY DEF IsDue, Event
<1> QED
  BY <1>1, <1>2, AndSatisfied

\* subsumes: in place of a start or a filter the narrower condition implies
\* the wider; in place of an end, what ends by the first ends by the second.
THEOREM SubsumesHolds ==
  ASSUME NEW c \in CondType, NEW d \in CondType, NEW true,
         NEW polarity \in {"Positive", "Negative"},
         Subsumes(c, d, polarity), Holds(c, polarity, true)
  PROVE  Holds(d, polarity, true)
<1>1. CASE d.kind = "Any"
  <2>1. polarity = "Positive"
    BY <1>1 DEF Subsumes, Holds
  <2> QED
    BY <1>1, <2>1 DEF Holds
<1>2. CASE d.kind # "Any" /\ c.kind # "Any"
  <2>1. KindSubsumes(c, d)
    BY <1>2 DEF Subsumes
  <2>2. CASE c.kind = d.kind /\ c.kind \in {"Literal", "Mixed"} /\ c.exprs = d.exprs
    BY <2>2 DEF Holds
  <2>3. CASE c.kind = "Conjunction" /\ d.kind \in {"Literal", "Conjunction"} /\ d.exprs \subseteq c.exprs
    BY <2>3 DEF Holds
  <2>4. CASE c.kind \in {"Literal", "Disjunction"} /\ d.kind = "Disjunction" /\ c.exprs \subseteq d.exprs
    <3>1. c.exprs \cap true # {}
      <4>1. CASE c.kind = "Disjunction"
        BY <4>1 DEF Holds
      <4>2. CASE c.kind = "Literal"
        <5>1. c.exprs \subseteq true
          BY <4>2 DEF Holds
        <5>2. c.exprs # {}
          BY <4>2 DEF CondType, Literal, Cond, AnyCond, CondConflict
        <5> QED
          BY <5>1, <5>2
      <4> QED
        BY <2>4, <4>1, <4>2
    <3> QED
      BY <2>4, <3>1 DEF Holds
  <2> QED
    BY <1>2, <2>1, <2>2, <2>3, <2>4 DEF KindSubsumes
<1>3. CASE d.kind # "Any" /\ c.kind = "Any"
  <2>1. polarity = "Positive"
    BY <1>3 DEF Holds
  <2> QED
    BY <1>3, <2>1 DEF Subsumes, KindSubsumes
<1> QED
  BY <1>1, <1>2, <1>3

\* The condition inferred for a reader of two filtered streams implies the
\* conditions of both, unless they conflict.
THEOREM PositiveMeetHolds ==
  ASSUME NEW c \in CondType, NEW d \in CondType, NEW true,
         MeetConds(c, d, "Positive").kind # "Conflict",
         Holds(MeetConds(c, d, "Positive"), "Positive", true)
  PROVE  Holds(c, "Positive", true) /\ Holds(d, "Positive", true)
<1> DEFINE m == MeetConds(c, d, "Positive")
           shared == c.exprs \cap d.exprs
<1>1. m = MeetKinds(c, d, "Conjunction", "Disjunction")
  BY DEF MeetConds
<1>2. CASE c.kind = "Any" \/ d.kind = "Any" \/ c = d
  <2>1. c.kind = "Any" => Holds(c, "Positive", true) /\ m = d
    BY <1>1 DEF MeetKinds, Holds
  <2>2. d.kind = "Any" => Holds(d, "Positive", true)
    BY DEF Holds
  <2>3. c.kind # "Any" => m = c
    BY <1>1, <1>2 DEF MeetKinds
  <2> QED
    BY <1>2, <2>1, <2>2, <2>3
<1>3. CASE c.kind # "Any" /\ d.kind # "Any" /\ c # d
  <2>1. CASE {c.kind, d.kind} \subseteq {"Literal", "Conjunction"}
    <3>1. m = Cond("Conjunction", c.exprs \cup d.exprs)
      BY <1>1, <1>3, <2>1 DEF MeetKinds
    <3>2. c.exprs \cup d.exprs \subseteq true
      BY <3>1 DEF Holds, Cond
    <3> QED
      BY <2>1, <3>2 DEF Holds
  <2>2. CASE ~({c.kind, d.kind} \subseteq {"Literal", "Conjunction"})
             /\ {c.kind, d.kind} \in {{"Literal", "Disjunction"}, {"Disjunction"}} /\ shared # {}
    <3>1. m = OfSet("Disjunction", shared)
      BY <1>1, <1>3, <2>2 DEF MeetKinds
    <3>2. shared \cap true # {}
      <4>1. m.exprs = shared /\ m.kind \in {"Literal", "Disjunction"}
        BY <3>1 DEF OfSet, Cond
      <4> QED
        BY <4>1, <2>2 DEF Holds
    <3>3. ASSUME NEW x \in {c, d} PROVE Holds(x, "Positive", true)
      <4>1. x.exprs \cap true # {}
        BY <3>2
      <4>2. CASE x.kind = "Disjunction"
        BY <4>1, <4>2 DEF Holds
      <4>3. CASE x.kind = "Literal"
        <5>1. PICK e : x.exprs = {e}
          BY <4>3 DEF CondType, Literal, Cond, AnyCond, CondConflict
        <5> QED
          BY <4>1, <4>3, <5>1 DEF Holds
      <4> QED
        BY <2>2, <4>2, <4>3
    <3> QED
      BY <3>3
  <2> QED
    BY <1>1, <1>3, <2>1, <2>2 DEF MeetKinds, CondConflict, Cond
<1> QED
  BY <1>2, <1>3

\* The end inferred for a reader of two streams that end comes whenever one
\* of theirs does.
THEOREM NegativeMeetHolds ==
  ASSUME NEW c \in CondType, NEW d \in CondType, NEW true,
         MeetConds(c, d, "Negative").kind # "Conflict",
         Holds(c, "Negative", true) \/ Holds(d, "Negative", true)
  PROVE  Holds(MeetConds(c, d, "Negative"), "Negative", true)
<1> DEFINE m == MeetConds(c, d, "Negative")
           shared == c.exprs \cap d.exprs
<1>1. m = MeetKinds(c, d, "Disjunction", "Conjunction")
  BY DEF MeetConds
<1>2. CASE c.kind = "Any" \/ d.kind = "Any" \/ c = d
  <2>1. c.kind = "Any" => ~Holds(c, "Negative", true) /\ m = d
    BY <1>1 DEF MeetKinds, Holds
  <2>2. d.kind = "Any" => ~Holds(d, "Negative", true)
    BY DEF Holds
  <2>3. c.kind # "Any" => m = c
    BY <1>1, <1>2 DEF MeetKinds
  <2> QED
    BY <1>2, <2>1, <2>2, <2>3
<1>3. CASE c.kind # "Any" /\ d.kind # "Any" /\ c # d
  <2>1. CASE {c.kind, d.kind} \subseteq {"Literal", "Disjunction"}
    <3>1. m = Cond("Disjunction", c.exprs \cup d.exprs)
      BY <1>1, <1>3, <2>1 DEF MeetKinds
    <3>2. \A x \in CondType : x.kind = "Literal" => x.exprs # {}
      BY DEF CondType, Literal, Cond, AnyCond, CondConflict
    <3>3. c.exprs \cap true # {} \/ d.exprs \cap true # {}
      BY <1>3, <2>1, <3>2 DEF Holds
    <3>4. (c.exprs \cup d.exprs) \cap true # {}
      BY <3>3
    <3> QED
      BY <3>1, <3>4 DEF Holds, Cond
  <2>2. CASE ~({c.kind, d.kind} \subseteq {"Literal", "Disjunction"})
             /\ {c.kind, d.kind} \in {{"Literal", "Conjunction"}, {"Conjunction"}} /\ shared # {}
    <3>1. m = OfSet("Conjunction", shared)
      BY <1>1, <1>3, <2>2 DEF MeetKinds
    <3>2. m.exprs = shared /\ m.kind \in {"Literal", "Conjunction"}
      BY <3>1 DEF OfSet, Cond
    <3>3. c.exprs \subseteq true \/ d.exprs \subseteq true
      BY <2>2 DEF Holds
    <3>4. shared \subseteq true
      BY <3>3
    <3> QED
      BY <3>2, <3>4 DEF Holds
  <2> QED
    BY <1>1, <1>3, <2>1, <2>2 DEF MeetKinds, CondConflict, Cond
<1> QED
  BY <1>2, <1>3
-----------------------------------------------------------------------------
(* Frequencies *)

\* The ticks between two deadlines of a frequency.
Period(f) == Base \div f

\* A frequency has a whole period.
LEMMA PeriodIs ==
  ASSUME NEW f \in Freq
  PROVE  f \in Nat \ {0} /\ Period(f) \in Nat \ {0} /\ Base = Period(f) * f
<1>1. f \in Nat \ {0} /\ Base \in Nat \ {0} /\ Divides(f, Base)
  BY RatesAssumption, PacingAssumption DEF Freq
<1>2. PICK m \in 1 .. Base : Base = m * f
  BY <1>1 DEF Divides
<1>3. m \in Nat \ {0} /\ 0 \in 0 .. f - 1 /\ m * f + 0 = m * f
  BY <1>1, <1>2
<1>4. (m * f + 0) \div f = m
  BY <1>1, <1>3, DivIs
<1>5. Period(f) = m
  BY <1>2, <1>3, <1>4 DEF Period
<1> QED
  BY <1>1, <1>2, <1>3, <1>5

\* A frequency divides another one when that is a multiple of it.
LEMMA DividesIs ==
  ASSUME NEW f \in Nat \ {0}, NEW g \in Nat \ {0}
  PROVE  Divides(f, g) <=> Multiple(g, f)
<1>1. ASSUME Multiple(g, f) PROVE Divides(f, g)
  <2>1. PICK k \in Nat \ {0} : g = k * f
    BY <1>1, MultipleIsAbove
  <2>2. k * f = f * k /\ Multiple(f * k, k)
    <3>1. k * f = f * k
      BY <2>1
    <3> QED
      BY <3>1 DEF Multiple
  <2>3. k <= g
    BY <2>1, <2>2, MultipleIsAbove
  <2> QED
    BY <2>1, <2>3 DEF Divides
<1>2. ASSUME Divides(f, g) PROVE Multiple(g, f)
  BY <1>2 DEF Divides, Multiple
<1> QED
  BY <1>1, <1>2

\* CommonFreq is the greatest common divisor, which all others divide.
LEMMA CommonFreqIs ==
  ASSUME NEW f \in Freq, NEW g \in Freq
  PROVE  LET c == CommonFreq(f, g)
         IN  /\ c \in Freq /\ Multiple(f, c) /\ Multiple(g, c)
             /\ \A e \in Nat \ {0} : Multiple(f, e) /\ Multiple(g, e) => Multiple(c, e)
<1> DEFINE Common == {d \in Freq : Divides(d, f) /\ Divides(d, g)}
           c == CommonFreq(f, g)
<1>1. Freq \subseteq Nat \ {0} /\ MaxFreq \in Nat \ {0} /\ \A d \in Freq : d <= MaxFreq
  BY RatesAssumption DEF Freq
<1>2. 1 \in Common
  <2>1. f = f * 1 /\ g = g * 1 /\ 1 \in Freq
    BY <1>1 DEF Freq
  <2>2. Multiple(f, 1) /\ Multiple(g, 1)
    BY <1>1, <2>1 DEF Multiple
  <2> QED
    BY <1>1, <2>1, <2>2, DividesIs
<1>3. \E u \in Common : \A d \in Common : u >= d
  BY <1>1, <1>2, GreatestElement
<1>4. c \in Common /\ \A d \in Common : d <= c
  BY <1>1, <1>3 DEF CommonFreq
<1> HIDE DEF c
<1>5. c \in Freq /\ Multiple(f, c) /\ Multiple(g, c)
  BY <1>1, <1>4, DividesIs
<1>6. ASSUME NEW e \in Nat \ {0}, Multiple(f, e), Multiple(g, e) PROVE Multiple(c, e)
  <2>1. PICK l \in Nat \ {0} : /\ Multiple(l, e) /\ Multiple(l, c)
                               /\ \A a \in Nat : Multiple(a, e) /\ Multiple(a, c) => Multiple(a, l)
    BY <1>1, <1>5, LeastCommonMultiple
  <2>2. Multiple(f, l) /\ Multiple(g, l)
    BY <1>1, <1>5, <1>6, <2>1
  <2>3. l <= f
    BY <1>1, <2>1, <2>2, MultipleIsAbove
  <2>4. l \in Freq
    BY <1>1, <2>1, <2>3 DEF Freq
  <2>5. l \in Common
    BY <1>1, <2>2, <2>4, DividesIs
  <2>6. l <= c
    BY <1>4, <2>5
  <2>7. c <= l
    BY <1>1, <1>5, <2>1, MultipleIsAbove
  <2>8. l = c
    BY <1>1, <1>5, <2>1, <2>6, <2>7
  <2> QED
    BY <2>1, <2>8
<1> QED
  BY <1>5, <1>6 DEF c

\* A deadline of both frequencies is one of their common frequency: the period
\* that compute_lcm yields is the least common multiple of the periods.
LEMMA CommonDeadlines ==
  ASSUME NEW f \in Freq, NEW g \in Freq, NEW t \in Nat
  PROVE  Multiple(t, Period(CommonFreq(f, g))) <=> Multiple(t, Period(f)) /\ Multiple(t, Period(g))
<1> DEFINE c == CommonFreq(f, g)
<1>1. /\ c \in Freq /\ Multiple(f, c) /\ Multiple(g, c)
      /\ \A e \in Nat \ {0} : Multiple(f, e) /\ Multiple(g, e) => Multiple(c, e)
  BY CommonFreqIs
<1> HIDE DEF c
<1>2. \A d \in Freq : d \in Nat \ {0} /\ Period(d) \in Nat \ {0} /\ Base = Period(d) * d
  BY PeriodIs
<1>3. ASSUME NEW d \in Freq, Multiple(d, c) PROVE Multiple(Period(c), Period(d))
  <2>1. PICK k \in Nat : d = k * c
    BY <1>3 DEF Multiple
  <2>2. Period(c) * c = (k * Period(d)) * c
    <3>1. Period(d) * (k * c) = (k * Period(d)) * c
      BY <1>1, <1>2, <2>1
    <3>2. Period(d) * d = Period(c) * c
      BY <1>1, <1>2
    <3> QED
      BY <2>1, <3>1, <3>2
  <2>3. Period(c) = k * Period(d)
    <3> DEFINE x == Period(c)
               y == k * Period(d)
    <3>1. x \in Nat /\ y \in Nat /\ c \in Nat \ {0} /\ x * c = y * c
      BY <1>1, <1>2, <2>1, <2>2
    <3> HIDE DEF x, y
    <3>2. x = y
      BY <3>1, CancelFactor
    <3> QED
      BY <3>2 DEF x, y
  <2> QED
    BY <2>3 DEF Multiple
<1>4. ASSUME Multiple(t, Period(c)) PROVE Multiple(t, Period(f)) /\ Multiple(t, Period(g))
  BY <1>1, <1>2, <1>3, <1>4, MultipleOfMultiple
<1>5. ASSUME Multiple(t, Period(f)), Multiple(t, Period(g)) PROVE Multiple(t, Period(c))
  <2>1. PICK l \in Nat \ {0} :
          /\ Multiple(l, Period(f)) /\ Multiple(l, Period(g))
          /\ \A a \in Nat : Multiple(a, Period(f)) /\ Multiple(a, Period(g)) => Multiple(a, l)
    BY <1>2, LeastCommonMultiple
  <2>2. Multiple(t, l)
    BY <1>5, <2>1
  <2>3. Base \in Nat \ {0}
    BY PacingAssumption
  <2>4. Multiple(Base, Period(f)) /\ Multiple(Base, Period(g))
    <3>1. ASSUME NEW d \in Freq PROVE Multiple(Base, Period(d))
      <4>1. Base = d * Period(d) /\ d \in Nat
        BY <1>2
      <4> QED
        BY <4>1 DEF Multiple
    <3> QED
      BY <3>1
  <2>5. Multiple(Base, l)
    BY <2>1, <2>3, <2>4
  <2>6. PICK e \in Nat \ {0} : Base = e * l
    BY <2>1, <2>3, <2>5, MultipleIsAbove
  <2>7. ASSUME NEW d \in Freq, Multiple(l, Period(d)) PROVE Multiple(d, e)
    <3>1. PICK u \in Nat : l = u * Period(d)
      BY <2>7 DEF Multiple
    <3> DEFINE p == Period(d)
               y == u * e
    <3>2. p \in Nat \ {0} /\ d \in Nat /\ y \in Nat /\ Base = p * d
      BY <1>2, <2>6, <3>1
    <3>3. e * (u * p) = y * p /\ p * d = d * p
      BY <2>6, <3>1, <3>2
    <3>4. d * p = y * p
      BY <2>6, <3>1, <3>2, <3>3
    <3> HIDE DEF p, y
    <3>6. d = y
      BY <3>2, <3>4, CancelFactor
    <3> QED
      BY <3>1, <3>6 DEF Multiple, y
  <2>8. Multiple(c, e)
    BY <1>1, <2>1, <2>6, <2>7
  <2>9. Multiple(l, Period(c))
    <3>1. PICK w \in Nat : c = w * e
      BY <2>8 DEF Multiple
    <3> DEFINE x == w * Period(c)
               p == Period(c)
    <3>2. p \in Nat \ {0} /\ x \in Nat /\ Base = p * c
      BY <1>1, <1>2, <3>1
    <3>3. p * (w * e) = x * e /\ e * l = l * e
      BY <2>1, <2>6, <3>1, <3>2
    <3>4. l * e = x * e
      BY <2>6, <3>1, <3>2, <3>3
    <3> HIDE DEF p, x
    <3>6. l = x
      BY <2>1, <2>6, <3>2, <3>4, CancelFactor
    <3> QED
      BY <3>1, <3>6 DEF Multiple, x
  <2> QED
    BY <1>1, <1>2, <2>1, <2>2, <2>9, MultipleOfMultiple
<1> QED
  BY <1>4, <1>5 DEF c
-----------------------------------------------------------------------------
(* The type of a key: the meet of its bounds *)

RateType == Rate \cup {RateConflict}

\* A rate is one of five kinds.
LEMMA RateKinds ==
  ASSUME NEW r \in RateType
  PROVE  /\ r.kind \in {"Event", "GlobalPeriodic", "LocalPeriodic", "Any", "Conflict"}
         /\ r.kind = "Event" => r.ac \in AC /\ r = Event(r.ac)
         /\ r.kind = "GlobalPeriodic" => r.freq \in Freq /\ r = GlobalPeriodic(r.freq)
         /\ r.kind = "LocalPeriodic" => r.freq \in Freq /\ r = LocalPeriodic(r.freq)
         /\ r.kind = "Any" => r = AnyRate
         /\ r.kind = "Conflict" => r = RateConflict
<1>1. CASE \E a \in AC : r = Event(a)
  BY <1>1 DEF Event
<1>2. CASE \E f \in Freq : r = GlobalPeriodic(f)
  BY <1>2 DEF GlobalPeriodic
<1>3. CASE \E f \in Freq : r = LocalPeriodic(f)
  BY <1>3 DEF LocalPeriodic
<1>4. CASE r = AnyRate
  BY <1>4 DEF AnyRate
<1>5. CASE r = RateConflict
  BY <1>5 DEF RateConflict
<1> QED
  BY <1>1, <1>2, <1>3, <1>4, <1>5 DEF RateType, Rate

\* Rates are closed under the meet, and a conflict stays one.
LEMMA MeetRatesType ==
  ASSUME NEW r \in RateType, NEW q \in RateType
  PROVE  /\ MeetRates(r, q) \in RateType
         /\ q = RateConflict => MeetRates(r, q) = RateConflict
<1>1. CASE r.kind = "Any" \/ q.kind = "Any" \/ r.kind # q.kind \/ r = RateConflict
  <2>1. MeetRates(r, q) \in {r, q, RateConflict}
    BY <1>1 DEF MeetRates
  <2>2. q = RateConflict => MeetRates(r, q) = RateConflict
    BY RateKinds DEF MeetRates, RateConflict
  <2> QED
    BY <2>1, <2>2 DEF RateType
<1>2. CASE r.kind = "Event" /\ q.kind = "Event"
  <2>1. MeetRates(r, q) = Event(AndAC(r.ac, q.ac))
    BY <1>2 DEF MeetRates, RateConflict
  <2>2. r.ac \in AC /\ q.ac \in AC
    BY <1>2, RateKinds
  <2>3. Conjunctions(r.ac, q.ac) \in AC
    BY <2>2 DEF Conjunctions, AC
  <2>4. AndAC(r.ac, q.ac) \in AC
    BY <2>2, <2>3 DEF AndAC
  <2> QED
    BY <1>2, <2>1, <2>4 DEF RateType, Rate, RateConflict
<1>3. CASE r.kind = q.kind /\ r.kind \in {"GlobalPeriodic", "LocalPeriodic"}
  <2>1. MeetRates(r, q) = [r EXCEPT !.freq = CommonFreq(r.freq, q.freq)]
    BY <1>3 DEF MeetRates, RateConflict
  <2>2. r.freq \in Freq /\ q.freq \in Freq
    BY <1>3, RateKinds
  <2>3. CommonFreq(r.freq, q.freq) \in Freq
    BY <2>2, CommonFreqIs
  <2>4. CASE r.kind = "GlobalPeriodic"
    <3>1. r = GlobalPeriodic(r.freq)
      BY <2>4, RateKinds
    <3>2. MeetRates(r, q) = GlobalPeriodic(CommonFreq(r.freq, q.freq))
      BY <2>1, <3>1 DEF GlobalPeriodic
    <3>3. q # RateConflict
      BY <1>3 DEF RateConflict
    <3> QED
      BY <2>3, <3>2, <3>3 DEF RateType, Rate
  <2>5. CASE r.kind = "LocalPeriodic"
    <3>1. r = LocalPeriodic(r.freq)
      BY <2>5, RateKinds
    <3>2. MeetRates(r, q) = LocalPeriodic(CommonFreq(r.freq, q.freq))
      BY <2>1, <3>1 DEF LocalPeriodic
    <3>3. q # RateConflict
      BY <1>3 DEF RateConflict
    <3> QED
      BY <2>3, <3>2, <3>3 DEF RateType, Rate
  <2> QED
    BY <1>3, <2>4, <2>5
<1> QED
  BY <1>1, <1>2, <1>3, RateKinds

\* There are finitely many rates.
LEMMA RatesFinite == IsFiniteSet(RateType)
<1>1. IsFiniteSet(AC)
  BY PacingAssumption, FS_SUBSET DEF AC
<1>2. IsFiniteSet(Freq)
  <2>1. MaxFreq \in Int /\ 1 \in Int
    BY RatesAssumption
  <2> QED
    BY <2>1, FS_Interval DEF Freq
<1> DEFINE events == {Event(a) : a \in AC}
           globals == {GlobalPeriodic(f) : f \in Freq}
           locals == {LocalPeriodic(f) : f \in Freq}
<1>3. IsFiniteSet(events)
  <2> DEFINE g == [a \in AC |-> Event(a)]
  <2>1. g \in Surjection(AC, events)
    BY DEF Surjection
  <2> QED
    BY <1>1, <2>1, FS_Surjection
<1>4. IsFiniteSet(globals)
  <2> DEFINE g == [f \in Freq |-> GlobalPeriodic(f)]
  <2>1. g \in Surjection(Freq, globals)
    BY DEF Surjection
  <2> QED
    BY <1>2, <2>1, FS_Surjection
<1>5. IsFiniteSet(locals)
  <2> DEFINE g == [f \in Freq |-> LocalPeriodic(f)]
  <2>1. g \in Surjection(Freq, locals)
    BY DEF Surjection
  <2> QED
    BY <1>2, <2>1, FS_Surjection
<1>6. RateType = ((events \cup globals) \cup locals) \cup ({AnyRate} \cup {RateConflict})
  BY DEF RateType, Rate
<1>7. IsFiniteSet({AnyRate}) /\ IsFiniteSet({RateConflict})
  BY FS_Singleton
<1> HIDE DEF events, globals, locals
<1> QED
  BY <1>3, <1>4, <1>5, <1>6, <1>7, FS_Union

\* G gives the meet of every subset of bs.
IsMeet(G, bs) ==
  /\ G[{}] = AnyRate
  /\ \A x \in SUBSET bs : x # {} => G[x] = MeetRates(Pick(x), G[x \ {Pick(x)}])

\* The fold of MeetRates is what any function with its equation says.
LEMMA MeetIsFold ==
  ASSUME NEW bs \in SUBSET RateType
  PROVE  \E G \in [SUBSET bs -> RateType] : IsMeet(G, bs) /\ Meet("eval_pacing", bs) = G[bs]
<1>0. IsFiniteSet(bs)
  BY RatesFinite, FS_Subset
<1> DEFINE op == [p \in bs \X RateType |-> MeetRates(p[1], p[2])]
<1>1. op \in [bs \X RateType -> RateType]
  BY MeetRatesType
<1>2. AnyRate \in RateType
  BY DEF RateType, Rate
<1>3. PICK G \in [SUBSET bs -> RateType] : IsFold(G, AnyRate, op, bs)
  <2> HIDE DEF op
  <2> QED
    BY <1>0, <1>1, <1>2, FoldExists
<1>4. G[{}] = AnyRate
  BY <1>3 DEF IsFold
<1>5. ASSUME NEW x \in SUBSET bs, x # {} PROVE G[x] = MeetRates(Pick(x), G[x \ {Pick(x)}])
  <2>1. Pick(x) \in bs /\ G[x \ {Pick(x)}] \in RateType
    BY <1>5 DEF Pick
  <2>2. G[x] = op[<<Pick(x), G[x \ {Pick(x)}]>>]
    BY <1>3, <1>5 DEF IsFold
  <2> QED
    BY <2>1, <2>2
<1> DEFINE Equation(E) == [x \in SUBSET bs |-> IF x = {} THEN AnyRate ELSE MeetRates(Pick(x), E[x \ {Pick(x)}])]
           H == CHOOSE E : E = Equation(E)
<1>6. G = Equation(G)
  BY <1>4, <1>5
<1>7. H = Equation(H)
  BY <1>6
<1>8. H = G
  <2>1. DOMAIN H = SUBSET bs /\ H = [x \in DOMAIN H |-> H[x]]
    BY <1>7
  <2>2. H[{}] = AnyRate
    BY <1>7
  <2>3. \A x \in SUBSET bs : x # {} => H[x] = MeetRates(Pick(x), H[x \ {Pick(x)}])
    BY <1>7
  <2> HIDE DEF H
  <2>4. \A x \in SUBSET bs : x # {} /\ H[x \ {Pick(x)}] = G[x \ {Pick(x)}] => H[x] = G[x]
    BY <1>5, <2>3
  <2>5. Agree(H, G, bs)
    BY <1>4, <2>1, <2>2, <2>4 DEF Agree
  <2> QED
    BY <1>0, <2>5, FoldUnique
<1>9. Meet("eval_pacing", bs) = H[bs]
  BY DEF Meet, RateComponents, FoldSet, MapThenFoldSet, Pick
<1> QED
  BY <1>4, <1>5, <1>8, <1>9 DEF IsMeet

\* D is a set of rates that a meet belongs to when both its parts do.
Filter(D) ==
  /\ AnyRate \in D
  /\ \A r \in RateType, q \in RateType :
       MeetRates(r, q) # RateConflict => (MeetRates(r, q) \in D <=> r \in D /\ q \in D)

\* A type that is no conflict belongs to such a set exactly when all bounds do.
LEMMA MeetIs ==
  ASSUME NEW bs \in SUBSET RateType, NEW D, Filter(D)
  PROVE  /\ Meet("eval_pacing", bs) \in RateType
         /\ Meet("eval_pacing", bs) # RateConflict => (Meet("eval_pacing", bs) \in D <=> bs \subseteq D)
<1>1. PICK G \in [SUBSET bs -> RateType] : IsMeet(G, bs) /\ Meet("eval_pacing", bs) = G[bs]
  BY MeetIsFold
<1>2. IsFiniteSet(bs)
  BY RatesFinite, FS_Subset
<1>3. \A x \in SUBSET bs : IsFiniteSet(x) /\ Cardinality(x) \in Nat
  BY <1>2, FS_Subset, FS_CardinalityType
<1> DEFINE Sizes == {n \in Nat : \A x \in SUBSET bs :
                       Cardinality(x) = n /\ G[x] # RateConflict => (G[x] \in D <=> x \subseteq D)}
<1>4. 0 \in Sizes
  <2> SUFFICES ASSUME NEW x \in SUBSET bs, Cardinality(x) = 0 PROVE G[x] \in D /\ x \subseteq D
    OBVIOUS
  <2>1. x = {}
    BY <1>3, FS_EmptySet
  <2> QED
    BY <1>1, <2>1 DEF IsMeet, Filter
<1>5. ASSUME NEW n \in Sizes PROVE n + 1 \in Sizes
  <2> SUFFICES ASSUME NEW x \in SUBSET bs, Cardinality(x) = n + 1, G[x] # RateConflict
               PROVE  G[x] \in D <=> x \subseteq D
    OBVIOUS
  <2> DEFINE y == Pick(x)
             rest == x \ {y}
  <2>1. x # {}
    <3>1. Cardinality({}) = 0 /\ n + 1 # 0
      BY FS_EmptySet
    <3> HIDE DEF Sizes
    <3> QED
      BY <3>1
  <2>2. y \in x
    BY <2>1 DEF Pick
  <2>3. rest \in SUBSET bs /\ Cardinality(rest) = n
    <3>1. IsFiniteSet(x) /\ n \in Nat
      BY <1>3
    <3>2. Cardinality(rest) = Cardinality(x) - 1
      BY <2>2, <3>1, FS_RemoveElement
    <3> QED
      BY <3>1, <3>2
  <2>4. G[x] = MeetRates(y, G[rest]) /\ y \in RateType /\ G[rest] \in RateType
    BY <1>1, <2>1, <2>2, <2>3 DEF IsMeet
  <2>5. x \subseteq D <=> y \in D /\ rest \subseteq D
    BY <2>2
  <2> HIDE DEF y, rest
  <2>6. G[rest] # RateConflict
    BY <2>4, MeetRatesType
  <2>7. G[rest] \in D <=> rest \subseteq D
    BY <2>3, <2>6
  <2> QED
    BY <2>4, <2>5, <2>7 DEF Filter
<1>6. Sizes = Nat
  <2>1. Sizes \in SUBSET Nat
    OBVIOUS
  <2> HIDE DEF Sizes
  <2> QED
    BY <1>4, <1>5, <2>1, Induction
<1> QED
  BY <1>1, <1>3, <1>6

\* The meet of one bound is that bound.
LEMMA MeetOfOne ==
  ASSUME NEW r \in RateType
  PROVE  Meet("eval_pacing", {r}) = r
<1> DEFINE bs == {r}
<1>0. bs \in SUBSET RateType /\ bs # {} /\ bs \in SUBSET bs
  OBVIOUS
<1>1. Pick(bs) = r /\ bs \ {Pick(bs)} = {}
  BY DEF Pick
<1> HIDE DEF bs
<1>2. PICK G \in [SUBSET bs -> RateType] : IsMeet(G, bs) /\ Meet("eval_pacing", bs) = G[bs]
  BY <1>0, MeetIsFold
<1>3. G[bs] = MeetRates(r, AnyRate)
  BY <1>0, <1>1, <1>2 DEF IsMeet
<1>4. MeetRates(r, AnyRate) = r
  BY RateKinds DEF MeetRates, AnyRate
<1> QED
  BY <1>2, <1>3, <1>4 DEF bs
-----------------------------------------------------------------------------
(* The type of a stream with several clauses: the join of what they give *)

\* The rate that a clause is annotated with.
Given(c) == CHOOSE x \in c.pacing : TRUE

\* Rates are closed under the join, and neither Any nor a conflict goes away.
LEMMA JoinEventsType ==
  ASSUME NEW r \in RateType, NEW q \in Rate
  PROVE  /\ JoinEvents(r, q) \in RateType
         /\ r \in {AnyRate, RateConflict} => JoinEvents(r, q) \in {AnyRate, RateConflict}
<1>1. q \in RateType
  BY DEF RateType
<1>2. CASE r.kind = "Event" /\ q.kind = "Event"
  <2>1. r # RateConflict /\ r # AnyRate
    BY <1>2 DEF RateConflict, AnyRate
  <2>2. JoinEvents(r, q) = Event(OrAC(r.ac, q.ac))
    BY <1>2, <2>1 DEF JoinEvents
  <2>3. r.ac \in AC /\ q.ac \in AC
    BY <1>1, <1>2, RateKinds
  <2>4. Conjunctions(r.ac, q.ac) \in AC /\ True \in AC
    BY <2>3 DEF Conjunctions, AC, True
  <2>5. OrAC(r.ac, q.ac) \in AC
    BY <2>3, <2>4 DEF OrAC, AC
  <2> QED
    BY <2>1, <2>2, <2>5 DEF RateType, Rate
<1>3. CASE ~(r.kind = "Event" /\ q.kind = "Event")
  <2>1. JoinEvents(r, q) \in {r, AnyRate, RateConflict}
    BY <1>3 DEF JoinEvents
  <2>2. AnyRate.kind = "Any" /\ RateConflict.kind = "Conflict"
    BY DEF AnyRate, RateConflict
  <2>3. r = AnyRate => JoinEvents(r, q) \in {AnyRate, RateConflict}
    BY <2>1
  <2>4. r = RateConflict => JoinEvents(r, q) \in {AnyRate, RateConflict}
    BY <2>1
  <2> QED
    BY <2>1, <2>3, <2>4 DEF RateType, Rate
<1> QED
  BY <1>2, <1>3

\* J gives the join of every initial part of the clauses.
IsJoin(J, clauses) ==
  \A i \in DOMAIN clauses :
    J[i] = IF i = 1 THEN Given(clauses[i]) ELSE JoinEvents(J[i - 1], Given(clauses[i]))

AllGiven(clauses) == \A i \in DOMAIN clauses : clauses[i].pacing # {}

\* An annotation is one rate.
LEMMA GivenIs ==
  ASSUME NEW c \in Clauses, c.pacing # {}
  PROVE  Given(c) \in Rate /\ c.pacing = {Given(c)}
<1>1. c.pacing \in Optional(Rate)
  BY DEF Clauses
<1>2. c.pacing \subseteq Rate /\ \A x, y \in c.pacing : x = y
  BY <1>1 DEF Optional
<1>3. Given(c) \in c.pacing
  BY DEF Given
<1> QED
  BY <1>2, <1>3

\* The recursion of JoinedRate is defined.
LEMMA JoinedIs ==
  ASSUME NEW clauses \in Seq(Clauses), AllGiven(clauses), Len(clauses) > 0
  PROVE  \E J \in [DOMAIN clauses -> RateType] : IsJoin(J, clauses) /\ JoinedRate(clauses) = J[Len(clauses)]
<1> DEFINE n == Len(clauses)
           Value(E, i) == IF i = 1 THEN Given(clauses[i]) ELSE JoinEvents(E[i - 1], Given(clauses[i]))
           Equation(E) == [i \in DOMAIN clauses |-> Value(E, i)]
           J == CHOOSE E : E = Equation(E)
           Lengths == {m \in Nat : \E g : \A i \in 1 .. m : g[i] = Value(g, i)}
<1>1. n \in Nat \ {0} /\ DOMAIN clauses = 1 .. n
  OBVIOUS
<1> HIDE DEF n
<1>2. 0 \in Lengths
  OBVIOUS
<1>3. ASSUME NEW m \in Lengths PROVE m + 1 \in Lengths
  <2>1. PICK g : \A i \in 1 .. m : g[i] = Value(g, i)
    OBVIOUS
  <2> DEFINE h == [i \in 0 .. m + 1 |-> IF i <= m THEN g[i] ELSE Value(g, i)]
  <2>2. m \in Nat
    OBVIOUS
  <2>3. \A i \in 1 .. m + 1 : i - 1 \in 0 .. m /\ h[i - 1] = g[i - 1]
    BY <2>2
  <2>4. \A i \in 1 .. m + 1 : h[i] = Value(g, i)
    BY <2>1, <2>2
  <2>5. \A i \in 1 .. m + 1 : Value(h, i) = Value(g, i)
    <3> HIDE DEF h
    <3> QED
      BY <2>3
  <2>6. \A i \in 1 .. m + 1 : h[i] = Value(h, i)
    <3> HIDE DEF h, Value
    <3> QED
      BY <2>4, <2>5
  <2> QED
    <3> HIDE DEF h, Value
    <3> QED
      BY <2>2, <2>6
<1>4. Lengths = Nat
  <2>1. Lengths \in SUBSET Nat
    OBVIOUS
  <2> HIDE DEF Lengths
  <2> QED
    BY <1>2, <1>3, <2>1, Induction
<1>5. PICK g : \A i \in 1 .. n : g[i] = Value(g, i)
  BY <1>1, <1>4
<1>6. J = Equation(J)
  <2> DEFINE h == [i \in DOMAIN clauses |-> g[i]]
  <2>1. \A i \in 1 .. n : Value(h, i) = Value(g, i)
    <3>1. \A i \in 1 .. n : i # 1 => i - 1 \in 1 .. n
      BY <1>1
    <3>2. \A i \in 1 .. n : h[i] = g[i]
      BY <1>1
    <3> HIDE DEF h
    <3> QED
      BY <3>1, <3>2
  <2>2. h = Equation(h)
    <3> HIDE DEF Value
    <3> QED
      BY <1>1, <1>5, <2>1
  <2> HIDE DEF h, Equation
  <2> QED
    BY <2>2
<1>7. JoinedRate(clauses) = J[n]
  BY DEF JoinedRate, Given, n
<1>8. IsJoin(J, clauses) /\ DOMAIN J = DOMAIN clauses /\ J = [i \in DOMAIN J |-> J[i]]
  <2> HIDE DEF J
  <2> QED
    BY <1>6 DEF IsJoin
<1> HIDE DEF J
<1> DEFINE Typed == {m \in Nat : m + 1 \in 1 .. n => J[m + 1] \in RateType}
<1>9. \A i \in 1 .. n : Given(clauses[i]) \in Rate
  BY <1>1, GivenIs DEF AllGiven
<1>10. 0 \in Typed
  BY <1>1, <1>8, <1>9 DEF IsJoin, RateType
<1>11. ASSUME NEW m \in Typed PROVE m + 1 \in Typed
  <2> SUFFICES ASSUME m + 2 \in 1 .. n PROVE J[m + 2] \in RateType
    OBVIOUS
  <2>1. m + 1 \in 1 .. n /\ m + 2 # 1 /\ (m + 2) - 1 = m + 1
    BY <1>1
  <2>2. J[m + 1] \in RateType
    BY <2>1
  <2>3. J[m + 2] = JoinEvents(J[m + 1], Given(clauses[m + 2]))
    BY <1>1, <1>8, <2>1 DEF IsJoin
  <2> QED
    BY <1>9, <2>2, <2>3, JoinEventsType
<1>12. Typed = Nat
  <2>1. Typed \in SUBSET Nat
    OBVIOUS
  <2> HIDE DEF Typed
  <2> QED
    BY <1>10, <1>11, <2>1, Induction
<1>13. \A i \in 1 .. n : J[i] \in RateType
  <2> SUFFICES ASSUME NEW i \in 1 .. n PROVE J[i] \in RateType
    OBVIOUS
  <2>1. i - 1 \in Nat /\ (i - 1) + 1 = i
    BY <1>1
  <2>2. i - 1 \in Typed
    <3> HIDE DEF Typed
    <3> QED
      BY <1>12, <2>1
  <2> QED
    BY <2>1, <2>2
<1> QED
  BY <1>1, <1>7, <1>8, <1>13 DEF n

\* D is a set of rates that a join belongs to when one of its parts does.
Joins(D) ==
  \A r \in RateType, q \in Rate :
    JoinEvents(r, q) \notin {AnyRate, RateConflict} => (JoinEvents(r, q) \in D <=> r \in D \/ q \in D)

\* The joined rate belongs to such a set when the rate of some clause does.
LEMMA JoinIs ==
  ASSUME NEW clauses \in Seq(Clauses), AllGiven(clauses), Len(clauses) > 0, NEW D, Joins(D),
         JoinedRate(clauses) \notin {AnyRate, RateConflict}
  PROVE  JoinedRate(clauses) \in D <=> \E i \in DOMAIN clauses : Given(clauses[i]) \in D
<1> DEFINE n == Len(clauses)
<1>1. n \in Nat \ {0} /\ DOMAIN clauses = 1 .. n
  OBVIOUS
<1>2. PICK J \in [DOMAIN clauses -> RateType] : IsJoin(J, clauses) /\ JoinedRate(clauses) = J[n]
  BY JoinedIs
<1>3. \A i \in 1 .. n : Given(clauses[i]) \in Rate
  BY <1>1, GivenIs DEF AllGiven
<1> HIDE DEF n
<1> DEFINE Agreed == {m \in Nat : m + 1 \in 1 .. n /\ J[m + 1] \notin {AnyRate, RateConflict} =>
                       (J[m + 1] \in D <=> \E i \in 1 .. m + 1 : Given(clauses[i]) \in D)}
<1>4. 0 \in Agreed
  <2>1. J[1] = Given(clauses[1])
    BY <1>1, <1>2 DEF IsJoin
  <2>2. \A i \in 1 .. 1 : i = 1
    OBVIOUS
  <2> QED
    BY <2>1, <2>2
<1>5. ASSUME NEW m \in Agreed PROVE m + 1 \in Agreed
  <2> DEFINE g == Given(clauses[m + 2])
  <2> SUFFICES ASSUME m + 2 \in 1 .. n, J[m + 2] \notin {AnyRate, RateConflict}
               PROVE  J[m + 2] \in D <=> \E i \in 1 .. m + 2 : Given(clauses[i]) \in D
    OBVIOUS
  <2>1. m + 1 \in 1 .. n /\ m + 2 # 1 /\ (m + 2) - 1 = m + 1
    BY <1>1
  <2>2. J[m + 2] = JoinEvents(J[m + 1], g) /\ J[m + 1] \in RateType /\ g \in Rate
    BY <1>1, <1>2, <1>3, <2>1 DEF IsJoin
  <2>3. \A i : i \in 1 .. m + 2 <=> i \in 1 .. m + 1 \/ i = m + 2
    OBVIOUS
  <2>4. J[m + 1] \notin {AnyRate, RateConflict}
    BY <2>2, JoinEventsType
  <2>5. J[m + 1] \in D <=> \E i \in 1 .. m + 1 : Given(clauses[i]) \in D
    BY <2>1, <2>4
  <2>6. J[m + 2] \in D <=> J[m + 1] \in D \/ g \in D
    BY <2>2 DEF Joins
  <2> QED
    BY <2>3, <2>5, <2>6
<1>6. Agreed = Nat
  <2>1. Agreed \in SUBSET Nat
    OBVIOUS
  <2> HIDE DEF Agreed
  <2> QED
    BY <1>4, <1>5, <2>1, Induction
<1>7. n - 1 \in Nat /\ (n - 1) + 1 = n /\ n \in 1 .. n
  BY <1>1
<1>8. n - 1 \in Agreed
  <2> HIDE DEF Agreed
  <2> QED
    BY <1>6, <1>7
<1> QED
  BY <1>1, <1>2, <1>7, <1>8
-----------------------------------------------------------------------------
(* What is due in a cycle *)

\* The types of stream s that let it run in a cycle with the inputs F, at tick t.
InCycle(s, F, t) == {r \in RateType : r.kind = "Any" \/ Due(r, s, F, t)}

\* The ticks since the clock of a rate was started.
Since(r, s, t) == IF IsLocal(r) THEN t - started[s] ELSE t

\* A clock is due at the multiples of its period.
LEMMA ClockIsDue ==
  ASSUME NEW r \in RateType, TimeDriven(r), NEW s \in Out, NEW F, NEW t \in Nat, started \in [Out -> Nat]
  PROVE  /\ r.freq \in Freq
         /\ Due(r, s, F, t) <=> /\ F = {} /\ (IsLocal(r) => s \in live)
                                /\ Since(r, s, t) \in Nat \ {0} /\ Multiple(Since(r, s, t), Period(r.freq))
<1>1. r.freq \in Freq /\ r.kind # "Event"
  BY RateKinds DEF TimeDriven
<1> DEFINE since == Since(r, s, t)
           p == Period(r.freq)
<1>2. since \in Int
  BY DEF Since
<1>3. p \in Nat \ {0}
  BY <1>1, PeriodIs
<1>4. Due(r, s, F, t) <=> /\ F = {} /\ (IsLocal(r) => s \in live)
                          /\ since > 0 /\ since % p = 0
  BY <1>1 DEF Due, Since, Period
<1> HIDE DEF since, p
<1>5. since \in Nat \ {0} => (since % p = 0 <=> Multiple(since, p))
  BY <1>3, MultipleIs DEF Multiple
<1>6. since > 0 <=> since \in Nat \ {0}
  BY <1>2
<1> QED
  BY <1>1, <1>4, <1>5, <1>6 DEF since, p

\* The lattices mean what the gates of the runtime check: a meet lets a stream
\* run when both its parts do, a join when one of them does.
LEMMA LatticesAreDue ==
  ASSUME NEW s \in Out, NEW F, NEW t \in Nat, started \in [Out -> Nat]
  PROVE  Filter(InCycle(s, F, t)) /\ Joins(InCycle(s, F, t))
<1> DEFINE D == InCycle(s, F, t)
<1>1. AnyRate \in D
  BY DEF InCycle, RateType, Rate, AnyRate
<1>2. ASSUME NEW a \in AC, Event(a) \in RateType PROVE Event(a) \in D <=> F # {} /\ Satisfied(a, F)
  BY <1>2 DEF InCycle, Due, Event
<1>3. ASSUME NEW r \in RateType, NEW q \in RateType, MeetRates(r, q) # RateConflict
      PROVE  MeetRates(r, q) \in D <=> r \in D /\ q \in D
  <2> DEFINE m == MeetRates(r, q)
  <2>0. m \in RateType
    BY MeetRatesType
  <2>1. CASE r.kind = "Any"
    <3>1. m = q
      BY <2>1 DEF MeetRates
    <3>2. r \in D
      BY <2>1 DEF InCycle
    <3> QED
      BY <3>1, <3>2
  <2>2. CASE r.kind # "Any" /\ q.kind = "Any"
    <3>1. m = r
      BY <2>2 DEF MeetRates
    <3>2. q \in D
      BY <2>2 DEF InCycle
    <3> QED
      BY <3>1, <3>2
  <2>3. CASE r.kind # "Any" /\ q.kind # "Any"
    <3>1. r.kind = q.kind /\ r # RateConflict /\ r.kind # "Conflict"
      BY <1>3, <2>3, RateKinds DEF MeetRates
    <3>2. CASE r.kind = "Event"
      <4>1. r.ac \in AC /\ q.ac \in AC /\ r = Event(r.ac) /\ q = Event(q.ac)
        BY <3>1, <3>2, RateKinds
      <4>2. m = Event(AndAC(r.ac, q.ac))
        BY <2>3, <3>1, <3>2 DEF MeetRates
      <4>3. AndAC(r.ac, q.ac) \in AC
        <5>1. m.kind = "Event" /\ m.ac = AndAC(r.ac, q.ac)
          BY <4>2 DEF Event
        <5> QED
          BY <2>0, <5>1, RateKinds
      <4>4. Satisfied(AndAC(r.ac, q.ac), F) <=> Satisfied(r.ac, F) /\ Satisfied(q.ac, F)
        BY <4>1, AndSatisfied
      <4> HIDE DEF m, D
      <4>5. m \in D <=> F # {} /\ Satisfied(AndAC(r.ac, q.ac), F)
        BY <1>2, <2>0, <4>2, <4>3
      <4>6. (r \in D <=> F # {} /\ Satisfied(r.ac, F)) /\ (q \in D <=> F # {} /\ Satisfied(q.ac, F))
        BY <1>2, <4>1
      <4> QED
        BY <4>4, <4>5, <4>6 DEF m, D
    <3>3. CASE r.kind \in {"GlobalPeriodic", "LocalPeriodic"}
      <4>1. m = [r EXCEPT !.freq = CommonFreq(r.freq, q.freq)]
        BY <2>3, <3>1, <3>3 DEF MeetRates
      <4>2. TimeDriven(r) /\ TimeDriven(q)
        BY <3>1, <3>3 DEF TimeDriven
      <4>3. r.freq \in Freq /\ q.freq \in Freq
        BY <4>2, ClockIsDue
      <4>4. m.kind = r.kind /\ m.freq = CommonFreq(r.freq, q.freq)
        <5>1. r = GlobalPeriodic(r.freq) \/ r = LocalPeriodic(r.freq)
          BY <3>3, RateKinds
        <5> QED
          BY <4>1, <5>1 DEF GlobalPeriodic, LocalPeriodic
      <4>5. TimeDriven(m)
        BY <3>3, <4>4 DEF TimeDriven
      <4>6. /\ IsLocal(m) = IsLocal(r) /\ IsLocal(q) = IsLocal(r)
            /\ Since(m, s, t) = Since(r, s, t) /\ Since(q, s, t) = Since(r, s, t)
        BY <3>1, <4>4 DEF IsLocal, Since
      <4> DEFINE since == Since(r, s, t)
                 up == F = {} /\ (IsLocal(r) => s \in live) /\ since \in Nat \ {0}
      <4>7. Due(r, s, F, t) <=> up /\ Multiple(since, Period(r.freq))
        BY <4>2, ClockIsDue
      <4>8. Due(q, s, F, t) <=> up /\ Multiple(since, Period(q.freq))
        BY <4>2, <4>6, ClockIsDue, <3>1 DEF IsLocal
      <4> HIDE DEF m
      <4>9. Due(m, s, F, t) <=> up /\ Multiple(since, Period(CommonFreq(r.freq, q.freq)))
        BY <2>0, <4>4, <4>5, <4>6, ClockIsDue DEF IsLocal
      <4>10. up => (Multiple(since, Period(CommonFreq(r.freq, q.freq)))
                      <=> Multiple(since, Period(r.freq)) /\ Multiple(since, Period(q.freq)))
        BY <4>3, CommonDeadlines
      <4>11. \A x \in {r, q, m} : x \in D <=> Due(x, s, F, t)
        BY <2>0, <2>3, <3>3, <4>4 DEF InCycle
      <4> HIDE DEF up, D
      <4> QED
        BY <4>7, <4>8, <4>9, <4>10, <4>11 DEF m
    <3>4. r.kind \in {"Event", "GlobalPeriodic", "LocalPeriodic"}
      BY <2>3, <3>1, RateKinds
    <3> QED
      BY <3>2, <3>3, <3>4
  <2> QED
    BY <2>1, <2>2, <2>3
<1>4. ASSUME NEW r \in RateType, NEW q \in Rate, JoinEvents(r, q) \notin {AnyRate, RateConflict}
      PROVE  JoinEvents(r, q) \in D <=> r \in D \/ q \in D
  <2> DEFINE j == JoinEvents(r, q)
  <2>0. j \in RateType /\ q \in RateType /\ r # RateConflict
    BY <1>4, JoinEventsType DEF RateType
  <2>1. CASE r.kind = "Event" /\ q.kind = "Event"
    <3>1. r.ac \in AC /\ q.ac \in AC /\ r = Event(r.ac) /\ q = Event(q.ac)
      BY <2>0, <2>1, RateKinds
    <3>2. j = Event(OrAC(r.ac, q.ac))
      BY <2>0, <2>1 DEF JoinEvents
    <3>3. OrAC(r.ac, q.ac) \in AC
      <4>1. j.kind = "Event" /\ j.ac = OrAC(r.ac, q.ac)
        BY <3>2 DEF Event
      <4> QED
        BY <2>0, <4>1, RateKinds
    <3>4. Satisfied(OrAC(r.ac, q.ac), F) <=> Satisfied(r.ac, F) \/ Satisfied(q.ac, F)
      BY <3>1, OrSatisfied
    <3> HIDE DEF j, D
    <3>5. j \in D <=> F # {} /\ Satisfied(OrAC(r.ac, q.ac), F)
      BY <1>2, <2>0, <3>2, <3>3
    <3>6. (r \in D <=> F # {} /\ Satisfied(r.ac, F)) /\ (q \in D <=> F # {} /\ Satisfied(q.ac, F))
      BY <1>2, <2>0, <3>1
    <3> QED
      BY <3>4, <3>5, <3>6 DEF j, D
  <2>2. CASE ~(r.kind = "Event" /\ q.kind = "Event")
    <3>1. r.kind = q.kind /\ r.freq = q.freq /\ j = r /\ r.kind # "Any"
      BY <1>4, <2>0, <2>2 DEF JoinEvents
    <3>2. r = q
      BY <2>0, <2>2, <3>1, RateKinds
    <3> QED
      BY <3>1, <3>2
  <2> QED
    BY <2>1, <2>2
<1> QED
  BY <1>1, <1>3, <1>4 DEF Filter, Joins
-----------------------------------------------------------------------------
(* Keys and their bounds *)

\* What a condition reads are accesses: the recursion over the operands ends.
LEMMA CondReadsType ==
  ASSUME NEW cond \in SUBSET Exprs
  PROVE  CondReads(cond) \subseteq Accesses
<1> DEFINE Value(E, x) == IF Op[x] = "leaf" THEN LeafReads[x] ELSE UNION {E[Args[x][i]] : i \in DOMAIN Args[x]}
           Equation(E) == [x \in Exprs |-> Value(E, x)]
           R == CHOOSE E : E = Equation(E)
<1>1. PICK depth \in [Exprs -> 0 .. Cardinality(Exprs)] :
        \A e \in Exprs : Op[e] # "leaf" => \A i \in DOMAIN Args[e] : depth[Args[e][i]] < depth[e]
  BY ExpressionAssumption
<1>2. Cardinality(Exprs) \in Nat
  BY ExpressionAssumption, FS_CardinalityType
<1> DEFINE Below(n) == {x \in Exprs : depth[x] < n}
           Depths == {n \in Nat : \E g : \A x \in Below(n) : g[x] = Value(g, x)}
<1>3. \A x \in Exprs : depth[x] \in Nat
  BY <1>1, <1>2
<1>4. \A x \in Exprs : Op[x] # "leaf" =>
        \A i \in DOMAIN Args[x] : Args[x][i] \in Exprs /\ depth[Args[x][i]] < depth[x]
  BY <1>1, ExpressionAssumption
<1>5. 0 \in Depths
  BY <1>3
<1>6. ASSUME NEW n \in Depths PROVE n + 1 \in Depths
  <2>1. PICK g : \A x \in Below(n) : g[x] = Value(g, x)
    OBVIOUS
  <2> DEFINE h == [x \in Exprs |-> IF x \in Below(n) THEN g[x] ELSE Value(g, x)]
  <2>2. \A x \in Below(n + 1) : Op[x] # "leaf" => \A i \in DOMAIN Args[x] : Args[x][i] \in Below(n)
    BY <1>3, <1>4
  <2>3. \A x \in Below(n) : h[x] = g[x]
    OBVIOUS
  <2>4. \A x \in Below(n + 1) : h[x] = Value(g, x)
    <3> HIDE DEF Value
    <3> QED
      BY <2>1
  <2>5. \A x \in Below(n + 1) : Value(h, x) = Value(g, x)
    <3> SUFFICES ASSUME NEW x \in Below(n + 1) PROVE Value(h, x) = Value(g, x)
      OBVIOUS
    <3>1. CASE Op[x] = "leaf"
      BY <3>1
    <3>2. CASE Op[x] # "leaf"
      <4>1. \A i \in DOMAIN Args[x] : h[Args[x][i]] = g[Args[x][i]]
        <5> HIDE DEF h, Below
        <5> QED
          BY <2>2, <2>3, <3>2
      <4> HIDE DEF h, Below
      <4>2. {h[Args[x][i]] : i \in DOMAIN Args[x]} = {g[Args[x][i]] : i \in DOMAIN Args[x]}
        BY <4>1
      <4> QED
        BY <3>2, <4>2
    <3> QED
      BY <3>1, <3>2
  <2> HIDE DEF h, Value, Below
  <2>6. n + 1 \in Nat /\ \A x \in Below(n + 1) : h[x] = Value(h, x)
    BY <2>4, <2>5
  <2> QED
    BY <2>6
<1>7. Depths = Nat
  <2>1. Depths \in SUBSET Nat
    OBVIOUS
  <2> HIDE DEF Depths
  <2> QED
    BY <1>5, <1>6, <2>1, Induction
<1>8. R = Equation(R)
  <2> DEFINE n == Cardinality(Exprs) + 1
  <2>1. n \in Nat /\ \A x \in Exprs : x \in Below(n)
    BY <1>1, <1>2
  <2> HIDE DEF n
  <2>2. PICK g : \A x \in Below(n) : g[x] = Value(g, x)
    <3>1. n \in Depths
      <4> HIDE DEF Depths
      <4> QED
        BY <1>7, <2>1
    <3> QED
      BY <3>1
  <2> DEFINE h == [x \in Exprs |-> g[x]]
  <2>3. \A x \in Exprs : Value(h, x) = Value(g, x)
    <3>1. \A x \in Exprs : h[x] = g[x]
      OBVIOUS
    <3> HIDE DEF h
    <3> QED
      BY <1>4, <3>1
  <2>4. h = Equation(h)
    <3> HIDE DEF Value, Below
    <3> QED
      BY <2>1, <2>2, <2>3
  <2> HIDE DEF h, Equation
  <2> QED
    BY <2>4
<1>9. \A x \in Exprs : R[x] = Value(R, x)
  <2> HIDE DEF R
  <2> QED
    BY <1>8
<1>10. CondReads(cond) = UNION {R[e] : e \in cond}
  BY DEF CondReads
<1> HIDE DEF R
<1> DEFINE Typed == {n \in Nat : \A x \in Below(n) : R[x] \subseteq Accesses}
<1>11. 0 \in Typed
  BY <1>3
<1>12. ASSUME NEW n \in Typed PROVE n + 1 \in Typed
  <2> SUFFICES ASSUME NEW x \in Below(n + 1) PROVE R[x] \subseteq Accesses
    OBVIOUS
  <2>1. CASE Op[x] = "leaf"
    BY <1>9, <2>1, ExpressionAssumption
  <2>2. CASE Op[x] # "leaf"
    <3>1. \A i \in DOMAIN Args[x] : Args[x][i] \in Below(n)
      BY <1>3, <1>4, <2>2
    <3>2. \A y \in Below(n) : R[y] \subseteq Accesses
      OBVIOUS
    <3>3. R[x] = UNION {R[Args[x][i]] : i \in DOMAIN Args[x]}
      BY <1>9, <2>2
    <3> HIDE DEF Below
    <3> QED
      BY <3>1, <3>2, <3>3
  <2> QED
    BY <2>1, <2>2
<1>13. Typed = Nat
  <2>1. Typed \in SUBSET Nat
    OBVIOUS
  <2> HIDE DEF Typed
  <2> QED
    BY <1>11, <1>12, <2>1, Induction
<1>14. \A x \in Exprs : R[x] \subseteq Accesses
  <2> SUFFICES ASSUME NEW x \in Exprs PROVE R[x] \subseteq Accesses
    OBVIOUS
  <2>1. depth[x] + 1 \in Nat /\ x \in Below(depth[x] + 1)
    BY <1>3
  <2>2. depth[x] + 1 \in Typed
    <3> HIDE DEF Typed
    <3> QED
      BY <1>13, <2>1
  <2> QED
    BY <2>1, <2>2
<1> QED
  BY <1>10, <1>14

\* The parts of a constraint that have keys.
LEMMA NodesAre ==
  ASSUME NEW p, NEW s \in Out, NEW node, NEW i
  PROVE  <<node, i>> \in Nodes(p, s) <=>
           \/ node \in {"stream", "eval", "start", "target", "start_cond", "end"} /\ i = 0
           \/ node \in {"clause", "body", "filter"} /\ i \in DOMAIN p[s].clauses
<1>1. s \notin Inputs
  BY PacingAssumption
<1> QED
  BY <1>1 DEF Nodes

\* A key is of a component of a node.
LEMMA KeysAre ==
  ASSUME NEW p
  PROVE  /\ \A s, node, i, c : Key(s, node, i, c) \in Keys(p) <=>
              s \in Stream /\ <<node, i>> \in Nodes(p, s) /\ c \in Components
         /\ \A k \in Keys(p) : k = Key(k.stream, k.node, k.clause, k.comp)
<1>1. ASSUME NEW k \in Keys(p)
      PROVE  \E s \in Stream : \E n \in Nodes(p, s), c \in Components : k = Key(s, n[1], n[2], c)
  BY DEF Keys
<1>2. \A s : \A n \in Nodes(p, s) : n = <<n[1], n[2]>>
  BY DEF Nodes
<1>3. ASSUME NEW s, NEW node, NEW i, NEW c, Key(s, node, i, c) \in Keys(p)
      PROVE  s \in Stream /\ <<node, i>> \in Nodes(p, s) /\ c \in Components
  <2>1. PICK s1 \in Stream : \E n \in Nodes(p, s1), c1 \in Components : Key(s, node, i, c) = Key(s1, n[1], n[2], c1)
    BY <1>1, <1>3
  <2>2. PICK n \in Nodes(p, s1), c1 \in Components : Key(s, node, i, c) = Key(s1, n[1], n[2], c1)
    BY <2>1
  <2>3. s = s1 /\ node = n[1] /\ i = n[2] /\ c = c1
    BY <2>2 DEF Key
  <2> QED
    BY <1>2, <2>1, <2>2, <2>3
<1>4. ASSUME NEW s \in Stream, NEW node, NEW i, <<node, i>> \in Nodes(p, s), NEW c \in Components
      PROVE  Key(s, node, i, c) \in Keys(p)
  <2> DEFINE n == <<node, i>>
  <2>1. Key(s, node, i, c) = Key(s, n[1], n[2], c)
    OBVIOUS
  <2> HIDE DEF n
  <2> QED
    BY <1>4, <2>1 DEF Keys, n
<1>5. \A k \in Keys(p) : k = Key(k.stream, k.node, k.clause, k.comp)
  <2> SUFFICES ASSUME NEW k \in Keys(p) PROVE k = Key(k.stream, k.node, k.clause, k.comp)
    OBVIOUS
  <2>1. PICK s \in Stream : \E n \in Nodes(p, s), c \in Components : k = Key(s, n[1], n[2], c)
    BY <1>1
  <2> QED
    BY <2>1 DEF Key
<1> QED
  BY <1>3, <1>4, <1>5

\* The keys of when something is evaluated.
EvalKeys(p) == {k \in Keys(p) : k.comp = "eval_pacing"}
EvalKey(s, node, i) == Key(s, node, i, "eval_pacing")

\* The targets of accesses have keys, of the same component.
LEMMA TargetsHaveKeys ==
  ASSUME NEW p, NEW reads \in SUBSET Accesses
  PROVE  OfTargets(reads, "eval_pacing") \subseteq EvalKeys(p)
<1> SUFFICES ASSUME NEW r \in reads PROVE StreamKey(r.target, "eval_pacing") \in EvalKeys(p)
  BY DEF OfTargets, SyncTargets
<1>1. r.target \in Stream
  BY DEF Accesses
<1>2. <<"stream", 0>> \in Nodes(p, r.target)
  BY DEF Nodes
<1>3. "eval_pacing" \in Components
  BY DEF Components
<1>4. StreamKey(r.target, "eval_pacing") \in Keys(p)
  BY <1>1, <1>2, <1>3, KeysAre DEF StreamKey
<1>5. StreamKey(r.target, "eval_pacing").comp = "eval_pacing"
  BY DEF StreamKey, Key
<1> QED
  BY <1>4, <1>5 DEF EvalKeys

\* What a key of when something is evaluated concretizes are such keys.
LEMMA AboveIsKey ==
  ASSUME NEW p \in [Out -> Constraints], NEW k \in EvalKeys(p)
  PROVE  Above(p, k) \subseteq EvalKeys(p)
<1> DEFINE s == k.stream
           o == p[s]
           i == k.clause
<1>1. /\ k = EvalKey(s, k.node, i) /\ k.comp = "eval_pacing"
      /\ s \in Stream /\ <<k.node, i>> \in Nodes(p, s)
  <2>1. k \in Keys(p) /\ k.comp = "eval_pacing"
    BY DEF EvalKeys
  <2>2. k = Key(k.stream, k.node, k.clause, k.comp)
    BY <2>1, KeysAre
  <2>3. Key(k.stream, k.node, k.clause, k.comp) \in Keys(p)
    BY <2>1, <2>2
  <2>4. k.stream \in Stream /\ <<k.node, k.clause>> \in Nodes(p, k.stream)
    BY <2>3, KeysAre
  <2> QED
    BY <2>1, <2>2, <2>4 DEF EvalKey
<1>2. CASE s \in Inputs
  <2>1. k.node = "stream"
    BY <1>1, <1>2 DEF Nodes
  <2> QED
    BY <1>2, <2>1 DEF Above
<1>3. CASE s \notin Inputs
  <2>1. s \in Out
    BY <1>1, <1>3 DEF Stream
  <2>2. /\ o.clauses \in Seq(Clauses) /\ o.start \in Optional(Clauses)
        /\ o.end \in Optional([pacing : Optional(Rate), cond : Optional(Exprs)])
    BY <2>1 DEF Constraints
  <2>3. \A c \in Clauses : c.reads \in SUBSET Accesses /\ c.cond \in SUBSET Exprs
    BY DEF Clauses, Optional
  <2>4. \A c \in Clauses : CondReads(c.cond) \in SUBSET Accesses
    BY <2>3, CondReadsType
  <2>5. /\ \A j \in DOMAIN o.clauses : o.clauses[j] \in Clauses
        /\ o.start \subseteq Clauses
        /\ \A b \in o.end : b.cond \in SUBSET Exprs
    BY <2>2 DEF Optional
  <2>6. ASSUME NEW node, NEW j, <<node, j>> \in Nodes(p, s) PROVE EvalKey(s, node, j) \in EvalKeys(p)
    <3>1. "eval_pacing" \in Components
      BY DEF Components
    <3>2. EvalKey(s, node, j) \in Keys(p)
      BY <1>1, <2>6, <3>1, KeysAre DEF EvalKey
    <3>3. EvalKey(s, node, j).comp = "eval_pacing"
      BY DEF EvalKey, Key
    <3> QED
      BY <3>2, <3>3 DEF EvalKeys
  <2>7. \A n : [k EXCEPT !.node = n] = EvalKey(s, n, i)
    <3>1. \A n : [EvalKey(s, k.node, i) EXCEPT !.node = n] = EvalKey(s, n, i)
      BY DEF EvalKey, Key
    <3> HIDE DEF s, i
    <3> QED
      BY <1>1, <3>1
  <2> HIDE DEF s, o, i
  <2>8. CASE k.node \in {"clause", "body", "filter"}
    <3>1. i \in DOMAIN o.clauses
      BY <1>1, <2>1, <2>8, NodesAre DEF o
    <3>2. Above(p, k) = AboveClause(o, k)
      BY <1>3, <2>8 DEF Above, s, o
    <3>3. CASE k.node = "body"
      <4>1. Above(p, k) = OfTargets(o.clauses[i].reads, "eval_pacing")
        BY <1>1, <3>2, <3>3 DEF AboveClause, i
      <4> QED
        BY <2>3, <2>5, <3>1, <4>1, TargetsHaveKeys
    <3>4. CASE k.node = "filter"
      <4>1. Above(p, k) = OfTargets(CondReads(o.clauses[i].cond), "eval_pacing")
        BY <1>1, <3>2, <3>4 DEF AboveClause, i
      <4> QED
        BY <2>4, <2>5, <3>1, <4>1, TargetsHaveKeys
    <3>5. CASE k.node = "clause"
      <4>1. Above(p, k) = {[k EXCEPT !.node = n] : n \in {"body", "filter"}}
        BY <3>2, <3>5 DEF AboveClause
      <4>2. \A n \in {"body", "filter"} : <<n, i>> \in Nodes(p, s)
        BY <2>1, <3>1, NodesAre DEF o
      <4> QED
        BY <2>6, <2>7, <4>1, <4>2
    <3> QED
      BY <2>8, <3>3, <3>4, <3>5
  <2>9. CASE k.node \in {"start", "target", "start_cond"}
    <3>1. i = 0
      BY <1>1, <2>1, <2>9, NodesAre
    <3>2. Above(p, k) = AboveStart(o, k)
      BY <1>3, <2>9 DEF Above, s, o
    <3>3. CASE k.node = "target"
      <4>1. Above(p, k) = UNION {OfTargets(b.reads, "eval_pacing") : b \in o.start}
        BY <1>1, <3>2, <3>3 DEF AboveStart
      <4>2. \A b \in o.start : OfTargets(b.reads, "eval_pacing") \subseteq EvalKeys(p)
        BY <2>3, <2>5, TargetsHaveKeys
      <4> QED
        BY <4>1, <4>2
    <3>4. CASE k.node = "start_cond"
      <4>1. Above(p, k) = UNION {OfTargets(CondReads(b.cond), "eval_pacing") : b \in o.start}
        BY <1>1, <3>2, <3>4 DEF AboveStart
      <4>2. \A b \in o.start : OfTargets(CondReads(b.cond), "eval_pacing") \subseteq EvalKeys(p)
        BY <2>4, <2>5, TargetsHaveKeys
      <4> QED
        BY <4>1, <4>2
    <3>5. CASE k.node = "start"
      <4>1. Above(p, k) = {[k EXCEPT !.node = n] : n \in {"target", "start_cond"}}
        BY <3>2, <3>5 DEF AboveStart
      <4>2. \A n \in {"target", "start_cond"} : <<n, i>> \in Nodes(p, s)
        BY <2>1, <3>1, NodesAre
      <4> QED
        BY <2>6, <2>7, <4>1, <4>2
    <3> QED
      BY <2>9, <3>3, <3>4, <3>5
  <2>10. CASE k.node = "end"
    <3>1. Above(p, k) = UNION {OfTargets(CondReads(b.cond), "eval_pacing") : b \in o.end}
      BY <1>1, <1>3, <2>10 DEF Above, AboveEnd, s, o
    <3>2. \A b \in o.end : OfTargets(CondReads(b.cond), "eval_pacing") \subseteq EvalKeys(p)
      BY <2>5, CondReadsType, TargetsHaveKeys
    <3> QED
      BY <3>1, <3>2
  <2>11. CASE k.node = "eval"
    <3>1. Above(p, k) = {EvalKey(s, "clause", j) : j \in DOMAIN o.clauses}
      BY <1>1, <1>3, <2>11 DEF Above, EvalKey, s, o
    <3>2. \A j \in DOMAIN o.clauses : <<"clause", j>> \in Nodes(p, s)
      BY <2>1, NodesAre DEF o
    <3> QED
      BY <2>6, <3>1, <3>2
  <2>12. CASE k.node = "stream"
    <3>1. Above(p, k) = AboveStream(o, k)
      BY <1>3, <2>12 DEF Above, s, o
    <3>2. AboveStream(o, k) \subseteq {EvalKey(s, "eval", 0)}
      BY <1>1 DEF AboveStream, EvalKey, s
    <3>3. <<"eval", 0>> \in Nodes(p, s)
      BY <2>1, NodesAre
    <3> QED
      BY <2>6, <3>1, <3>2, <3>3
  <2> QED
    BY <1>1, <2>1, <2>8, <2>9, <2>10, <2>11, <2>12, NodesAre
<1> QED
  BY <1>2, <1>3

\* What is imposed on when something is evaluated are rates.
LEMMA ExplicitIsRate ==
  ASSUME NEW p \in [Out -> Constraints], NEW k \in EvalKeys(p)
  PROVE  Explicit(p, k) \subseteq RateType
<1> DEFINE s == k.stream
           o == p[s]
<1>1. k.comp = "eval_pacing" /\ s \in Stream /\ <<k.node, k.clause>> \in Nodes(p, s)
  <2>1. k \in Keys(p) /\ k.comp = "eval_pacing"
    BY DEF EvalKeys
  <2>2. Key(k.stream, k.node, k.clause, k.comp) \in Keys(p)
    BY <2>1, KeysAre
  <2> QED
    BY <2>1, <2>2, KeysAre
<1>2. CASE s \in Inputs
  <2>1. Explicit(p, k) = {Event(WithStream(s))}
    BY <1>1, <1>2 DEF Explicit
  <2>2. WithStream(s) \in AC
    BY <1>2 DEF WithStream, AC
  <2> QED
    BY <2>1, <2>2 DEF RateType, Rate
<1>3. CASE s \notin Inputs
  <2>1. s \in Out
    BY <1>1, <1>3 DEF Stream
  <2>2. o.clauses \in Seq(Clauses)
    BY <2>1 DEF Constraints
  <2> HIDE DEF o, s
  <2>3. CASE k.node = "clause"
    <3>1. Explicit(p, k) = o.clauses[k.clause].pacing
      BY <1>1, <1>3, <2>3 DEF Explicit, s, o
    <3>2. k.clause \in DOMAIN o.clauses
      BY <1>1, <2>1, <2>3, NodesAre DEF o
    <3>3. o.clauses[k.clause] \in Clauses
      BY <2>2, <3>2
    <3>4. o.clauses[k.clause].pacing \subseteq Rate
      BY <3>3 DEF Clauses, Optional
    <3> QED
      BY <3>1, <3>4 DEF RateType
  <2>4. CASE k.node # "clause" /\ ~(k.node = "stream" /\ Len(o.clauses) > 1 /\ Joinable(o))
    <3>1. Explicit(p, k) = {}
      BY <1>1, <1>3, <2>4 DEF Explicit, s, o
    <3> QED
      BY <3>1
  <2>5. CASE k.node = "stream" /\ Len(o.clauses) > 1 /\ Joinable(o)
    <3>1. Explicit(p, k) = {JoinedRate(o.clauses)}
      BY <1>1, <1>3, <2>5 DEF Explicit, s, o
    <3>2. AllGiven(o.clauses) /\ Len(o.clauses) > 0 /\ Len(o.clauses) \in DOMAIN o.clauses
      BY <2>2, <2>5 DEF Joinable, AllGiven
    <3>3. JoinedRate(o.clauses) \in RateType
      BY <2>2, <3>2, JoinedIs
    <3> QED
      BY <3>1, <3>3
  <2> QED
    BY <2>3, <2>4, <2>5
<1> QED
  BY <1>2, <1>3
-----------------------------------------------------------------------------
(* What the solver finds *)

\* While the solver runs, a key has what is imposed on it, and nothing that
\* comes neither from there nor from a key above.
Inferred(p, bd) ==
  /\ DOMAIN bd = Keys(p)
  /\ \A k \in EvalKeys(p) : /\ bd[k] \subseteq RateType
                            /\ Explicit(p, k) \subseteq bd[k]
                            /\ bd[k] \subseteq Explicit(p, k) \cup UNION {bd[j] : j \in Above(p, k)}

\* What it stops at.
Solution(p, bd) ==
  /\ DOMAIN bd = Keys(p)
  /\ \A k \in EvalKeys(p) : /\ bd[k] \subseteq RateType
                            /\ bd[k] = Explicit(p, k) \cup UNION {bd[j] : j \in Above(p, k)}

\* Accepted types ty are those of a solution, and pass the checks.
Rated(bd, k) == Meet("eval_pacing", bd[k])

Solved(p, bd, ty) ==
  /\ Solution(p, bd)
  /\ \A k \in EvalKeys(p) : Rated(bd, k) # RateConflict
  /\ \A s \in Out :
       /\ Joinable(p[s])
       /\ ty[EvalKey(s, "stream", 0)] = Rated(bd, EvalKey(s, "stream", 0))
       /\ ty[EvalKey(s, "stream", 0)] # AnyRate
       /\ \A i \in DOMAIN p[s].clauses :
            /\ ty[EvalKey(s, "clause", i)] = Rated(bd, EvalKey(s, "clause", i))
            /\ \A r \in p[s].clauses[i].pacing : IsSubtype(r, ty[EvalKey(s, "clause", i)])

\* A stream, its evaluation and its clauses have keys.
LEMMA StreamHasKeys ==
  ASSUME NEW p, NEW s \in Out
  PROVE  /\ EvalKey(s, "stream", 0) \in EvalKeys(p) /\ EvalKey(s, "eval", 0) \in EvalKeys(p)
         /\ \A i \in DOMAIN p[s].clauses :
              \A n \in {"clause", "body", "filter"} : EvalKey(s, n, i) \in EvalKeys(p)
<1>1. ASSUME NEW node, NEW i, <<node, i>> \in Nodes(p, s) PROVE EvalKey(s, node, i) \in EvalKeys(p)
  <2>1. "eval_pacing" \in Components /\ s \in Stream
    BY DEF Components, Stream
  <2>2. EvalKey(s, node, i) \in Keys(p)
    BY <1>1, <2>1, KeysAre DEF EvalKey
  <2> QED
    BY <2>2 DEF EvalKeys, EvalKey, Key
<1> QED
  BY <1>1, NodesAre

\* The constraints start with what is imposed.
LEMMA InferredAtFirst ==
  ASSUME Init
  PROVE  Inferred(program, bounds)
<1>1. program \in [Out -> Constraints]
  BY PacingAssumption DEF Init
<1>2. bounds = [k \in Keys(program) |-> Explicit(program, k)]
  BY DEF Init
<1>3. \A k \in EvalKeys(program) : k \in Keys(program) /\ Explicit(program, k) \subseteq RateType
  BY <1>1, ExplicitIsRate DEF EvalKeys
<1> QED
  BY <1>2, <1>3 DEF Inferred

\* A round of the solver keeps to them.
LEMMA PropagateInfers ==
  ASSUME program \in [Out -> Constraints], Inferred(program, bounds), Propagate
  PROVE  Inferred(program, bounds')
<1> DEFINE p == program
           old == bounds
           new == bounds'
<1>1. new = [k \in DOMAIN old |-> old[k] \cup UNION {old[j] : j \in Above(p, k)}] /\ DOMAIN old = Keys(p)
  BY DEF Propagate, Inferred
<1>2. ASSUME NEW k \in EvalKeys(p)
      PROVE  /\ k \in Keys(p) /\ Above(p, k) \subseteq EvalKeys(p)
             /\ old[k] \subseteq RateType /\ Explicit(p, k) \subseteq old[k]
             /\ old[k] \subseteq Explicit(p, k) \cup UNION {old[j] : j \in Above(p, k)}
  BY AboveIsKey DEF EvalKeys, Inferred
<1> HIDE DEF old, new, p
<1>3. ASSUME NEW k \in EvalKeys(p)
      PROVE  /\ new[k] = old[k] \cup UNION {old[j] : j \in Above(p, k)}
             /\ old[k] \subseteq new[k] /\ new[k] \subseteq RateType
  <2>1. new[k] = old[k] \cup UNION {old[j] : j \in Above(p, k)}
    BY <1>1, <1>2
  <2>2. \A j \in Above(p, k) : old[j] \subseteq RateType
    BY <1>2
  <2> QED
    BY <1>2, <2>1, <2>2
<1>4. ASSUME NEW k \in EvalKeys(p)
      PROVE  new[k] \subseteq Explicit(p, k) \cup UNION {new[j] : j \in Above(p, k)}
  <2>1. UNION {old[j] : j \in Above(p, k)} \subseteq UNION {new[j] : j \in Above(p, k)}
    BY <1>2, <1>3
  <2>2. new[k] \subseteq Explicit(p, k) \cup UNION {old[j] : j \in Above(p, k)}
    BY <1>2, <1>3
  <2> QED
    BY <2>1, <2>2
<1>5. DOMAIN new = Keys(p)
  BY <1>1
<1>6. \A k \in EvalKeys(p) : Explicit(p, k) \subseteq new[k] /\ new[k] \subseteq RateType
  BY <1>2, <1>3
<1>7. Inferred(p, new)
  BY <1>4, <1>5, <1>6 DEF Inferred
<1> QED
  BY <1>7 DEF p, new

\* Where it stops and the checks pass, the types are those of a solution.
LEMMA SolveAccepts ==
  ASSUME program \in [Out -> Constraints], Inferred(program, bounds), Solve, phase' = "accepted"
  PROVE  Solved(program, bounds, types')
<1> DEFINE p == program
           ty == [k \in DOMAIN bounds |-> Meet(k.comp, bounds[k])]
<1>1. DOMAIN bounds = Keys(p)
  BY DEF Inferred
<1>2. /\ \A k \in DOMAIN bounds : UNION {bounds[j] : j \in Above(p, k)} \subseteq bounds[k]
      /\ WellPaced(ty, p)
      /\ types' = [k \in {j \in DOMAIN ty : RuntimeKey(j)} |-> ty[k]]
  <2>1. \A k \in DOMAIN bounds : UNION {bounds[j] : j \in Above(p, k)} \subseteq bounds[k]
    BY DEF Solve
  <2>2. phase' = IF WellPaced(ty, p) THEN "accepted" ELSE "rejected"
    BY DEF Solve
  <2>3. types' = [k \in {j \in DOMAIN ty : WellPaced(ty, p) /\ RuntimeKey(j)} |-> ty[k]]
    BY DEF Solve
  <2> HIDE DEF ty, p
  <2>4. WellPaced(ty, p)
    BY <2>2
  <2>5. {j \in DOMAIN ty : WellPaced(ty, p) /\ RuntimeKey(j)} = {j \in DOMAIN ty : RuntimeKey(j)}
    BY <2>4
  <2> QED
    BY <2>1, <2>3, <2>4, <2>5 DEF p
<1>3. Solution(p, bounds)
  <2>1. \A k \in EvalKeys(p) : k \in DOMAIN bounds
    BY <1>1 DEF EvalKeys
  <2>2. ASSUME NEW k \in EvalKeys(p)
        PROVE  bounds[k] = Explicit(p, k) \cup UNION {bounds[j] : j \in Above(p, k)}
    <3>1. UNION {bounds[j] : j \in Above(p, k)} \subseteq bounds[k]
      BY <1>2, <2>1
    <3>2. /\ Explicit(p, k) \subseteq bounds[k]
          /\ bounds[k] \subseteq Explicit(p, k) \cup UNION {bounds[j] : j \in Above(p, k)}
      BY DEF Inferred
    <3> HIDE DEF p
    <3> QED
      BY <3>1, <3>2
  <2> QED
    BY <1>1, <2>2 DEF Inferred, Solution
<1>4. ASSUME NEW k \in EvalKeys(p) PROVE k \in DOMAIN ty /\ ty[k] = Rated(bounds, k) /\ ty[k] # RateConflict
  <2>1. k \in DOMAIN ty /\ ty[k] = Rated(bounds, k)
    BY <1>1 DEF EvalKeys, Rated
  <2>2. ty[k].kind # "Conflict"
    <3> HIDE DEF ty
    <3> QED
      BY <1>2, <2>1 DEF WellPaced, Conflicting
  <2> QED
    BY <2>1, <2>2 DEF RateConflict
<1>5. ASSUME NEW s \in Out
      PROVE  /\ EvalKey(s, "stream", 0) \in EvalKeys(p) /\ RuntimeKey(EvalKey(s, "stream", 0))
             /\ \A i \in DOMAIN p[s].clauses : EvalKey(s, "clause", i) \in EvalKeys(p)
                                               /\ RuntimeKey(EvalKey(s, "clause", i))
  <2>1. RuntimeKey(EvalKey(s, "stream", 0)) /\ \A i : RuntimeKey(EvalKey(s, "clause", i))
    BY DEF RuntimeKey, EvalKey, Key, RateComponents
  <2> QED
    BY <2>1, StreamHasKeys
<1> HIDE DEF ty
<1>6. ASSUME NEW s \in Out
      PROVE  /\ Joinable(p[s])
             /\ ty[EvalKey(s, "stream", 0)] # AnyRate
             /\ \A i \in DOMAIN p[s].clauses : \A r \in p[s].clauses[i].pacing : IsSubtype(r, ty[EvalKey(s, "clause", i)])
  <2>1. Joinable(p[s]) /\ ExplicitBoundsHold(ty, p[s], s) /\ RatesGiven(ty, p[s], s)
    BY <1>2 DEF WellPaced, PostProcessed
  <2>2. ty[EvalKey(s, "stream", 0)] # AnyRate
    BY <2>1 DEF RatesGiven, StreamKey, EvalKey
  <2>3. \A i \in DOMAIN p[s].clauses : \A r \in p[s].clauses[i].pacing : IsSubtype(r, ty[EvalKey(s, "clause", i)])
    BY <2>1 DEF ExplicitBoundsHold, EvalKey
  <2> QED
    BY <2>1, <2>2, <2>3
<1>7. \A k \in EvalKeys(p) : RuntimeKey(k) => types'[k] = Rated(bounds, k) /\ types'[k] = ty[k]
  BY <1>2, <1>4
<1>8. \A k \in EvalKeys(p) : Rated(bounds, k) # RateConflict
  BY <1>4
<1> HIDE DEF p
<1>9. Solved(p, bounds, types')
  BY <1>3, <1>5, <1>6, <1>7, <1>8 DEF Solved
<1> QED
  BY <1>9 DEF p

\* A stream takes over the bounds of its only clause.
LEMMA OnlyClause ==
  ASSUME NEW p \in [Out -> Constraints], NEW bd, Solution(p, bd), NEW s \in Out, Len(p[s].clauses) = 1
  PROVE  bd[EvalKey(s, "stream", 0)] = bd[EvalKey(s, "clause", 1)]
<1> DEFINE o == p[s]
<1>1. o.clauses \in Seq(Clauses) /\ DOMAIN o.clauses = {1} /\ s \notin Inputs
  BY PacingAssumption DEF Constraints
<1>2. ~(Len(o.clauses) > 1)
  OBVIOUS
<1>3. EvalKey(s, "stream", 0) \in EvalKeys(p) /\ EvalKey(s, "eval", 0) \in EvalKeys(p)
  BY StreamHasKeys
<1>4. Explicit(p, EvalKey(s, "stream", 0)) = {} /\ Explicit(p, EvalKey(s, "eval", 0)) = {}
  <2> HIDE DEF o
  <2> QED
    BY <1>1, <1>2 DEF Explicit, EvalKey, Key, o
<1>5. Above(p, EvalKey(s, "stream", 0)) = {EvalKey(s, "eval", 0)}
  <2>1. Above(p, EvalKey(s, "stream", 0)) = AboveStream(o, EvalKey(s, "stream", 0))
    BY <1>1 DEF Above, EvalKey, Key
  <2>2. AboveStream(o, EvalKey(s, "stream", 0)) = {EvalKey(s, "eval", 0)}
    BY DEF AboveStream, EvalKey, Key
  <2> QED
    BY <2>1, <2>2
<1>6. Above(p, EvalKey(s, "eval", 0)) = {EvalKey(s, "clause", 1)}
  <2>1. Above(p, EvalKey(s, "eval", 0)) = {EvalKey(s, "clause", i) : i \in DOMAIN o.clauses}
    BY <1>1 DEF Above, EvalKey, Key
  <2> QED
    BY <1>1, <2>1
<1>7. ASSUME NEW k \in EvalKeys(p), NEW j, Explicit(p, k) = {}, Above(p, k) = {j} PROVE bd[k] = bd[j]
  <2>1. bd[k] = Explicit(p, k) \cup UNION {bd[l] : l \in Above(p, k)}
    BY DEF Solution
  <2>2. {bd[l] : l \in Above(p, k)} = {bd[j]}
    BY <1>7
  <2> QED
    BY <1>7, <2>1, <2>2
<1> QED
  BY <1>3, <1>4, <1>5, <1>6, <1>7

\* The only bound of a stream with several clauses is their join.
LEMMA SeveralClauses ==
  ASSUME NEW p \in [Out -> Constraints], NEW bd, Solution(p, bd), NEW s \in Out, Len(p[s].clauses) > 1,
         Joinable(p[s])
  PROVE  /\ p[s].clauses \in Seq(Clauses) /\ AllGiven(p[s].clauses)
         /\ JoinedRate(p[s].clauses) \in RateType
         /\ Rated(bd, EvalKey(s, "stream", 0)) = JoinedRate(p[s].clauses)
<1> DEFINE cs == p[s].clauses
           k == EvalKey(s, "stream", 0)
<1>1. cs \in Seq(Clauses) /\ s \notin Inputs
  BY PacingAssumption DEF Constraints
<1>2. k \in EvalKeys(p)
  BY StreamHasKeys
<1>3. Explicit(p, k) = {JoinedRate(cs)}
  BY <1>1 DEF Explicit, EvalKey, Key
<1>4. Above(p, k) = {}
  <2>1. Above(p, k) = AboveStream(p[s], k)
    BY <1>1 DEF Above, EvalKey, Key
  <2>2. Len(cs) # 1
    <3> DEFINE n == Len(cs)
    <3>1. n \in Nat /\ n > 1
      BY <1>1
    <3> HIDE DEF n
    <3>2. n # 1
      BY <3>1
    <3> QED
      BY <3>2 DEF n
  <2> QED
    BY <2>1, <2>2 DEF AboveStream, EvalKey, Key
<1>5. bd[k] = {JoinedRate(cs)} /\ bd[k] \subseteq RateType
  BY <1>2, <1>3, <1>4 DEF Solution
<1>6. AllGiven(cs)
  BY DEF Joinable, AllGiven
<1> QED
  BY <1>1, <1>5, <1>6, MeetOfOne DEF Rated

\* A clause has what it is annotated with as a bound.
LEMMA ClauseBound ==
  ASSUME NEW p \in [Out -> Constraints], NEW bd, Solution(p, bd), NEW s \in Out, NEW i \in DOMAIN p[s].clauses
  PROVE  /\ EvalKey(s, "clause", i) \in EvalKeys(p)
         /\ p[s].clauses[i].pacing \subseteq bd[EvalKey(s, "clause", i)]
<1> DEFINE k == EvalKey(s, "clause", i)
<1>1. s \notin Inputs
  BY PacingAssumption
<1>2. k \in EvalKeys(p)
  BY StreamHasKeys
<1>3. Explicit(p, k) = p[s].clauses[i].pacing
  BY <1>1 DEF Explicit, EvalKey, Key
<1> QED
  BY <1>2, <1>3 DEF Solution

\* Whenever a clause of an accepted stream may run, so may the stream.
LEMMA ClauseIsReached ==
  ASSUME NEW p \in [Out -> Constraints], NEW bd, NEW ty, Solved(p, bd, ty),
         NEW s \in Out, NEW i \in DOMAIN p[s].clauses, NEW D, Filter(D), Joins(D),
         ty[EvalKey(s, "clause", i)] \in D
  PROVE  ty[EvalKey(s, "stream", 0)] \in D
<1> DEFINE cs == p[s].clauses
           k == EvalKey(s, "clause", i)
<1>1. Solution(p, bd) /\ Joinable(p[s])
  BY DEF Solved
<1>2. cs \in Seq(Clauses) /\ DOMAIN cs = 1 .. Len(cs) /\ Len(cs) \in Nat
  BY DEF Constraints
<1>3. ty[k] = Rated(bd, k) /\ ty[EvalKey(s, "stream", 0)] = Rated(bd, EvalKey(s, "stream", 0))
  BY DEF Solved
<1>4. CASE Len(cs) = 1
  <2>1. i = 1
    BY <1>2, <1>4
  <2>2. bd[EvalKey(s, "stream", 0)] = bd[k]
    BY <1>1, <1>4, <2>1, OnlyClause
  <2> QED
    BY <1>3, <2>2 DEF Rated
<1>5. CASE Len(cs) > 1
  <2>1. /\ AllGiven(cs) /\ JoinedRate(cs) \in RateType
        /\ Rated(bd, EvalKey(s, "stream", 0)) = JoinedRate(cs)
    BY <1>1, <1>5, SeveralClauses
  <2>2. JoinedRate(cs) \notin {AnyRate, RateConflict}
    <3>1. ty[EvalKey(s, "stream", 0)] # AnyRate
      BY DEF Solved
    <3>2. EvalKey(s, "stream", 0) \in EvalKeys(p)
      BY StreamHasKeys
    <3>3. Rated(bd, EvalKey(s, "stream", 0)) # RateConflict
      BY <3>2 DEF Solved
    <3> QED
      BY <1>3, <2>1, <3>1, <3>3
  <2>3. Given(cs[i]) \in D
    <3>1. k \in EvalKeys(p) /\ cs[i].pacing \subseteq bd[k]
      BY <1>1, ClauseBound
    <3>2. Rated(bd, k) # RateConflict /\ bd[k] \in SUBSET RateType
      BY <1>1, <3>1 DEF Solved, Solution
    <3>3. bd[k] \subseteq D
      BY <1>3, <3>2, MeetIs DEF Rated
    <3>4. Given(cs[i]) \in cs[i].pacing
      BY <2>1 DEF AllGiven, Given
    <3> QED
      BY <3>1, <3>3, <3>4
  <2>4. JoinedRate(cs) \in D
    BY <1>2, <1>5, <2>1, <2>2, <2>3, JoinIs
  <2> QED
    BY <1>3, <2>1, <2>4
<1>6. Len(cs) = 1 \/ Len(cs) > 1
  <2> DEFINE n == Len(cs)
  <2>1. n \in Nat /\ i \in 1 .. n
    BY <1>2
  <2> HIDE DEF n
  <2>2. n = 1 \/ n > 1
    BY <2>1
  <2> QED
    BY <2>2 DEF n
<1> QED
  BY <1>4, <1>5, <1>6
-----------------------------------------------------------------------------
(* The steps of a cycle *)

AtBegin(F) == [fresh |-> F, live |-> live, ended |-> {}, stale |-> {}, missed |-> {}]

\* L gives what a cycle has done after each stream, X after each end.
IsLayered(L, F, t, v) ==
  /\ L[0] = AtBegin(F)
  /\ \A s \in Out : L[s] = EvalStep(s, F, t, v, StartStep(s, F, t, v, L[s - 1]))

IsEnded(X, L, F, t, v) ==
  /\ X[0] = L[N]
  /\ \A s \in Out : X[s] = EndStep(s, F, t, v, X[s - 1])

\* The recursions of CycleResult are defined.
LEMMA CycleSteps ==
  ASSUME NEW F, NEW t, NEW v
  PROVE  \E L, X : IsLayered(L, F, t, v) /\ IsEnded(X, L, F, t, v) /\ CycleResult(F, t, v) = X[N]
<1> DEFINE Layer(E, s) == IF s = 0 THEN AtBegin(F) ELSE EvalStep(s, F, t, v, StartStep(s, F, t, v, E[s - 1]))
           Layered(E) == [s \in 0 .. N |-> Layer(E, s)]
           L == CHOOSE E : E = Layered(E)
           End(E, s) == IF s = 0 THEN L[N] ELSE EndStep(s, F, t, v, E[s - 1])
           Ended(E) == [s \in 0 .. N |-> End(E, s)]
           X == CHOOSE E : E = Ended(E)
           Lengths == {m \in Nat : \E g : \A s \in 0 .. m : g[s] = Layer(g, s)}
           Lasts == {m \in Nat : \E g : \A s \in 0 .. m : g[s] = End(g, s)}
<1>1. N \in Nat \ {0}
  BY PacingAssumption
<1>2. CycleResult(F, t, v) = X[N]
  BY DEF CycleResult, AtBegin
<1>3. L = Layered(L)
  <2>1. 0 \in Lengths
    <3> DEFINE g == [s \in 0 .. 0 |-> AtBegin(F)]
    <3>1. \A s \in 0 .. 0 : g[s] = Layer(g, s)
      OBVIOUS
    <3> HIDE DEF g
    <3> QED
      BY <3>1
  <2>2. ASSUME NEW m \in Lengths PROVE m + 1 \in Lengths
    <3>1. PICK g : \A s \in 0 .. m : g[s] = Layer(g, s)
      OBVIOUS
    <3> DEFINE h == [s \in 0 .. m + 1 |-> IF s <= m THEN g[s] ELSE Layer(g, s)]
    <3>2. m \in Nat
      OBVIOUS
    <3> HIDE DEF Lengths
    <3>3. \A s \in 0 .. m + 1 : s # 0 => h[s - 1] = g[s - 1]
      <4> HIDE DEF Layer
      <4> QED
        BY <3>2
    <3>4. \A s \in 0 .. m + 1 : h[s] = Layer(g, s)
      <4> HIDE DEF Layer
      <4> QED
        BY <3>1, <3>2
    <3> HIDE DEF h
    <3>5. \A s \in 0 .. m + 1 : h[s] = Layer(h, s)
      BY <3>3, <3>4
    <3> HIDE DEF Layer
    <3> QED
      BY <3>2, <3>5 DEF Lengths
  <2>3. Lengths = Nat
    <3>1. Lengths \in SUBSET Nat
      OBVIOUS
    <3> HIDE DEF Lengths
    <3> QED
      BY <2>1, <2>2, <3>1, Induction
  <2>4. PICK g : \A s \in 0 .. N : g[s] = Layer(g, s)
    <3>1. N \in Lengths
      <4> HIDE DEF Lengths
      <4> QED
        BY <1>1, <2>3
    <3> QED
      BY <3>1
  <2> DEFINE h == [s \in 0 .. N |-> g[s]]
  <2>5. \A s \in 0 .. N : s # 0 => h[s - 1] = g[s - 1]
    BY <1>1
  <2>6. \A s \in 0 .. N : Layer(h, s) = Layer(g, s)
    <3> HIDE DEF h
    <3> QED
      BY <2>5
  <2>7. h = Layered(h)
    <3> HIDE DEF Layer
    <3> QED
      BY <2>4, <2>6
  <2> HIDE DEF h, Layered
  <2> QED
    BY <2>7
<1>4. IsLayered(L, F, t, v)
  <2> HIDE DEF L
  <2>1. \A s \in 0 .. N : L[s] = Layer(L, s)
    <3> HIDE DEF Layer
    <3> QED
      BY <1>3
  <2>2. 0 \in 0 .. N /\ \A s \in Out : s \in 0 .. N /\ s # 0
    BY <1>1 DEF Out
  <2> QED
    BY <2>1, <2>2 DEF IsLayered
<1> HIDE DEF L
<1>5. X = Ended(X)
  <2>1. 0 \in Lasts
    <3> DEFINE g == [s \in 0 .. 0 |-> L[N]]
    <3>1. \A s \in 0 .. 0 : g[s] = End(g, s)
      OBVIOUS
    <3> HIDE DEF g
    <3> QED
      BY <3>1
  <2>2. ASSUME NEW m \in Lasts PROVE m + 1 \in Lasts
    <3>1. PICK g : \A s \in 0 .. m : g[s] = End(g, s)
      OBVIOUS
    <3> DEFINE h == [s \in 0 .. m + 1 |-> IF s <= m THEN g[s] ELSE End(g, s)]
    <3>2. m \in Nat
      OBVIOUS
    <3> HIDE DEF Lasts
    <3>3. \A s \in 0 .. m + 1 : s # 0 => h[s - 1] = g[s - 1]
      <4> HIDE DEF End
      <4> QED
        BY <3>2
    <3>4. \A s \in 0 .. m + 1 : h[s] = End(g, s)
      <4> HIDE DEF End
      <4> QED
        BY <3>1, <3>2
    <3> HIDE DEF h
    <3>5. \A s \in 0 .. m + 1 : h[s] = End(h, s)
      BY <3>3, <3>4
    <3> HIDE DEF End
    <3> QED
      BY <3>2, <3>5 DEF Lasts
  <2>3. Lasts = Nat
    <3>1. Lasts \in SUBSET Nat
      OBVIOUS
    <3> HIDE DEF Lasts
    <3> QED
      BY <2>1, <2>2, <3>1, Induction
  <2>4. PICK g : \A s \in 0 .. N : g[s] = End(g, s)
    <3>1. N \in Lasts
      <4> HIDE DEF Lasts
      <4> QED
        BY <1>1, <2>3
    <3> QED
      BY <3>1
  <2> DEFINE h == [s \in 0 .. N |-> g[s]]
  <2>5. \A s \in 0 .. N : s # 0 => h[s - 1] = g[s - 1]
    BY <1>1
  <2>6. \A s \in 0 .. N : End(h, s) = End(g, s)
    <3> HIDE DEF h
    <3> QED
      BY <2>5
  <2>7. h = Ended(h)
    <3> HIDE DEF End
    <3> QED
      BY <2>4, <2>6
  <2> HIDE DEF h, Ended
  <2> QED
    BY <2>7
<1>6. IsEnded(X, L, F, t, v)
  <2> HIDE DEF X
  <2>1. \A s \in 0 .. N : X[s] = End(X, s)
    <3> HIDE DEF End
    <3> QED
      BY <1>5
  <2>2. 0 \in 0 .. N /\ \A s \in Out : s \in 0 .. N /\ s # 0
    BY <1>1 DEF Out
  <2> QED
    BY <2>1, <2>2 DEF IsEnded
<1> HIDE DEF X
<1> QED
  BY <1>2, <1>4, <1>6

\* The state of a cycle is a record of these fields.
CycleState(f, l, e, st, m) == [fresh |-> f, live |-> l, ended |-> e, stale |-> st, missed |-> m]
Cycled(acc) == \E f, l, e, st, m : acc = CycleState(f, l, e, st, m)

\* What the evaluation of a stream goes through: the clauses that may run, the
\* ones whose conditions hold, are evaluated, and the one that is taken.
OpenClauses(s, F, t) ==
  {i \in DOMAIN program[s].clauses : \/ types[Key(s, "clause", i, "eval_pacing")] = StreamType(s, "eval_pacing")
                                     \/ Due(types[Key(s, "clause", i, "eval_pacing")], s, F, t)}
Hits(s, F, t, v) == {i \in OpenClauses(s, F, t) : RunCond(program[s].clauses[i].cond, v).val}
Tried(s, F, t, v) == {i \in OpenClauses(s, F, t) : \A h \in Hits(s, F, t, v) : i <= h}
Taken(s, F, t, v) == {i \in Hits(s, F, t, v) : \A h \in Hits(s, F, t, v) : i <= h}
Unmet(s, F, t, v, fresh) ==
  Stale(s, "filter", UNION {RunCond(program[s].clauses[i].cond, v).reads : i \in Tried(s, F, t, v)}, fresh)
    \cup Stale(s, "body", UNION {program[s].clauses[i].reads : i \in Taken(s, F, t, v)}, fresh)
PassedOver(s, F, t, v) ==
  {i \in DOMAIN program[s].clauses : /\ Due(types[Key(s, "clause", i, "eval_pacing")], s, F, t)
                                     /\ RunCond(program[s].clauses[i].cond, v).val}

\* Updates of the fields.
WithLive(acc, a, b)  == [acc EXCEPT !.live = a, !.stale = b]
WithEnded(acc, a, b) == [acc EXCEPT !.ended = a, !.stale = b]
WithFresh(acc, a, b) == [acc EXCEPT !.fresh = a, !.stale = b]
WithMissed(acc, a)   == [acc EXCEPT !.missed = a]

LEMMA FieldsAre ==
  ASSUME NEW acc, Cycled(acc), NEW a, NEW b
  PROVE  /\ WithLive(acc, a, b) = CycleState(acc.fresh, a, acc.ended, b, acc.missed)
         /\ WithEnded(acc, a, b) = CycleState(acc.fresh, acc.live, a, b, acc.missed)
         /\ WithFresh(acc, a, b) = CycleState(a, acc.live, acc.ended, b, acc.missed)
         /\ WithMissed(acc, a) = CycleState(acc.fresh, acc.live, acc.ended, acc.stale, a)
<1>1. PICK f, l, e, st, m : acc = CycleState(f, l, e, st, m)
  BY DEF Cycled
<1>2. /\ acc.fresh = f /\ acc.live = l /\ acc.ended = e /\ acc.stale = st /\ acc.missed = m
  BY <1>1 DEF CycleState
<1>3. /\ [acc EXCEPT !.live = a, !.stale = b] = [[acc EXCEPT !.live = a] EXCEPT !.stale = b]
      /\ [acc EXCEPT !.ended = a, !.stale = b] = [[acc EXCEPT !.ended = a] EXCEPT !.stale = b]
      /\ [acc EXCEPT !.fresh = a, !.stale = b] = [[acc EXCEPT !.fresh = a] EXCEPT !.stale = b]
  OBVIOUS
<1>4. [[acc EXCEPT !.live = a] EXCEPT !.stale = b] = CycleState(f, a, e, b, m)
  <2> DEFINE x == [acc EXCEPT !.live = a]
  <2>1. x = CycleState(f, a, e, st, m)
    BY <1>1 DEF CycleState
  <2> HIDE DEF x
  <2>2. [x EXCEPT !.stale = b] = CycleState(f, a, e, b, m)
    BY <2>1 DEF CycleState
  <2> QED
    BY <2>2 DEF x
<1>5. [[acc EXCEPT !.ended = a] EXCEPT !.stale = b] = CycleState(f, l, a, b, m)
  <2> DEFINE x == [acc EXCEPT !.ended = a]
  <2>1. x = CycleState(f, l, a, st, m)
    BY <1>1 DEF CycleState
  <2> HIDE DEF x
  <2>2. [x EXCEPT !.stale = b] = CycleState(f, l, a, b, m)
    BY <2>1 DEF CycleState
  <2> QED
    BY <2>2 DEF x
<1>6. [[acc EXCEPT !.fresh = a] EXCEPT !.stale = b] = CycleState(a, l, e, b, m)
  <2> DEFINE x == [acc EXCEPT !.fresh = a]
  <2>1. x = CycleState(a, l, e, st, m)
    BY <1>1 DEF CycleState
  <2> HIDE DEF x
  <2>2. [x EXCEPT !.stale = b] = CycleState(a, l, e, b, m)
    BY <2>1 DEF CycleState
  <2> QED
    BY <2>2 DEF x
<1>7. [acc EXCEPT !.missed = a] = CycleState(f, l, e, st, a)
  BY <1>1 DEF CycleState
<1> QED
  BY <1>2, <1>3, <1>4, <1>5, <1>6, <1>7 DEF WithLive, WithEnded, WithFresh, WithMissed

\* The fields of a state.
LEMMA FieldsOf ==
  ASSUME NEW f, NEW l, NEW e, NEW st, NEW m, NEW acc, acc = CycleState(f, l, e, st, m)
  PROVE  /\ Cycled(acc)
         /\ acc.fresh = f /\ acc.live = l /\ acc.ended = e /\ acc.stale = st /\ acc.missed = m
<1>1. acc.fresh = f /\ acc.live = l /\ acc.ended = e /\ acc.stale = st /\ acc.missed = m
  BY DEF CycleState
<1>2. Cycled(acc)
  BY DEF Cycled
<1> QED
  BY <1>1, <1>2

\* What an evaluation does, in these terms.
Evaluated(s, F, t, v, acc, r) ==
  /\ s \notin acc.live => r = acc
  /\ s \in acc.live /\ Due(StreamType(s, "eval_pacing"), s, F, t) =>
       r = CycleState(IF Taken(s, F, t, v) = {} THEN acc.fresh ELSE acc.fresh \cup {s}, acc.live, acc.ended,
                      acc.stale \cup Unmet(s, F, t, v, acc.fresh), acc.missed)
  /\ s \in acc.live /\ ~Due(StreamType(s, "eval_pacing"), s, F, t) =>
       r = CycleState(acc.fresh, acc.live, acc.ended, acc.stale,
                      acc.missed \cup {s : i \in PassedOver(s, F, t, v)})

LEMMA EvalStepIs ==
  ASSUME NEW s, NEW F, NEW t, NEW v, NEW acc, Cycled(acc)
  PROVE  Evaluated(s, F, t, v, acc, EvalStep(s, F, t, v, acc))
<1> DEFINE f == IF Taken(s, F, t, v) = {} THEN acc.fresh ELSE acc.fresh \cup {s}
           st == acc.stale \cup Unmet(s, F, t, v, acc.fresh)
           m == acc.missed \cup {s : i \in PassedOver(s, F, t, v)}
<1>1. /\ s \notin acc.live => EvalStep(s, F, t, v, acc) = acc
      /\ s \in acc.live /\ Due(StreamType(s, "eval_pacing"), s, F, t) =>
           EvalStep(s, F, t, v, acc) = WithFresh(acc, f, st)
      /\ s \in acc.live /\ ~Due(StreamType(s, "eval_pacing"), s, F, t) =>
           EvalStep(s, F, t, v, acc) = WithMissed(acc, m)
  BY DEF WithFresh, WithMissed, EvalStep, OpenClauses, Hits, Tried, Taken, Unmet, PassedOver
<1>2. /\ WithFresh(acc, f, st) = CycleState(f, acc.live, acc.ended, st, acc.missed)
      /\ WithMissed(acc, m) = CycleState(acc.fresh, acc.live, acc.ended, acc.stale, m)
  <2> HIDE DEF f, st, m
  <2> QED
    BY FieldsAre
<1> QED
  BY <1>1, <1>2 DEF Evaluated

\* The start and the end of a stream change the instances only, and may find
\* stale what their conditions and expressions read.
LEMMA StartAndEndChange ==
  ASSUME NEW s, NEW F, NEW t, NEW v, NEW acc, Cycled(acc)
  PROVE  /\ \/ StartStep(s, F, t, v, acc) = acc
            \/ /\ program[s].start # {}
               /\ \E a, b : StartStep(s, F, t, v, acc) = CycleState(acc.fresh, a, acc.ended, b, acc.missed)
         /\ \/ EndStep(s, F, t, v, acc) = acc
            \/ /\ program[s].end # {}
               /\ \E a, b : EndStep(s, F, t, v, acc) = CycleState(acc.fresh, acc.live, a, b, acc.missed)
<1>1. \/ StartStep(s, F, t, v, acc) = acc
      \/ /\ program[s].start # {}
         /\ \E a, b : StartStep(s, F, t, v, acc) = WithLive(acc, a, b)
  BY DEF StartStep, WithLive
<1>2. \/ EndStep(s, F, t, v, acc) = acc
      \/ /\ program[s].end # {}
         /\ \E a, b : EndStep(s, F, t, v, acc) = WithEnded(acc, a, b)
  BY DEF EndStep, WithEnded
<1>3. ASSUME NEW a, NEW b
      PROVE  /\ WithLive(acc, a, b) = CycleState(acc.fresh, a, acc.ended, b, acc.missed)
             /\ WithEnded(acc, a, b) = CycleState(acc.fresh, acc.live, a, b, acc.missed)
  BY FieldsAre
<1>4. CASE StartStep(s, F, t, v, acc) # acc /\ EndStep(s, F, t, v, acc) # acc
  <2>1. PICK a, b : StartStep(s, F, t, v, acc) = WithLive(acc, a, b)
    BY <1>1, <1>4
  <2>2. PICK c, d : EndStep(s, F, t, v, acc) = WithEnded(acc, c, d)
    BY <1>2, <1>4
  <2>3. /\ StartStep(s, F, t, v, acc) = CycleState(acc.fresh, a, acc.ended, b, acc.missed)
        /\ EndStep(s, F, t, v, acc) = CycleState(acc.fresh, acc.live, c, d, acc.missed)
    BY <1>3, <2>1, <2>2
  <2> QED
    BY <1>1, <1>2, <1>4, <2>3
<1>5. CASE StartStep(s, F, t, v, acc) # acc /\ EndStep(s, F, t, v, acc) = acc
  <2>1. PICK a, b : StartStep(s, F, t, v, acc) = WithLive(acc, a, b)
    BY <1>1, <1>5
  <2>2. StartStep(s, F, t, v, acc) = CycleState(acc.fresh, a, acc.ended, b, acc.missed)
    BY <1>3, <2>1
  <2> QED
    BY <1>1, <1>5, <2>2
<1>6. CASE StartStep(s, F, t, v, acc) = acc /\ EndStep(s, F, t, v, acc) # acc
  <2>1. PICK a, b : EndStep(s, F, t, v, acc) = WithEnded(acc, a, b)
    BY <1>2, <1>6
  <2>2. EndStep(s, F, t, v, acc) = CycleState(acc.fresh, acc.live, a, b, acc.missed)
    BY <1>3, <2>1
  <2> QED
    BY <1>2, <1>6, <2>2
<1>7. CASE StartStep(s, F, t, v, acc) = acc /\ EndStep(s, F, t, v, acc) = acc
  BY <1>7
<1> QED
  BY <1>4, <1>5, <1>6, <1>7

\* So they pass no stream over.
LEMMA StartAndEndPassNothingOver ==
  ASSUME NEW s, NEW F, NEW t, NEW v, NEW acc, Cycled(acc)
  PROVE  /\ Cycled(StartStep(s, F, t, v, acc)) /\ StartStep(s, F, t, v, acc).missed = acc.missed
         /\ Cycled(EndStep(s, F, t, v, acc)) /\ EndStep(s, F, t, v, acc).missed = acc.missed
<1>1. Cycled(StartStep(s, F, t, v, acc)) /\ StartStep(s, F, t, v, acc).missed = acc.missed
  <2> DEFINE r == StartStep(s, F, t, v, acc)
  <2>1. CASE r = acc
    BY <2>1
  <2>2. CASE \E a, b : r = CycleState(acc.fresh, a, acc.ended, b, acc.missed)
    <3>1. PICK a, b : r = CycleState(acc.fresh, a, acc.ended, b, acc.missed)
      BY <2>2
    <3> HIDE DEF r
    <3>2. Cycled(r) /\ r.missed = acc.missed
      BY <3>1, FieldsOf
    <3> QED
      BY <3>2 DEF r
  <2> QED
    BY <2>1, <2>2, StartAndEndChange
<1>2. Cycled(EndStep(s, F, t, v, acc)) /\ EndStep(s, F, t, v, acc).missed = acc.missed
  <2> DEFINE r == EndStep(s, F, t, v, acc)
  <2>1. CASE r = acc
    BY <2>1
  <2>2. CASE \E a, b : r = CycleState(acc.fresh, acc.live, a, b, acc.missed)
    <3>1. PICK a, b : r = CycleState(acc.fresh, acc.live, a, b, acc.missed)
      BY <2>2
    <3> HIDE DEF r
    <3>2. Cycled(r) /\ r.missed = acc.missed
      BY <3>1, FieldsOf
    <3> QED
      BY <3>2 DEF r
  <2> QED
    BY <2>1, <2>2, StartAndEndChange
<1> QED
  BY <1>1, <1>2

\* Nor does the evaluation of a stream that is reached whenever one of its
\* clauses is.
LEMMA EvaluationPassesNothingOver ==
  ASSUME NEW s \in Out, NEW F, NEW t, NEW v, NEW acc, Cycled(acc),
         \A j \in DOMAIN program[s].clauses : Due(types[Key(s, "clause", j, "eval_pacing")], s, F, t)
                                                => Due(StreamType(s, "eval_pacing"), s, F, t)
  PROVE  Cycled(EvalStep(s, F, t, v, acc)) /\ EvalStep(s, F, t, v, acc).missed = acc.missed
<1> DEFINE r == EvalStep(s, F, t, v, acc)
           M == PassedOver(s, F, t, v)
<1> HIDE DEF r, M
<1>1. Evaluated(s, F, t, v, acc, r)
  BY EvalStepIs DEF r
<1>2. CASE s \notin acc.live
  <2>1. r = acc
    BY <1>2, <1>1 DEF Evaluated
  <2>2. Cycled(r) /\ r.missed = acc.missed
    BY <2>1
  <2> QED
    BY <2>2 DEF r
<1>3. CASE s \in acc.live /\ Due(StreamType(s, "eval_pacing"), s, F, t)
  <2>1. \E f, st : r = CycleState(f, acc.live, acc.ended, st, acc.missed)
    BY <1>3, <1>1 DEF Evaluated
  <2>2. PICK f, st : r = CycleState(f, acc.live, acc.ended, st, acc.missed)
    BY <2>1
  <2>3. Cycled(r) /\ r.missed = acc.missed
    BY <2>2, FieldsOf
  <2> QED
    BY <2>3 DEF r
<1>4. CASE s \in acc.live /\ ~Due(StreamType(s, "eval_pacing"), s, F, t)
  <2>1. M = {}
    BY <1>4 DEF PassedOver, M
  <2> DEFINE m == acc.missed \cup {s : i \in M}
  <2>2. r = CycleState(acc.fresh, acc.live, acc.ended, acc.stale, m)
    BY <1>4, <1>1 DEF Evaluated, M
  <2>3. m = acc.missed
    BY <2>1
  <2> HIDE DEF m
  <2>4. Cycled(r) /\ r.missed = m
    BY <2>2, FieldsOf
  <2> QED
    BY <2>3, <2>4 DEF r
<1> QED
  BY <1>2, <1>3, <1>4
-----------------------------------------------------------------------------
(* Clauses are reached *)

\* In an accepted specification the clauses of a stream let it run only when
\* its own type does.
LEMMA AcceptedIsReached ==
  ASSUME program \in [Out -> Constraints], started \in [Out -> Nat], NEW bd, Solved(program, bd, types),
         NEW F, NEW t \in Nat, NEW s \in Out, NEW j \in DOMAIN program[s].clauses,
         Due(types[Key(s, "clause", j, "eval_pacing")], s, F, t)
  PROVE  Due(StreamType(s, "eval_pacing"), s, F, t)
<1> DEFINE D == InCycle(s, F, t)
<1>1. Filter(D) /\ Joins(D)
  BY LatticesAreDue
<1>2. Solution(program, bd) /\ StreamType(s, "eval_pacing") = types[EvalKey(s, "stream", 0)]
  BY DEF Solved, StreamType, StreamKey, EvalKey
<1>3. ASSUME NEW k \in EvalKeys(program) PROVE Rated(bd, k) \in RateType
  <2>1. bd[k] \in SUBSET RateType
    BY <1>2 DEF Solution
  <2> QED
    BY <1>1, <2>1, MeetIs DEF Rated
<1>4. /\ types[EvalKey(s, "clause", j)] \in RateType
      /\ types[EvalKey(s, "stream", 0)] \in RateType /\ types[EvalKey(s, "stream", 0)] # AnyRate
  BY <1>3, StreamHasKeys DEF Solved
<1>5. types[EvalKey(s, "clause", j)] \in D
  BY <1>4 DEF InCycle, EvalKey
<1>6. types[EvalKey(s, "stream", 0)] \in D
  BY <1>1, <1>5, ClauseIsReached
<1> QED
  BY <1>2, <1>4, <1>6, RateKinds DEF InCycle

\* The invariant of analysis and runtime.
Accepted == phase = "accepted" => \E bd : Solved(program, bd, types)

PacingInv ==
  /\ program \in [Out -> Constraints] /\ phase \in {"infer", "accepted", "rejected"}
  /\ tick \in Nat /\ started \in [Out -> Nat]
  /\ phase = "infer" => Inferred(program, bounds)
  /\ Accepted
  /\ ClausesAreReached

\* A cycle passes no clause over.
LEMMA CyclePassesNothingOver ==
  ASSUME PacingInv, phase = "accepted", NEW F, NEW t \in Nat, NEW v
  PROVE  CycleResult(F, t, v).missed = {}
<1> DEFINE Step(s, acc) == EvalStep(s, F, t, v, StartStep(s, F, t, v, acc))
<1>1. PICK L, X : IsLayered(L, F, t, v) /\ IsEnded(X, L, F, t, v) /\ CycleResult(F, t, v) = X[N]
  BY CycleSteps
<1>2. PICK bd : Solved(program, bd, types)
  BY DEF PacingInv, Accepted
<1>3. \A s \in Out : \A j \in DOMAIN program[s].clauses :
        Due(types[Key(s, "clause", j, "eval_pacing")], s, F, t) => Due(StreamType(s, "eval_pacing"), s, F, t)
  BY <1>2, AcceptedIsReached DEF PacingInv
<1>4. N \in Nat \ {0}
  BY PacingAssumption
<1> DEFINE Good(acc) == Cycled(acc) /\ acc.missed = {}
<1>5. ASSUME NEW s \in Out, NEW acc, Good(acc) PROVE Good(Step(s, acc)) /\ Good(EndStep(s, F, t, v, acc))
  <2> DEFINE first == StartStep(s, F, t, v, acc)
  <2>1. Good(first) /\ Good(EndStep(s, F, t, v, acc))
    BY <1>5, StartAndEndPassNothingOver
  <2> HIDE DEF first
  <2>2. Good(EvalStep(s, F, t, v, first))
    BY <1>3, <2>1, EvaluationPassesNothingOver
  <2> QED
    BY <2>1, <2>2 DEF first
<1> HIDE DEF Step
<1> DEFINE Layered == {m \in Nat : m <= N => Good(L[m])}
           Ended == {m \in Nat : m <= N => Good(X[m])}
<1>6. 0 \in Layered
  <2>1. L[0] = AtBegin(F) /\ AtBegin(F) = CycleState(F, live, {}, {}, {})
    BY <1>1 DEF IsLayered, AtBegin, CycleState
  <2>2. Good(L[0])
    BY <2>1, FieldsOf
  <2> HIDE DEF Good
  <2> QED
    BY <2>2
<1>7. ASSUME NEW m \in Layered PROVE m + 1 \in Layered
  <2> SUFFICES ASSUME m + 1 <= N PROVE Good(L[m + 1])
    OBVIOUS
  <2>1. m + 1 \in Out /\ (m + 1) - 1 = m /\ m <= N
    BY <1>4 DEF Out
  <2>2. L[m + 1] = Step(m + 1, L[m])
    BY <1>1, <2>1 DEF IsLayered, Step
  <2>3. Good(L[m])
    BY <2>1
  <2> HIDE DEF Good, Layered
  <2> QED
    BY <1>5, <2>1, <2>2, <2>3
<1>8. Layered = Nat
  <2>1. Layered \in SUBSET Nat
    OBVIOUS
  <2> HIDE DEF Layered
  <2> QED
    BY <1>6, <1>7, <2>1, Induction
<1>9. Good(L[N])
  <2>1. N \in Layered
    <3> HIDE DEF Layered
    <3> QED
      BY <1>4, <1>8
  <2> HIDE DEF Good
  <2> QED
    BY <1>4, <2>1
<1>10. 0 \in Ended
  BY <1>1, <1>9 DEF IsEnded
<1>11. ASSUME NEW m \in Ended PROVE m + 1 \in Ended
  <2> SUFFICES ASSUME m + 1 <= N PROVE Good(X[m + 1])
    OBVIOUS
  <2>1. m + 1 \in Out /\ (m + 1) - 1 = m /\ m <= N
    BY <1>4 DEF Out
  <2>2. X[m + 1] = EndStep(m + 1, F, t, v, X[m])
    BY <1>1, <2>1 DEF IsEnded
  <2>3. Good(X[m])
    BY <2>1
  <2> HIDE DEF Good, Ended
  <2> QED
    BY <1>5, <2>1, <2>2, <2>3
<1>12. Ended = Nat
  <2>1. Ended \in SUBSET Nat
    OBVIOUS
  <2> HIDE DEF Ended
  <2> QED
    BY <1>10, <1>11, <2>1, Induction
<1>13. Good(X[N])
  <2>1. N \in Ended
    <3> HIDE DEF Ended
    <3> QED
      BY <1>4, <1>12
  <2> HIDE DEF Good
  <2> QED
    BY <1>4, <2>1
<1> QED
  BY <1>1, <1>13

\* What a cycle leaves behind.
LEMMA CycleKeepsInv ==
  ASSUME PacingInv, NEW F, NEW t \in Nat, Cycle(F, t)
  PROVE  PacingInv'
<1>1. PICK v \in SUBSET Leaves :
        LET r == CycleResult(F, t, v)
        IN  /\ started' = [s \in Out |-> IF s \in r.live \ live THEN t ELSE started[s]]
            /\ missed' = r.missed
  BY DEF Cycle
<1>2. started' \in [Out -> Nat]
  BY <1>1 DEF PacingInv
<1>3. phase = "accepted" /\ tick' = t /\ UNCHANGED <<program, phase, bounds, types>>
  BY DEF Cycle
<1>4. missed' = {}
  BY <1>1, <1>3, CyclePassesNothingOver
<1>5. PICK bd : Solved(program, bd, types)
  BY <1>3 DEF PacingInv, Accepted
<1>6. Accepted'
  BY <1>3, <1>5 DEF Accepted
<1> QED
  BY <1>2, <1>3, <1>4, <1>6 DEF PacingInv, ClausesAreReached

\* The invariant holds: the solver stays within what the constraints say, and
\* the types it ends with are those of a solution that passed the checks.
LEMMA PacingInvariant == Spec => []PacingInv
<1>1. Init => PacingInv
  <2> SUFFICES ASSUME Init PROVE PacingInv
    OBVIOUS
  <2>1. program \in [Out -> Constraints]
    BY PacingAssumption DEF Init
  <2>2. phase = "infer" /\ tick = 0 /\ started = [s \in Out |-> 0] /\ missed = {}
    BY DEF Init
  <2>3. Inferred(program, bounds)
    BY InferredAtFirst
  <2> QED
    BY <2>1, <2>2, <2>3 DEF PacingInv, Accepted, ClausesAreReached
<1>2. PacingInv /\ [Next]_vars => PacingInv'
  <2> SUFFICES ASSUME PacingInv, [Next]_vars PROVE PacingInv'
    OBVIOUS
  <2>1. CASE Propagate
    <3>1. phase = "infer" /\ UNCHANGED <<program, phase, types, tick, started, missed>>
      BY <2>1 DEF Propagate, runtime_vars
    <3>2. Inferred(program, bounds')
      BY <2>1, <3>1, PropagateInfers DEF PacingInv
    <3> QED
      BY <3>1, <3>2 DEF PacingInv, Accepted, ClausesAreReached
  <2>2. CASE Solve
    <3>1. phase = "infer" /\ phase' \in {"accepted", "rejected"} /\ UNCHANGED <<program, tick, started, missed>>
      BY <2>2 DEF Solve, runtime_vars
    <3>2. phase' = "accepted" => Solved(program, bounds, types')
      BY <2>2, <3>1, SolveAccepts DEF PacingInv
    <3>3. Accepted'
      BY <3>1, <3>2 DEF Accepted
    <3> QED
      BY <3>1, <3>3 DEF PacingInv, ClausesAreReached
  <2>3. CASE EventCycle
    <3>1. PICK F \in SUBSET Inputs \ {{}} : Cycle(F, tick)
      BY <2>3 DEF EventCycle
    <3> QED
      BY <3>1, CycleKeepsInv DEF PacingInv
  <2>4. CASE TimeCycle
    <3>1. Cycle({}, tick + 1) /\ tick + 1 \in Nat
      BY <2>4 DEF TimeCycle, PacingInv
    <3> QED
      BY <3>1, CycleKeepsInv
  <2>5. CASE UNCHANGED vars
    BY <2>5 DEF vars, PacingInv, Accepted, ClausesAreReached
  <2> QED
    BY <2>1, <2>2, <2>3, <2>4, <2>5 DEF Next
<1> QED
  BY <1>1, <1>2, PTL DEF Spec

\* In no specification that the analysis accepts is a clause passed over whose
\* own rate is due: a stream's type is due whenever the type of one of its
\* clauses is, for one clause as for the join of several.
THEOREM EveryClauseIsReached == Spec => []ClausesAreReached
<1>1. PacingInv => ClausesAreReached
  BY DEF PacingInv
<1> QED
  BY <1>1, PacingInvariant, PTL
=============================================================================
