----------------------------- MODULE ClockProofs -----------------------------
(***************************************************************************)
(* Proofs about Clock: a verdict carries the time of its event whatever    *)
(* the codecs of input and output are, and deadlines are reported in       *)
(* order, each with its own time and none before it.                       *)
(*                                                                         *)
(* The invariant says which absolute time the anchor holds (the start time *)
(* that was asked for, the first event of an epoch codec, or the start of  *)
(* the session), that a codec with a memory has accumulated the events     *)
(* that were reported, and that the next deadline is the one after those   *)
(* that were.  The verdicts are a parameter of the lemmas, since a step    *)
(* adds several at once.                                                   *)
(***************************************************************************)
EXTENDS Clock, CommonLemmas, SequenceTheorems
-----------------------------------------------------------------------------
(* Sequences of verdicts *)

Records == [source : {"Event", "Timed"}, ts : Nat, raw : Nat]

\* From, Upto, Raws and Zero of Clock, for any sequence of verdicts.
At(vs, source) == {i \in DOMAIN vs : vs[i].source = source}
AtUpto(vs, source, i) == {j \in At(vs, source) : j <= i}
RawsOf(vs) == [i \in DOMAIN vs |-> vs[i].raw]
ZeroOf(s, vs) == IF s.start # {} THEN CHOOSE t \in s.start : TRUE
                 ELSE IF Codec(s) = "Epoch" THEN vs[1].raw ELSE Boot

\* TrueTime, for any verdicts and time zero.
TimeAt(s, vs, zero, i) ==
  CASE Codec(s) = "Relative"  -> zero + vs[i].raw
    [] Codec(s) = "Delta"     -> zero + SumFunctionOnSet(RawsOf(vs), AtUpto(vs, "Event", i))
    [] Codec(s) = "FixedStep" -> zero + Cardinality(AtUpto(vs, "Event", i)) * Step
    [] OTHER                  -> vs[i].raw

\* What the output codec makes of a time.
Encoded(s, ts, zero) == IF s.output = "Relative" THEN ts ELSE ts + zero

\* TimesAsGiven and TimedOnTime, for any verdicts and time zero.
EventsTimed(s, vs, zero) ==
  \A i \in At(vs, "Event") :
    vs[i].ts = IF s.output = "Epoch" THEN TimeAt(s, vs, zero, i) ELSE TimeAt(s, vs, zero, i) - zero

DeadlinesTimed(s, vs, zero) ==
  \A i \in At(vs, "Timed") :
    LET time == Cardinality(AtUpto(vs, "Timed", i)) * Period
    IN  vs[i].ts = Encoded(s, time, zero) /\ (s.online => vs[i].raw >= zero + time)

\* What a codec with a memory has accumulated when vs were sent.
Total(s, vs, acc) ==
  /\ Codec(s) = "Delta" => acc = SumFunctionOnSet(RawsOf(vs), At(vs, "Event"))
  /\ Codec(s) = "FixedStep" => acc = Cardinality(At(vs, "Event")) * Step

\* us starts with vs.
Continues(vs, us) == Len(vs) <= Len(us) /\ \A i \in 1 .. Len(vs) : us[i] = vs[i]

\* The positions of the verdicts of a source are finitely many natural numbers,
\* and the timestamps at them can be added up.
LEMMA AtFinite ==
  ASSUME NEW vs \in Seq(Records), NEW source, NEW i \in Nat
  PROVE  /\ At(vs, source) \subseteq 1 .. Len(vs)
         /\ IsFiniteSet(At(vs, source)) /\ Cardinality(At(vs, source)) \in Nat
         /\ IsFiniteSet(AtUpto(vs, source, i)) /\ Cardinality(AtUpto(vs, source, i)) \in Nat
         /\ Summable(RawsOf(vs), At(vs, source)) /\ Summable(RawsOf(vs), AtUpto(vs, source, i))
<1>1. At(vs, source) \subseteq 1 .. Len(vs) /\ AtUpto(vs, source, i) \subseteq At(vs, source)
  BY DEF At, AtUpto
<1>2. IsFiniteSet(1 .. Len(vs))
  BY FS_Interval
<1>3. IsFiniteSet(At(vs, source)) /\ IsFiniteSet(AtUpto(vs, source, i))
  BY <1>1, <1>2, FS_Subset
<1>4. \A j \in 1 .. Len(vs) : RawsOf(vs)[j] \in Nat
  <2>1. \A j \in 1 .. Len(vs) : j \in DOMAIN vs /\ vs[j] \in Records
    OBVIOUS
  <2> QED
    BY <2>1 DEF RawsOf, Records
<1> QED
  BY <1>1, <1>3, <1>4, FS_CardinalityType DEF Summable

\* What verdicts say of a position does not depend on the ones that come later.
LEMMA EarlierStay ==
  ASSUME NEW s, NEW zero, NEW vs \in Seq(Records), NEW us \in Seq(Records), Continues(vs, us),
         NEW i \in 1 .. Len(vs)
  PROVE  /\ \A source : AtUpto(us, source, i) = AtUpto(vs, source, i)
         /\ TimeAt(s, us, zero, i) = TimeAt(s, vs, zero, i)
<1>1. i \in Nat /\ 1 .. Len(vs) \subseteq 1 .. Len(us) /\ DOMAIN vs = 1 .. Len(vs) /\ DOMAIN us = 1 .. Len(us)
  BY DEF Continues
<1>2. ASSUME NEW source PROVE AtUpto(us, source, i) = AtUpto(vs, source, i)
  <2>1. \A j \in 1 .. Len(us) : j <= i => j \in 1 .. Len(vs) /\ us[j] = vs[j]
    BY DEF Continues
  <2> QED
    BY <1>1, <2>1 DEF AtUpto, At
<1>3. SumFunctionOnSet(RawsOf(us), AtUpto(us, "Event", i)) = SumFunctionOnSet(RawsOf(vs), AtUpto(vs, "Event", i))
  <2> DEFINE S == AtUpto(vs, "Event", i)
  <2>1. Summable(RawsOf(vs), S) /\ S \subseteq 1 .. Len(vs)
    BY <1>1, AtFinite DEF AtUpto
  <2>2. \A j \in 1 .. Len(vs) : RawsOf(us)[j] = RawsOf(vs)[j]
    BY <1>1 DEF Continues, RawsOf
  <2>3. \A j \in S : RawsOf(us)[j] = RawsOf(vs)[j]
    BY <2>1, <2>2
  <2> HIDE DEF S
  <2>4. SumFunctionOnSet(RawsOf(us), S) = SumFunctionOnSet(RawsOf(vs), S)
    BY <2>1, <2>3, SumAgrees
  <2> QED
    BY <1>2, <2>4 DEF S
<1>4. us[i] = vs[i]
  BY DEF Continues
<1>5. TimeAt(s, us, zero, i) = TimeAt(s, vs, zero, i)
  BY <1>2, <1>3, <1>4 DEF TimeAt
<1> QED
  BY <1>2, <1>5

\* us continues vs by deadlines only.
AddsDeadlines(vs, us) ==
  Continues(vs, us) /\ \A i \in 1 .. Len(us) : i > Len(vs) => us[i].source = "Timed"

\* Deadlines leave the events and are counted on.
LEMMA CountDeadlines ==
  ASSUME NEW vs \in Seq(Records), NEW us \in Seq(Records), AddsDeadlines(vs, us)
  PROVE  /\ At(us, "Event") = At(vs, "Event")
         /\ \A k \in 1 .. Len(us) : k > Len(vs) =>
              Cardinality(AtUpto(us, "Timed", k)) = Cardinality(At(vs, "Timed")) + (k - Len(vs))
         /\ Cardinality(At(us, "Timed")) = Cardinality(At(vs, "Timed")) + (Len(us) - Len(vs))
<1> DEFINE m == Len(vs)
           n == Len(us)
<1>1. m \in Nat /\ n \in Nat /\ m <= n /\ DOMAIN vs = 1 .. m /\ DOMAIN us = 1 .. n
  BY DEF AddsDeadlines, Continues
<1>2. /\ \A i \in 1 .. n : i <= m => i \in 1 .. m /\ us[i] = vs[i]
      /\ \A i \in 1 .. n : i > m => us[i].source = "Timed"
      /\ \A i \in 1 .. m : i \in 1 .. n
  BY <1>1 DEF AddsDeadlines, Continues
<1>3. At(us, "Event") = At(vs, "Event")
  BY <1>1, <1>2 DEF At
<1>4. ASSUME NEW k \in m .. n
      PROVE  Cardinality(AtUpto(us, "Timed", k)) = Cardinality(At(vs, "Timed")) + (k - m)
  <2> DEFINE S == At(vs, "Timed")
             I == (m + 1) .. k
  <2>1. AtUpto(us, "Timed", k) = S \cup I
    <3>1. \A i \in 1 .. n : i <= k => i \in 1 .. m \/ i \in I
      BY <1>1
    <3>2. \A i \in I : i \in 1 .. n /\ i > m /\ i <= k
      BY <1>1
    <3>3. \A i \in 1 .. m : i <= k
      BY <1>1
    <3> HIDE DEF I, m, n
    <3> QED
      BY <1>1, <1>2, <3>1, <3>2, <3>3 DEF AtUpto, At
  <2>2. S \cap I = {}
    <3>1. S \subseteq 1 .. m
      BY <1>1 DEF At
    <3> HIDE DEF S
    <3> QED
      BY <1>1, <3>1
  <2>3. IsFiniteSet(S) /\ IsFiniteSet(I) /\ Cardinality(I) = k - m /\ Cardinality(S) \in Nat
    <3>1. IsFiniteSet(S) /\ Cardinality(S) \in Nat
      BY <1>1, AtFinite
    <3> DEFINE first == m + 1
    <3>2. first \in Int /\ k \in Int
      BY <1>1
    <3> HIDE DEF first
    <3>3. IsFiniteSet(first .. k) /\ Cardinality(first .. k) = IF first > k THEN 0 ELSE k - first + 1
      BY <3>2, FS_Interval
    <3>4. (IF first > k THEN 0 ELSE k - first + 1) = k - m
      <4>1. m \in Nat /\ k \in Nat /\ m <= k
        BY <1>1
      <4> HIDE DEF m
      <4> QED
        BY <4>1 DEF first
    <3>5. first .. k = I
      BY DEF first
    <3> HIDE DEF I, S, m
    <3> QED
      BY <3>1, <3>3, <3>4, <3>5
  <2> HIDE DEF S, I
  <2>4. Cardinality(S \cup I) = Cardinality(S) + Cardinality(I) - Cardinality(S \cap I)
    BY <2>3, FS_Union
  <2>5. Cardinality(S \cap I) = 0
    BY <2>2, FS_EmptySet
  <2>6. Cardinality(AtUpto(us, "Timed", k)) = Cardinality(S) + (k - m)
    <3> DEFINE d == k - m
    <3>1. d \in Nat
      BY <1>1
    <3>2. Cardinality(I) = d
      BY <2>3
    <3> HIDE DEF d
    <3>3. Cardinality(S \cup I) = Cardinality(S) + d
      BY <2>3, <2>4, <2>5, <3>1, <3>2
    <3> QED
      BY <2>1, <3>3 DEF d
  <2> QED
    BY <2>6 DEF S
<1>5. At(us, "Timed") = AtUpto(us, "Timed", n)
  BY <1>1 DEF At, AtUpto
<1>6. n \in m .. n /\ \A k \in 1 .. n : k > m => k \in m .. n
  BY <1>1
<1> QED
  BY <1>3, <1>4, <1>5, <1>6

\* us continues vs by one event.
AddsEvent(vs, us) ==
  Continues(vs, us) /\ Len(us) = Len(vs) + 1 /\ us[Len(us)].source = "Event"

\* An event leaves the deadlines, and is counted and added up.
LEMMA CountEvent ==
  ASSUME NEW vs \in Seq(Records), NEW us \in Seq(Records), AddsEvent(vs, us)
  PROVE  /\ At(us, "Timed") = At(vs, "Timed")
         /\ At(us, "Event") = AtUpto(us, "Event", Len(us))
         /\ Cardinality(At(us, "Event")) = Cardinality(At(vs, "Event")) + 1
         /\ SumFunctionOnSet(RawsOf(us), At(us, "Event"))
              = SumFunctionOnSet(RawsOf(vs), At(vs, "Event")) + us[Len(us)].raw
<1> DEFINE m == Len(vs)
           S == At(vs, "Event")
<1>1. m \in Nat /\ m + 1 \in Nat /\ Len(us) = m + 1 /\ DOMAIN vs = 1 .. m /\ DOMAIN us = 1 .. (m + 1)
  BY DEF AddsEvent
<1>2. /\ \A i \in 1 .. (m + 1) : i # m + 1 => i \in 1 .. m /\ us[i] = vs[i]
      /\ \A i \in 1 .. m : i \in 1 .. (m + 1) /\ i # m + 1
      /\ m + 1 \in 1 .. (m + 1) /\ us[m + 1].source = "Event"
  BY <1>1 DEF AddsEvent, Continues
<1>3. At(us, "Timed") = At(vs, "Timed") /\ At(us, "Event") = S \cup {m + 1}
  <2> HIDE DEF m
  <2> QED
    BY <1>1, <1>2 DEF At
<1>4. At(us, "Event") = AtUpto(us, "Event", Len(us))
  BY <1>1 DEF At, AtUpto
<1>5. m + 1 \notin S /\ S \subseteq 1 .. m
  BY <1>1 DEF At
<1>6. IsFiniteSet(S) /\ Summable(RawsOf(vs), S) /\ Summable(RawsOf(us), S \cup {m + 1})
  BY <1>1, <1>3, AtFinite
<1>7. \A i \in S : RawsOf(us)[i] = RawsOf(vs)[i]
  BY <1>1, <1>2, <1>5 DEF RawsOf
<1>8. RawsOf(us)[m + 1] = us[Len(us)].raw
  BY <1>1 DEF RawsOf
<1> HIDE DEF S, m
<1>9. Cardinality(S \cup {m + 1}) = Cardinality(S) + 1
  BY <1>5, <1>6, FS_AddElement
<1>10. SumFunctionOnSet(RawsOf(us), S) = SumFunctionOnSet(RawsOf(vs), S)
  BY <1>6, <1>7, SumAgrees
<1>11. SumFunctionOnSet(RawsOf(us), S \cup {m + 1}) = SumFunctionOnSet(RawsOf(us), S) + RawsOf(us)[m + 1]
  BY <1>5, <1>6, SumAdd
<1> QED
  BY <1>3, <1>4, <1>8, <1>9, <1>10, <1>11 DEF S
-----------------------------------------------------------------------------
(* What a step adds *)

\* What decode makes of an event with a raw timestamp.
EventTime(c, ts, zero, acc, raw) ==
  /\ c = "Relative" => ts = raw
  /\ c = "Delta" => ts = acc + raw
  /\ c = "FixedStep" => ts = acc + Step
  /\ c \in {"Epoch", "WallClock"} => ts + zero = raw

\* Deadlines that carry the times that are due next, and are not early, keep
\* what the verdicts say right.
LEMMA DeadlinesAdded ==
  ASSUME NEW s, NEW zero \in Nat, NEW vs \in Seq(Records), NEW us \in Seq(Records), AddsDeadlines(vs, us),
         EventsTimed(s, vs, zero), DeadlinesTimed(s, vs, zero),
         \A k \in 1 .. Len(us) : k > Len(vs) =>
           LET time == (Cardinality(At(vs, "Timed")) + (k - Len(vs))) * Period
           IN  us[k].ts = Encoded(s, time, zero) /\ (s.online => us[k].raw >= zero + time)
  PROVE  /\ EventsTimed(s, us, zero) /\ DeadlinesTimed(s, us, zero)
         /\ \A acc : Total(s, vs, acc) => Total(s, us, acc)
<1>1. Continues(vs, us) /\ At(us, "Event") = At(vs, "Event")
  BY CountDeadlines DEF AddsDeadlines
<1>2. At(vs, "Event") \subseteq 1 .. Len(vs) /\ \A i \in 1 .. Len(vs) : us[i] = vs[i]
  BY <1>1 DEF At, Continues
<1>3. EventsTimed(s, us, zero)
  <2>1. \A i \in 1 .. Len(vs) : TimeAt(s, us, zero, i) = TimeAt(s, vs, zero, i)
    BY <1>1, EarlierStay
  <2> SUFFICES ASSUME NEW i \in At(vs, "Event")
               PROVE  us[i].ts = IF s.output = "Epoch" THEN TimeAt(s, us, zero, i) ELSE TimeAt(s, us, zero, i) - zero
    BY <1>1 DEF EventsTimed
  <2>2. i \in 1 .. Len(vs) /\ us[i] = vs[i]
    BY <1>2
  <2> QED
    BY <2>1, <2>2 DEF EventsTimed
<1>4. DeadlinesTimed(s, us, zero)
  <2> SUFFICES ASSUME NEW i \in At(us, "Timed")
               PROVE  LET time == Cardinality(AtUpto(us, "Timed", i)) * Period
                      IN  us[i].ts = Encoded(s, time, zero) /\ (s.online => us[i].raw >= zero + time)
    BY DEF DeadlinesTimed
  <2>1. i \in 1 .. Len(us) /\ i \in Nat /\ Len(vs) \in Nat
    BY DEF At
  <2>2. CASE i <= Len(vs)
    <3>1. i \in 1 .. Len(vs) /\ us[i] = vs[i]
      BY <1>2, <2>1, <2>2
    <3>2. AtUpto(us, "Timed", i) = AtUpto(vs, "Timed", i)
      BY <1>1, <3>1, EarlierStay
    <3>3. i \in At(vs, "Timed")
      BY <3>1 DEF At
    <3> QED
      BY <3>1, <3>2, <3>3 DEF DeadlinesTimed
  <2>3. CASE i > Len(vs)
    <3>1. Cardinality(AtUpto(us, "Timed", i)) = Cardinality(At(vs, "Timed")) + (i - Len(vs))
      BY <2>1, <2>3, CountDeadlines
    <3> QED
      BY <2>1, <2>3, <3>1
  <2> QED
    BY <2>1, <2>2, <2>3
<1>5. SumFunctionOnSet(RawsOf(us), At(vs, "Event")) = SumFunctionOnSet(RawsOf(vs), At(vs, "Event"))
  <2>1. Summable(RawsOf(vs), At(vs, "Event"))
    BY AtFinite
  <2>2. \A i \in At(vs, "Event") : RawsOf(us)[i] = RawsOf(vs)[i]
    <3>1. \A i \in 1 .. Len(vs) : i \in DOMAIN us /\ i \in DOMAIN vs
      BY <1>1 DEF Continues
    <3> QED
      BY <1>2, <3>1 DEF RawsOf
  <2> QED
    BY <2>1, <2>2, SumAgrees
<1> QED
  BY <1>1, <1>3, <1>4, <1>5 DEF Total

\* An event that was decoded keeps what the verdicts say right.
LEMMA EventAdded ==
  ASSUME NEW s, s.output \in OutputCodecs, NEW zero \in Nat, NEW vs \in Seq(Records), NEW us \in Seq(Records),
         AddsEvent(vs, us), EventsTimed(s, vs, zero), DeadlinesTimed(s, vs, zero),
         NEW acc \in Nat, Total(s, vs, acc), NEW ts \in Nat,
         EventTime(Codec(s), ts, zero, acc, us[Len(us)].raw), us[Len(us)].ts = Encoded(s, ts, zero),
         Codec(s) \in {"Relative", "Delta", "FixedStep", "Epoch", "WallClock"}
  PROVE  /\ EventsTimed(s, us, zero) /\ DeadlinesTimed(s, us, zero)
         /\ \A new : (Codec(s) \in {"Delta", "FixedStep"} => new = ts) => Total(s, us, new)
<1> DEFINE m == Len(vs)
           e == us[Len(us)]
<1>1. Continues(vs, us) /\ At(us, "Timed") = At(vs, "Timed")
  BY CountEvent DEF AddsEvent
<1>2. At(vs, "Timed") \subseteq 1 .. m /\ At(vs, "Event") \subseteq 1 .. m /\ \A i \in 1 .. m : us[i] = vs[i]
  BY <1>1 DEF At, Continues
<1>3. m \in Nat /\ Len(us) = m + 1 /\ Len(us) \in 1 .. Len(us) /\ e \in Records
  BY DEF AddsEvent
<1>4. DeadlinesTimed(s, us, zero)
  BY <1>1, <1>2, EarlierStay DEF DeadlinesTimed
<1>5. /\ Codec(s) = "Delta" => SumFunctionOnSet(RawsOf(us), At(us, "Event")) = ts
      /\ Codec(s) = "FixedStep" => Cardinality(At(us, "Event")) * Step = ts
  <2>1. CASE Codec(s) = "Delta"
    BY <2>1, CountEvent DEF Total, EventTime
  <2>2. CASE Codec(s) = "FixedStep"
    <3> DEFINE c == Cardinality(At(vs, "Event"))
    <3>1. c \in Nat /\ Step \in Nat /\ ts = c * Step + Step
      BY <2>2, AtFinite, ClockAssumption DEF Total, EventTime
    <3>2. Cardinality(At(us, "Event")) = c + 1
      BY CountEvent
    <3> HIDE DEF c
    <3>3. (c + 1) * Step = c * Step + Step
      BY <3>1
    <3> QED
      BY <2>2, <3>1, <3>2, <3>3
  <2> QED
    BY <2>1, <2>2
<1>6. TimeAt(s, us, zero, m + 1) = zero + ts
  <2>1. AtUpto(us, "Event", m + 1) = At(us, "Event")
    BY <1>3, CountEvent
  <2>2. e.raw \in Nat /\ us[m + 1] = e
    BY <1>3 DEF Records
  <2>3. TimeAt(s, us, zero, m + 1) =
          CASE Codec(s) = "Relative"  -> zero + e.raw
            [] Codec(s) = "Delta"     -> zero + ts
            [] Codec(s) = "FixedStep" -> zero + ts
            [] OTHER                  -> e.raw
    BY <1>5, <2>1, <2>2 DEF TimeAt
  <2>4. EventTime(Codec(s), ts, zero, acc, e.raw)
    OBVIOUS
  <2> HIDE DEF e
  <2> QED
    BY <2>2, <2>3, <2>4 DEF EventTime
<1>7. EventsTimed(s, us, zero)
  <2> SUFFICES ASSUME NEW i \in At(us, "Event")
               PROVE  us[i].ts = IF s.output = "Epoch" THEN TimeAt(s, us, zero, i) ELSE TimeAt(s, us, zero, i) - zero
    BY DEF EventsTimed
  <2>1. i \in 1 .. m \/ i = m + 1
    BY <1>3 DEF At
  <2>2. CASE i \in 1 .. m
    <3>1. i \in At(vs, "Event") /\ us[i] = vs[i]
      BY <1>2, <2>2 DEF At
    <3> QED
      BY <1>1, <2>2, <3>1, EarlierStay DEF EventsTimed
  <2>3. CASE i = m + 1
    <3>1. us[i].ts = Encoded(s, ts, zero)
      BY <1>3, <2>3
    <3>2. TimeAt(s, us, zero, i) = zero + ts
      BY <1>6, <2>3
    <3>3. zero + ts - zero = ts /\ zero + ts = ts + zero
      OBVIOUS
    <3> QED
      BY <3>1, <3>2, <3>3 DEF Encoded, OutputCodecs
  <2> QED
    BY <2>1, <2>2, <2>3
<1> QED
  BY <1>4, <1>5, <1>7 DEF Total

\* The next deadline stays or moves on by whole periods; a time of zero has
\* none to run.
LEMMA FlushedIs ==
  ASSUME NEW c \in Nat, due = (c + 1) * Period, NEW ts \in Nat, NEW inclusive \in BOOLEAN
  PROVE  \E n \in Nat : /\ Flushed(ts, inclusive) = due + n * Period
                        /\ inclusive /\ ts = 0 => n = 0
<1> DEFINE d == c + 1
<1>1. Period \in Nat \ {0} /\ d \in Nat /\ due \in Nat /\ due = d * Period
  BY ClockAssumption
<1> HIDE DEF d
<1>2. ASSUME NEW q \in Nat, q * Period >= due, NEW n \in Nat, n = q - d
      PROVE  q * Period = due + n * Period
  <2>1. q = d + n
    BY <1>1, <1>2
  <2>2. (d + n) * Period = d * Period + n * Period
    BY <1>1
  <2> QED
    BY <1>1, <2>1, <2>2
<1>3. ASSUME NEW q \in Nat, q * Period >= due PROVE \E n \in Nat : q * Period = due + n * Period
  <2>1. ~(q < d)
    <3> SUFFICES ASSUME q < d PROVE FALSE
      OBVIOUS
    <3>1. q * Period + Period <= d * Period
      BY <1>1, ProductGrows
    <3>2. q * Period \in Nat
      BY <1>1
    <3> QED
      BY <1>1, <1>3, <3>1, <3>2
  <2>2. q - d \in Nat
    BY <1>1, <2>1
  <2> QED
    BY <1>2, <1>3, <2>2
<1>4. 0 \in Nat /\ due + 0 * Period = due
  BY <1>1
<1>5. CASE inclusive
  <2>1. CASE ts <= due
    BY <1>4, <1>5, <2>1 DEF Flushed
  <2>2. CASE ~(ts <= due)
    <3> DEFINE a == ts + Period - 1
               q == a \div Period
    <3>1. a \in Nat
      BY <1>1
    <3>2. q \in Nat /\ a % Period \in 0 .. Period - 1 /\ a = q * Period + (a % Period)
      BY <1>1, <3>1, ModIs
    <3>3. q * Period \in Nat
      BY <1>1, <3>2
    <3>4. a = ts + Period - 1
      OBVIOUS
    <3>5. Flushed(ts, inclusive) = q * Period /\ ts # 0
      BY <1>1, <1>5, <2>2 DEF Flushed
    <3> HIDE DEF a, q
    <3>6. q * Period >= due
      BY <1>1, <2>2, <3>2, <3>3, <3>4
    <3> QED
      BY <1>3, <3>2, <3>5, <3>6
  <2> QED
    BY <2>1, <2>2
<1>6. CASE ~inclusive
  <2>1. CASE ts < due
    BY <1>4, <1>6, <2>1 DEF Flushed
  <2>2. CASE ~(ts < due)
    <3> DEFINE p == ts \div Period
               q == p + 1
    <3>1. p \in Nat /\ ts % Period \in 0 .. Period - 1 /\ ts = p * Period + (ts % Period)
      BY <1>1, ModIs
    <3>2. q * Period = p * Period + Period /\ p * Period \in Nat /\ q \in Nat
      BY <1>1, <3>1
    <3>3. Flushed(ts, inclusive) = q * Period
      BY <1>6, <2>2 DEF Flushed
    <3> HIDE DEF p, q
    <3>4. q * Period >= due
      BY <1>1, <2>2, <3>1, <3>2
    <3> QED
      BY <1>3, <1>6, <3>2, <3>3, <3>4
  <2> QED
    BY <2>1, <2>2
<1> QED
  BY <1>5, <1>6
-----------------------------------------------------------------------------
(* The inductive invariant *)

Phases == {"setup", "running", "done", "failed", "panicked"}

TypeInv ==
  /\ setup \in Setups /\ phase \in Phases /\ {wall, accumulated, recorded, due} \subseteq Nat
  /\ last = {} \/ \E r \in Nat : last = {r}
  /\ verdicts \in Seq(Records) /\ item \in {"none", "input", "timeout"}

\* Nothing has happened before the codecs are set up.
SetupInv ==
  phase = "setup" => wall = Boot /\ anchor = {} /\ accumulated = 0 /\ last = {} /\ item = "none" /\ verdicts = <<>>

\* An epoch codec that was not told when time starts waits for an event.
Waiting(s, vs) == s.start = {} /\ Codec(s) = "Epoch" /\ vs = <<>>

AnchorInv ==
  /\ phase # "setup" => anchor = IF Waiting(setup, verdicts) THEN {} ELSE {ZeroOf(setup, verdicts)}
  /\ setup.start = {} /\ codec = "Epoch" /\ verdicts # <<>> => verdicts[1].source = "Event"

TotalInv == phase = "running" => Total(setup, verdicts, accumulated)

DueInv == due = (Cardinality(At(verdicts, "Timed")) + 1) * Period

\* The last timestamp can be decoded once more.
LastInv ==
  phase = "running" /\ last # {} =>
    verdicts # <<>> /\ (codec = "Epoch" => \A r \in last, a \in anchor : a <= r)

\* A deadline that the live worker took is due.
ItemInv ==
  item = "timeout" => setup.online /\ wall >= ZeroOf(setup, verdicts) + due

VerdictInv ==
  LET zero == ZeroOf(setup, verdicts)
  IN  ~Waiting(setup, verdicts) => EventsTimed(setup, verdicts, zero) /\ DeadlinesTimed(setup, verdicts, zero)

ClockInv == /\ TypeInv /\ SetupInv /\ AnchorInv /\ TotalInv /\ DueInv /\ LastInv /\ ItemInv /\ VerdictInv

\* What a command line can ask for.
LEMMA SettingIs ==
  ASSUME NEW s \in Setups
  PROVE  /\ s.output \in OutputCodecs
         /\ Codec(s) \in {"Relative", "Delta", "FixedStep", "Epoch", "WallClock"}
         /\ s.online <=> Codec(s) = "WallClock"
         /\ s.start # {} => \E t \in Nat : s.start = {t} /\ (CHOOSE u \in s.start : TRUE) = t
<1>1. s.output \in OutputCodecs /\ s.start \in StartTimes
      /\ s.format \in {"Relative", "Delta", "Epoch"} /\ s.online \in BOOLEAN /\ s.delay \in BOOLEAN
  BY DEF Setups
<1>2. Codec(s) \in {"Relative", "Delta", "FixedStep", "Epoch", "WallClock"} /\ (s.online <=> Codec(s) = "WallClock")
  BY <1>1 DEF Codec
<1>3. ASSUME s.start # {} PROVE \E t \in Nat : s.start = {t} /\ (CHOOSE u \in s.start : TRUE) = t
  <2>1. s.start \subseteq Nat /\ \A t, u \in s.start : t = u
    BY <1>1, ClockAssumption
  <2>2. PICK t \in s.start : TRUE
    BY <1>3
  <2>3. s.start = {t} /\ t \in Nat
    BY <2>1, <2>2
  <2>4. (CHOOSE u \in s.start : TRUE) \in s.start
    BY <2>2
  <2> QED
    BY <2>3, <2>4
<1> QED
  BY <1>1, <1>2, <1>3

\* Time zero is known unless an epoch codec waits, and does not change.
LEMMA ZeroIs ==
  ASSUME NEW s \in Setups, NEW vs \in Seq(Records), ~Waiting(s, vs)
  PROVE  /\ ZeroOf(s, vs) \in Nat
         /\ \A us \in Seq(Records) : Continues(vs, us) => ZeroOf(s, us) = ZeroOf(s, vs) /\ ~Waiting(s, us)
<1>1. s.start # {} => (CHOOSE t \in s.start : TRUE) \in Nat
  BY SettingIs
<1>2. vs # <<>> => Len(vs) \in Nat \ {0} /\ vs[1] \in Records
  BY EmptySeq
<1>3. ZeroOf(s, vs) \in Nat
  <2>1. vs # <<>> => vs[1].raw \in Nat
    BY <1>2 DEF Records
  <2> QED
    BY <1>1, <2>1, ClockAssumption DEF ZeroOf, Waiting
<1>4. ASSUME NEW us \in Seq(Records), Continues(vs, us), vs # <<>> PROVE us # <<>> /\ us[1] = vs[1]
  <2>1. 1 \in 1 .. Len(vs) /\ Len(us) # 0
    BY <1>2, <1>4 DEF Continues
  <2> QED
    BY <1>4, <2>1 DEF Continues
<1> QED
  BY <1>3, <1>4 DEF ZeroOf, Waiting

\* encode, when the anchor is known.
LEMMA EncodeIs ==
  ASSUME NEW ts \in Nat, NEW zero \in Nat, setup \in Setups
  PROVE  /\ Encode(ts, {zero}) = Encoded(setup, ts, zero)
         /\ Encoded(setup, ts, zero) \in Nat
<1>1. (CHOOSE a \in {zero} : TRUE) = zero
  OBVIOUS
<1> QED
  BY <1>1 DEF Encode, Encoded

\* decode, unless it panics: the time of the event, and an anchor that stays
\* unless it was waited for.
LEMMA DecodeIs ==
  ASSUME TypeInv, AnchorInv, phase = "running", NEW raw \in Nat, Decode(raw).ts # {}
  PROVE  \E ts \in Nat, zero \in Nat :
           /\ Decode(raw).ts = {ts} /\ Decode(raw).anchor = {zero} /\ Decode(raw).accumulated \in Nat
           /\ codec \in {"Delta", "FixedStep"} => Decode(raw).accumulated = ts
           /\ EventTime(codec, ts, zero, accumulated, IF codec = "WallClock" THEN wall ELSE raw)
           /\ ~Waiting(setup, verdicts) => zero = ZeroOf(setup, verdicts)
           /\ Waiting(setup, verdicts) => zero = raw /\ ts = 0
<1> DEFINE d == Decode(raw)
           zero == ZeroOf(setup, verdicts)
<1>1. setup \in Setups /\ verdicts \in Seq(Records) /\ {wall, accumulated} \subseteq Nat /\ Step \in Nat
  BY ClockAssumption DEF TypeInv
<1>2. codec \in {"Relative", "Delta", "FixedStep", "Epoch", "WallClock"} /\ codec = Codec(setup)
  BY <1>1, SettingIs DEF codec
<1>3. CASE Waiting(setup, verdicts)
  <2>1. codec = "Epoch" /\ anchor = {}
    BY <1>2, <1>3 DEF AnchorInv, Waiting
  <2>2. d = Decoded({0}, accumulated, {raw})
    BY <2>1 DEF Decode, DecodeAnchored
  <2> QED
    BY <1>1, <1>3, <2>1, <2>2 DEF Decoded, EventTime
<1>4. CASE ~Waiting(setup, verdicts)
  <2>1. zero \in Nat /\ anchor = {zero}
    BY <1>1, <1>4, ZeroIs DEF AnchorInv
  <2> HIDE DEF zero
  <2>2. CASE codec \in {"Relative", "Delta", "FixedStep"}
    <3> DEFINE ts == CASE codec = "Relative" -> raw [] codec = "Delta" -> accumulated + raw
                       [] codec = "FixedStep" -> accumulated + Step
    <3>1. ts \in Nat
      BY <1>1, <2>2
    <3>2. d.ts = {ts} /\ d.anchor = anchor /\ d.accumulated = IF codec = "Relative" THEN accumulated ELSE ts
      BY <2>2 DEF Decode, DecodeRelative, DecodeDelta, Decoded
    <3>3. EventTime(codec, ts, zero, accumulated, IF codec = "WallClock" THEN wall ELSE raw)
      BY <2>2 DEF EventTime
    <3> HIDE DEF ts, d
    <3> QED
      BY <1>1, <1>4, <2>1, <2>2, <3>1, <3>2, <3>3 DEF zero, d
  <2>3. CASE codec \in {"Epoch", "WallClock"}
    <3> DEFINE time == IF codec = "WallClock" THEN wall ELSE raw
               ts == time - zero
    <3>1. time \in Nat
      BY <1>1
    <3>2. d = DecodeAnchored(time)
      BY <2>3 DEF Decode
    <3>3. anchor # {} /\ \A b \in anchor : b = zero
      BY <2>1
    <3>4. d.ts = {time - a : a \in {b \in anchor : b <= time}} /\ d.anchor = anchor /\ d.accumulated = accumulated
      BY <3>2, <3>3 DEF DecodeAnchored, Decoded
    <3>5. zero <= time
      BY <3>3, <3>4
    <3>6. d.ts = {ts} /\ ts \in Nat /\ ts + zero = time
      BY <2>1, <3>1, <3>4, <3>5
    <3>7. EventTime(codec, ts, zero, accumulated, time)
      BY <2>3, <3>6 DEF EventTime
    <3> HIDE DEF ts, d, time
    <3>8. codec \notin {"Delta", "FixedStep"}
      BY <2>3
    <3> QED
      BY <1>1, <1>4, <2>1, <3>4, <3>6, <3>7, <3>8 DEF zero, d, time
  <2> QED
    BY <1>2, <2>2, <2>3
<1> QED
  BY <1>3, <1>4
-----------------------------------------------------------------------------
(* The steps *)

\* No verdict says anything.
LEMMA NoVerdicts ==
  ASSUME NEW s, NEW zero
  PROVE  /\ \A source : At(<<>>, source) = {} /\ Cardinality(At(<<>>, source)) = 0
         /\ EventsTimed(s, <<>>, zero) /\ DeadlinesTimed(s, <<>>, zero) /\ Total(s, <<>>, 0)
<1>1. \A source : At(<<>>, source) = {}
  BY DEF At
<1>2. \A source : Cardinality(At(<<>>, source)) = 0
  BY <1>1, FS_EmptySet
<1>3. SumFunctionOnSet(RawsOf(<<>>), At(<<>>, "Event")) = 0
  BY <1>1, SumEmpty
<1>4. 0 * Step = 0
  BY ClockAssumption
<1> QED
  BY <1>1, <1>2, <1>3, <1>4 DEF EventsTimed, DeadlinesTimed, Total

LEMMA InitStep == ASSUME Init PROVE ClockInv
<1>1. verdicts = <<>> /\ phase = "setup" /\ last = {} /\ item = "none"
  BY DEF Init
<1>2. TypeInv
  <2>1. <<>> \in Seq(Records)
    BY EmptySeq
  <2>2. {Boot, Period, 0} \subseteq Nat
    BY ClockAssumption
  <2> QED
    BY <2>1, <2>2 DEF Init, TypeInv, Phases
<1>3. DueInv
  <2>1. Cardinality(At(verdicts, "Timed")) = 0
    BY <1>1, NoVerdicts
  <2>2. (0 + 1) * Period = Period
    BY ClockAssumption
  <2> QED
    BY <2>1, <2>2 DEF Init, DueInv
<1>4. VerdictInv
  BY <1>1, NoVerdicts DEF VerdictInv
<1> QED
  BY <1>1, <1>2, <1>3, <1>4 DEF Init, ClockInv, SetupInv, AnchorInv, TotalInv, LastInv, ItemInv

LEMMA SetupStep == ASSUME ClockInv, Setup PROVE ClockInv'
<1> USE DEF ClockInv
<1>1. /\ UNCHANGED <<setup, accumulated, due, verdicts, wall, item, last, recorded>>
      /\ phase = "setup" /\ phase' \in {"failed", "running"} /\ anchor' = InitAnchor(setup.start)
  BY DEF Setup, live_vars, replay_vars
<1>2. verdicts = <<>> /\ wall = Boot /\ last = {} /\ accumulated = 0 /\ item = "none"
  BY <1>1 DEF SetupInv
<1>3. TypeInv'
  BY <1>1 DEF TypeInv, Phases
<1>4. AnchorInv'
  <2>1. setup \in Setups
    BY DEF TypeInv
  <2>2. setup.start # {} => anchor' = {ZeroOf(setup, verdicts)}
    BY <1>1, <2>1, SettingIs DEF InitAnchor, ZeroOf
  <2>3. setup.start = {} => anchor' = IF codec = "Epoch" THEN {} ELSE {Boot}
    BY <1>1, <1>2 DEF InitAnchor
  <2>4. anchor' = IF Waiting(setup, verdicts) THEN {} ELSE {ZeroOf(setup, verdicts)}
    BY <1>2, <2>2, <2>3 DEF Waiting, ZeroOf, codec
  <2> QED
    BY <1>1, <1>2, <2>4 DEF AnchorInv
<1>5. TotalInv'
  BY <1>1, <1>2, NoVerdicts DEF TotalInv
<1>6. DueInv' /\ VerdictInv'
  BY <1>1 DEF DueInv, VerdictInv
<1> QED
  BY <1>1, <1>2, <1>3, <1>4, <1>5, <1>6 DEF SetupInv, LastInv, ItemInv

\* The steps of the world around the live worker, and its choices.
LEMMA LiveStep ==
  ASSUME ClockInv, Tick \/ Submit \/ Close \/ ReceiveInput \/ ReceiveTimeout \/ ReceiveDisconnected
  PROVE  ClockInv'
<1> USE DEF ClockInv
<1>1. /\ UNCHANGED <<setup, anchor, accumulated, recorded, last, due, verdicts>>
      /\ phase = "running" /\ phase' \in {"running", "done"} /\ setup.online
      /\ wall' \in {wall, wall + 1}
      /\ item' \in {item, "input"} \/ (item' = "timeout" /\ WaitIsOver /\ wall' = wall)
  BY DEF Tick, Submit, Close, ReceiveInput, ReceiveTimeout, ReceiveDisconnected, live_vars, replay_vars
<1>2. TypeInv'
  <2>1. wall' \in Nat
    BY <1>1 DEF TypeInv
  <2>2. item' \in {"none", "input", "timeout"}
    BY <1>1 DEF TypeInv
  <2> QED
    BY <1>1, <2>1, <2>2 DEF TypeInv, Phases
<1>3. ItemInv'
  <2>1. setup \in Setups /\ verdicts \in Seq(Records) /\ wall \in Nat /\ due \in Nat
    BY DEF TypeInv
  <2>2. ~Waiting(setup, verdicts)
    BY <1>1, <2>1, SettingIs DEF Waiting
  <2> DEFINE zero == ZeroOf(setup, verdicts)
  <2>3. zero \in Nat /\ anchor = {zero}
    BY <1>1, <2>1, <2>2, ZeroIs DEF AnchorInv
  <2> HIDE DEF zero
  <2>4. (CHOOSE a \in anchor : TRUE) = zero
    BY <2>3
  <2>5. WaitIsOver => wall >= zero + due
    BY <2>1, <2>3, <2>4 DEF WaitIsOver, Now
  <2>6. item = "timeout" => wall >= zero + due
    BY DEF ItemInv, zero
  <2>7. item' = "timeout" => wall' >= zero + due
    BY <1>1, <2>1, <2>3, <2>5, <2>6
  <2> QED
    BY <1>1, <2>7 DEF ItemInv, zero
<1> QED
  BY <1>1, <1>2, <1>3 DEF SetupInv, AnchorInv, TotalInv, DueInv, LastInv, VerdictInv, codec

\* One verdict more.
LEMMA AppendOne ==
  ASSUME NEW vs \in Seq(Records), NEW e \in Records
  PROVE  LET us == Append(vs, e)
         IN  us \in Seq(Records) /\ Continues(vs, us) /\ Len(us) = Len(vs) + 1 /\ us[Len(us)] = e
BY DEF Continues

\* Several deadlines more.
LEMMA ConcatDeadlines ==
  ASSUME NEW vs \in Seq(Records), NEW tv \in Seq(Records), NEW us, us = vs \o tv,
         \A i \in 1 .. Len(tv) : tv[i].source = "Timed"
  PROVE  /\ us \in Seq(Records) /\ Len(us) = Len(vs) + Len(tv) /\ AddsDeadlines(vs, us)
         /\ \A k \in 1 .. Len(us) : k > Len(vs) => us[k] = tv[k - Len(vs)] /\ k - Len(vs) \in 1 .. Len(tv)
<1>1. us \in Seq(Records) /\ Len(us) = Len(vs) + Len(tv) /\ Len(vs) \in Nat /\ Len(tv) \in Nat
  OBVIOUS
<1>2. \A k \in 1 .. Len(us) : k > Len(vs) => us[k] = tv[k - Len(vs)] /\ k - Len(vs) \in 1 .. Len(tv)
  OBVIOUS
<1>3. \A k \in 1 .. Len(vs) : us[k] = vs[k]
  OBVIOUS
<1>4. AddsDeadlines(vs, us)
  BY <1>1, <1>2, <1>3 DEF AddsDeadlines, Continues
<1> QED
  BY <1>1, <1>2, <1>4

\* The deadline that is n periods after the next one.
Ahead(n) == due + n * Period

\* The verdicts when the deadlines before until have run.
Replayed(until, zero) == verdicts \o TimedVerdicts(until, {zero})

\* What a replay reports until a deadline that is n periods ahead.
LEMMA FlushStep ==
  ASSUME TypeInv, DueInv, ~setup.online, NEW zero \in Nat, NEW n \in Nat,
         EventsTimed(setup, verdicts, zero), DeadlinesTimed(setup, verdicts, zero),
         NEW until, until = Ahead(n), NEW ws, ws = Replayed(until, zero)
  PROVE  /\ ws \in Seq(Records) /\ Continues(verdicts, ws) /\ Len(ws) = Len(verdicts) + n
         /\ EventsTimed(setup, ws, zero) /\ DeadlinesTimed(setup, ws, zero)
         /\ \A acc : Total(setup, verdicts, acc) => Total(setup, ws, acc)
         /\ until = (Cardinality(At(ws, "Timed")) + 1) * Period
<1> DEFINE c == Cardinality(At(verdicts, "Timed"))
           tv == TimedVerdicts(until, {zero})
           m == Len(verdicts)
<1>1. setup \in Setups /\ verdicts \in Seq(Records) /\ m \in Nat /\ due \in Nat /\ Period \in Nat \ {0}
  BY ClockAssumption DEF TypeInv
<1>2. c \in Nat /\ due = (c + 1) * Period
  BY <1>1, AtFinite DEF DueInv
<1>3. (until - due) \div Period = n
  <2>1. n * Period \in Nat /\ 0 \in 0 .. Period - 1
    BY <1>1
  <2>2. (n * Period + 0) \div Period = n
    BY <1>1, <2>1, DivIs
  <2> DEFINE p == n * Period
  <2>3. p \in Nat /\ until = due + p
    BY <2>1 DEF Ahead
  <2> HIDE DEF p
  <2>4. until - due = p /\ p + 0 = p
    BY <1>1, <2>3
  <2> QED
    BY <2>2, <2>4 DEF p
<1> HIDE DEF c, m
<1>4. tv = [i \in 1 .. n |-> Verdict("Timed", due + (i - 1) * Period, 0, {zero})]
  BY <1>3 DEF TimedVerdicts
<1> HIDE DEF tv
<1>5. ASSUME NEW i \in 1 .. n
      PROVE  /\ tv[i] \in Records /\ tv[i].source = "Timed" /\ tv[i].ts = Encoded(setup, (c + i) * Period, zero)
  <2>1. due + (i - 1) * Period = (c + i) * Period /\ (c + i) * Period \in Nat
    <3> DEFINE x == c + 1
               y == i - 1
    <3>1. x \in Nat /\ y \in Nat /\ x + y = c + i
      BY <1>2
    <3> HIDE DEF x, y
    <3>2. x * Period + y * Period = (x + y) * Period /\ (x + y) * Period \in Nat
      BY <1>1, <3>1
    <3> QED
      BY <1>2, <3>1, <3>2 DEF x, y
  <2> DEFINE ts == (c + i) * Period
  <2>2. tv[i] = Verdict("Timed", ts, 0, {zero})
    BY <1>4, <2>1
  <2> HIDE DEF ts
  <2>3. Encode(ts, {zero}) = Encoded(setup, ts, zero) /\ Encoded(setup, ts, zero) \in Nat
    BY <1>1, <2>1, EncodeIs DEF ts
  <2> QED
    BY <2>2, <2>3 DEF Verdict, Records, ts
<1>6. tv \in Seq(Records) /\ Len(tv) = n
  <2>1. tv \in [1 .. n -> Records]
    BY <1>4, <1>5
  <2> QED
    BY <2>1
<1>7. /\ ws \in Seq(Records) /\ Len(ws) = m + n /\ AddsDeadlines(verdicts, ws)
      /\ \A k \in 1 .. Len(ws) : k > m => ws[k] = tv[k - m] /\ k - m \in 1 .. n
  <2>1. ws = verdicts \o tv
    BY DEF tv, Replayed
  <2>2. \A i \in 1 .. Len(tv) : tv[i].source = "Timed"
    BY <1>5, <1>6
  <2> HIDE DEF m
  <2>3. /\ ws \in Seq(Records) /\ Len(ws) = Len(verdicts) + Len(tv) /\ AddsDeadlines(verdicts, ws)
        /\ \A k \in 1 .. Len(ws) : k > Len(verdicts) =>
             ws[k] = tv[k - Len(verdicts)] /\ k - Len(verdicts) \in 1 .. Len(tv)
    BY <1>1, <1>6, <2>1, <2>2, ConcatDeadlines
  <2> QED
    BY <1>6, <2>3 DEF m
<1>8. Continues(verdicts, ws)
  BY <1>7 DEF AddsDeadlines
<1>10. \A k \in 1 .. Len(ws) : k > m => ws[k].ts = Encoded(setup, (c + (k - m)) * Period, zero)
  BY <1>5, <1>7
<1>11. /\ EventsTimed(setup, ws, zero) /\ DeadlinesTimed(setup, ws, zero)
       /\ \A acc : Total(setup, verdicts, acc) => Total(setup, ws, acc)
  <2>1. \A k \in 1 .. Len(ws) : k > Len(verdicts) =>
           LET time == (Cardinality(At(verdicts, "Timed")) + (k - Len(verdicts))) * Period
           IN  ws[k].ts = Encoded(setup, time, zero) /\ (setup.online => ws[k].raw >= zero + time)
    BY <1>10 DEF c, m
  <2> QED
    BY <1>1, <1>7, <2>1, DeadlinesAdded
<1>12. Cardinality(At(ws, "Timed")) = c + n
  <2>1. Cardinality(At(ws, "Timed")) = c + (Len(ws) - m)
    BY <1>1, <1>7, CountDeadlines DEF c, m
  <2>2. Len(ws) - m = n
    BY <1>1, <1>7
  <2> QED
    BY <2>1, <2>2
<1>13. until = (c + n + 1) * Period
  <2>1. (c + 1) * Period + n * Period = (c + n + 1) * Period
    BY <1>1, <1>2
  <2> QED
    BY <1>2, <2>1 DEF Ahead
<1> QED
  BY <1>7, <1>8, <1>11, <1>12, <1>13 DEF m

\* What the invariant says of the verdicts that the next ones are added to.
LEMMA SoFar ==
  ASSUME TypeInv, VerdictInv, NEW zero,
         ~Waiting(setup, verdicts) => zero = ZeroOf(setup, verdicts)
  PROVE  EventsTimed(setup, verdicts, zero) /\ DeadlinesTimed(setup, verdicts, zero)
BY NoVerdicts DEF VerdictInv, Waiting

LEMMA HandleEventStep == ASSUME ClockInv, HandleEvent PROVE ClockInv'
<1> USE DEF ClockInv
<1>1. UNCHANGED <<setup, wall, item>> /\ phase = "running" /\ ~setup.online
  BY DEF HandleEvent, live_vars
<1>2. PICK gap \in Gaps :
        LET t == recorded + gap
            raw == Raw(t, gap)
            d == Decode(raw)
        IN  IF d.ts = {} \/ setup.column = "beyond"
            THEN phase' = "panicked" /\ UNCHANGED <<anchor, accumulated, replay_vars, count, due, verdicts>>
            ELSE LET ts == CHOOSE x \in d.ts : TRUE  next == Flushed(ts, TRUE) IN
                 /\ Adopt(d) /\ recorded' = t /\ last' = {raw} /\ count' = count + 1
                 /\ due' = next
                 /\ verdicts' = verdicts \o TimedVerdicts(next, d.anchor) \o <<Verdict("Event", ts, raw, d.anchor)>>
                 /\ UNCHANGED phase
  BY DEF HandleEvent
<1> DEFINE t == recorded + gap
           raw == Raw(t, gap)
           d == Decode(raw)
<1>3. item # "timeout"
  BY <1>1 DEF ItemInv
<1>4. CASE d.ts = {} \/ setup.column = "beyond"
  <2>1. phase' = "panicked" /\ UNCHANGED <<anchor, accumulated, recorded, last, due, verdicts>>
    BY <1>2, <1>4 DEF replay_vars
  <2> QED
    BY <1>1, <1>3, <2>1
    DEF TypeInv, Phases, SetupInv, AnchorInv, TotalInv, DueInv, LastInv, ItemInv, VerdictInv, codec
<1>5. CASE ~(d.ts = {} \/ setup.column = "beyond")
  <2>1. setup \in Setups /\ verdicts \in Seq(Records) /\ {recorded, gap, Origin, accumulated} \subseteq Nat
    BY ClockAssumption DEF TypeInv
  <2>2. t \in Nat /\ raw \in Nat
    BY <2>1 DEF Raw
  <2> HIDE DEF raw, t
  <2>3. PICK ts \in Nat, zero \in Nat :
           /\ d.ts = {ts} /\ d.anchor = {zero} /\ d.accumulated \in Nat
           /\ codec \in {"Delta", "FixedStep"} => d.accumulated = ts
           /\ EventTime(codec, ts, zero, accumulated, IF codec = "WallClock" THEN wall ELSE raw)
           /\ ~Waiting(setup, verdicts) => zero = ZeroOf(setup, verdicts)
           /\ Waiting(setup, verdicts) => zero = raw /\ ts = 0
    BY <1>1, <1>5, <2>2, DecodeIs
  <2> DEFINE e == Verdict("Event", ts, raw, {zero})
  <2>4. (CHOOSE x \in d.ts : TRUE) = ts
    BY <2>3
  <2>5. /\ anchor' = {zero} /\ accumulated' = d.accumulated /\ recorded' = t /\ last' = {raw}
        /\ due' = Flushed(ts, TRUE) /\ phase' = "running"
        /\ verdicts' = verdicts \o TimedVerdicts(due', {zero}) \o <<e>>
    BY <1>1, <1>2, <1>5, <2>3, <2>4 DEF Adopt, raw, t
  <2>6. e \in Records /\ e.source = "Event" /\ e.raw = raw /\ e.ts = Encoded(setup, ts, zero)
    BY <2>1, <2>2, EncodeIs DEF Verdict, Records
  <2> HIDE DEF d, e
  <2>7. PICK n \in Nat, next \in Nat : due' = next /\ next = Ahead(n) /\ (ts = 0 => n = 0)
    <3>1. Cardinality(At(verdicts, "Timed")) \in Nat
      BY <2>1, AtFinite
    <3>2. PICK n \in Nat : due' = due + n * Period /\ (ts = 0 => n = 0)
      BY <2>5, <3>1, FlushedIs DEF DueInv
    <3>3. due' = Ahead(n) /\ Ahead(n) \in Nat
      <4>1. due \in Nat /\ Period \in Nat
        BY ClockAssumption DEF TypeInv
      <4> QED
        BY <3>2, <4>1 DEF Ahead
    <3> QED
      BY <3>2, <3>3
  <2> DEFINE ws == Replayed(next, zero)
  <2>8. EventsTimed(setup, verdicts, zero) /\ DeadlinesTimed(setup, verdicts, zero)
    BY <2>3, SoFar
  <2>9. /\ ws \in Seq(Records) /\ Continues(verdicts, ws) /\ Len(ws) = Len(verdicts) + n
        /\ EventsTimed(setup, ws, zero) /\ DeadlinesTimed(setup, ws, zero)
        /\ \A acc : Total(setup, verdicts, acc) => Total(setup, ws, acc)
        /\ due' = (Cardinality(At(ws, "Timed")) + 1) * Period
    <3>1. TypeInv /\ DueInv /\ ~setup.online
      BY <1>1
    <3>2. ws = Replayed(next, zero) /\ next = Ahead(n)
      BY <2>7
    <3> HIDE DEF ws, ClockInv
    <3>3. /\ ws \in Seq(Records) /\ Continues(verdicts, ws) /\ Len(ws) = Len(verdicts) + n
          /\ EventsTimed(setup, ws, zero) /\ DeadlinesTimed(setup, ws, zero)
          /\ \A acc : Total(setup, verdicts, acc) => Total(setup, ws, acc)
          /\ next = (Cardinality(At(ws, "Timed")) + 1) * Period
      BY <3>1, <3>2, <2>8, FlushStep
    <3> QED
      BY <2>7, <3>3
  <2>10. verdicts' = Append(ws, e)
    <3>1. verdicts' = ws \o <<e>>
      BY <2>5, <2>7 DEF Replayed
    <3> HIDE DEF ws
    <3> QED
      BY <2>6, <2>9, <3>1
  <2> HIDE DEF ws
  <2> DEFINE us == Append(ws, e)
  <2>11. us \in Seq(Records) /\ Continues(ws, us) /\ Len(us) = Len(ws) + 1 /\ us[Len(us)] = e
    BY <2>6, <2>9, AppendOne
  <2> HIDE DEF us
  <2>12. AddsEvent(ws, us)
    BY <2>6, <2>11 DEF AddsEvent
  <2>13. codec = Codec(setup) /\ Codec(setup) \in {"Relative", "Delta", "FixedStep", "Epoch", "WallClock"}
         /\ codec # "WallClock" /\ setup.output \in OutputCodecs
    BY <1>1, <2>1, SettingIs DEF codec
  <2>14. /\ EventsTimed(setup, us, zero) /\ DeadlinesTimed(setup, us, zero)
         /\ \A new : (Codec(setup) \in {"Delta", "FixedStep"} => new = ts) => Total(setup, us, new)
    <3>1. EventTime(Codec(setup), ts, zero, accumulated, us[Len(us)].raw)
      BY <2>3, <2>6, <2>11, <2>13
    <3>2. us[Len(us)].ts = Encoded(setup, ts, zero)
      BY <2>6, <2>11
    <3>3. Total(setup, ws, accumulated)
      BY <1>1, <2>9 DEF TotalInv
    <3> QED
      BY <2>1, <2>9, <2>11, <2>12, <2>13, <3>1, <3>2, <3>3, EventAdded
  <2>15. us # <<>> /\ Len(us) \in Nat \ {0} /\ Continues(verdicts, us) /\ Len(verdicts) \in Nat
    BY <2>1, <2>9, <2>11 DEF Continues
  <2>16. verdicts = <<>> /\ n = 0 => us[1] = e
    BY <2>9, <2>11
  <2>17. verdicts # <<>> => us[1] = verdicts[1]
    <3> SUFFICES ASSUME verdicts # <<>> PROVE us[1] = verdicts[1]
      OBVIOUS
    <3>1. Len(verdicts) \in Nat \ {0}
      BY <2>1, EmptySeq
    <3> QED
      BY <2>15, <3>1 DEF Continues
  <2>18. ZeroOf(setup, us) = zero
    <3>1. CASE Waiting(setup, verdicts)
      <4>1. us[1].raw = raw /\ zero = raw
        BY <2>3, <2>6, <2>7, <2>16, <3>1 DEF Waiting
      <4> QED
        BY <3>1, <4>1 DEF ZeroOf, Waiting
    <3>2. CASE ~Waiting(setup, verdicts)
      BY <2>1, <2>3, <2>11, <2>15, <3>2, ZeroIs
    <3> QED
      BY <3>1, <3>2
  <2>19. AnchorInv'
    <3>1. ~Waiting(setup, us)
      BY <2>15 DEF Waiting
    <3>2. setup.start = {} /\ codec = "Epoch" => us[1].source = "Event"
      <4>1. CASE verdicts = <<>>
        BY <2>3, <2>6, <2>7, <2>13, <2>16, <4>1 DEF Waiting
      <4>2. CASE verdicts # <<>>
        BY <2>17, <4>2 DEF AnchorInv
      <4> QED
        BY <4>1, <4>2
    <3>3. codec' = codec
      BY <1>1 DEF codec
    <3> QED
      BY <1>1, <2>5, <2>10, <2>18, <3>1, <3>2, <3>3 DEF AnchorInv, us
  <2>20. TypeInv'
    <3>1. due' \in Nat
      BY <2>7
    <3> QED
      BY <1>1, <2>1, <2>2, <2>3, <2>5, <2>10, <2>11, <3>1 DEF TypeInv, Phases, us
  <2>21. TotalInv'
    <3>1. Total(setup, us, accumulated')
      BY <2>3, <2>5, <2>13, <2>14
    <3> QED
      BY <1>1, <2>10, <3>1 DEF TotalInv, us
  <2>22. DueInv'
    <3>1. At(us, "Timed") = At(ws, "Timed")
      BY <2>9, <2>11, <2>12, CountEvent
    <3> QED
      BY <2>9, <2>10, <3>1 DEF DueInv, us
  <2>23. LastInv'
    <3>1. codec = "Epoch" => ts + zero = raw
      BY <2>3, <2>13 DEF EventTime
    <3>2. codec = "Epoch" => zero <= raw
      BY <2>2, <3>1
    <3>3. codec' = codec
      BY <1>1 DEF codec
    <3> QED
      BY <2>5, <2>10, <2>15, <3>2, <3>3 DEF LastInv, us
  <2>24. VerdictInv'
    BY <1>1, <2>10, <2>14, <2>18 DEF VerdictInv, us
  <2> QED
    BY <1>1, <1>3, <2>5, <2>19, <2>20, <2>21, <2>22, <2>23, <2>24 DEF SetupInv, ItemInv
<1> QED
  BY <1>4, <1>5

LEMMA EndOfInputStep == ASSUME ClockInv, EndOfInput PROVE ClockInv'
<1> USE DEF ClockInv
<1>1. UNCHANGED <<setup, wall, item, recorded, last>> /\ phase = "running" /\ ~setup.online /\ phase' = "done"
  BY DEF EndOfInput, live_vars, replay_vars
<1>2. item # "timeout"
  BY <1>1 DEF ItemInv
<1>3. CASE last = {}
  <2>1. UNCHANGED <<anchor, accumulated, due, verdicts>>
    BY <1>3 DEF EndOfInput
  <2> QED
    BY <1>1, <1>2, <2>1
    DEF TypeInv, Phases, SetupInv, AnchorInv, TotalInv, DueInv, LastInv, ItemInv, VerdictInv, codec
<1>4. CASE last # {}
  <2>1. PICK r \in Nat : last = {r}
    BY <1>4 DEF TypeInv
  <2>2. (CHOOSE x \in last : TRUE) = r
    BY <2>1
  <2> DEFINE d == Decode(r)
  <2>3. LET next == Flushed(CHOOSE x \in d.ts : TRUE, FALSE)
        IN  Adopt(d) /\ due' = next /\ verdicts' = verdicts \o TimedVerdicts(next, d.anchor)
    BY <1>4, <2>2 DEF EndOfInput
  <2>4. setup \in Setups /\ verdicts \in Seq(Records) /\ verdicts # <<>> /\ ~Waiting(setup, verdicts)
    BY <1>1, <1>4 DEF TypeInv, LastInv, Waiting
  <2>5. d.ts # {}
    <3>1. codec \in {"Relative", "Delta", "FixedStep", "Epoch"}
      BY <1>1, <2>4, SettingIs DEF codec
    <3>2. CASE codec # "Epoch"
      BY <3>1, <3>2 DEF Decode, DecodeRelative, DecodeDelta, Decoded
    <3>3. CASE codec = "Epoch"
      <4> DEFINE zero == ZeroOf(setup, verdicts)
      <4>1. anchor = {zero} /\ zero <= r
        BY <1>1, <1>4, <2>1, <2>4, <3>3 DEF AnchorInv, LastInv
      <4> HIDE DEF zero
      <4>2. d.ts = {r - a : a \in {b \in anchor : b <= r}}
        BY <3>3, <4>1 DEF Decode, DecodeAnchored, Decoded
      <4> QED
        BY <4>1, <4>2
    <3> QED
      BY <3>2, <3>3
  <2>6. PICK ts \in Nat, zero \in Nat :
           /\ d.ts = {ts} /\ d.anchor = {zero} /\ d.accumulated \in Nat
           /\ zero = ZeroOf(setup, verdicts)
    BY <1>1, <2>4, <2>5, DecodeIs
  <2>7. (CHOOSE x \in d.ts : TRUE) = ts
    BY <2>6
  <2> HIDE DEF d
  <2>8. /\ anchor' = {zero} /\ accumulated' \in Nat /\ due' = Flushed(ts, FALSE)
        /\ verdicts' = Replayed(due', zero)
    BY <2>3, <2>6, <2>7 DEF Adopt, Replayed
  <2>9. PICK n \in Nat, next \in Nat : due' = next /\ next = Ahead(n)
    <3>1. Cardinality(At(verdicts, "Timed")) \in Nat
      BY <2>4, AtFinite
    <3>2. PICK n \in Nat : due' = due + n * Period
      BY <2>8, <3>1, FlushedIs DEF DueInv
    <3>3. due' = Ahead(n) /\ Ahead(n) \in Nat
      <4>1. due \in Nat /\ Period \in Nat
        BY ClockAssumption DEF TypeInv
      <4> QED
        BY <3>2, <4>1 DEF Ahead
    <3> QED
      BY <3>3
  <2> DEFINE ws == Replayed(next, zero)
  <2>10. verdicts' = ws
    BY <2>8, <2>9
  <2>11. EventsTimed(setup, verdicts, zero) /\ DeadlinesTimed(setup, verdicts, zero)
    BY <2>6, SoFar
  <2>12. /\ ws \in Seq(Records) /\ Continues(verdicts, ws)
         /\ EventsTimed(setup, ws, zero) /\ DeadlinesTimed(setup, ws, zero)
         /\ next = (Cardinality(At(ws, "Timed")) + 1) * Period
    <3>1. TypeInv /\ DueInv /\ ~setup.online /\ ws = Replayed(next, zero) /\ next = Ahead(n)
      BY <1>1, <2>9
    <3> HIDE DEF ws, ClockInv
    <3> QED
      BY <3>1, <2>11, FlushStep
  <2> HIDE DEF ws
  <2>13. ZeroOf(setup, ws) = zero /\ ~Waiting(setup, ws)
    BY <2>4, <2>6, <2>12, ZeroIs
  <2>14. AnchorInv'
    <3>1. ws[1] = verdicts[1]
      <4>1. 1 \in 1 .. Len(verdicts)
        BY <2>4, EmptySeq
      <4> QED
        BY <2>12, <4>1 DEF Continues
    <3>2. codec' = codec
      BY <1>1 DEF codec
    <3> QED
      BY <1>1, <2>4, <2>8, <2>10, <2>13, <3>1, <3>2 DEF AnchorInv
  <2>15. TypeInv'
    BY <1>1, <2>8, <2>9, <2>10, <2>12 DEF TypeInv, Phases
  <2>16. DueInv' /\ VerdictInv'
    BY <1>1, <2>9, <2>10, <2>12, <2>13 DEF DueInv, VerdictInv
  <2> QED
    BY <1>1, <1>2, <2>14, <2>15, <2>16 DEF SetupInv, TotalInv, LastInv, ItemInv
<1> QED
  BY <1>3, <1>4

LEMMA ProcessInputStep == ASSUME ClockInv, ProcessInput PROVE ClockInv'
<1> USE DEF ClockInv
<1> DEFINE d == Decode(0)
<1>1. UNCHANGED <<setup, wall, recorded, last, due>> /\ phase = "running" /\ setup.online /\ item = "input"
  BY DEF ProcessInput, replay_vars
<1>2. setup \in Setups /\ verdicts \in Seq(Records) /\ codec = Codec(setup) /\ codec = "WallClock" /\ wall \in Nat
  BY <1>1, SettingIs DEF TypeInv, codec
<1>3. CASE d.ts = {}
  <2>1. phase' = "panicked" /\ UNCHANGED <<anchor, accumulated, verdicts, item>>
    BY <1>3 DEF ProcessInput
  <2> QED
    BY <1>1, <2>1
    DEF TypeInv, Phases, SetupInv, AnchorInv, TotalInv, DueInv, LastInv, ItemInv, VerdictInv, codec
<1>4. CASE d.ts # {}
  <2>1. ~Waiting(setup, verdicts)
    BY <1>2 DEF Waiting
  <2>2. PICK ts \in Nat, zero \in Nat :
           /\ d.ts = {ts} /\ d.anchor = {zero} /\ d.accumulated \in Nat
           /\ EventTime(codec, ts, zero, accumulated, wall)
           /\ zero = ZeroOf(setup, verdicts)
    <3>1. 0 \in Nat
      OBVIOUS
    <3> QED
      BY <1>1, <1>2, <1>4, <2>1, <3>1, DecodeIs
  <2>3. (CHOOSE x \in d.ts : TRUE) = ts
    BY <2>2
  <2> DEFINE e == Verdict("Event", ts, wall, {zero})
             us == Append(verdicts, e)
  <2>4. Adopt(d) /\ item' = "none" /\ phase' = phase /\ verdicts' = us
    BY <1>4, <2>2, <2>3 DEF ProcessInput
  <2>5. e \in Records /\ e.source = "Event" /\ e.raw = wall /\ e.ts = Encoded(setup, ts, zero)
    BY <1>2, EncodeIs DEF Verdict, Records
  <2> HIDE DEF d, e
  <2>6. anchor' = {zero} /\ accumulated' \in Nat
    BY <2>2, <2>4 DEF Adopt
  <2>7. us \in Seq(Records) /\ Continues(verdicts, us) /\ Len(us) = Len(verdicts) + 1 /\ us[Len(us)] = e
    BY <1>2, <2>5, AppendOne
  <2> HIDE DEF us
  <2>8. AddsEvent(verdicts, us)
    BY <2>5, <2>7 DEF AddsEvent
  <2>9. EventsTimed(setup, verdicts, zero) /\ DeadlinesTimed(setup, verdicts, zero)
    BY <2>2, SoFar
  <2>10. /\ EventsTimed(setup, us, zero) /\ DeadlinesTimed(setup, us, zero)
         /\ \A new : (Codec(setup) \in {"Delta", "FixedStep"} => new = ts) => Total(setup, us, new)
    <3>1. EventTime(Codec(setup), ts, zero, accumulated, us[Len(us)].raw) /\ us[Len(us)].ts = Encoded(setup, ts, zero)
      BY <1>2, <2>2, <2>5, <2>7
    <3>2. Total(setup, verdicts, accumulated) /\ accumulated \in Nat
      BY <1>1 DEF TotalInv, TypeInv
    <3>3. setup.output \in OutputCodecs
      BY <1>2, SettingIs
    <3> QED
      BY <1>2, <2>7, <2>8, <2>9, <3>1, <3>2, <3>3, EventAdded
  <2>11. ZeroOf(setup, us) = zero /\ ~Waiting(setup, us)
    BY <1>2, <2>1, <2>2, <2>7, ZeroIs
  <2>12. TypeInv'
    BY <1>1, <2>4, <2>6, <2>7 DEF TypeInv, Phases
  <2>13. AnchorInv'
    BY <1>1, <1>2, <2>4, <2>6, <2>11 DEF AnchorInv, codec
  <2>14. TotalInv'
    BY <1>1, <1>2, <2>4, <2>10 DEF TotalInv
  <2>15. DueInv'
    <3>1. At(us, "Timed") = At(verdicts, "Timed")
      BY <1>2, <2>7, <2>8, CountEvent
    <3> QED
      BY <1>1, <2>4, <3>1 DEF DueInv
  <2>16. LastInv'
    <3>1. us # <<>>
      BY <1>2, <2>7
    <3> QED
      BY <1>1, <1>2, <2>4, <3>1 DEF LastInv, codec
  <2>17. VerdictInv'
    BY <1>1, <2>4, <2>10, <2>11 DEF VerdictInv
  <2> QED
    BY <1>1, <2>4, <2>12, <2>13, <2>14, <2>15, <2>16, <2>17 DEF SetupInv, ItemInv
<1> QED
  BY <1>3, <1>4

LEMMA ProcessDeadlineStep == ASSUME ClockInv, ProcessDeadline PROVE ClockInv'
<1> USE DEF ClockInv
<1>1. /\ UNCHANGED <<setup, phase, wall, anchor, accumulated, recorded, last>>
      /\ phase = "running" /\ setup.online /\ item = "timeout" /\ item' = "none" /\ due' = due + Period
  BY DEF ProcessDeadline, replay_vars
<1>2. /\ setup \in Setups /\ verdicts \in Seq(Records) /\ codec = "WallClock" /\ wall \in Nat /\ due \in Nat
      /\ Period \in Nat \ {0}
  BY <1>1, ClockAssumption, SettingIs DEF TypeInv, codec
<1>3. ~Waiting(setup, verdicts)
  BY <1>2 DEF Waiting, codec
<1> DEFINE zero == ZeroOf(setup, verdicts)
           c == Cardinality(At(verdicts, "Timed"))
           e == Verdict("Timed", due, wall, {zero})
           us == Append(verdicts, e)
<1>4. zero \in Nat /\ anchor = {zero} /\ wall >= zero + due
  BY <1>1, <1>2, <1>3, ZeroIs DEF AnchorInv, ItemInv
<1>5. verdicts' = us
  BY <1>4 DEF ProcessDeadline
<1> HIDE DEF zero
<1>6. e \in Records /\ e.source = "Timed" /\ e.raw = wall /\ e.ts = Encoded(setup, due, zero)
  BY <1>2, <1>4, EncodeIs DEF Verdict, Records
<1> HIDE DEF e
<1>7. us \in Seq(Records) /\ Continues(verdicts, us) /\ Len(us) = Len(verdicts) + 1 /\ us[Len(us)] = e
  BY <1>2, <1>6, AppendOne
<1> HIDE DEF us
<1>8. AddsDeadlines(verdicts, us)
  BY <1>2, <1>6, <1>7 DEF AddsDeadlines
<1>9. c \in Nat /\ due = (c + 1) * Period
  BY <1>2, AtFinite DEF DueInv
<1>10. /\ EventsTimed(setup, us, zero) /\ DeadlinesTimed(setup, us, zero)
       /\ \A acc : Total(setup, verdicts, acc) => Total(setup, us, acc)
  <2>1. EventsTimed(setup, verdicts, zero) /\ DeadlinesTimed(setup, verdicts, zero)
    BY SoFar DEF zero
  <2>2. ASSUME NEW k \in 1 .. Len(us), k > Len(verdicts)
        PROVE  LET time == (c + (k - Len(verdicts))) * Period
               IN  us[k].ts = Encoded(setup, time, zero) /\ (setup.online => us[k].raw >= zero + time)
    <3>1. k = Len(us) /\ k - Len(verdicts) = 1
      BY <1>2, <1>7, <2>2
    <3> HIDE DEF c
    <3> QED
      BY <1>4, <1>6, <1>7, <1>9, <3>1
  <2> QED
    BY <1>2, <1>4, <1>7, <1>8, <2>1, <2>2, DeadlinesAdded
<1>11. ZeroOf(setup, us) = zero /\ ~Waiting(setup, us)
  BY <1>2, <1>3, <1>7, ZeroIs DEF zero
<1>12. TypeInv'
  BY <1>1, <1>2, <1>5, <1>7 DEF TypeInv
<1>13. AnchorInv'
  BY <1>1, <1>2, <1>4, <1>5, <1>11 DEF AnchorInv, codec
<1>14. TotalInv' /\ VerdictInv'
  BY <1>1, <1>5, <1>10, <1>11 DEF TotalInv, VerdictInv
<1>15. DueInv'
  <2>1. Cardinality(At(us, "Timed")) = c + (Len(us) - Len(verdicts)) /\ Len(us) - Len(verdicts) = 1
    BY <1>2, <1>7, <1>8, CountDeadlines
  <2> HIDE DEF c
  <2>2. (c + 1) * Period + Period = (c + 1 + 1) * Period
    BY <1>2, <1>9
  <2> QED
    BY <1>1, <1>5, <1>9, <2>1, <2>2 DEF DueInv
<1>16. LastInv'
  <2>1. us # <<>>
    BY <1>2, <1>7
  <2> QED
    BY <1>1, <1>2, <1>5, <2>1 DEF LastInv, codec
<1> QED
  BY <1>1, <1>12, <1>13, <1>14, <1>15, <1>16 DEF SetupInv, ItemInv

\* The invariant of Clock, from any command line and columns of the input.
LEMMA ClockInvariant == Spec => []ClockInv
<1>1. ClockInv /\ [Next]_vars => ClockInv'
  <2> SUFFICES ASSUME ClockInv, [Next]_vars PROVE ClockInv'
    OBVIOUS
  <2>1. CASE Worker
    BY <2>1, SetupStep, HandleEventStep, EndOfInputStep, LiveStep, ProcessInputStep, ProcessDeadlineStep DEF Worker
  <2>2. CASE Tick \/ Submit \/ Close
    BY <2>2, LiveStep
  <2>3. CASE UNCHANGED vars
    <3>1. UNCHANGED <<setup, phase, wall, anchor, accumulated, recorded, last, item, due, verdicts>>
      BY <2>3 DEF vars
    <3> QED
      BY <3>1 DEF ClockInv, TypeInv, SetupInv, AnchorInv, TotalInv, DueInv, LastInv, ItemInv, VerdictInv, codec
  <2> QED
    BY <2>1, <2>2, <2>3 DEF Next
<1> QED
  BY InitStep, <1>1, PTL DEF Spec
-----------------------------------------------------------------------------
(* The theorems *)

\* The time zero that the properties speak of, once an event was reported.
LEMMA ZeroKnown ==
  ASSUME ClockInv, codec # "Epoch" \/ From("Event") # {}
  PROVE  Zero = ZeroOf(setup, verdicts) /\ ~Waiting(setup, verdicts)
<1>1. codec = Codec(setup)
  BY DEF codec
<1>2. CASE setup.start # {} \/ codec # "Epoch"
  BY <1>1, <1>2 DEF Zero, ZeroOf, Waiting
<1>3. CASE setup.start = {} /\ codec = "Epoch"
  <2>1. verdicts \in Seq(Records) /\ From("Event") \subseteq 1 .. Len(verdicts) /\ verdicts # <<>>
    BY <1>3 DEF ClockInv, TypeInv, From
  <2>2. 1 \in From("Event")
    <3>1. 1 \in DOMAIN verdicts
      BY <2>1, EmptySeq
    <3> QED
      BY <1>3, <2>1, <3>1 DEF ClockInv, AnchorInv, From
  <2>3. \A i \in From("Event") : i \in Nat /\ 1 <= i
    BY <2>1
  <2>4. Min(From("Event")) = 1
    <3> DEFINE S == From("Event")
               x == Min(S)
    <3>1. 1 \in S /\ \A y \in S : 1 <= y /\ y \in Nat
      BY <2>2, <2>3
    <3> HIDE DEF S
    <3>2. x \in S /\ \A y \in S : x <= y
      BY <3>1 DEF Min
    <3> QED
      BY <3>1, <3>2 DEF S
  <2> QED
    BY <1>1, <1>3, <2>1, <2>4 DEF Zero, ZeroOf, Waiting
<1> QED
  BY <1>2, <1>3

\* A verdict carries the time of its event, for every combination of input and
\* output codecs, every start time and every recording: deltas and steps add
\* up, and the anchor that both codecs share is the time zero of the session.
THEOREM ClockTimesAsGiven == Spec => []TimesAsGiven
<1>1. ASSUME ClockInv PROVE TimesAsGiven
  <2> SUFFICES ASSUME NEW i \in From("Event")
               PROVE  verdicts[i].ts = IF setup.output = "Epoch" THEN TrueTime(i) ELSE TrueTime(i) - Zero
    BY DEF TimesAsGiven
  <2>1. Zero = ZeroOf(setup, verdicts) /\ ~Waiting(setup, verdicts) /\ i \in At(verdicts, "Event")
    BY <1>1, ZeroKnown DEF From, At
  <2>2. TrueTime(i) = TimeAt(setup, verdicts, Zero, i)
    BY DEF TrueTime, TimeAt, codec, Upto, AtUpto, From, At, Raws, RawsOf, Number
  <2> QED
    BY <1>1, <2>1, <2>2 DEF ClockInv, VerdictInv, EventsTimed
<1> QED
  BY <1>1, ClockInvariant, PTL

\* Deadlines are reported in order, each with its own time, and in live mode
\* none before the wall clock reached it, however long the wait took and
\* whatever arrived meanwhile.
THEOREM ClockTimedOnTime == Spec => []TimedOnTime
<1>1. ASSUME ClockInv PROVE TimedOnTime
  <2> SUFFICES ASSUME NEW i \in From("Timed")
               PROVE  LET time == Number("Timed", i) * Period
                      IN  /\ verdicts[i].ts = Encode(time, anchor)
                          /\ setup.online => verdicts[i].raw >= Zero + time
    BY DEF TimedOnTime
  <2> DEFINE zero == ZeroOf(setup, verdicts)
             time == Number("Timed", i) * Period
  <2>1. setup \in Setups /\ verdicts \in Seq(Records) /\ i \in At(verdicts, "Timed") /\ verdicts # <<>>
    BY <1>1 DEF ClockInv, TypeInv, From, At
  <2>2. ~Waiting(setup, verdicts) /\ zero \in Nat /\ anchor = {zero}
    <3>1. ~Waiting(setup, verdicts)
      BY <2>1 DEF Waiting
    <3>2. phase # "setup"
      BY <1>1, <2>1 DEF ClockInv, SetupInv
    <3> QED
      BY <1>1, <2>1, <3>1, <3>2, ZeroIs DEF ClockInv, AnchorInv
  <2>3. Number("Timed", i) = Cardinality(AtUpto(verdicts, "Timed", i))
    BY DEF Number, Upto, AtUpto, From, At
  <2>4. time \in Nat
    <3>1. i \in Nat /\ Period \in Nat
      BY <2>1, ClockAssumption DEF At
    <3>2. Number("Timed", i) \in Nat
      BY <2>1, <2>3, <3>1, AtFinite
    <3> QED
      BY <3>1, <3>2
  <2>5. verdicts[i].ts = Encoded(setup, time, zero) /\ (setup.online => verdicts[i].raw >= zero + time)
    BY <1>1, <2>1, <2>2, <2>3 DEF ClockInv, VerdictInv, DeadlinesTimed
  <2>6. setup.online => Zero = zero
    BY <1>1, <2>1, ZeroKnown, SettingIs DEF codec
  <2> HIDE DEF zero, time
  <2>7. verdicts[i].ts = Encode(time, anchor)
    BY <2>1, <2>2, <2>4, <2>5, EncodeIs
  <2> QED
    BY <2>5, <2>6, <2>7 DEF time
<1> QED
  BY <1>1, ClockInvariant, PTL
=============================================================================
