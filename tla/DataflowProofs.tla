--------------------------- MODULE DataflowProofs ---------------------------
(***************************************************************************)
(* Proofs about Dataflow, for every specification, any number of cycles    *)
(* and every order of the tasks of a layer.                                *)
(*                                                                         *)
(* First, that the levels are right: this is about the layer pass alone.   *)
(* Its loop compares levels along the edges it looks at, the properties    *)
(* speak of what can be read in one cycle; the lemma EdgesAgree is the     *)
(* bridge between them.                                                    *)
(*                                                                         *)
(* Then FlowSpec is shown to implement LayerSpec, and the invariant        *)
(* FlowInv carries the levels to what the tasks read: what ran was not     *)
(* preceded by what is left, so that an expression reads only what is      *)
(* settled, and a buffer holds the latest of the values written.           *)
(***************************************************************************)
EXTENDS Dataflow, SequenceTheorems, FiniteSetTheorems, TLAPS
-----------------------------------------------------------------------------
(* The layer pass *)

\* Before the loop only signals have a level; after it the graph has no cycle.
Checked ==
  /\ pass \in {"check", "rejected"} =>
       Known(evaluation_levels) = Signals /\ Known(start_levels) = Signals
  /\ pass \notin {"check", "rejected"} => ~Cyclic(spec)

\* A known evaluation is above its targets, itself excepted.
EvalAbove ==
  \A e \in Filtered(spec) :
    e.from \in Known(evaluation_levels) /\ e.to # e.from
    => /\ e.to \in Known(evaluation_levels)
       /\ evaluation_levels[e.to] < evaluation_levels[e.from]

StartAbove ==
  \A e \in StartOnly(spec) :
    e.from \in Known(start_levels)
    => /\ e.to \in Known(evaluation_levels)
       /\ evaluation_levels[e.to] < start_levels[e.from]

LInv == LayerTypeOK /\ Checked /\ EvalAbove /\ StartAbove /\ StartBeforeEval
-----------------------------------------------------------------------------
\* A level that Above offers is a number above those of all targets.
LEMMA AboveTargets ==
  ASSUME LayerTypeOK, NEW targets, targets \subseteq Known(evaluation_levels),
         NEW default \in Nat, NEW l \in Above(targets, default)
  PROVE  l \in Nat /\ \A t \in targets : evaluation_levels[t] < l
<1>1. CASE targets = {}
  BY <1>1 DEF Above
<1>2. CASE targets # {}
  <2>1. \A t \in targets : evaluation_levels[t] \in Nat
    BY DEF LayerTypeOK, Known
  <2> QED  BY <1>2, <2>1 DEF Above
<1> QED  BY <1>1, <1>2

\* The streams of an edge of the graph.
LEMMA EdgeEnds ==
  ASSUME LayerTypeOK, NEW e \in Filtered(spec)
  PROVE  e \in spec.edges /\ e.from \in Constraints /\ e.from \notin Signals /\ e.to \in Stream
BY LayersAssumption DEF LayerTypeOK, Filtered, Edge

\* A stream that reads itself in the same cycle is a cycle of one node.
LEMMA NoSelfEdge ==
  ASSUME LayerTypeOK, ~Cyclic(spec), NEW e \in Filtered(spec)
  PROVE  e.to # e.from
<1>1. SUFFICES ASSUME e.to = e.from PROVE FALSE
  OBVIOUS
<1>2. e.from \in Constraints
  BY EdgeEnds
<1>3. {e.from} \in (SUBSET Constraints) \ {{}}
  BY <1>2
<1>4. \A n \in {e.from} : \E d \in Filtered(spec) : d.from = n /\ d.to \in {e.from}
  BY <1>1
<1> QED  BY <1>3, <1>4 DEF Cyclic

\* What can be read in one cycle is an edge of the graph of the loop.
LEMMA EdgesAgree ==
  ASSUME LayerTypeOK, NEW e \in spec.edges, ReadsThisCycle(e), e.site # "AtEnd",
         CanCoincide(RateOfSite(spec, e), ExecutionRate(spec, e.to))
  PROVE  e \in Filtered(spec)
BY DEF Filtered, ReadsThisCycle, IsBackwardShift, CanCoincide, PacingMatches
-----------------------------------------------------------------------------
LEMMA InitInv == Init => LInv
<1> SUFFICES ASSUME Init PROVE LInv
  OBVIOUS
<1>1. LayerTypeOK
  <2>1. Known(start_levels) = Signals /\ Known(evaluation_levels) = Signals
    BY DEF Init, Known
  <2>2. /\ spec.edges \subseteq Edge
        /\ spec.init_rate \in [Constraints -> Rate] /\ spec.execution_rate \in [Constraints -> Rate]
    BY LayersAssumption DEF Init
  <2>3. 1 \in 1 .. Len(Order)
    BY LayersAssumption
  <2> QED  BY <2>1, <2>2, <2>3 DEF LayerTypeOK, Init, Stream
<1>2. Known(start_levels) = Signals /\ Known(evaluation_levels) = Signals
  BY DEF Init, Known
<1>3. Checked
  BY <1>2 DEF Checked, Init
<1>4. EvalAbove
  BY <1>1, <1>2, EdgeEnds DEF EvalAbove
<1>5. StartAbove
  BY <1>1, <1>2, EdgeEnds DEF StartAbove, StartOnly
<1>6. StartBeforeEval
  BY <1>2, LayersAssumption DEF StartBeforeEval
<1> QED  BY <1>1, <1>3, <1>4, <1>5, <1>6 DEF LInv

LEMMA NextNode ==
  ASSUME LayerTypeOK
  PROVE  /\ Order[node] \in Stream /\ 1 \in 1 .. Len(Order)
         /\ node < Len(Order) => node + 1 \in 1 .. Len(Order)
BY LayersAssumption DEF LayerTypeOK

LEMMA CheckStep == LInv /\ CheckAcyclic => LInv'
<1> SUFFICES ASSUME LInv, CheckAcyclic PROVE LInv'
  OBVIOUS
<1>1. LayerTypeOK'
  BY DEF LInv, CheckAcyclic, LayerTypeOK, Known
<1>2. Checked'
  BY DEF LInv, Checked, CheckAcyclic, Known
<1>3. EvalAbove' /\ StartAbove' /\ StartBeforeEval'
  BY DEF LInv, CheckAcyclic, EvalAbove, StartAbove, StartBeforeEval, Known
<1> QED  BY <1>1, <1>2, <1>3 DEF LInv

LEMMA StartStep == LInv /\ AssignStart => LInv'
<1> SUFFICES ASSUME LInv, AssignStart PROVE LInv'
  OBVIOUS
<1> DEFINE s == Order[node]
<1>0. LayerTypeOK /\ Checked /\ EvalAbove /\ StartAbove /\ StartBeforeEval
  BY DEF LInv
<1>1. pass' \in {"start", "eval"} /\ pass = "start" /\ spec' = spec /\ evaluation_levels' = evaluation_levels
  BY DEF AssignStart
<1>2. node' \in 1 .. Len(Order)
  BY <1>0, NextNode DEF AssignStart, LayerTypeOK
<1>3. CASE UNCHANGED start_levels
  <2>1. LayerTypeOK'
    BY <1>0, <1>1, <1>2, <1>3 DEF LayerTypeOK, Known
  <2>2. Checked'
    BY <1>0, <1>1 DEF Checked
  <2>3. EvalAbove' /\ StartAbove' /\ StartBeforeEval'
    BY <1>0, <1>1, <1>3 DEF EvalAbove, StartAbove, StartBeforeEval, Known
  <2> QED  BY <2>1, <2>2, <2>3 DEF LInv
<1>4. CASE ~UNCHANGED start_levels
  <2>1. s \notin Known(start_levels) /\ StartLevel(s) # {}
    BY <1>4 DEF AssignStart
  <2>2. PICK l \in StartLevel(s) : start_levels' = Insert(start_levels, s, l)
    BY <1>4 DEF AssignStart
  <2>3. StartTargets(s) \subseteq Known(evaluation_levels)
    BY <2>1 DEF StartLevel
  <2>4. l \in Nat /\ \A t \in StartTargets(s) : evaluation_levels[t] < l
    <3>1. l \in Above(StartTargets(s), 0)
      BY <2>2, <2>3 DEF StartLevel
    <3> QED  BY <3>1, <2>3, <1>0, AboveTargets
  <2>5. s \in Stream
    BY <1>0, NextNode
  <2>6. /\ Known(start_levels)' = Known(start_levels) \cup {s}
        /\ start_levels'[s] = l
        /\ \A t \in Known(start_levels) : start_levels'[t] = start_levels[t]
    BY <2>1, <2>2 DEF Insert, Known
  <2>7. LayerTypeOK'
    <3>1. start_levels' \in [Known(start_levels)' -> Nat]
      BY <1>0, <2>2, <2>4, <2>6 DEF Insert, LayerTypeOK, Known
    <3>2. Known(evaluation_levels)' = Known(evaluation_levels)
      BY <1>1 DEF Known
    <3> QED  BY <1>0, <1>1, <1>2, <2>5, <2>6, <3>1, <3>2 DEF LayerTypeOK
  <2>8. Checked'
    BY <1>0, <1>1 DEF Checked
  <2>9. EvalAbove'
    BY <1>0, <1>1 DEF EvalAbove, Known
  <2>10. StartAbove'
    <3> SUFFICES ASSUME NEW e \in StartOnly(spec), e.from \in Known(start_levels)'
                 PROVE  /\ e.to \in Known(evaluation_levels)
                        /\ evaluation_levels[e.to] < start_levels'[e.from]
      BY <1>1 DEF StartAbove, Known
    <3>1. CASE e.from = s
      BY <3>1, <2>3, <2>4, <2>6 DEF StartTargets
    <3>2. CASE e.from # s
      BY <3>2, <1>0, <2>6 DEF StartAbove
    <3> QED  BY <3>1, <3>2
  <2>11. StartBeforeEval'
    <3>1. \A t \in Known(evaluation_levels) : t \in Known(start_levels)
      BY <1>0 DEF LayerTypeOK
    <3> QED  BY <3>1, <1>0, <1>1, <2>6 DEF StartBeforeEval, Known
  <2> QED  BY <2>7, <2>8, <2>9, <2>10, <2>11 DEF LInv
<1> QED  BY <1>3, <1>4

LEMMA EvalStep == LInv /\ AssignEval => LInv'
<1> SUFFICES ASSUME LInv, AssignEval PROVE LInv'
  OBVIOUS
<1> DEFINE s == Order[node]
<1>0. LayerTypeOK /\ Checked /\ EvalAbove /\ StartAbove /\ StartBeforeEval
  BY DEF LInv
<1>1. pass' \in {"start", "eval", "done"} /\ pass = "eval" /\ spec' = spec /\ start_levels' = start_levels
  BY DEF AssignEval
<1>2. node' \in 1 .. Len(Order)
  BY <1>0, NextNode DEF AssignEval, LayerTypeOK
<1>3. Checked'
  BY <1>0, <1>1 DEF Checked
<1>4. CASE UNCHANGED evaluation_levels
  <2>1. LayerTypeOK'
    BY <1>0, <1>1, <1>2, <1>4 DEF LayerTypeOK, Known
  <2>2. EvalAbove' /\ StartAbove' /\ StartBeforeEval'
    BY <1>0, <1>1, <1>4 DEF EvalAbove, StartAbove, StartBeforeEval, Known
  <2> QED  BY <1>3, <2>1, <2>2 DEF LInv
<1>5. CASE ~UNCHANGED evaluation_levels
  <2>1. s \notin Known(evaluation_levels) /\ s \in Known(start_levels) /\ EvalLevel(s) # {}
    BY <1>5 DEF AssignEval
  <2>2. PICK l \in EvalLevel(s) : evaluation_levels' = Insert(evaluation_levels, s, l)
    BY <1>5 DEF AssignEval
  <2>3. EvalTargets(s) \subseteq Known(evaluation_levels)
    BY <2>1 DEF EvalLevel
  <2>4. start_levels[s] \in Nat
    BY <2>1, <1>0 DEF LayerTypeOK
  <2>5. l \in Nat /\ start_levels[s] < l /\ \A t \in EvalTargets(s) : evaluation_levels[t] < l
    <3>1. PICK m \in Above(EvalTargets(s), 1) :
            l = IF m <= start_levels[s] THEN start_levels[s] + 1 ELSE m
      BY <2>2, <2>3 DEF EvalLevel
    <3>2. m \in Nat /\ \A t \in EvalTargets(s) : evaluation_levels[t] < m
      BY <2>3, <1>0, AboveTargets
    <3>3. \A t \in EvalTargets(s) : evaluation_levels[t] \in Nat
      BY <2>3, <1>0 DEF LayerTypeOK
    <3> QED  BY <2>4, <3>1, <3>2, <3>3
  <2>6. s \in Stream
    BY <1>0, NextNode
  <2>7. /\ Known(evaluation_levels)' = Known(evaluation_levels) \cup {s}
        /\ evaluation_levels'[s] = l
        /\ \A t \in Known(evaluation_levels) : evaluation_levels'[t] = evaluation_levels[t]
    BY <2>1, <2>2 DEF Insert, Known
  <2>8. LayerTypeOK'
    <3>1. evaluation_levels' \in [Known(evaluation_levels)' -> Nat]
      BY <1>0, <2>2, <2>5, <2>7 DEF Insert, LayerTypeOK, Known
    <3>2. Known(start_levels)' = Known(start_levels)
      BY <1>1 DEF Known
    <3> QED  BY <1>0, <1>1, <1>2, <2>1, <2>6, <2>7, <3>1, <3>2 DEF LayerTypeOK
  <2>9. EvalAbove'
    <3> SUFFICES ASSUME NEW e \in Filtered(spec), e.from \in Known(evaluation_levels)', e.to # e.from
                 PROVE  /\ e.to \in Known(evaluation_levels)'
                        /\ evaluation_levels'[e.to] < evaluation_levels'[e.from]
      BY <1>1 DEF EvalAbove, Known
    <3>1. CASE e.from = s
      <4>1. e.to \in EvalTargets(s)
        BY <3>1 DEF EvalTargets
      <4> QED  BY <4>1, <3>1, <2>3, <2>5, <2>7
    <3>2. CASE e.from # s
      BY <3>2, <1>0, <2>7 DEF EvalAbove
    <3> QED  BY <3>1, <3>2
  <2>10. StartAbove'
    BY <1>0, <1>1, <2>7 DEF StartAbove, Known
  <2>11. StartBeforeEval'
    BY <1>0, <1>1, <2>5, <2>7 DEF StartBeforeEval, Known
  <2> QED  BY <1>3, <2>8, <2>9, <2>10, <2>11 DEF LInv
<1> QED  BY <1>4, <1>5

(***************************************************************************)
(* The inductive invariant of assign_layers.                               *)
(***************************************************************************)
THEOREM LayerInvariant == LayerSpec => []LInv
<1>1. LInv /\ [LayerNext]_layer_vars => LInv'
  <2>1. LInv /\ UNCHANGED layer_vars => LInv'
    BY DEF layer_vars, LInv, LayerTypeOK, Checked, EvalAbove, StartAbove, StartBeforeEval, Known
  <2> QED  BY <2>1, CheckStep, StartStep, EvalStep DEF LayerNext
<1> QED  BY InitInv, <1>1, PTL DEF LayerSpec

(***************************************************************************)
(* No evaluation is placed at or below a stream that it reads in the same  *)
(* cycle, itself included, whatever the specification.                     *)
(***************************************************************************)
THEOREM EvaluationsFollowTargets == LayerSpec => []EvalAfterTargets
<1>1. LInv => EvalAfterTargets
  <2> SUFFICES ASSUME LInv, NEW e \in spec.edges,
                      e.site \in {"AtCondition", "AtBody"}, ReadsThisCycle(e),
                      CanCoincide(spec.execution_rate[e.from], ExecutionRate(spec, e.to)),
                      e.from \in Known(evaluation_levels)
               PROVE  /\ e.to \in Known(evaluation_levels)
                      /\ evaluation_levels[e.to] < evaluation_levels[e.from]
    BY DEF EvalAfterTargets
  <2>1. e \in Filtered(spec)
    BY EdgesAgree DEF LInv, RateOfSite
  <2>2. ~Cyclic(spec)
    <3>1. e.from \notin Signals
      BY <2>1, EdgeEnds DEF LInv
    <3> QED  BY <3>1 DEF LInv, Checked
  <2>3. e.to # e.from
    BY <2>1, <2>2, NoSelfEdge DEF LInv
  <2> QED  BY <2>1, <2>3 DEF LInv, EvalAbove
<1> QED  BY <1>1, LayerInvariant, PTL

(***************************************************************************)
(* No start is placed at or below the evaluation of a stream that it reads *)
(* in the same cycle.                                                      *)
(***************************************************************************)
THEOREM StartsFollowTargets == LayerSpec => []StartAfterTargets
<1>1. LInv => StartAfterTargets
  <2> SUFFICES ASSUME LInv, NEW e \in spec.edges,
                      e.site = "AtStart", ReadsThisCycle(e),
                      CanCoincide(spec.init_rate[e.from], ExecutionRate(spec, e.to)),
                      e.from \in Known(start_levels)
               PROVE  /\ e.to \in Known(evaluation_levels)
                      /\ evaluation_levels[e.to] < start_levels[e.from]
    BY DEF StartAfterTargets
  <2>1. e \in Filtered(spec)
    BY EdgesAgree DEF LInv, RateOfSite
  <2> QED  BY <2>1 DEF LInv, StartAbove, StartOnly
<1> QED  BY <1>1, LayerInvariant, PTL

(***************************************************************************)
(* A stream is started in a layer below the one of its evaluation.         *)
(***************************************************************************)
THEOREM StartsPrecede == LayerSpec => []StartBeforeEval
BY LayerInvariant, PTL DEF LInv
-----------------------------------------------------------------------------
(* The cycles *)

EvaluationOf(s) == [kind |-> "Evaluate", idx |-> s]

\* The compiler is done before the first cycle.
Compiled ==
  /\ spec \in Specs
  /\ pass = "done" => Known(evaluation_levels) = Stream
  /\ pass # "done" => todo = {}

\* The tasks of a cycle are of one class, and come in the order of the layers.
Scheduled ==
  /\ todo \subseteq due
  /\ due \subseteq TasksOf("event") \/ due \subseteq TasksOf("clock")
  /\ \A v \in due \ todo : \A w \in todo : ~Before(w, v)

\* What was started is there, and its evaluation is still to come or was made.
Ran ==
  /\ ran \in [start : SUBSET Stream, eval : SUBSET Stream]
  /\ ran.start \subseteq live
  /\ \A s \in ran.start :
       EvaluationOf(s) \in due => EvaluationOf(s) \in todo \/ s \in ran.eval

\* The cycles that are not before x.
From(cycles, x) == {d \in cycles : d >= x}

\* b has the latest of the cycles, as many as there is room for, in order.
LatestOf(b, cycles, room) ==
  /\ b \in Seq(cycles)
  /\ Len(b) = IF Cardinality(cycles) < room THEN Cardinality(cycles) ELSE room
  /\ \A i \in 1 .. Len(b) : Cardinality(From(cycles, b[i])) = i

\* Buffers, flags and what was written agree.  A stream that was not there yet,
\* or ended, has no values.
Buffers ==
  /\ cycle \in Nat
  /\ todo # {} => cycle > 0
  /\ DOMAIN buffer = Stream /\ DOMAIN written = Stream
  /\ fresh \subseteq Stream /\ live \subseteq Stream /\ Signals \subseteq live
  /\ ended \subseteq Constraints
  /\ \A s \in Stream :
       /\ written[s] \subseteq 1 .. cycle
       /\ s \notin live => written[s] = {}
       /\ s \in fresh <=> cycle \in written[s]
       /\ EvaluationOf(s) \in todo => s \notin fresh
       /\ LatestOf(buffer[s], written[s], StorageBound(s))

\* What a read of e should give.
IsRight(e, answer) ==
  /\ e.access.mode \in {"Strict", "Cached"} => answer = NthLatest(written[e.to], 1)
  /\ e.access.mode = "Get" => answer = IF cycle \in written[e.to] THEN cycle ELSE None
  /\ e.access.mode = "Fresh" => answer = IF cycle \in written[e.to] THEN Yes ELSE None
  /\ e.access.mode = "Shift" => answer = NthLatest(written[e.to] \ {cycle}, e.access.offset)

\* What was read is right, and remains so: it is settled, or of the past.
Answers ==
  \A r \in reads :
    /\ r.edge \in spec.edges
    /\ IsRight(r.edge, r.answer)
    /\ r.edge.access.mode # "Shift" => EvaluationOf(r.edge.to) \notin todo

FlowInv == Compiled /\ Scheduled /\ Ran /\ Buffers /\ Answers
-----------------------------------------------------------------------------
(* The latest values *)

\* What is at or after x among finitely many cycles is finite, and no more.
LEMMA FromFinite ==
  ASSUME NEW W \in SUBSET Nat, IsFiniteSet(W), NEW x
  PROVE  /\ IsFiniteSet(From(W, x)) /\ Cardinality(From(W, x)) \in Nat
         /\ Cardinality(From(W, x)) <= Cardinality(W)
<1>1. From(W, x) \in SUBSET W
  BY DEF From
<1>2. QED
  BY <1>1, FS_Subset, FS_CardinalityType

\* NthLatest in terms of From.
LEMMA NthLatestOf ==
  ASSUME NEW W, NEW n
  PROVE  LET nth == {c \in W : Cardinality(From(W, c)) = n}
         IN  NthLatest(W, n) = IF nth = {} THEN None ELSE CHOOSE c \in nth : TRUE
BY DEF NthLatest, From

\* The value that n are at or after is the n-th latest.
LEMMA NthLatestIs ==
  ASSUME NEW W \in SUBSET Nat, IsFiniteSet(W), NEW n \in Nat,
         NEW c \in W, Cardinality(From(W, c)) = n
  PROVE  NthLatest(W, n) = c
<1>1. \A x \in W : x \in Nat
  OBVIOUS
<1>2. ASSUME NEW x \in W, NEW y \in W, x < y, Cardinality(From(W, x)) = Cardinality(From(W, y))
      PROVE  FALSE
  <2>1. \A d \in W : d >= y => d >= x
    BY <1>1, <1>2
  <2>2. From(W, y) \in SUBSET From(W, x)
    BY <2>1 DEF From
  <2>3. From(W, x) = From(W, y)
    BY <1>2, <2>2, FromFinite, FS_Subset
  <2>4. x \in From(W, x) /\ x \notin From(W, y)
    BY <1>1, <1>2 DEF From
  <2>5. QED
    BY <2>3, <2>4
<1>3. \A x \in W : Cardinality(From(W, x)) = n => x = c
  <2> SUFFICES ASSUME NEW x \in W, Cardinality(From(W, x)) = n PROVE x = c
    OBVIOUS
  <2>1. ~(x < c) /\ ~(c < x)
    BY <1>2
  <2>2. QED
    BY <1>1, <2>1
<1>4. {x \in W : Cardinality(From(W, x)) = n} = {c}
  BY <1>3
<1>5. QED
  BY <1>4, NthLatestOf

\* There are no more values than were written.
LEMMA NthLatestNone ==
  ASSUME NEW W \in SUBSET Nat, IsFiniteSet(W), NEW n \in Nat, Cardinality(W) < n
  PROVE  NthLatest(W, n) = None
<1>1. \A x \in W : Cardinality(From(W, x)) \in Nat /\ Cardinality(From(W, x)) <= Cardinality(W)
  BY FromFinite
<1>2. Cardinality(W) \in Nat
  BY FS_CardinalityType
<1>3. \A x \in W : Cardinality(From(W, x)) # n
  BY <1>1, <1>2
<1>4. {x \in W : Cardinality(From(W, x)) = n} = {}
  BY <1>3
<1>5. QED
  BY <1>4, NthLatestOf

\* The n-th latest before the newest value is the one after it in the count.
LEMMA LatestBefore ==
  ASSUME NEW W \in SUBSET Nat, IsFiniteSet(W), NEW n \in Nat \ {0},
         NEW c \in W, \A d \in W : d <= c
  PROVE  NthLatest(W \ {c}, n) = NthLatest(W, n + 1)
<1> DEFINE V == W \ {c}
<1>1. \A d \in W : d \in Nat /\ c >= d
  OBVIOUS
<1>2. \A x : x \in V <=> x \in W /\ x # c
  OBVIOUS
<1>3. \A x : From(V, x) = From(W, x) \ {c}
  BY DEF From
<1> HIDE DEF V
<1>4. ASSUME NEW x \in V
      PROVE  Cardinality(From(V, x)) = n <=> Cardinality(From(W, x)) = n + 1
  <2>1. c \in From(W, x)
    BY <1>1, <1>2 DEF From
  <2>2. IsFiniteSet(From(W, x)) /\ Cardinality(From(W, x)) \in Nat
    BY FromFinite
  <2>3. Cardinality(From(W, x) \ {c}) = Cardinality(From(W, x)) - 1
    BY <2>1, <2>2, FS_RemoveElement
  <2>4. Cardinality(From(V, x)) = Cardinality(From(W, x)) - 1
    BY <1>3, <2>3
  <2>5. QED
    BY <2>2, <2>4
<1>5. Cardinality(From(W, c)) = 1
  <2>1. \A d \in W : d >= c <=> d = c
    BY <1>1
  <2>2. From(W, c) = {c}
    BY <2>1 DEF From
  <2>3. QED
    BY <2>2, FS_Singleton
<1> DEFINE A == {x \in V : Cardinality(From(V, x)) = n}
           B == {x \in W : Cardinality(From(W, x)) = n + 1}
<1>6. \A x : x \in A <=> x \in V /\ Cardinality(From(V, x)) = n
  OBVIOUS
<1>7. \A x : x \in B <=> x \in W /\ Cardinality(From(W, x)) = n + 1
  OBVIOUS
<1>8. \A x : x \in A <=> x \in B
  BY <1>2, <1>4, <1>5, <1>6, <1>7
<1>9. A = B
  <2> HIDE DEF A, B
  <2> QED  BY <1>8
<1>10. NthLatest(V, n) = IF A = {} THEN None ELSE CHOOSE x \in A : TRUE
  BY NthLatestOf
<1>11. NthLatest(W, n + 1) = IF B = {} THEN None ELSE CHOOSE x \in B : TRUE
  BY NthLatestOf
<1> HIDE DEF A, B
<1>12. NthLatest(V, n) = NthLatest(W, n + 1)
  BY <1>9, <1>10, <1>11
<1>13. QED
  BY <1>12 DEF V

\* A buffer gives the n-th latest as long as it has room for n.
LEMMA BufferReads ==
  ASSUME NEW W \in SUBSET Nat, IsFiniteSet(W), NEW b, NEW room \in Nat,
         LatestOf(b, W, room), NEW n \in Nat \ {0}, n <= room
  PROVE  NthLatest(W, n) = IF n <= Len(b) THEN b[n] ELSE None
<1>1. b \in Seq(W) /\ Len(b) \in Nat /\ Cardinality(W) \in Nat
  BY FS_CardinalityType DEF LatestOf
<1>2. CASE n <= Len(b)
  <2>1. n \in 1 .. Len(b)
    BY <1>1, <1>2
  <2>2. b[n] \in W
    BY <1>1, <2>1, ElementOfSeq
  <2>3. Cardinality(From(W, b[n])) = n
    BY <2>1 DEF LatestOf
  <2>4. NthLatest(W, n) = b[n]
    BY <2>2, <2>3, NthLatestIs
  <2>5. QED
    BY <1>2, <2>4
<1>3. CASE ~(n <= Len(b))
  <2>1. Cardinality(W) < n
    BY <1>1, <1>3 DEF LatestOf
  <2>2. QED
    BY <1>3, <2>1, NthLatestNone
<1>4. QED
  BY <1>2, <1>3

\* A write of a newer value keeps the latest.
LEMMA WriteKeepsLatest ==
  ASSUME NEW W \in SUBSET Nat, IsFiniteSet(W), NEW b, NEW room \in Nat \ {0},
         LatestOf(b, W, room), NEW v \in Nat, \A d \in W : d < v,
         NEW kept, kept = IF Len(b) = room THEN Len(b) - 1 ELSE Len(b)
  PROVE  LatestOf(<<v>> \o SubSeq(b, 1, kept), W \cup {v}, room)
<1> DEFINE V == W \cup {v}
           c == <<v>> \o SubSeq(b, 1, kept)
<1>1. b \in Seq(W) /\ Len(b) \in Nat /\ Cardinality(W) \in Nat
  BY FS_CardinalityType DEF LatestOf
<1>0. \A d \in W : d \in Nat /\ v >= d /\ ~(d >= v)
  OBVIOUS
<1>2. kept \in Nat /\ kept <= Len(b)
  BY <1>1 DEF LatestOf
<1>3. /\ SubSeq(b, 1, kept) \in Seq(W) /\ Len(SubSeq(b, 1, kept)) = kept
      /\ \A i \in 1 .. kept : SubSeq(b, 1, kept)[i] = b[i]
  BY <1>1, <1>2
<1>4. /\ c \in Seq(V) /\ Len(c) = kept + 1 /\ c[1] = v
      /\ \A i \in 2 .. kept + 1 : c[i] = b[i - 1]
  BY <1>2, <1>3
<1>5. /\ Cardinality(V) = Cardinality(W) + 1 /\ v \notin W
      /\ V \in SUBSET Nat /\ IsFiniteSet(V)
  BY <1>1, FS_AddElement
<1>6. Len(c) = IF Cardinality(V) < room THEN Cardinality(V) ELSE room
  BY <1>1, <1>4, <1>5 DEF LatestOf
<1> HIDE DEF V, c
<1>7. \A d : d \in V <=> d \in W \/ d = v
  BY DEF V
<1>8. ASSUME NEW i \in 1 .. Len(c)
      PROVE  Cardinality(From(V, c[i])) = i
  <2>1. CASE i = 1
    <3>1. c[i] = v
      BY <1>4, <2>1
    <3>0. \A d \in V : d >= v <=> d = v
      <4> SUFFICES ASSUME NEW d \in V PROVE d >= v <=> d = v
        OBVIOUS
      <4>1. CASE d = v
        BY <4>1
      <4>2. CASE d # v
        BY <1>0, <1>7, <4>2
      <4>3. QED
        BY <4>1, <4>2
    <3>2. From(V, c[i]) = {v}
      BY <1>7, <3>1, <3>0 DEF From
    <3>3. QED
      BY <2>1, <3>2, FS_Singleton
  <2>2. CASE i # 1
    <3>1. i - 1 \in 1 .. Len(b) /\ c[i] = b[i - 1]
      BY <1>2, <1>1, <1>4, <1>8, <2>2
    <3>2. b[i - 1] \in W
      BY <1>1, <3>1, ElementOfSeq
    <3>3. v >= c[i]
      BY <1>0, <3>1, <3>2
    <3>4. From(V, c[i]) = From(W, b[i - 1]) \cup {v}
      BY <1>7, <3>1, <3>3 DEF From
    <3>5. IsFiniteSet(From(W, b[i - 1])) /\ v \notin From(W, b[i - 1])
      BY <1>5, FromFinite DEF From
    <3>6. Cardinality(From(W, b[i - 1])) = i - 1
      BY <3>1 DEF LatestOf
    <3>7. Cardinality(From(W, b[i - 1]) \cup {v}) = (i - 1) + 1
      BY <3>5, <3>6, FS_AddElement
    <3>8. QED
      BY <3>4, <3>7
  <2>3. QED
    BY <2>1, <2>2
<1>9. LatestOf(c, V, room)
  BY <1>4, <1>6, <1>8 DEF LatestOf
<1>10. QED
  BY <1>9 DEF c, V
-----------------------------------------------------------------------------
(* What the tasks read *)

\* determine_storage: there is room for a value, and for one more than the
\* furthest access goes back.
LEMMA RoomIs ==
  ASSUME LayerTypeOK, Compiled, NEW s \in Stream
  PROVE  /\ StorageBound(s) \in Nat \ {0}
         /\ \A e \in spec.edges :
              e.to = s /\ e.access.mode = "Shift" => e.access.offset + 1 <= StorageBound(s)
<1> DEFINE costs == {1} \cup {StorageCost(e) : e \in {d \in spec.edges : d.to = s}}
           back == Shifts(spec, s)
<1>1. \A e \in spec.edges : e.access.offset \in Nat
  BY DEF LayerTypeOK, Edge
<1>2. \A n \in back : n \in Nat /\ n + 1 \in costs
  BY <1>1 DEF Shifts, StorageCost
<1>3. \A c \in costs : c = 1 \/ \E n \in back : c = n + 1
  BY DEF Shifts, StorageCost
<1>4. back # {} => \E n \in back : \A m \in back : m <= n
  BY DataflowAssumption DEF Compiled
<1> HIDE DEF costs, back
<1>5. 1 \in costs
  BY DEF costs
<1>6. \E c \in costs : \A d \in costs : d <= c
  <2>1. CASE back = {}
    BY <1>3, <1>5, <2>1
  <2>2. CASE back # {}
    <3>1. PICK n \in back : \A m \in back : m <= n
      BY <1>4, <2>2
    <3>2. \A d \in costs : d <= n + 1
      BY <1>2, <1>3, <3>1
    <3>3. QED
      BY <1>2, <3>1, <3>2
  <2>3. QED
    BY <2>1, <2>2
<1>7. StorageBound(s) \in costs /\ \A d \in costs : d <= StorageBound(s)
  <2>1. StorageBound(s) = CHOOSE c \in costs : \A d \in costs : d <= c
    BY DEF StorageBound, costs
  <2>2. QED
    BY <1>6, <2>1
<1>8. StorageBound(s) \in Nat \ {0}
  BY <1>2, <1>3, <1>7
<1>9. ASSUME NEW e \in spec.edges, e.to = s, e.access.mode = "Shift"
      PROVE  e.access.offset \in back
  BY <1>9 DEF back, Shifts
<1>10. QED
  BY <1>2, <1>7, <1>8, <1>9

\* A buffer gives what was written, as far back as there is room.
LEMMA ReadAtIs ==
  ASSUME LayerTypeOK, Compiled, Buffers, NEW s \in Stream,
         NEW k \in Nat, k + 1 <= StorageBound(s)
  PROVE  /\ written[s] \in SUBSET Nat /\ IsFiniteSet(written[s])
         /\ ReadAt(s, k) = NthLatest(written[s], k + 1)
<1>1. written[s] \subseteq 1 .. cycle /\ cycle \in Nat
  BY DEF Buffers
<1>2. written[s] \in SUBSET Nat /\ IsFiniteSet(written[s])
  <2>1. IsFiniteSet(1 .. cycle)
    BY <1>1, FS_Interval
  <2>2. written[s] \in SUBSET (1 .. cycle)
    BY <1>1
  <2>3. IsFiniteSet(written[s])
    BY <2>1, <2>2, FS_Subset
  <2>4. QED
    BY <1>1, <2>3
<1>3. LatestOf(buffer[s], written[s], StorageBound(s)) /\ StorageBound(s) \in Nat
  BY RoomIs DEF Buffers
<1>4. NthLatest(written[s], k + 1) =
        IF k + 1 <= Len(buffer[s]) THEN buffer[s][k + 1] ELSE None
  BY <1>2, <1>3, BufferReads
<1>5. Len(buffer[s]) \in Nat
  BY <1>3 DEF LatestOf
<1>6. CASE s \in live
  BY <1>2, <1>4, <1>5, <1>6 DEF ReadAt
<1>7. CASE s \notin live
  <2>1. written[s] = {}
    BY <1>7 DEF Buffers
  <2>2. Cardinality(written[s]) < k + 1
    BY <2>1, FS_EmptySet
  <2>3. NthLatest(written[s], k + 1) = None
    BY <1>2, <2>2, NthLatestNone
  <2>4. QED
    BY <1>2, <1>7, <2>3 DEF ReadAt
<1>8. QED
  BY <1>6, <1>7

\* Each kind of access gives what it should, at the moment it is made.
LEMMA ReadIsRight ==
  ASSUME LayerTypeOK, Compiled, Buffers, NEW e \in spec.edges
  PROVE  IsRight(e, Read(e))
<1> DEFINE s == e.to
           W == written[s]
<1>1. /\ s \in Stream /\ e.access.offset \in Nat
      /\ e.access.mode \in {"Strict", "Get", "Fresh", "Cached", "Shift"}
  BY DEF LayerTypeOK, Edge
<1>2. StorageBound(s) \in Nat \ {0}
  BY <1>1, RoomIs
<1>3. W \in SUBSET Nat /\ IsFiniteSet(W) /\ ReadAt(s, 0) = NthLatest(W, 1)
  <2>1. 0 + 1 <= StorageBound(s)
    BY <1>2
  <2>2. QED
    BY <1>1, <2>1, ReadAtIs
<1>4. /\ cycle \in Nat
      /\ s \in fresh <=> cycle \in W
      /\ \A d \in W : d <= cycle
  BY <1>1 DEF Buffers
<1>5. cycle \in W => NthLatest(W, 1) = cycle
  <2> SUFFICES ASSUME cycle \in W PROVE NthLatest(W, 1) = cycle
    OBVIOUS
  <2>1. \A d \in W : d >= cycle <=> d = cycle
    BY <1>3, <1>4
  <2>2. From(W, cycle) = {cycle}
    BY <2>1 DEF From
  <2>3. Cardinality(From(W, cycle)) = 1
    BY <2>2, FS_Singleton
  <2>4. QED
    BY <1>3, <2>3, NthLatestIs
<1>6. CASE e.access.mode # "Shift"
  <2>1. e.access.mode \in {"Strict", "Cached"} => Read(e) = NthLatest(W, 1)
    BY <1>3 DEF Read
  <2>2. e.access.mode = "Get" => Read(e) = IF cycle \in W THEN NthLatest(W, 1) ELSE None
    BY <1>3, <1>4 DEF Read
  <2>3. e.access.mode = "Fresh" => Read(e) = IF cycle \in W THEN Yes ELSE None
    BY <1>4 DEF Read
  <2>4. QED
    BY <1>5, <1>6, <2>1, <2>2, <2>3 DEF IsRight
<1>7. CASE e.access.mode = "Shift"
  <2> DEFINE n == e.access.offset
  <2>1. n \in Nat \ {0} /\ n + 1 <= StorageBound(s)
    BY <1>1, <1>7, RoomIs, DataflowAssumption DEF Compiled
  <2>2. Read(e) = ReadAt(s, Adjusted(s, n))
    BY <1>7 DEF Read
  <2>3. CASE s \in fresh
    <3>1. ReadAt(s, n) = NthLatest(W, n + 1)
      BY <1>1, <2>1, ReadAtIs
    <3>2. cycle \in W
      BY <1>4, <2>3
    <3> HIDE DEF W, n
    <3>3. NthLatest(W \ {cycle}, n) = NthLatest(W, n + 1)
      BY <1>3, <1>4, <2>1, <3>2, LatestBefore
    <3>4. QED
      BY <1>7, <2>2, <2>3, <3>1, <3>3 DEF IsRight, Adjusted, W, n
  <2>4. CASE s \notin fresh
    <3>1. n - 1 \in Nat /\ (n - 1) + 1 = n /\ (n - 1) + 1 <= StorageBound(s)
      BY <1>2, <2>1
    <3>2. ReadAt(s, n - 1) = NthLatest(W, n)
      BY <1>1, <3>1, ReadAtIs
    <3>3. W \ {cycle} = W
      BY <1>4, <2>4
    <3>4. QED
      BY <1>7, <2>2, <2>4, <3>2, <3>3 DEF IsRight, Adjusted
  <2>5. QED
    BY <2>3, <2>4
<1>8. QED
  BY <1>6, <1>7

\* A write in the present cycle is the latest.
LEMMA WriteIsLatest ==
  ASSUME LayerTypeOK, Compiled, Buffers, NEW s \in Stream, NEW v \in Nat,
         \A d \in written[s] : d < v
  PROVE  LatestOf(Write(s, v), written[s] \cup {v}, StorageBound(s))
<1>1. StorageBound(s) \in Nat \ {0} /\ LatestOf(buffer[s], written[s], StorageBound(s))
  BY RoomIs DEF Buffers
<1>2. written[s] \in SUBSET Nat /\ IsFiniteSet(written[s])
  <2>1. 0 + 1 <= StorageBound(s)
    BY <1>1
  <2>2. QED
    BY <2>1, ReadAtIs
<1> DEFINE kept == IF Len(buffer[s]) = StorageBound(s) THEN Len(buffer[s]) - 1 ELSE Len(buffer[s])
<1>3. LatestOf(<<v>> \o SubSeq(buffer[s], 1, kept), written[s] \cup {v}, StorageBound(s))
  BY <1>1, <1>2, WriteKeepsLatest
<1>4. QED
  BY <1>3 DEF Write

\* A right answer stays right: a write in the cycle changes nothing of the past,
\* and of the rest only what was not read.
LEMMA AnswerStays ==
  ASSUME NEW e, NEW answer, IsRight(e, answer), cycle' = cycle,
         DOMAIN written = Stream, e.to \in Stream,
         \/ written' = written
         \/ \E s \in Stream : /\ written' = [written EXCEPT ![s] = @ \cup {cycle}]
                              /\ e.access.mode # "Shift" => e.to # s
  PROVE  IsRight(e, answer)'
<1>1. written'[e.to] \ {cycle} = written[e.to] \ {cycle}
  OBVIOUS
<1>2. e.access.mode # "Shift" => written'[e.to] = written[e.to]
  OBVIOUS
<1>3. QED
  BY <1>1, <1>2 DEF IsRight
-----------------------------------------------------------------------------
(* The order of the tasks *)

\* What the layer pass achieves.
Levels == LInv /\ EvalAfterTargets /\ StartAfterTargets

\* The tasks of a cycle are due in clauses that can coincide.
LEMMA OneClass ==
  ASSUME Compiled, Scheduled, NEW v \in due, NEW w \in due
  PROVE  /\ v.idx \in Constraints /\ v.kind \in {"Start", "Evaluate", "End"}
         /\ v = [kind |-> v.kind, idx |-> v.idx]
         /\ v.kind = "Evaluate" /\ w.kind = "Start" =>
              CanCoincide(spec.init_rate[w.idx], spec.execution_rate[v.idx])
         /\ v.kind = "Evaluate" /\ w.kind = "Evaluate" =>
              CanCoincide(spec.execution_rate[w.idx], spec.execution_rate[v.idx])
<1>1. spec.startable \subseteq Constraints /\ spec.ending \subseteq Constraints
  BY DataflowAssumption DEF Compiled
<1> DEFINE Of(x, class) ==
      /\ x.idx \in Constraints /\ x.kind \in {"Start", "Evaluate", "End"}
      /\ x = [kind |-> x.kind, idx |-> x.idx]
      /\ x.kind = "Start" => (spec.init_rate[x.idx] = "Conditional") = (class = "event")
      /\ x.kind = "Evaluate" => (spec.execution_rate[x.idx] = "Conditional") = (class = "event")
<1>2. ASSUME NEW class, NEW x \in TasksOf(class)
      PROVE  Of(x, class)
  BY <1>1 DEF TasksOf
<1>3. PICK class : v \in TasksOf(class) /\ w \in TasksOf(class)
  BY DEF Scheduled
<1>4. Of(v, class) /\ Of(w, class)
  BY <1>2, <1>3
<1>5. QED
  BY <1>4 DEF CanCoincide

\* When a task is next, the streams it reads in this cycle have been evaluated.
LEMMA Settled ==
  ASSUME Levels, Compiled, Scheduled, pass = "done", NEW w \in NextTasks,
         NEW e \in spec.edges, e.from = w.idx, e.access.mode # "Shift",
         \/ w.kind = "Start" /\ e.site = "AtStart"
         \/ w.kind = "Evaluate" /\ e.site \in {"AtCondition", "AtBody"}
         \/ w.kind = "End"
  PROVE  /\ EvaluationOf(e.to) \notin todo \ {w}
         /\ w.kind = "Evaluate" => e.to # w.idx
<1>1. /\ w \in todo /\ w \in due
      /\ \A v \in todo : ~Before(v, w)
  BY DEF NextTasks, Scheduled
<1>2. /\ \A s \in Stream : evaluation_levels[s] \in Nat /\ start_levels[s] \in Nat
      /\ e.to \in Stream /\ e.from \in Constraints
      /\ Known(evaluation_levels) = Stream /\ Known(start_levels) = Stream
  BY DEF Levels, LInv, LayerTypeOK, Compiled, Edge
<1>3. w.idx \in Constraints
  BY <1>1, OneClass
<1>4. ASSUME EvaluationOf(e.to) \in due, w.kind \in {"Start", "Evaluate"}
      PROVE  evaluation_levels[e.to] < Level(w)
  <2>1. /\ EvaluationOf(e.to).kind = "Evaluate" /\ EvaluationOf(e.to).idx = e.to
        /\ e.to \in Constraints
    BY <1>4, OneClass DEF EvaluationOf
  <2>2. ExecutionRate(spec, e.to) = spec.execution_rate[e.to]
    BY <2>1, LayersAssumption DEF ExecutionRate
  <2>3. ReadsThisCycle(e)
    BY DEF ReadsThisCycle
  <2>4. CASE w.kind = "Start"
    <3>1. CanCoincide(spec.init_rate[e.from], spec.execution_rate[e.to])
      BY <1>1, <1>4, <2>1, <2>4, OneClass
    <3>2. evaluation_levels[e.to] < start_levels[e.from]
      BY <1>2, <2>2, <2>3, <2>4, <3>1 DEF Levels, StartAfterTargets, Stream
    <3>3. QED
      BY <2>4, <3>2 DEF Level
  <2>5. CASE w.kind = "Evaluate"
    <3>1. CanCoincide(spec.execution_rate[e.from], spec.execution_rate[e.to])
      BY <1>1, <1>4, <2>1, <2>5, OneClass
    <3>2. evaluation_levels[e.to] < evaluation_levels[e.from]
      BY <1>2, <2>2, <2>3, <2>5, <3>1 DEF Levels, EvalAfterTargets, Stream
    <3>3. QED
      BY <2>5, <3>2 DEF Level
  <2>6. QED
    BY <1>4, <2>4, <2>5
<1>5. EvaluationOf(e.to) \notin todo \ {w}
  <2> SUFFICES ASSUME EvaluationOf(e.to) \in todo, EvaluationOf(e.to) # w PROVE FALSE
    OBVIOUS
  <2>1. ~Before(EvaluationOf(e.to), w) /\ EvaluationOf(e.to) \in due
    BY <1>1 DEF Scheduled
  <2>2. w.kind # "End" /\ ~(evaluation_levels[e.to] < Level(w))
    BY <2>1 DEF Before, Level, EvaluationOf
  <2>3. w.kind \in {"Start", "Evaluate"}
    BY <1>1, <2>2, OneClass
  <2>4. QED
    BY <1>4, <2>1, <2>2, <2>3
<1>6. w.kind = "Evaluate" => e.to # w.idx
  <2> SUFFICES ASSUME w.kind = "Evaluate", e.to = w.idx PROVE FALSE
    OBVIOUS
  <2>1. EvaluationOf(e.to) = w
    BY <1>1, OneClass DEF EvaluationOf
  <2>2. evaluation_levels[e.to] < evaluation_levels[e.to]
    BY <1>1, <1>4, <2>1 DEF Level
  <2>3. QED
    BY <1>2, <2>2
<1>7. QED
  BY <1>5, <1>6

\* A stream is started before its evaluation is next.
LEMMA StartIsFirst ==
  ASSUME Levels, Compiled, Scheduled, pass = "done", NEW w \in NextTasks, w.kind = "Start",
         EvaluationOf(w.idx) \in due
  PROVE  EvaluationOf(w.idx) \in todo
<1> SUFFICES ASSUME EvaluationOf(w.idx) \in due \ todo PROVE FALSE
  OBVIOUS
<1>1. w \in todo /\ w \in due /\ w.idx \in Constraints
  BY OneClass DEF NextTasks, Scheduled
<1>2. ~Before(w, EvaluationOf(w.idx))
  BY <1>1 DEF Scheduled
<1>3. ~(start_levels[w.idx] < evaluation_levels[w.idx])
  BY <1>2 DEF Before, Level, EvaluationOf
<1>4. QED
  BY <1>1, <1>3 DEF Levels, LInv, StartBeforeEval, Compiled, Stream
-----------------------------------------------------------------------------
(* The steps keep the invariant *)

\* The run starts in the invariant.
LEMMA FlowInitInv == FlowInit => FlowInv
<1> SUFFICES ASSUME FlowInit PROVE FlowInv
  OBVIOUS
<1>1. Compiled
  BY DEF FlowInit, Init, Compiled
<1>2. Scheduled /\ Ran /\ Answers
  BY DEF FlowInit, Scheduled, Ran, Answers
<1>3. LInv
  BY InitInv DEF FlowInit
<1>4. \A s \in Stream : LatestOf(<<>>, {}, StorageBound(s))
  BY <1>1, <1>3, RoomIs, FS_EmptySet DEF LatestOf, LInv
<1>5. Buffers
  BY <1>4, DataflowAssumption, LayersAssumption DEF FlowInit, Init, Buffers, Stream
<1>6. QED
  BY <1>1, <1>2, <1>5 DEF FlowInv

\* The compiler's steps come before all cycles.
LEMMA CompileStep ==
  ASSUME FlowInv, LayerNext, UNCHANGED flow_vars
  PROVE  FlowInv'
<1>1. /\ cycle' = cycle /\ buffer' = buffer /\ live' = live /\ fresh' = fresh
      /\ ended' = ended /\ todo' = todo /\ due' = due /\ ran' = ran
      /\ reads' = reads /\ written' = written
  BY DEF flow_vars
<1>2. spec' = spec /\ pass # "done"
  BY DEF LayerNext, CheckAcyclic, AssignStart, AssignEval
<1>3. Compiled'
  BY <1>1, <1>2 DEF FlowInv, Compiled, LayerNext, CheckAcyclic, AssignStart, AssignEval, Unassigned
<1>4. todo' = {}
  BY <1>1, <1>2 DEF FlowInv, Compiled
<1>5. Scheduled'
  BY <1>1, <1>2, <1>4 DEF FlowInv, Scheduled, TasksOf
<1>6. Ran'
  BY <1>1 DEF FlowInv, Ran
<1>7. \A s : StorageBound(s)' = StorageBound(s)
  BY <1>2 DEF StorageBound
<1>8. Buffers'
  BY <1>1, <1>7 DEF FlowInv, Buffers
<1>9. Answers'
  BY <1>1, <1>2 DEF FlowInv, Answers, IsRight
<1>10. QED
  BY <1>3, <1>5, <1>6, <1>8, <1>9 DEF FlowInv

\* A cycle begins: what ended is cleared, the signals have their new values.
LEMMA BeginStep ==
  ASSUME Levels, FlowInv, NEW signals \in SUBSET Signals,
         NEW class \in {"event", "clock"}, NEW tasks \in SUBSET TasksOf(class),
         BeginCycle(signals, tasks)
  PROVE  FlowInv'
<1>1. /\ pass = "done" /\ cycle' = cycle + 1
      /\ live' = live \ ended
      /\ buffer' = Ingested(signals)
      /\ written' = [s \in Stream |-> IF s \in signals THEN written[s] \cup {cycle + 1}
                                      ELSE IF s \in ended THEN {} ELSE written[s]]
      /\ fresh' = signals /\ ended' = {}
      /\ todo' = tasks /\ due' = tasks
      /\ ran' = [start |-> {}, eval |-> {}] /\ reads' = {}
  BY DEF BeginCycle
<1>2. /\ spec' = spec /\ pass' = pass
      /\ start_levels' = start_levels /\ evaluation_levels' = evaluation_levels
  BY DEF BeginCycle, layer_vars
<1>3. Compiled /\ Buffers /\ LayerTypeOK
  BY DEF FlowInv, Levels, LInv
<1>4. Compiled'
  BY <1>1, <1>2, <1>3 DEF Compiled, Known
<1>5. Scheduled'
  BY <1>1, <1>2 DEF Scheduled, TasksOf
<1>6. Ran' /\ Answers'
  BY <1>1 DEF Ran, Answers
<1>7. \A s \in signals : s \in Stream /\ s \notin ended /\ s \in live
  BY <1>3, LayersAssumption DEF Buffers, Stream
<1>8. \A s : StorageBound(s)' = StorageBound(s)
  BY <1>2 DEF StorageBound
<1>9. cycle \in Nat /\ \A s \in Stream : \A d \in written[s] : d \in 1 .. cycle
  BY <1>3 DEF Buffers
<1>10. ASSUME NEW s \in Stream
       PROVE  /\ written'[s] \subseteq 1 .. cycle'
              /\ s \notin live' => written'[s] = {}
              /\ s \in fresh' <=> cycle' \in written'[s]
              /\ EvaluationOf(s) \in todo' => s \notin fresh'
              /\ LatestOf(buffer'[s], written'[s], StorageBound(s))
  <2>1. EvaluationOf(s) \in todo' => s \in Constraints
    <3>1. spec.startable \subseteq Constraints /\ spec.ending \subseteq Constraints
      BY <1>3, DataflowAssumption DEF Compiled
    <3>2. QED
      BY <1>1, <3>1 DEF TasksOf, EvaluationOf
  <2>2. EvaluationOf(s) \in todo' => s \notin fresh'
    BY <1>1, <2>1, LayersAssumption
  <2>3. CASE s \in signals
    <3>1. written'[s] = written[s] \cup {cycle + 1} /\ buffer'[s] = Write(s, cycle + 1)
      BY <1>1, <2>3 DEF Ingested
    <3>2. cycle + 1 \in Nat /\ \A d \in written[s] : d < cycle + 1
      BY <1>9
    <3>3. LatestOf(buffer'[s], written'[s], StorageBound(s))
      BY <1>3, <3>1, <3>2, WriteIsLatest
    <3>4. written'[s] \subseteq 1 .. cycle'
      BY <1>1, <1>9, <3>1
    <3>5. QED
      BY <1>1, <1>7, <2>2, <2>3, <3>1, <3>3, <3>4
  <2>4. CASE s \notin signals /\ s \in ended
    <3>1. written'[s] = {} /\ buffer'[s] = <<>>
      BY <1>1, <2>4 DEF Ingested, AfterEnd
    <3>2. LatestOf(<<>>, {}, StorageBound(s))
      BY <1>3, RoomIs, FS_EmptySet DEF LatestOf
    <3>3. QED
      BY <1>1, <2>2, <2>4, <3>1, <3>2
  <2>5. CASE s \notin signals /\ s \notin ended
    <3>1. written'[s] = written[s] /\ buffer'[s] = buffer[s]
      BY <1>1, <2>5 DEF Ingested, AfterEnd
    <3>2. cycle + 1 \notin written[s] /\ written[s] \subseteq 1 .. cycle'
      BY <1>1, <1>9
    <3>3. LatestOf(buffer[s], written[s], StorageBound(s)) /\ (s \notin live => written[s] = {})
      BY <1>3 DEF Buffers
    <3>4. QED
      BY <1>1, <2>2, <2>5, <3>1, <3>2, <3>3
  <2>6. QED
    BY <2>3, <2>4, <2>5
<1>11. /\ cycle' \in Nat /\ cycle' > 0
       /\ DOMAIN buffer' = Stream /\ DOMAIN written' = Stream
       /\ fresh' \subseteq Stream /\ live' \subseteq Stream /\ Signals \subseteq live'
       /\ ended' \subseteq Constraints
  BY <1>1, <1>3, LayersAssumption DEF Buffers, Ingested, Stream
<1>12. Buffers'
  BY <1>8, <1>10, <1>11 DEF Buffers
<1>13. QED
  BY <1>4, <1>5, <1>6, <1>12 DEF FlowInv

\* What remains of a cycle after a task is in order, too.
LEMMA ScheduledStep ==
  ASSUME Compiled, Scheduled, NEW w \in NextTasks, todo' = todo \ {w}, due' = due,
         UNCHANGED layer_vars
  PROVE  Compiled' /\ Scheduled' /\ pass = "done"
<1>1. /\ spec' = spec /\ pass' = pass
      /\ start_levels' = start_levels /\ evaluation_levels' = evaluation_levels
  BY DEF layer_vars
<1>2. w \in todo /\ \A v \in todo : ~Before(v, w)
  BY DEF NextTasks
<1>3. \A v, u : Before(v, u)' <=> Before(v, u)
  BY <1>1 DEF Before, Level
<1>4. \A v \in due' \ todo' : \A u \in todo' : ~Before(u, v)'
  BY <1>2, <1>3 DEF Scheduled
<1>5. Scheduled'
  BY <1>1, <1>4 DEF Scheduled, TasksOf
<1>6. Compiled' /\ pass = "done"
  BY <1>1, <1>2 DEF Compiled, Known
<1>7. QED
  BY <1>5, <1>6

\* A task that writes nothing keeps the buffers.
LEMMA BuffersRest ==
  ASSUME Buffers, spec' = spec, todo' \subseteq todo,
         UNCHANGED <<cycle, buffer, fresh, written>>,
         live \subseteq live', live' \subseteq Stream, ended' \subseteq Constraints
  PROVE  Buffers'
<1>1. \A s : StorageBound(s)' = StorageBound(s)
  BY DEF StorageBound
<1>2. QED
  BY <1>1 DEF Buffers

\* The reads of a task are right, and those before it stay right.
LEMMA AnswersStep ==
  ASSUME Levels, Compiled, Scheduled, Buffers, Answers, pass = "done", spec' = spec,
         NEW w \in NextTasks, todo' = todo \ {w}, cycle' = cycle,
         NEW sites,
         reads' = reads \/ ReadEdges(w.idx, sites),
         \/ w.kind = "Start" /\ sites = {"AtStart"}
         \/ w.kind = "Evaluate" /\ sites = {"AtCondition", "AtBody"}
         \/ w.kind = "End" /\ sites = {"AtEnd"},
         \/ written' = written
         \/ w.kind = "Evaluate" /\ written' = [written EXCEPT ![w.idx] = @ \cup {cycle}]
  PROVE  Answers'
<1>1. LayerTypeOK /\ DOMAIN written = Stream /\ \A e \in spec.edges : e.to \in Stream
  BY DEF Levels, LInv, LayerTypeOK, Buffers, Edge
<1>2. w \in todo /\ w \in due /\ w.idx \in Stream /\ w = [kind |-> w.kind, idx |-> w.idx]
  BY OneClass DEF NextTasks, Scheduled, Stream
<1>3. ASSUME NEW e \in spec.edges, NEW answer, IsRight(e, answer),
             e.access.mode # "Shift" =>
               EvaluationOf(e.to) \notin todo' /\ (w.kind = "Evaluate" => e.to # w.idx)
      PROVE  IsRight(e, answer)' /\ (e.access.mode # "Shift" => EvaluationOf(e.to) \notin todo')
  BY <1>1, <1>2, <1>3, AnswerStays
<1>4. ASSUME NEW r \in reads
      PROVE  /\ r.edge \in spec.edges /\ IsRight(r.edge, r.answer)'
             /\ r.edge.access.mode # "Shift" => EvaluationOf(r.edge.to) \notin todo'
  <2>1. /\ r.edge \in spec.edges /\ IsRight(r.edge, r.answer)
        /\ r.edge.access.mode # "Shift" => EvaluationOf(r.edge.to) \notin todo
    BY DEF Answers
  <2>2. r.edge.access.mode # "Shift" /\ w.kind = "Evaluate" => r.edge.to # w.idx
    BY <1>2, <2>1 DEF EvaluationOf
  <2>3. QED
    BY <1>3, <2>1, <2>2
<1>5. ASSUME NEW e \in spec.edges, e.from = w.idx, e.site \in sites,
             NEW answer, answer = Read(e)
      PROVE  /\ IsRight(e, answer)'
             /\ e.access.mode # "Shift" => EvaluationOf(e.to) \notin todo'
  <2>1. e.access.mode # "Shift" =>
          EvaluationOf(e.to) \notin todo \ {w} /\ (w.kind = "Evaluate" => e.to # w.idx)
    BY <1>5, Settled
  <2>2. IsRight(e, answer)
    BY <1>1, <1>5, ReadIsRight
  <2>3. QED
    BY <1>3, <2>1, <2>2
<1>6. ASSUME NEW r \in reads'
      PROVE  /\ r.edge \in spec.edges /\ IsRight(r.edge, r.answer)'
             /\ r.edge.access.mode # "Shift" => EvaluationOf(r.edge.to) \notin todo'
  <2>1. CASE r \in reads
    BY <1>4, <2>1
  <2>2. CASE r \notin reads
    <3>1. PICK e \in spec.edges : /\ e.from = w.idx /\ e.site \in sites
                                  /\ r = [edge |-> e, answer |-> Read(e)]
      BY <2>2 DEF ReadEdges
    <3>2. r.edge = e /\ r.answer = Read(e)
      BY <3>1
    <3>3. QED
      BY <1>5, <3>1, <3>2
  <2>3. QED
    BY <2>1, <2>2
<1>7. QED
  BY <1>6 DEF Answers

\* A start comes before the evaluation of its stream.
LEMMA StartTask ==
  ASSUME Levels, FlowInv, NEW w \in NextTasks, w.kind = "Start", Start(w.idx),
         todo' = todo \ {w}, UNCHANGED <<layer_vars, cycle, due>>
  PROVE  FlowInv'
<1>1. Compiled /\ Scheduled /\ Ran /\ Buffers /\ Answers
  BY DEF FlowInv
<1>2. Compiled' /\ Scheduled' /\ pass = "done" /\ spec' = spec
  BY <1>1, ScheduledStep DEF layer_vars
<1>3. w \in todo /\ w \in due /\ w.idx \in Stream /\ w = [kind |-> "Start", idx |-> w.idx]
  BY <1>1, OneClass DEF NextTasks, Scheduled, Stream
<1>4. /\ ReadEdges(w.idx, {"AtStart"})
      /\ UNCHANGED <<buffer, fresh, ended, written>>
      /\ \/ UNCHANGED <<live, ran>>
         \/ live' = live \cup {w.idx} /\ ran' = [ran EXCEPT !.start = @ \cup {w.idx}]
  BY DEF Start
<1>5. \A s : EvaluationOf(s) \in todo' <=> EvaluationOf(s) \in todo
  BY <1>3 DEF EvaluationOf
<1>6. Ran'
  <2>1. EvaluationOf(w.idx) \in due => EvaluationOf(w.idx) \in todo
    BY <1>1, <1>2, StartIsFirst
  <2>2. CASE UNCHANGED <<live, ran>>
    BY <1>1, <1>5, <2>2 DEF Ran
  <2>3. CASE live' = live \cup {w.idx} /\ ran' = [ran EXCEPT !.start = @ \cup {w.idx}]
    <3>1. /\ ran'.start = ran.start \cup {w.idx} /\ ran'.eval = ran.eval
          /\ ran' \in [start : SUBSET Stream, eval : SUBSET Stream]
      BY <1>1, <1>3, <2>3 DEF Ran
    <3>2. QED
      BY <1>1, <1>5, <2>1, <2>3, <3>1 DEF Ran
  <2>4. QED
    BY <1>4, <2>2, <2>3
<1>7. Buffers'
  BY <1>1, <1>2, <1>3, <1>4, BuffersRest DEF Buffers
<1>8. Answers'
  BY <1>1, <1>2, <1>4, AnswersStep
<1>9. QED
  BY <1>2, <1>6, <1>7, <1>8 DEF FlowInv

\* An evaluation writes once in a cycle, and nobody has read it before.
LEMMA EvaluateTask ==
  ASSUME Levels, FlowInv, NEW w \in NextTasks, w.kind = "Evaluate", Evaluate(w.idx),
         todo' = todo \ {w}, UNCHANGED <<layer_vars, cycle, due>>
  PROVE  FlowInv'
<1> DEFINE s == w.idx
<1>1. Compiled /\ Scheduled /\ Ran /\ Buffers /\ Answers /\ LayerTypeOK
  BY DEF FlowInv, Levels, LInv
<1>2. Compiled' /\ Scheduled' /\ pass = "done" /\ spec' = spec /\ cycle' = cycle /\ due' = due
  BY <1>1, ScheduledStep DEF layer_vars
<1>3. w \in todo /\ w \in due /\ s \in Stream /\ w = EvaluationOf(s)
  BY <1>1, OneClass DEF NextTasks, Scheduled, Stream, EvaluationOf
<1>4. \A t : EvaluationOf(t) \in todo' <=> EvaluationOf(t) \in todo /\ t # s
  BY <1>3 DEF EvaluationOf
<1>5. CASE s \notin live
  <2>1. UNCHANGED <<buffer, live, fresh, ended, ran, reads, written>>
    BY <1>5 DEF Evaluate
  <2>2. Ran'
    BY <1>1, <1>2, <1>4, <1>5, <2>1 DEF Ran
  <2>3. Buffers'
    BY <1>1, <1>2, <2>1, BuffersRest DEF Buffers
  <2>4. Answers'
    BY <1>1, <1>2, <2>1, AnswersStep
  <2>5. QED
    BY <1>2, <2>2, <2>3, <2>4 DEF FlowInv
<1>6. CASE s \in live
  <2>1. /\ ReadEdges(s, {"AtCondition", "AtBody"})
        /\ ran' = [ran EXCEPT !.eval = @ \cup {s}]
        /\ UNCHANGED <<live, ended>>
        /\ \/ UNCHANGED <<buffer, fresh, written>>
           \/ /\ buffer' = [buffer EXCEPT ![s] = Write(s, cycle)]
              /\ fresh' = fresh \cup {s}
              /\ written' = [written EXCEPT ![s] = @ \cup {cycle}]
    BY <1>6 DEF Evaluate
  <2>2. Ran'
    <3>1. /\ ran'.start = ran.start /\ ran'.eval = ran.eval \cup {s}
          /\ ran' \in [start : SUBSET Stream, eval : SUBSET Stream]
      BY <1>1, <1>3, <2>1 DEF Ran
    <3>2. QED
      BY <1>1, <1>2, <1>4, <2>1, <3>1 DEF Ran
  <2>3. CASE UNCHANGED <<buffer, fresh, written>>
    <3>1. Buffers'
      BY <1>1, <1>2, <2>1, <2>3, BuffersRest DEF Buffers
    <3>2. Answers'
      BY <1>1, <1>2, <2>1, <2>3, AnswersStep
    <3>3. QED
      BY <1>2, <2>2, <3>1, <3>2 DEF FlowInv
  <2>4. CASE /\ buffer' = [buffer EXCEPT ![s] = Write(s, cycle)]
             /\ fresh' = fresh \cup {s}
             /\ written' = [written EXCEPT ![s] = @ \cup {cycle}]
    <3>1. cycle \notin written[s] /\ cycle \in Nat /\ DOMAIN buffer = Stream /\ DOMAIN written = Stream
      BY <1>1, <1>3 DEF Buffers
    <3>2. written[s] \subseteq 1 .. cycle
      BY <1>1, <1>3 DEF Buffers
    <3>3. \A d \in written[s] : d < cycle
      BY <3>1, <3>2
    <3>4. LatestOf(buffer'[s], written'[s], StorageBound(s))
      <4>1. LatestOf(Write(s, cycle), written[s] \cup {cycle}, StorageBound(s))
        BY <1>1, <1>3, <3>1, <3>3, WriteIsLatest
      <4>2. buffer'[s] = Write(s, cycle) /\ written'[s] = written[s] \cup {cycle}
        BY <1>3, <2>4, <3>1
      <4>3. QED
        BY <4>1, <4>2
    <3>5. cycle \in 1 .. cycle
      BY <1>1, <1>3 DEF Buffers
    <3>6. \A t : StorageBound(t)' = StorageBound(t)
      BY <1>2 DEF StorageBound
    <3>7. ASSUME NEW t \in Stream
          PROVE  /\ written'[t] \subseteq 1 .. cycle
                 /\ t \notin live => written'[t] = {}
                 /\ t \in fresh' <=> cycle \in written'[t]
                 /\ EvaluationOf(t) \in todo' => t \notin fresh'
                 /\ LatestOf(buffer'[t], written'[t], StorageBound(t))
      <4>1. CASE t = s
        <5>1. written'[s] = written[s] \cup {cycle} /\ s \in fresh'
          BY <1>3, <2>4, <3>1
        <5>2. QED
          BY <1>4, <1>6, <3>2, <3>4, <3>5, <4>1, <5>1
      <4>2. CASE t # s
        <5>1. written'[t] = written[t] /\ buffer'[t] = buffer[t] /\ (t \in fresh' <=> t \in fresh)
          BY <2>4, <3>1, <4>2
        <5>2. QED
          BY <1>1, <1>4, <4>2, <5>1 DEF Buffers
      <4>3. QED
        BY <4>1, <4>2
    <3>8. DOMAIN buffer' = Stream /\ DOMAIN written' = Stream /\ fresh' \subseteq Stream
      BY <1>1, <1>3, <2>4 DEF Buffers
    <3>9. Buffers'
      BY <1>1, <1>2, <2>1, <3>6, <3>7, <3>8 DEF Buffers
    <3>10. Answers'
      BY <1>1, <1>2, <2>1, <2>4, AnswersStep
    <3>11. QED
      BY <1>2, <2>2, <3>9, <3>10 DEF FlowInv
  <2>5. QED
    BY <2>1, <2>3, <2>4
<1>7. QED
  BY <1>5, <1>6

\* An end notes that the stream ended; its values stay for the cycle.
LEMMA EndTask ==
  ASSUME Levels, FlowInv, NEW w \in NextTasks, w.kind = "End", End(w.idx),
         todo' = todo \ {w}, UNCHANGED <<layer_vars, cycle, due>>
  PROVE  FlowInv'
<1>1. Compiled /\ Scheduled /\ Ran /\ Buffers /\ Answers
  BY DEF FlowInv
<1>2. Compiled' /\ Scheduled' /\ pass = "done" /\ spec' = spec
  BY <1>1, ScheduledStep DEF layer_vars
<1>3. w \in todo /\ w \in due /\ w.idx \in Constraints /\ w = [kind |-> "End", idx |-> w.idx]
  BY <1>1, OneClass DEF NextTasks, Scheduled
<1>4. /\ reads' = reads \/ ReadEdges(w.idx, {"AtEnd"})
      /\ ended' = ended \/ ended' = ended \cup {w.idx}
      /\ UNCHANGED <<buffer, live, fresh, ran, written>>
  BY DEF End
<1>5. \A s : EvaluationOf(s) \in todo' <=> EvaluationOf(s) \in todo
  BY <1>3 DEF EvaluationOf
<1>6. Ran'
  BY <1>1, <1>4, <1>5 DEF Ran
<1>7. Buffers'
  BY <1>1, <1>2, <1>3, <1>4, BuffersRest DEF Buffers
<1>8. Answers'
  BY <1>1, <1>2, <1>4, AnswersStep
<1>9. QED
  BY <1>2, <1>6, <1>7, <1>8 DEF FlowInv

\* Nothing happens.
LEMMA FlowStutter ==
  ASSUME FlowInv, UNCHANGED <<layer_vars, flow_vars>>
  PROVE  FlowInv'
<1>1. /\ cycle' = cycle /\ buffer' = buffer /\ live' = live /\ fresh' = fresh
      /\ ended' = ended /\ todo' = todo /\ due' = due /\ ran' = ran
      /\ reads' = reads /\ written' = written
      /\ spec' = spec /\ pass' = pass
      /\ start_levels' = start_levels /\ evaluation_levels' = evaluation_levels
  BY DEF flow_vars, layer_vars
<1>2. \A s : StorageBound(s)' = StorageBound(s)
  BY <1>1 DEF StorageBound
<1>3. Compiled' /\ Ran' /\ Answers'
  BY <1>1 DEF FlowInv, Compiled, Known, Ran, Answers, IsRight
<1>4. \A v, u : Before(v, u)' <=> Before(v, u)
  BY <1>1 DEF Before, Level
<1>5. Scheduled'
  BY <1>1, <1>4 DEF FlowInv, Scheduled, TasksOf
<1>6. Buffers'
  BY <1>1, <1>2 DEF FlowInv, Buffers
<1>7. QED
  BY <1>3, <1>5, <1>6 DEF FlowInv

\* Every step keeps the invariant.
LEMMA FlowNextInv ==
  ASSUME Levels, FlowInv, [FlowNext]_<<layer_vars, flow_vars>>
  PROVE  FlowInv'
<1>1. CASE LayerNext /\ UNCHANGED flow_vars
  BY <1>1, CompileStep
<1>2. CASE ProcessEvent
  BY <1>2, BeginStep DEF ProcessEvent
<1>3. CASE ProcessTimedTasks
  <2>1. PICK tasks \in (SUBSET TasksOf("clock")) \ {{}} : BeginCycle({}, tasks)
    BY <1>3 DEF ProcessTimedTasks
  <2>2. {} \in SUBSET Signals /\ "clock" \in {"event", "clock"} /\ tasks \in SUBSET TasksOf("clock")
    OBVIOUS
  <2>3. QED
    BY <2>1, <2>2, BeginStep
<1>4. CASE RunTask
  BY <1>4, StartTask, EvaluateTask, EndTask DEF RunTask
<1>5. QED
  BY <1>1, <1>2, <1>3, <1>4, FlowStutter DEF FlowNext
-----------------------------------------------------------------------------
(* The theorems *)

(***************************************************************************)
(* The cycles leave the layers alone: what is proved of the layer pass     *)
(* holds while the monitor runs.                                           *)
(***************************************************************************)
THEOREM FlowImplementsLayers == FlowSpec => LayerSpec
<1>1. FlowInit => Init
  BY DEF FlowInit
<1>2. [FlowNext]_<<layer_vars, flow_vars>> => [LayerNext]_layer_vars
  BY DEF FlowNext, ProcessEvent, ProcessTimedTasks, BeginCycle, RunTask
<1>3. QED
  BY <1>1, <1>2, PTL DEF FlowSpec, LayerSpec

(***************************************************************************)
(* The order of the levels, proved of the layer pass, holds while the      *)
(* monitor runs.                                                           *)
(***************************************************************************)
THEOREM CyclesKeepTheLayers == FlowSpec => []EvalAfterTargets /\ []StartAfterTargets
BY FlowImplementsLayers, EvaluationsFollowTargets, StartsFollowTargets, PTL

\* The inductive invariant of the compiled specification and its cycles.
THEOREM FlowInvariant == FlowSpec => []FlowInv
<1>1. FlowSpec => []Levels
  BY FlowImplementsLayers, LayerInvariant, EvaluationsFollowTargets, StartsFollowTargets, PTL
     DEF Levels
<1>2. FlowInit => FlowInv
  BY FlowInitInv
<1>3. Levels /\ FlowInv /\ [FlowNext]_<<layer_vars, flow_vars>> => FlowInv'
  BY FlowNextInv
<1>4. QED
  BY <1>1, <1>2, <1>3, PTL DEF FlowSpec

(***************************************************************************)
(* A stream started in a cycle in which its evaluation is due is evaluated *)
(* in that cycle.                                                          *)
(***************************************************************************)
THEOREM StartedStreamsAreEvaluated == FlowSpec => []StartedIsEvaluated
<1>1. FlowInv => StartedIsEvaluated
  BY DEF FlowInv, Ran, StartedIsEvaluated, EvaluationOf
<1>2. QED
  BY <1>1, FlowInvariant, PTL

(***************************************************************************)
(* Whatever a task read of the present cycle is what the cycle ends with,  *)
(* in every order of the tasks that the layers allow.                      *)
(***************************************************************************)
THEOREM ReadsSeeTheFinalValues == FlowSpec => []ReadsAreFinal
<1>1. FlowInv => ReadsAreFinal
  BY DEF FlowInv, Answers, IsRight, ReadsAreFinal
<1>2. QED
  BY <1>1, FlowInvariant, PTL

(***************************************************************************)
(* A read n back gives the n-th latest value from before the cycle: the    *)
(* buffer that determine_storage asks for is long enough, for every        *)
(* specification and however long the monitor runs.                        *)
(***************************************************************************)
THEOREM ShiftsSeeThePast == FlowSpec => []ShiftsReadThePast
<1>1. FlowInv => ShiftsReadThePast
  BY DEF FlowInv, Answers, IsRight, ShiftsReadThePast
<1>2. QED
  BY <1>1, FlowInvariant, PTL
=============================================================================
