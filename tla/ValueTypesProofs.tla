-------------------------- MODULE ValueTypesProofs --------------------------
(***************************************************************************)
(* What the value types promise: how far the result of the analysis does   *)
(* not depend on the order of the constraints, that a declared type is the *)
(* type, and for which operations a program that the analysis accepts has  *)
(* an implementation in the runtime, with the exact list of the others.    *)
(***************************************************************************)
EXTENDS ValueTypes, TLAPS

SizedKinds == {"SizedSInteger", "SizedUInteger", "SizedFloat", "SizedFixed", "SizedUFixed"}

\* How far a kind is below the top of the lattice
Rank(n) ==
  IF n.kind = "Any" THEN 0
  ELSE IF n.kind \in {"Numeric", "Sequence", "AnyTuple"} THEN 1
  ELSE IF n.kind \in {"SignedNumeric", "Integer"} THEN 2
  ELSE IF n.kind = "FractionalNumeric" THEN 3
  ELSE IF n.kind \in {"SInteger", "UInteger", "Float", "Fixed", "UFixed"} THEN 4 ELSE 5

LEMMA NodeType ==
  ASSUME NEW n \in TypeNode
  PROVE  /\ n.kind \in Unsized \cup SizedKinds \cup {"Tuple"}
         /\ n.bits \in Nat /\ n.frac \in Nat
         /\ n.kind \in Unsized => n = Node(n.kind)
         /\ n.kind # "Clash"
<1>1. CASE n \in {Node(k) : k \in Unsized}
  BY <1>1 DEF Node, Unsized
<1>2. CASE n \in {Sized(k, w) : k \in {"SizedSInteger", "SizedUInteger", "SizedFloat", "Tuple"}, w \in Nat}
  BY <1>2 DEF Sized, Unsized, SizedKinds
<1>3. CASE n \in {Split(k, t, f) : k \in {"SizedFixed", "SizedUFixed"}, t \in Nat, f \in Nat}
  BY <1>3 DEF Split, Unsized, SizedKinds
<1> QED
  BY <1>1, <1>2, <1>3 DEF TypeNode

LEMMA RankType ==
  ASSUME NEW n PROVE Rank(n) \in Nat
BY DEF Rank

LEMMA NarrowsRanks ==
  ASSUME NEW n \in TypeNode, NEW m \in TypeNode, Narrows(n.kind, m.kind)
  PROVE  Rank(m) < Rank(n)
BY DEF Narrows, Rank, Ints, UInts, Floats, Fixeds, UFixeds

LEMMA FitsRanks ==
  ASSUME NEW p \in Partials, NEW q \in Partials, Fits(p, q)
  PROVE  p.node = q.node \/ Rank(q.node) < Rank(p.node)
<1>1. CASE q.node.kind = "AnyTuple" /\ p.node.kind = "Tuple"
  BY <1>1 DEF Rank
<1> QED
  BY <1>1, NarrowsRanks DEF Fits, Partials

LEMMA ArityType ==
  ASSUME NEW p \in Partials, NEW q \in Partials
  PROVE  Arity(p, q) \in Nat
<1>1. p.node.bits \in Nat /\ p.arity \in Nat /\ q.arity \in Nat
  BY NodeType DEF Partials
<1> QED
  BY <1>1 DEF Arity

\* A meet is one of the two nodes, and the other one is the same or of a
\* lower rank.
LEMMA MeetRanks ==
  ASSUME NEW p \in Partials, NEW q \in Partials, Meet(p, q) # Clash
  PROVE  /\ Meet(p, q) \in Partials
         /\ \/ Meet(p, q).node = p.node /\ (p.node = q.node \/ Rank(q.node) < Rank(p.node))
            \/ Meet(p, q).node = q.node /\ (p.node = q.node \/ Rank(p.node) < Rank(q.node))
<1>1. p # Clash /\ q # Clash
  BY DEF Meet
<1>2. \A r \in Partials : r.node # Node("Any") => Rank(Node("Any")) < Rank(r.node)
  <2> TAKE r \in Partials
  <2> HAVE r.node # Node("Any")
  <2>1. r.node.kind # "Any"
    BY NodeType DEF Partials, Node, Unsized
  <2> QED
    BY <2>1 DEF Rank, Node
<1>3. CASE p.node = Node("Any")
  BY <1>1, <1>2, <1>3 DEF Meet
<1>4. CASE q.node = Node("Any") /\ p.node # Node("Any")
  BY <1>1, <1>2, <1>4 DEF Meet
<1>5. CASE p.node # Node("Any") /\ q.node # Node("Any")
  <2>1. CASE Fits(p, q)
    <3>1. Meet(p, q) = Partial(p.node, Arity(p, q))
      BY <1>1, <1>5, <2>1 DEF Meet
    <3> QED
      BY <3>1, <2>1, FitsRanks, ArityType DEF Partial, Partials
  <2>2. CASE ~Fits(p, q)
    <3>1. Meet(p, q) = Partial(q.node, Arity(q, p)) /\ Fits(q, p)
      BY <1>1, <1>5, <2>2 DEF Meet
    <3> QED
      BY <3>1, FitsRanks, ArityType DEF Partial, Partials
  <2> QED
    BY <2>1, <2>2
<1> QED
  BY <1>3, <1>4, <1>5

\* The two types of an equation may be met in either order: TypeNode::meet
\* lists both orders of every pair.
THEOREM MeetCommutes ==
  ASSUME NEW p \in Partials, NEW q \in Partials
  PROVE  Meet(p, q).node = Meet(q, p).node
<1>1. CASE Fits(p, q) /\ Fits(q, p)
  <2>1. p.node = q.node
    <3>1. Rank(p.node) \in Nat /\ Rank(q.node) \in Nat
      BY RankType
    <3> QED
      BY <1>1, <3>1, FitsRanks
  <2> QED
    BY <1>1, <2>1 DEF Meet, Partial
<1>2. CASE ~Fits(p, q) \/ ~Fits(q, p)
  BY <1>2 DEF Meet, Partial
<1> QED
  BY <1>1, <1>2

\* If the solver accepts three constraints on a type in one order and in
\* another, it finds the same type, for every pair of groupings of
\* TypeNode::meet.
THEOREM GroupingAgrees ==
  ASSUME NEW p \in Partials, NEW q \in Partials, NEW r \in Partials,
         Meet(Meet(p, q), r) # Clash, Meet(p, Meet(q, r)) # Clash
  PROVE  Meet(Meet(p, q), r).node = Meet(p, Meet(q, r)).node
<1>1. Meet(p, q) # Clash /\ Meet(q, r) # Clash
  BY DEF Meet
<1>2. Meet(p, q) \in Partials /\ Meet(q, r) \in Partials
  BY <1>1, MeetRanks
<1> DEFINE x == Meet(Meet(p, q), r).node
           y == Meet(p, Meet(q, r)).node
           n == Meet(p, q).node
           m == Meet(q, r).node
<1>3. /\ \/ n = p.node /\ (p.node = q.node \/ Rank(q.node) < Rank(p.node))
         \/ n = q.node /\ (p.node = q.node \/ Rank(p.node) < Rank(q.node))
      /\ \/ m = q.node /\ (q.node = r.node \/ Rank(r.node) < Rank(q.node))
         \/ m = r.node /\ (q.node = r.node \/ Rank(q.node) < Rank(r.node))
  BY <1>1, MeetRanks
<1>4. /\ \/ x = n /\ (n = r.node \/ Rank(r.node) < Rank(n))
         \/ x = r.node /\ (n = r.node \/ Rank(n) < Rank(r.node))
      /\ \/ y = p.node /\ (p.node = m \/ Rank(m) < Rank(p.node))
         \/ y = m /\ (p.node = m \/ Rank(p.node) < Rank(m))
  BY <1>2, MeetRanks
<1>5. Rank(p.node) \in Nat /\ Rank(q.node) \in Nat /\ Rank(r.node) \in Nat
  BY RankType
<1> HIDE DEF x, y, n, m
<1>6. x = y
  BY <1>3, <1>4, <1>5
<1> QED
  BY <1>6 DEF x, y

\* Whether the solver accepts them does depend on the order: something signed
\* may be fractional and something fractional may be an unsigned fixed-point
\* number, which is not among what TypeNode::meet gives to something signed.
THEOREM GroupingMatters ==
  \E p, q, r \in Partials : Meet(Meet(p, q), r) # Clash /\ Meet(p, Meet(q, r)) = Clash
<1> DEFINE p == Partial(Node("SignedNumeric"), 0)
           q == Partial(Node("FractionalNumeric"), 0)
           r == Partial(Node("UFixed"), 0)
<1>1. p \in Partials /\ q \in Partials /\ r \in Partials
  BY DEF Partial, Partials, TypeNode, Unsized
<1>2. p # Clash /\ q # Clash /\ r # Clash
  BY DEF Partial, Node, Clash
<1>3. ~Fits(p, q) /\ Fits(q, p) /\ Arity(q, p) = 0
  BY DEF Partial, Node, Fits, Arity, Narrows, Floats, Fixeds, UFixeds, Ints
<1>4. Meet(p, q) = q
  BY <1>2, <1>3 DEF Meet, Partial, Node
<1>5. ~Fits(q, r) /\ Fits(r, q) /\ Arity(r, q) = 0
  BY DEF Partial, Node, Fits, Arity, Narrows, Floats, Fixeds, UFixeds
<1>6. Meet(q, r) = r
  BY <1>2, <1>5 DEF Meet, Partial, Node
<1>7. ~Fits(p, r) /\ ~Fits(r, p)
  BY DEF Partial, Node, Fits, Arity, Narrows, Floats, Fixeds, UFixeds, Ints
<1>8. Meet(p, r) = Clash
  BY <1>2, <1>7 DEF Meet, Partial, Node
<1> HIDE DEF p, q, r
<1> QED
  BY <1>1, <1>2, <1>4, <1>6, <1>8
-----------------------------------------------------------------------------
(* Declared types *)

\* What Construct yields, kind by kind, for the provers that know no CASE
LEMMA Constructed ==
  ASSUME NEW n
  PROVE  /\ n.kind \in {"Integer", "SInteger"} => Construct(n) = Data("Int", 64)
         /\ n.kind = "UInteger" => Construct(n) = Data("UInt", 64)
         /\ n.kind = "FractionalNumeric" => Construct(n) = Data("Float", 64)
         /\ n.kind = "Float" => Construct(n) = Data("Float", 32)
         /\ n.kind = "Fixed" => Construct(n) = Data("Fixed", 64)
         /\ n.kind = "UFixed" => Construct(n) = Data("UFixed", 64)
         /\ n.kind = "SizedSInteger" => Construct(n) = Smallest("Int", IntSizes, n.bits, 0)
         /\ n.kind = "SizedUInteger" => Construct(n) = Smallest("UInt", IntSizes, n.bits, 0)
         /\ n.kind = "SizedFloat" => Construct(n) = Smallest("Float", FloatSizes, n.bits, 0)
         /\ n.kind = "SizedFixed" => Construct(n) = Smallest("Fixed", FixedSizes, n.bits, n.frac)
         /\ n.kind = "SizedUFixed" => Construct(n) = Smallest("UFixed", FixedSizes, n.bits, n.frac)
         /\ n.kind \in {"Bool", "String", "Bytes", "Tuple", "Option"} => Construct(n) = Data(n.kind, 0)
         /\ n.kind \in {"Any", "Numeric", "SignedNumeric", "AnyTuple", "Sequence"} => Construct(n) = Unresolved
BY DEF Construct

\* An annotation with a size, or of a type that has none
Definite(a) == a.kind \in {"Int", "UInt", "Float", "Fixed", "UFixed"} => a.bits # 0 \/ a.frac # 0

LEMMA AnnotationType ==
  ASSUME NEW a \in Annotation
  PROVE  /\ a.kind \in {"Bool", "String", "Bytes", "Int", "UInt", "Float", "Fixed", "UFixed"}
         /\ a.bits \in Nat /\ a.frac \in Nat
         /\ a.kind \in {"Int", "UInt", "Float"} => a.frac = 0
BY DEF Annotation, Node, Sized, Split

\* The constraint that an annotation imposes, kind by kind
LEMMA Imposed ==
  ASSUME NEW a \in Annotation, Definite(a)
  PROVE  /\ a.kind \in {"Bool", "String", "Bytes"} => ImposeAnnotation(a) = Node(a.kind)
         /\ a.kind = "Int" => ImposeAnnotation(a) = Sized("SizedSInteger", a.bits)
         /\ a.kind = "UInt" => ImposeAnnotation(a) = Sized("SizedUInteger", a.bits)
         /\ a.kind = "Float" => ImposeAnnotation(a) = Sized("SizedFloat", a.bits)
         /\ a.kind = "Fixed" => ImposeAnnotation(a) = Split("SizedFixed", a.bits, a.frac)
         /\ a.kind = "UFixed" => ImposeAnnotation(a) = Split("SizedUFixed", a.bits, a.frac)
BY DEF ImposeAnnotation, Definite

LEMMA Resolved ==
  ASSUME NEW a
  PROVE  /\ a.kind \in {"Bool", "String", "Bytes"} => ResolveAnnotation(a) = Data(a.kind, 0)
         /\ a.kind \in {"Int", "UInt"} => ResolveAnnotation(a) = Smallest(a.kind, IntSizes, a.bits, 0)
         /\ a.kind = "Float" => ResolveAnnotation(a) = Smallest(a.kind, FloatSizes, a.bits, 0)
         /\ a.kind \in {"Fixed", "UFixed"} => ResolveAnnotation(a) = Smallest(a.kind, FixedSizes, a.bits, a.frac)
BY DEF ResolveAnnotation

\* A declared type is the type: whatever else is imposed on it, if it is
\* accepted at all, then the solution is what the declaration resolves to,
\* so that the exact bound of apply_annotation is not violated.
THEOREM DeclaredIsResolved ==
  ASSUME NEW a \in Annotation, Definite(a), NEW p \in Partials,
         Meet(Partial(ImposeAnnotation(a), 0), p) # Clash
  PROVE  Construct(Meet(Partial(ImposeAnnotation(a), 0), p).node) = ResolveAnnotation(a)
<1> DEFINE n == ImposeAnnotation(a)
           d == Partial(n, 0)
<1>1. n \in TypeNode
  BY AnnotationType, Imposed DEF TypeNode, Unsized
<1>2. n.kind \in {"Bool", "String", "Bytes"} \cup SizedKinds
  BY AnnotationType, Imposed DEF Node, Sized, Split, SizedKinds
<1>3. d \in Partials /\ d.node = n
  BY <1>1 DEF Partials, Partial
<1>4. Rank(n) = 5
  BY <1>2 DEF Rank, SizedKinds
<1>5. Rank(p.node) \in 0 .. 5
  BY DEF Rank
<1>6. Meet(d, p).node = n
  <2>1. Meet(d, p) # Clash
    OBVIOUS
  <2>2. \/ Meet(d, p).node = d.node
        \/ Meet(d, p).node = p.node /\ (d.node = p.node \/ Rank(d.node) < Rank(p.node))
    BY <2>1, <1>3, MeetRanks
  <2> QED
    BY <2>2, <1>3, <1>4, <1>5
<1>7. Construct(n) = ResolveAnnotation(a)
  <2>1. CASE a.kind \in {"Bool", "String", "Bytes"}
    BY <2>1, Imposed, Resolved, Constructed DEF Node
  <2>2. CASE a.kind \in {"Int", "UInt", "Float"}
    BY <2>2, Imposed, Resolved, Constructed DEF Sized
  <2>3. CASE a.kind \in {"Fixed", "UFixed"}
    BY <2>3, Imposed, Resolved, Constructed DEF Split
  <2> QED
    BY <2>1, <2>2, <2>3, AnnotationType
<1> QED
  BY <1>6, <1>7
-----------------------------------------------------------------------------
(* Operations *)

\* The variants of the operands that the analysis accepts and the runtime
\* has no arm for: negated unsigned numbers, signed shifts, comparisons of
\* what has no order, absent values among it, and fixed-point numbers in
\* some functions.
Gaps(op) ==
  {v \in {"Unsigned"} : op = "Neg"}
    \cup {v \in {"Signed"} : op \in ShiftOps \cup {"round"}}
    \cup {v \in {"Bool", "Bytes", "Tuple", "None"} : op \in OrderOps}
    \cup {v \in {"Decimal"} : op \in FloatFns \cup {"abs", "min", "max", "round"}}
    \cup {v \in {"Unsigned"} : op = "round"}

LEMMA Requirements ==
  ASSUME NEW op \in Operation
  PROVE  /\ op \in ArithmeticOps \cup {"Neg", "min", "max", "round"} => Required(op) = Node("Numeric")
         /\ op \in BitOps \cup ShiftOps => Required(op) = Node("Integer")
         /\ op \in BoolOps => Required(op) = Node("Bool")
         /\ op \in EqualityOps \cup OrderOps => Required(op) = Node("Any")
         /\ op \in DecimalFns \cup FloatFns => Required(op) = Node("FractionalNumeric")
         /\ op = "abs" => Required(op) = Node("SignedNumeric")
         /\ op = "matches" => Required(op) = Node("Sequence")
<1> USE DEF ArithmeticOps, BitOps, ShiftOps, BoolOps, EqualityOps, OrderOps, DecimalFns, FloatFns
<1>1. op \in ArithmeticOps \cup {"Neg", "min", "max", "round"} => Required(op) = Node("Numeric")
  BY DEF Required
<1>2. op \in BitOps \cup ShiftOps => Required(op) = Node("Integer")
  BY DEF Required
<1>3. op \in BoolOps => Required(op) = Node("Bool")
  BY DEF Required
<1>4. op \in EqualityOps \cup OrderOps => Required(op) = Node("Any")
  BY DEF Required
<1>5. op \in DecimalFns \cup FloatFns => Required(op) = Node("FractionalNumeric")
  BY DEF Required
<1>6. op = "abs" => Required(op) = Node("SignedNumeric")
  BY DEF Required
<1>7. op = "matches" => Required(op) = Node("Sequence")
  BY DEF Required
<1> QED
  BY <1>1, <1>2, <1>3, <1>4, <1>5, <1>6, <1>7

\* A solved operand is what was required of it or something narrower.
LEMMA OperandKind ==
  ASSUME NEW k \in Unsized, NEW n \in Operands(Node(k))
  PROVE  n \in TypeNode /\ (k = "Any" \/ n.kind = k \/ Narrows(n.kind, k) \/ (k = "AnyTuple" /\ n.kind = "Tuple"))
<1> DEFINE p == Partial(n, 0)
           q == Partial(Node(k), 0)
<1>1. n \in TypeNode /\ Meet(p, q).node = n
  BY DEF Operands
<1>2. SUFFICES ASSUME k # "Any" PROVE n.kind = k \/ Narrows(n.kind, k) \/ (k = "AnyTuple" /\ n.kind = "Tuple")
  BY <1>1
<1>3. p.node = n /\ q.node = Node(k) /\ q.node # Node("Any") /\ q.node.kind = k
  BY <1>2 DEF Partial, Node
<1>4. CASE Fits(p, q)
  BY <1>3, <1>4 DEF Fits
<1>5. CASE ~Fits(p, q)
  <2>1. Meet(p, q) \in {Clash, q} \/ Meet(p, q).node = q.node
    BY <1>3, <1>5 DEF Meet, Partial
  <2>2. n.kind # "Clash"
    BY <1>1, NodeType
  <2> QED
    BY <2>1, <2>2, <1>1, <1>3 DEF Clash, Partial, Node
<1> QED
  BY <1>4, <1>5

LEMMA SmallestKind ==
  ASSUME NEW kind, NEW sizes, NEW w, NEW f, Smallest(kind, sizes, w, f) # Unresolved
  PROVE  Smallest(kind, sizes, w, f).kind = kind
BY DEF Smallest, Data

LEMMA VariantOfKind ==
  ASSUME NEW t
  PROVE  /\ t.kind = "Int" => Variant(t) = "Signed"
         /\ t.kind = "UInt" => Variant(t) = "Unsigned"
         /\ t.kind = "Float" => Variant(t) = "Float"
         /\ t.kind \in {"Fixed", "UFixed"} => Variant(t) = "Decimal"
         /\ t.kind \in {"Bool", "String", "Bytes", "Tuple", "Option"} => Variant(t) = t.kind
BY DEF Variant

\* The type and the variant of a solution
LEMMA Solutions ==
  ASSUME NEW n \in TypeNode, Construct(n) # Unresolved
  PROVE  /\ n.kind \in {"Integer"} \cup Ints => Construct(n).kind = "Int"
         /\ n.kind \in UInts => Construct(n).kind = "UInt"
         /\ n.kind \in {"FractionalNumeric"} \cup Floats => Construct(n).kind = "Float"
         /\ n.kind \in Fixeds => Construct(n).kind = "Fixed"
         /\ n.kind \in UFixeds => Construct(n).kind = "UFixed"
         /\ n.kind \in {"Bool", "String", "Bytes", "Tuple", "Option"} => Construct(n).kind = n.kind
         /\ n.kind \notin {"Any", "Numeric", "SignedNumeric", "AnyTuple", "Sequence"}
<1>1. n.kind \in {"Integer", "SInteger", "UInteger", "FractionalNumeric", "Float", "Fixed", "UFixed"} =>
        /\ n.kind \in {"Integer", "SInteger"} => Construct(n).kind = "Int"
        /\ n.kind = "UInteger" => Construct(n).kind = "UInt"
        /\ n.kind \in {"FractionalNumeric", "Float"} => Construct(n).kind = "Float"
        /\ n.kind = "Fixed" => Construct(n).kind = "Fixed"
        /\ n.kind = "UFixed" => Construct(n).kind = "UFixed"
  BY Constructed DEF Data
<1>2. /\ n.kind = "SizedSInteger" => Construct(n).kind = "Int"
      /\ n.kind = "SizedUInteger" => Construct(n).kind = "UInt"
      /\ n.kind = "SizedFloat" => Construct(n).kind = "Float"
      /\ n.kind = "SizedFixed" => Construct(n).kind = "Fixed"
      /\ n.kind = "SizedUFixed" => Construct(n).kind = "UFixed"
  BY Constructed, SmallestKind
<1>3. n.kind \in {"Bool", "String", "Bytes", "Tuple", "Option"} => Construct(n).kind = n.kind
  BY Constructed DEF Data
<1>4. n.kind \notin {"Any", "Numeric", "SignedNumeric", "AnyTuple", "Sequence"}
  BY Constructed
<1> QED
  BY <1>1, <1>2, <1>3, <1>4 DEF Ints, UInts, Floats, Fixeds, UFixeds

LEMMA NumericVariants ==
  ASSUME NEW n \in TypeNode, Construct(n) # Unresolved
  PROVE  /\ n.kind \in {"Integer"} \cup Ints => Variant(Construct(n)) = "Signed"
         /\ n.kind \in UInts => Variant(Construct(n)) = "Unsigned"
         /\ n.kind \in {"FractionalNumeric"} \cup Floats => Variant(Construct(n)) = "Float"
         /\ n.kind \in Fixeds \cup UFixeds => Variant(Construct(n)) = "Decimal"
         /\ n.kind \in {"Bool", "String", "Bytes", "Tuple", "Option"} => Variant(Construct(n)) = n.kind
BY Solutions, VariantOfKind

\* For operands that are no options: whether there is an arm for the variant,
\* and that only comparisons take options.
LEMMA ArmOfVariant ==
  ASSUME NEW op \in Operation, NEW n \in Operands(Required(op))
  PROVE  /\ Construct(n).kind = "Option" => op \in EqualityOps \cup OrderOps
         /\ Construct(n).kind # "Option" =>
              (HasArm(op, Variant(Construct(n))) <=> Variant(Construct(n)) \notin Gaps(op))
<1> DEFINE v == Variant(Construct(n))
<1> USE DEF ArithmeticOps, BitOps, ShiftOps, BoolOps, EqualityOps, OrderOps, DecimalFns, FloatFns, Numbers
<1>0. Construct(n).kind = "Option" => v = "Option"
  BY VariantOfKind
<1>1. Construct(n) # Unresolved /\ n \in TypeNode
  BY DEF Operands
<1>2. v \in Numbers \cup {"Bool", "String", "Bytes", "Tuple"} \/ Construct(n).kind = "Option"
  <2>1. n.kind \in {"Integer", "FractionalNumeric"} \cup Ints \cup UInts \cup Floats \cup Fixeds \cup UFixeds
                     \cup {"Bool", "String", "Bytes", "Tuple", "Option"}
    BY <1>1, Solutions, NodeType DEF Unsized, SizedKinds, Ints, UInts, Floats, Fixeds, UFixeds
  <2> QED
    BY <2>1, <1>1, NumericVariants, Solutions
<1>3. CASE op \in ArithmeticOps \cup {"Neg", "min", "max", "round"}
  <2>1. n \in Operands(Node("Numeric"))
    BY <1>3, Requirements
  <2>2. n.kind = "Numeric" \/ Narrows(n.kind, "Numeric")
    BY <2>1, OperandKind DEF Unsized
  <2>3. v \in Numbers
    BY <2>2, <1>1, Solutions, NumericVariants DEF Narrows, Ints, UInts, Floats, Fixeds, UFixeds
  <2> QED
    BY <1>0, <1>3, <2>3 DEF HasArm, Gaps
<1>4. CASE op \in BitOps \cup ShiftOps
  <2>1. n \in Operands(Node("Integer"))
    BY <1>4, Requirements
  <2>2. n.kind = "Integer" \/ Narrows(n.kind, "Integer")
    BY <2>1, OperandKind DEF Unsized
  <2>3. v \in {"Signed", "Unsigned"}
    BY <2>2, <1>1, NumericVariants DEF Narrows, Ints, UInts, Floats, Fixeds, UFixeds
  <2> QED
    BY <1>0, <1>4, <2>3 DEF HasArm, Gaps
<1>5. CASE op \in BoolOps
  <2>1. n \in Operands(Node("Bool"))
    BY <1>5, Requirements
  <2>2. n.kind = "Bool"
    BY <2>1, OperandKind DEF Unsized, Narrows
  <2>3. v = "Bool"
    BY <2>2, <1>1, NumericVariants
  <2> QED
    BY <1>0, <1>5, <2>3 DEF HasArm, Gaps
<1>6. CASE op \in EqualityOps \cup OrderOps
  BY <1>6, <1>2 DEF HasArm, Gaps
<1>7. CASE op \in DecimalFns \cup FloatFns
  <2>1. n \in Operands(Node("FractionalNumeric"))
    BY <1>7, Requirements
  <2>2. n.kind = "FractionalNumeric" \/ Narrows(n.kind, "FractionalNumeric")
    BY <2>1, OperandKind DEF Unsized
  <2>3. v \in {"Float", "Decimal"}
    BY <2>2, <1>1, NumericVariants DEF Narrows, Ints, UInts, Floats, Fixeds, UFixeds
  <2> QED
    BY <1>0, <1>7, <2>3 DEF HasArm, Gaps
<1>8. CASE op = "abs"
  <2>1. n \in Operands(Node("SignedNumeric"))
    BY <1>8, Requirements
  <2>2. n.kind = "SignedNumeric" \/ Narrows(n.kind, "SignedNumeric")
    BY <2>1, OperandKind DEF Unsized
  <2>3. v \in {"Signed", "Float", "Decimal"}
    BY <2>2, <1>1, Solutions, NumericVariants DEF Narrows, Ints, UInts, Floats, Fixeds, UFixeds
  <2> QED
    BY <1>0, <1>8, <2>3 DEF HasArm, Gaps
<1>9. CASE op = "matches"
  <2>1. n \in Operands(Node("Sequence"))
    BY <1>9, Requirements
  <2>2. n.kind = "Sequence" \/ Narrows(n.kind, "Sequence")
    BY <2>1, OperandKind DEF Unsized
  <2>3. v \in {"String", "Bytes"}
    BY <2>2, <1>1, Solutions, NumericVariants DEF Narrows, Ints, UInts, Floats, Fixeds, UFixeds
  <2> QED
    BY <1>0, <1>9, <2>3 DEF HasArm, Gaps
<1> QED
  BY <1>3, <1>4, <1>5, <1>6, <1>7, <1>8, <1>9 DEF Operation

\* An accepted operation on operands of one type has an arm in the runtime
\* for the variants they have, but for the gaps: analyze_expr and builtins.rs
\* against the impls of Value and the functions of lower.  An order of two
\* options is a gap when one is absent, or their values have no order.
THEOREM OperationsRun ==
  ASSUME NEW op \in Operation, NEW n \in Operands(Required(op)), NEW p \in OperandPairs(Construct(n))
  PROVE  Runs(op, p[1], p[2]) <=> {p[1], p[2]} \cap Gaps(op) = {}
<1>1. CASE Construct(n).kind = "Option"
  <2>1. p[1] \in Variants /\ p[2] \in Variants /\ (p[1] = p[2] \/ "None" \in {p[1], p[2]})
    BY <1>1 DEF OperandPairs
  <2>2. op \in EqualityOps \cup OrderOps
    BY <1>1, ArmOfVariant
  <2> QED
    BY <2>1, <2>2 DEF Runs, HasArm, Gaps, Variants, Numbers, ArithmeticOps, BitOps, ShiftOps, BoolOps, EqualityOps,
                      OrderOps, DecimalFns, FloatFns
<1>2. CASE Construct(n).kind # "Option"
  <2>1. p[1] = Variant(Construct(n)) /\ p[2] = Variant(Construct(n))
    BY <1>2 DEF OperandPairs
  <2> QED
    BY <1>2, <2>1, ArmOfVariant DEF Runs
<1> QED
  BY <1>1, <1>2

\* The kinds of numbers that have no cast between them: Float to Float is
\* what widen needs for Float32 to Float64, and the arms from integers to
\* fixed-point numbers take the values of each other's type.
CastGaps == ({"Int", "UInt"} \X {"Fixed", "UFixed"})
              \cup {<<"Float", "Float">>, <<"Fixed", "UFixed">>, <<"UFixed", "Fixed">>}

\* cast and widen run on every pair of numeric types but for the gaps, and on
\* no value of those: the match of Convert in lower.
THEOREM CastsRun ==
  ASSUME NEW n \in Operands(Node("Numeric")), NEW m \in Operands(Node("Numeric"))
  PROVE  CastRuns(n, m) <=> <<Construct(n).kind, Construct(m).kind>> \notin CastGaps
<1> DEFINE Types == {"Int", "UInt", "Float", "Fixed", "UFixed"}
<1>1. \A o \in Operands(Node("Numeric")) : Construct(o).kind \in Types
  <2> TAKE o \in Operands(Node("Numeric"))
  <2>1. o \in TypeNode /\ Construct(o) # Unresolved
    BY DEF Operands
  <2>2. o.kind = "Numeric" \/ Narrows(o.kind, "Numeric")
    BY OperandKind DEF Unsized
  <2> QED
    BY <2>1, <2>2, Solutions DEF Narrows, Ints, UInts, Floats, Fixeds, UFixeds
<1>2. /\ Variant(Data("Int", 0)) = "Signed" /\ Variant(Data("UInt", 0)) = "Unsigned"
      /\ Variant(Data("Fixed", 0)) = "Decimal" /\ Variant(Data("UFixed", 0)) = "Decimal"
  BY VariantOfKind DEF Data
<1> QED
  BY <1>1, <1>2, VariantOfKind DEF CastRuns, CastArm, CastGaps

\* A literal becomes a constant of the variant that its solved type stands
\* for: constrain_literal against lower_constant_value.
THEOREM ConstantsLower ==
  ASSUME NEW l \in Literal, NEW n \in Operands(LiteralNode(l))
  PROVE  LowerConstant(l, Construct(n)) = Variant(Construct(n))
<1>1. n \in TypeNode /\ Construct(n) # Unresolved
  BY DEF Operands
<1>2. CASE l \in {"Str", "Bool"}
  <2>1. /\ l = "Str" => LiteralNode(l) = Node("String") /\ LowerConstant(l, Construct(n)) = "String"
        /\ l = "Bool" => LiteralNode(l) = Node("Bool") /\ LowerConstant(l, Construct(n)) = "Bool"
    BY DEF LiteralNode, LowerConstant
  <2>2. /\ l = "Str" => n.kind = "String"
        /\ l = "Bool" => n.kind = "Bool"
    BY <2>1, OperandKind DEF Unsized, Narrows
  <2> QED
    BY <1>1, <1>2, <2>1, <2>2, NumericVariants
<1>3. CASE l \in {"UInt", "SInt"}
  <2>1. n.kind \in {"Integer"} \cup Ints \cup UInts
    <3>1. /\ l = "UInt" => LiteralNode(l) = Node("Integer")
          /\ l = "SInt" => LiteralNode(l) = Node("SInteger")
      BY DEF LiteralNode
    <3> QED
      BY <1>3, <3>1, OperandKind DEF Unsized, Narrows, Ints, UInts, Floats, Fixeds, UFixeds
  <2>2. \/ Construct(n).kind = "Int" /\ Variant(Construct(n)) = "Signed"
        \/ Construct(n).kind = "UInt" /\ Variant(Construct(n)) = "Unsigned"
    BY <1>1, <2>1, Solutions, NumericVariants
  <2>3. /\ Construct(n).kind = "Int" => LowerConstant(l, Construct(n)) = "Signed"
        /\ Construct(n).kind = "UInt" => LowerConstant(l, Construct(n)) = "Unsigned"
    BY <1>3 DEF LowerConstant
  <2> QED
    BY <2>2, <2>3
<1>4. CASE l = "Decimal"
  <2>1. n.kind \in {"FractionalNumeric"} \cup Floats \cup Fixeds \cup UFixeds
    <3>1. LiteralNode(l) = Node("FractionalNumeric")
      BY <1>4 DEF LiteralNode
    <3> QED
      BY <3>1, OperandKind DEF Unsized, Narrows, Ints, UInts, Floats, Fixeds, UFixeds
  <2>2. \/ Construct(n).kind = "Float" /\ Variant(Construct(n)) = "Float"
        \/ Construct(n).kind \in {"Fixed", "UFixed"} /\ Variant(Construct(n)) = "Decimal"
    BY <1>1, <2>1, Solutions, NumericVariants
  <2>3. /\ Construct(n).kind = "Float" => LowerConstant(l, Construct(n)) = "Float"
        /\ Construct(n).kind \in {"Fixed", "UFixed"} => LowerConstant(l, Construct(n)) = "Decimal"
    BY <1>4 DEF LowerConstant
  <2> QED
    BY <2>2, <2>3
<1> QED
  BY <1>2, <1>3, <1>4 DEF Literal

\* A node that is what is required, or narrower, is a solved operand.
LEMMA Accepted ==
  ASSUME NEW n \in TypeNode, NEW k \in Unsized, Construct(n) # Unresolved,
         k = "Any" \/ Narrows(n.kind, k)
  PROVE  n \in Operands(Node(k))
<1> DEFINE p == Partial(n, 0)
           q == Partial(Node(k), 0)
<1>1. p.node = n /\ q.node = Node(k) /\ q.node.kind = k
  BY DEF Partial, Node
<1>2. p # Clash /\ q # Clash
  BY <1>1, NodeType DEF Clash, Partial, Node, Unsized
<1>3. n # Node("Any")
  BY Constructed DEF Node
<1>4. CASE k = "Any"
  BY <1>1, <1>2, <1>3, <1>4 DEF Meet, Operands
<1>5. CASE k # "Any" /\ Narrows(n.kind, k)
  <2>1. Fits(p, q) /\ q.node # Node("Any")
    BY <1>1, <1>5 DEF Fits, Node
  <2> QED
    BY <1>1, <1>2, <1>3, <2>1 DEF Meet, Operands, Partial
<1> QED
  BY <1>4, <1>5

\* None of the gaps is out of reach: the analysis accepts operands of that
\* variant, and the operation on two of them panics.
THEOREM GapsAreAccepted ==
  ASSUME NEW op \in Operation, NEW v \in Gaps(op)
  PROVE  \E n \in Operands(Required(op)) : <<v, v>> \in OperandPairs(Construct(n)) /\ ~Runs(op, v, v)
<1> DEFINE kind == IF v = "Unsigned" THEN "UInteger"
                   ELSE IF v = "Signed" THEN "SInteger" ELSE IF v = "Decimal" THEN "Fixed" ELSE IF v = "None" THEN "Option" ELSE v
           n == IF v = "Tuple" THEN Sized("Tuple", 0) ELSE Node(kind)
<1> USE DEF ShiftOps, OrderOps, FloatFns
<1>1. n \in TypeNode /\ n.kind = kind
  BY DEF Gaps, TypeNode, Unsized, Node, Sized
<1>2. Construct(n) # Unresolved /\ <<v, v>> \in OperandPairs(Construct(n))
  <2>1. /\ v = "Unsigned" => Construct(n) = Data("UInt", 64)
        /\ v = "Signed" => Construct(n) = Data("Int", 64)
        /\ v = "Decimal" => Construct(n) = Data("Fixed", 64)
        /\ v \in {"Bool", "Bytes", "Tuple"} => Construct(n) = Data(v, 0)
        /\ v = "None" => Construct(n) = Data("Option", 0)
    BY <1>1, Constructed
  <2>2. v \in {"Unsigned", "Signed", "Decimal", "Bool", "Bytes", "Tuple", "None"}
    BY DEF Gaps
  <2>3. Construct(n) # Unresolved
    BY <2>1, <2>2 DEF Data, Unresolved
  <2>4. CASE v = "None"
    <3>1. Construct(n).kind = "Option" /\ v \in Variants
      BY <2>1, <2>4 DEF Data, Variants
    <3> QED
      BY <2>3, <3>1 DEF OperandPairs
  <2>5. CASE v # "None"
    <3>1. Variant(Construct(n)) = v /\ Construct(n).kind # "Option"
      BY <2>1, <2>2, <2>5, VariantOfKind DEF Data
    <3> QED
      BY <2>3, <3>1 DEF OperandPairs
  <2> QED
    BY <2>4, <2>5
<1>3. n \in Operands(Required(op))
  <2>1. CASE op \in {"Neg", "round", "min", "max"}
    <3>1. Narrows(n.kind, "Numeric")
      BY <2>1, <1>1 DEF Gaps, Narrows, Ints, UInts, Fixeds
    <3> QED
      BY <2>1, <3>1, <1>1, <1>2, Accepted, Requirements DEF Unsized
  <2>2. CASE op \in ShiftOps
    <3>1. Narrows(n.kind, "Integer")
      BY <2>2, <1>1 DEF Gaps, Narrows, Ints
    <3> QED
      BY <2>2, <3>1, <1>1, <1>2, Accepted, Requirements DEF Unsized
  <2>3. CASE op \in OrderOps
    BY <2>3, <1>1, <1>2, Accepted, Requirements DEF Unsized
  <2>4. CASE op \in FloatFns
    <3>1. Narrows(n.kind, "FractionalNumeric")
      BY <2>4, <1>1 DEF Gaps, Narrows, Fixeds
    <3> QED
      BY <2>4, <3>1, <1>1, <1>2, Accepted, Requirements DEF Unsized
  <2>5. CASE op = "abs"
    <3>1. Narrows(n.kind, "SignedNumeric")
      BY <2>5, <1>1 DEF Gaps, Narrows, Fixeds
    <3> QED
      BY <2>5, <3>1, <1>1, <1>2, Accepted, Requirements DEF Unsized
  <2> QED
    BY <2>1, <2>2, <2>3, <2>4, <2>5 DEF Gaps
<1> HIDE DEF n, kind
<1>4. Runs(op, v, v) <=> v \notin Gaps(op)
  BY <1>2, <1>3, OperationsRun
<1> QED
  BY <1>2, <1>3, <1>4
=============================================================================
