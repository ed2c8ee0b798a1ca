----------------------------- MODULE ValueTypes -----------------------------
(***************************************************************************)
(* The types of values: the lattice in which the analysis solves them      *)
(* (TypeNode of core/src/oorvir/source/analysis/values.rs), the types that *)
(* its solutions are turned into, and the variants of Value for which the  *)
(* runtime implements an operation (runtime/store/types.rs, eval/          *)
(* compiler.rs).                                                           *)
(*                                                                         *)
(* A node is a record [kind, bits, frac], with 0 where a kind has no size. *)
(* The order in which the constraints are met and the keys of the elements *)
(* of tuples and options are those of the external type checker.           *)
(***************************************************************************)
EXTENDS Naturals

Node(kind)       == [kind |-> kind, bits |-> 0, frac |-> 0]
Sized(kind, w)   == [kind |-> kind, bits |-> w, frac |-> 0]
Split(kind, t, f) == [kind |-> kind, bits |-> t, frac |-> f]

Ints    == {"SInteger", "SizedSInteger"}
UInts   == {"UInteger", "SizedUInteger"}
Floats  == {"Float", "SizedFloat"}
Fixeds  == {"Fixed", "SizedFixed"}
UFixeds == {"UFixed", "SizedUFixed"}

Unsized == {"Any", "Numeric", "SignedNumeric", "FractionalNumeric", "Integer", "SInteger", "UInteger",
            "Float", "Fixed", "UFixed", "Bool", "AnyTuple", "Sequence", "String", "Bytes", "Option"}

TypeNode == {Node(k) : k \in Unsized}
              \cup {Sized(k, w) : k \in {"SizedSInteger", "SizedUInteger", "SizedFloat", "Tuple"}, w \in Nat}
              \cup {Split(k, t, f) : k \in {"SizedFixed", "SizedUFixed"}, t \in Nat, f \in Nat}

\* A node and the number of elements that are known to be accessed.
Partial(node, arity) == [node |-> node, arity |-> arity]
Partials == [node : TypeNode, arity : Nat]
Clash == Partial(Node("Clash"), 0)

\* Whether a more general kind gives way to this one
Narrows(k, general) ==
  \/ /\ general = "Numeric"
     /\ \/ k \in {"SignedNumeric", "FractionalNumeric", "Integer"}
        \/ k \in Ints \cup UInts \cup Floats \cup Fixeds \cup UFixeds
  \/ general = "SignedNumeric" /\ k \in {"FractionalNumeric"} \cup Ints \cup Floats \cup Fixeds
  \/ general = "FractionalNumeric" /\ k \in Floats \cup Fixeds \cup UFixeds
  \/ general = "Integer" /\ k \in Ints \cup UInts
  \/ <<k, general>> \in {<<"SizedSInteger", "SInteger">>, <<"SizedUInteger", "UInteger">>, <<"SizedFloat", "Float">>,
                         <<"SizedFixed", "Fixed">>, <<"SizedUFixed", "UFixed">>}
  \/ general = "Sequence" /\ k \in {"String", "Bytes"}

\* Whether p's node is what p and q have in common: two sequences have nothing.
Fits(p, q) ==
  \/ p.node = q.node /\ p.node.kind # "Sequence"
  \/ q.node.kind = "AnyTuple" /\ p.node.kind = "Tuple" /\ q.arity <= p.node.bits
  \/ Narrows(p.node.kind, q.node.kind)

\* arity, and the least arity of a tuple whose size is not known yet
Arity(p, q) ==
  IF p.node.kind = "Tuple" THEN p.node.bits
  ELSE IF p.node.kind = "Option" THEN 1
  ELSE IF p.node.kind # "AnyTuple" THEN 0
  ELSE IF p.arity < q.arity THEN q.arity ELSE p.arity

\* TypeNode::meet
Meet(p, q) ==
  IF Clash \in {p, q} THEN Clash
  ELSE IF p.node = Node("Any") THEN q
  ELSE IF q.node = Node("Any") THEN p
  ELSE IF Fits(p, q) THEN Partial(p.node, Arity(p, q))
  ELSE IF Fits(q, p) THEN Partial(q.node, Arity(q, p)) ELSE Clash
-----------------------------------------------------------------------------
(* DataType: what a solution is turned into *)

Data(kind, bits) == [kind |-> kind, bits |-> bits]
Unresolved == Data("Unresolved", 0)

IntSizes == {8, 16, 32, 64, 128, 256}
FloatSizes == {32, 64}
FixedSizes == {16, 32, 64}   \* half of them behind the point

\* The first of the sizes that holds the bits, and the fraction
Smallest(kind, sizes, w, f) ==
  IF \E s \in sizes : w <= s /\ 2 * f <= s
  THEN Data(kind, CHOOSE s \in sizes : /\ w <= s /\ 2 * f <= s
                                       /\ \A t \in sizes : w <= t /\ 2 * f <= t => s <= t)
  ELSE Unresolved

\* TypeNode::construct
Construct(n) ==
  CASE n.kind \in {"Integer", "SInteger"} -> Data("Int", 64)
    [] n.kind = "UInteger"          -> Data("UInt", 64)
    [] n.kind = "FractionalNumeric" -> Data("Float", 64)
    [] n.kind = "Float"             -> Data("Float", 32)
    [] n.kind = "Fixed"             -> Data("Fixed", 64)
    [] n.kind = "UFixed"            -> Data("UFixed", 64)
    [] n.kind = "SizedSInteger"     -> Smallest("Int", IntSizes, n.bits, 0)
    [] n.kind = "SizedUInteger"     -> Smallest("UInt", IntSizes, n.bits, 0)
    [] n.kind = "SizedFloat"        -> Smallest("Float", FloatSizes, n.bits, 0)
    [] n.kind = "SizedFixed"        -> Smallest("Fixed", FixedSizes, n.bits, n.frac)
    [] n.kind = "SizedUFixed"       -> Smallest("UFixed", FixedSizes, n.bits, n.frac)
    [] n.kind \in {"Bool", "String", "Bytes", "Tuple", "Option"} -> Data(n.kind, 0)
    [] OTHER -> Unresolved

\* ValueTyped, without generic and compound ones
Annotation == {Node(k) : k \in {"Bool", "String", "Bytes"}}
                \cup {Sized(k, w) : k \in {"Int", "UInt", "Float"}, w \in Nat}
                \cup {Split(k, t, f) : k \in {"Fixed", "UFixed"}, t \in Nat, f \in Nat}

\* DataType::resolve_annotation
ResolveAnnotation(a) ==
  CASE a.kind \in {"Int", "UInt"}     -> Smallest(a.kind, IntSizes, a.bits, 0)
    [] a.kind = "Float"               -> Smallest(a.kind, FloatSizes, a.bits, 0)
    [] a.kind \in {"Fixed", "UFixed"} -> Smallest(a.kind, FixedSizes, a.bits, a.frac)
    [] OTHER -> Data(a.kind, 0)

\* impose_annotation: without a size, only the kind is imposed
ImposeAnnotation(a) ==
  LET unsized == a.bits = 0 /\ a.frac = 0
  IN  CASE a.kind = "Int"    -> IF unsized THEN Node("SInteger") ELSE Sized("SizedSInteger", a.bits)
        [] a.kind = "UInt"   -> IF unsized THEN Node("UInteger") ELSE Sized("SizedUInteger", a.bits)
        [] a.kind = "Float"  -> IF unsized THEN Node("Float") ELSE Sized("SizedFloat", a.bits)
        [] a.kind = "Fixed"  -> IF unsized THEN Node("Fixed") ELSE Split("SizedFixed", a.bits, a.frac)
        [] a.kind = "UFixed" -> IF unsized THEN Node("UFixed") ELSE Split("SizedUFixed", a.bits, a.frac)
        [] OTHER -> Node(a.kind)
-----------------------------------------------------------------------------
(* The operations, on operands of one type *)

ArithmeticOps == {"Add", "Sub", "Mul", "Div", "Rem", "Pow"}
BitOps        == {"BitAnd", "BitOr", "BitXor", "BitNot"}
ShiftOps      == {"Shl", "Shr"}
BoolOps       == {"And", "Or", "Not"}
EqualityOps   == {"Eq", "Ne"}
OrderOps      == {"Lt", "Le", "Ge", "Gt"}
DecimalFns    == {"sqrt", "sin", "cos", "tan"}
FloatFns      == {"arcsin", "arccos", "arctan"}

Operation == ArithmeticOps \cup BitOps \cup ShiftOps \cup BoolOps \cup EqualityOps \cup OrderOps
               \cup DecimalFns \cup FloatFns \cup {"Neg", "abs", "min", "max", "round", "matches"}

\* analyze_expr, and the type parameters of builtins.rs
Required(op) ==
  CASE op \in ArithmeticOps \cup {"Neg", "min", "max", "round"} -> Node("Numeric")
    [] op \in BitOps \cup ShiftOps        -> Node("Integer")
    [] op \in BoolOps                     -> Node("Bool")
    [] op \in EqualityOps \cup OrderOps   -> Node("Any")
    [] op \in DecimalFns \cup FloatFns  -> Node("FractionalNumeric")
    [] op = "abs"                         -> Node("SignedNumeric")
    [] op = "matches"                     -> Node("Sequence")

\* The solutions for an operand: what is required does not narrow them further.
Operands(required) ==
  {n \in TypeNode : /\ Meet(Partial(n, 0), Partial(required, 0)).node = n
                    /\ Construct(n) # Unresolved}

\* The variant of Value that an expression of a type evaluates to, if it is
\* no option
Variant(type) ==
  CASE type.kind = "Int"               -> "Signed"
    [] type.kind = "UInt"              -> "Unsigned"
    [] type.kind = "Float"             -> "Float"
    [] type.kind \in {"Fixed", "UFixed"} -> "Decimal"
    [] OTHER -> type.kind

Numbers == {"Signed", "Unsigned", "Float", "Decimal"}
Variants == Numbers \cup {"None", "Bool", "String", "Bytes", "Tuple"}

\* The variants of two operands of a type.  An option has none of its own: it
\* is None when it is absent, or the value of what it is an option of.
OperandPairs(type) ==
  IF type.kind = "Option" THEN {p \in Variants \X Variants : p[1] = p[2] \/ "None" \in {p[1], p[2]}}
  ELSE {<<Variant(type), Variant(type)>>}

\* Whether the operator or the function has an arm for two values of the
\* variant; without one it ends in panic! or unreachable!.
HasArm(op, v) ==
  \/ op \in ArithmeticOps /\ v \in Numbers
  \/ op \in {"BitAnd", "BitOr", "Not", "BitNot"} /\ v \in {"Bool", "Signed", "Unsigned"}
  \/ op = "BitXor" /\ v \in {"Signed", "Unsigned"}
  \/ op \in ShiftOps /\ v = "Unsigned"
  \/ op \in {"And", "Or"} /\ v = "Bool"
  \/ op \in EqualityOps
  \/ op \in OrderOps /\ v \in Numbers \cup {"String"}
  \/ op \in DecimalFns /\ v \in {"Float", "Decimal"}
  \/ op \in FloatFns \cup {"round"} /\ v = "Float"
  \/ op = "Neg" /\ v \in {"Signed", "Float", "Decimal"}
  \/ op = "abs" /\ v \in {"Signed", "Float"}
  \/ op \in {"min", "max"} /\ v \in {"Signed", "Unsigned", "Float"}
  \/ op = "matches" /\ v \in {"String", "Bytes"}

\* Two variants have no arm in common: only the derived PartialEq takes both.
Runs(op, v, w) == IF v = w THEN HasArm(op, v) ELSE op \in EqualityOps

\* Convert, for cast and widen: the variant the arm for the two types expects
CastArm(from, to) ==
  CASE from = to /\ from # "Float"                         -> Variant(Data(from, 0))
    [] from = "UInt" /\ to \in {"Fixed", "UFixed"}          -> "Signed"
    [] from = "Int" /\ to \in {"Fixed", "UFixed"}           -> "Unsigned"
    [] from \in {"UInt", "Int"} /\ to \in {"UInt", "Int", "Float"} -> Variant(Data(from, 0))
    [] from = "Float" /\ to # "Float"                       -> "Float"
    [] from \in {"Fixed", "UFixed"} /\ to \in {"Int", "UInt", "Float"} -> "Decimal"
    [] OTHER -> "unsupported"

CastRuns(n, m) == LET from == Construct(n) IN CastArm(from.kind, Construct(m).kind) = Variant(from)

\* constrain_literal and lower_constant_value, with the Constant it yields
Literal == {"UInt", "SInt", "Decimal", "Str", "Bool"}

LiteralNode(l) ==
  CASE l = "UInt"    -> Node("Integer")
    [] l = "SInt"    -> Node("SInteger")
    [] l = "Decimal" -> Node("FractionalNumeric")
    [] l = "Str"     -> Node("String")
    [] l = "Bool"    -> Node("Bool")

LowerConstant(l, type) ==
  CASE l = "Str"  -> "String"
    [] l = "Bool" -> "Bool"
    [] l \in {"UInt", "SInt"} /\ type.kind = "Int"  -> "Signed"
    [] l \in {"UInt", "SInt"} /\ type.kind = "UInt" -> "Unsigned"
    [] l = "Decimal" /\ type.kind = "Float"         -> "Float"
    [] l = "Decimal" /\ type.kind \in {"Fixed", "UFixed"} -> "Decimal"
    [] OTHER -> "unsupported"
=============================================================================
