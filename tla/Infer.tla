------------------------------- MODULE Infer -------------------------------
(***************************************************************************)
(* Static typing of expressions against a header: infer.rs, with           *)
(* contains_aggregate and BoolExpression of expression.rs and              *)
(* free_attributes of canonical.rs.                                        *)
(*                                                                         *)
(* An expression is a record tagged by k:                                  *)
(*   Attr [name]        Lit [v]            BinOp [op, lhs, rhs]            *)
(*   UnOp [op, operand] Like [operand]     InList [operand, values]        *)
(*   IsNull [operand]   Cast [operand, to] Agg [agg]                       *)
(* A literal v is known by its variant alone, v.k; an aggregate is         *)
(* [f, over] where over is the set of the attributes it names, empty only  *)
(* for COUNT( * ).  The recursions are functions on Expr, the set of the   *)
(* expressions in use, which contains the operands of its elements.        *)
(***************************************************************************)
EXTENDS Schemas

CONSTANT Expr   \* the expressions the client builds, with their operands

Operands(e) ==
  CASE e.k = "BinOp" -> {e.lhs, e.rhs}
    [] e.k \in {"UnOp", "Like", "InList", "IsNull", "Cast"} -> {e.operand}
    [] e.k \in {"Attr", "Lit", "Agg"} -> {}

NumericKinds == {"Int32", "Int64", "Float64", "Decimal"}
ArithmeticOps == {"Add", "Sub", "Mul", "Div"}
ComparisonOps == {"Eq", "Ne", "Lt", "Le", "Gt", "Ge"}
LogicalOps    == {"And", "Or"}

(***************************************************************************)
(* Every expression is of a known variant.  It is a finite tree, so it has *)
(* a size and its operands are smaller ones.                               *)
(***************************************************************************)
KnownVariant(e) ==
  \/ e.k \in {"Attr", "Lit", "Like", "InList", "IsNull", "Cast"}
  \/ e.k = "BinOp" /\ e.op \in ArithmeticOps \cup ComparisonOps \cup LogicalOps \cup {"Concat"}
  \/ e.k = "UnOp" /\ e.op \in {"Neg", "Not"}
  \/ e.k = "Agg" /\ \/ e.agg.f = "Count"
                    \/ /\ e.agg.f \in {"Sum", "Avg", "Min", "Max"}
                       /\ \E n \in Name : e.agg.over = {n}

Size[e \in Expr] == 1 + MapThenSumSet(LAMBDA x : Size[x], Operands(e))

ASSUME ExprAssumption ==
  \A e \in Expr :
    /\ KnownVariant(e)
    /\ Operands(e) \subseteq Expr
    /\ Size[e] \in Nat
    /\ \A x \in Operands(e) : Size[x] < Size[e]

SubExpressions[e \in Expr] ==
  {e} \cup UNION {SubExpressions[x] : x \in Operands(e)}

ContainsAggregate(e) == \E x \in SubExpressions[e] : x.k = "Agg"

\* A wrong FreeAttributes: the walk stops at the operands.
FreeAtTop(e) == {x.name : x \in {y \in {e} \cup Operands(e) : y.k = "Attr"}}

Named(e) == IF e.k = "Attr" THEN {e.name} ELSE IF e.k = "Agg" THEN e.agg.over ELSE {}

FreeAttributes(e) == UNION {Named(x) : x \in SubExpressions[e]}

-----------------------------------------------------------------------------

UnknownAttribute(n) == Err([k |-> "UnknownAttribute", attribute |-> n])
NotApplicable(t)    == Err([k |-> "OperatorNotApplicable", got |-> t])
TypeMismatch(expected, got) ==
  Err([k |-> "TypeMismatch", expected |-> expected, got |-> got])

\* A wrong Lookup, which the checks must refute: any name finds the first attribute.
LookupFirst(s, n) == IF Has(s, n) THEN Ok(s[1].ty) ELSE UnknownAttribute(n)

Lookup(s, n) == IF Has(s, n) THEN Ok(TypeOf(s, n)) ELSE UnknownAttribute(n)

Demand(expected, t) == IF t = expected THEN Ok(t) ELSE TypeMismatch(expected, t)

(***************************************************************************)
(* A literal of a compound variant has no type without its context.        *)
(***************************************************************************)
\* A wrong InferValue: every integer literal is a wide one.
InferValueWide(v) ==
  IF v.k = "Int32" THEN Ok(Ty("Int64"))
  ELSE IF v.k \in ScalarKinds THEN Ok(Ty(v.k)) ELSE Err([k |-> "AmbiguousLiteral"])

InferValue(v) ==
  IF v.k \in ScalarKinds THEN Ok(Ty(v.k)) ELSE Err([k |-> "AmbiguousLiteral"])

(***************************************************************************)
(* The type of an aggregate.  COUNT does not look at its attribute.        *)
(***************************************************************************)
AggTyOf(f, t) ==
  CASE f = "Sum" /\ t.k \in {"Int32", "Int64"} -> Ok(Ty("Int64"))
    [] f = "Sum" /\ t.k \in {"Float64", "Decimal"} -> Ok(t)
    [] f \in {"Min", "Max"} /\ t.k \notin {"Json", "Relation"} -> Ok(t)
    [] f = "Avg" /\ t.k \in {"Int32", "Int64", "Float64"} -> Ok(Ty("Float64"))
    [] f = "Avg" /\ t.k = "Decimal" -> Ok(t)
    [] OTHER -> NotApplicable(t)

AggTy(agg, s) ==
  IF agg.f = "Count" THEN Ok(Ty("Int64"))
  ELSE LET found == Lookup(s, CHOOSE n \in agg.over : TRUE)
       IN  IF found.ok THEN AggTyOf(agg.f, found.val) ELSE found

InferBinOp(op, lt, rt) ==
  IF op \in LogicalOps
  THEN LET left == Demand(Ty("Bool"), lt)
       IN  IF left.ok THEN Demand(Ty("Bool"), rt) ELSE left
  ELSE IF lt # rt
  THEN Err([k |-> "BinOpTypeMismatch", left |-> lt, right |-> rt])
  ELSE CASE op \in ArithmeticOps /\ lt.k \in NumericKinds -> Ok(lt)
         [] op = "Concat" /\ lt.k = "String" -> Ok(lt)
         [] op \in ComparisonOps -> Ok(Ty("Bool"))
         [] OTHER -> NotApplicable(lt)

\* A wrong InferUnOp: negation of anything.
NegateAnything(op, t) == IF op = "Neg" THEN Ok(t) ELSE Demand(Ty("Bool"), t)

InferUnOp(op, t) ==
  CASE op = "Neg" -> IF t.k \in NumericKinds THEN Ok(t) ELSE NotApplicable(t)
    [] op = "Not" -> Demand(Ty("Bool"), t)

(***************************************************************************)
(* The elements of an IN list are looked at in order; the first one that   *)
(* is ambiguous or of another type than the scrutinee decides.             *)
(***************************************************************************)
InferInList(t, values) ==
  LET Fails(i) == InferValue(values[i]) # Ok(t)
      first == CHOOSE i \in DOMAIN values : Fails(i) /\ \A j \in 1..(i - 1) : ~Fails(j)
      found == InferValue(values[first])
  IN  IF \A i \in DOMAIN values : ~Fails(i) THEN Ok(Ty("Bool"))
      ELSE IF found.ok
      THEN Err([k |-> "InListElementMismatch", index |-> first,
                scrutinee |-> t, got |-> found.val])
      ELSE found

(***************************************************************************)
(* What an operator over one operand of type t makes of it.                *)
(***************************************************************************)
InferOver(e, t) ==
  CASE e.k = "UnOp" -> InferUnOp(e.op, t)
    [] e.k = "Like" -> IF t = Ty("String") THEN Ok(Ty("Bool"))
                       ELSE TypeMismatch(Ty("String"), t)
    [] e.k = "InList" -> InferInList(t, e.values)
    [] e.k = "IsNull" -> Ok(Ty("Bool"))
    [] e.k = "Cast" -> Ok(e.to)

(***************************************************************************)
(* infer: operands first, left before right, and the first error wins.     *)
(* OfOne, OfTwo and InferFrom are given what was inferred for the operands.*)
(***************************************************************************)
\* A wrong OfOne: IS NULL accepts an operand that has no type.
IsNullBlind(e, operand) ==
  IF e.k = "IsNull" THEN Ok(Ty("Bool"))
  ELSE IF operand.ok THEN InferOver(e, operand.val) ELSE operand

\* A wrong OfTwo: the right operand is looked at first.
RightFirst(op, left, right) ==
  IF ~right.ok THEN right
  ELSE IF ~left.ok THEN left ELSE InferBinOp(op, left.val, right.val)

OfOne(e, operand) == IF operand.ok THEN InferOver(e, operand.val) ELSE operand

OfTwo(op, left, right) ==
  IF ~left.ok THEN left
  ELSE IF ~right.ok THEN right ELSE InferBinOp(op, left.val, right.val)

InferFrom(inferred, e, s) ==
  CASE e.k = "Attr" -> Lookup(s, e.name)
    [] e.k = "Lit" -> InferValue(e.v)
    [] e.k = "Agg" -> AggTy(e.agg, s)
    [] e.k = "BinOp" -> OfTwo(e.op, inferred[e.lhs], inferred[e.rhs])
    [] OTHER -> OfOne(e, inferred[e.operand])

InferAll(s) ==
  LET inferred[e \in Expr] == InferFrom(inferred, e, s)
  IN  inferred

InferTy(e, s) == InferAll(s)[e]

(***************************************************************************)
(* BoolExpression::try_new: the proof is relative to s, and s is not kept. *)
(* Aggregates are let through.                                             *)
(***************************************************************************)
BoolExpressionTryNew(s, e) ==
  LET inferred == InferTy(e, s)
  IN  IF inferred.ok THEN Demand(Ty("Bool"), inferred.val) ELSE inferred

BoolOn(e, s) == InferTy(e, s).ok /\ InferTy(e, s).val = Ty("Bool")

(***************************************************************************)
(* Two headers that say the same of some names.                            *)
(***************************************************************************)
AgreeOn(names, s, t) ==
  \A n \in names : (Has(s, n) <=> Has(t, n)) /\ (Has(s, n) => TypeOf(s, n) = TypeOf(t, n))
============================================================================
