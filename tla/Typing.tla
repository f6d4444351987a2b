------------------------------- MODULE Typing -------------------------------
(***************************************************************************)
(* A client that types expressions on headers: calls of infer, with what   *)
(* the last one returned.                                                  *)
(***************************************************************************)
EXTENDS Infer

CONSTANT Headers   \* the Schema values the client holds

(***************************************************************************)
(* A scalar type is nothing but its kind, in a header and in a cast.       *)
(***************************************************************************)
Plain(t) == t.k \in ScalarKinds => t = Ty(t.k)

ASSUME HeadersAssumption ==
  /\ \A s \in Headers : SchemaTryNew(s).ok /\ \A i \in DOMAIN s : Plain(s[i].ty)
  /\ \A e \in Expr : e.k = "Cast" => Plain(e.to)

VARIABLES expr, header, result

vars == <<expr, header, result>>

Infers(e, s) == expr' = e /\ header' = s /\ result' = InferTy(e, s)

Init ==
  /\ expr \in {e \in Expr : Operands(e) = {}}
  /\ header \in Headers
  /\ result = InferTy(expr, header)

(***************************************************************************)
(* The client builds a larger expression around the one it has, or takes   *)
(* the same expression to another header.                                  *)
(***************************************************************************)
Grow == \E e \in Expr : expr \in Operands(e) /\ Infers(e, header)

Retarget == \E s \in Headers : Infers(expr, s)

Next == Grow \/ Retarget

Spec == Init /\ [][Next]_vars

-----------------------------------------------------------------------------

Numeric == {Ty(k) : k \in NumericKinds}

(***************************************************************************)
(* The typing rules as a relation: the types an expression can be given on *)
(* a header, from the sets of the types of its operands.                   *)
(***************************************************************************)
Provided(condition, types) == IF condition THEN types ELSE {}

TypesOfAgg(agg, s) ==
  LET over == {TypeOf(s, n) : n \in agg.over \cap NamesOf(s)}
  IN  CASE agg.f = "Count" -> {Ty("Int64")}
        [] agg.f = "Sum" -> {IF t = Ty("Int32") THEN Ty("Int64") ELSE t : t \in over \cap Numeric}
        [] agg.f = "Avg" -> {IF t = Ty("Decimal") THEN t ELSE Ty("Float64") : t \in over \cap Numeric}
        [] agg.f \in {"Min", "Max"} -> {t \in over : t.k \notin {"Json", "Relation"}}

TypesOfBinOp(op, left, right) ==
  LET both == left \cap right
  IN  CASE op \in ArithmeticOps -> both \cap Numeric
        [] op \in ComparisonOps -> Provided(both # {}, {Ty("Bool")})
        [] op \in LogicalOps -> both \cap {Ty("Bool")}
        [] op = "Concat" -> both \cap {Ty("String")}

Homogeneous(values, t) == \A v \in ToSet(values) : v.k \in ScalarKinds /\ Ty(v.k) = t

TypesOver(e, types) ==
  CASE e.k = "UnOp" /\ e.op = "Neg" -> types \cap Numeric
    [] e.k = "UnOp" /\ e.op = "Not" -> types \cap {Ty("Bool")}
    [] e.k = "Like" -> Provided(Ty("String") \in types, {Ty("Bool")})
    [] e.k = "InList" -> Provided(\E t \in types : Homogeneous(e.values, t), {Ty("Bool")})
    [] e.k = "IsNull" -> Provided(types # {}, {Ty("Bool")})
    [] e.k = "Cast" -> Provided(types # {}, {e.to})

TypesFrom(types, e, s) ==
  CASE e.k = "Attr" -> {TypeOf(s, n) : n \in {e.name} \cap NamesOf(s)}
    [] e.k = "Lit" -> Provided(e.v.k \in ScalarKinds, {Ty(e.v.k)})
    [] e.k = "Agg" -> TypesOfAgg(e.agg, s)
    [] e.k = "BinOp" -> TypesOfBinOp(e.op, types[e.lhs], types[e.rhs])
    [] OTHER -> TypesOver(e, types[e.operand])

TypesOn(s) ==
  LET types[e \in Expr] == TypesFrom(types, e, s)
  IN  types

(***************************************************************************)
(* infer decides the typing relation: an expression is accepted with the   *)
(* one type the rules give it, and rejected when they give it none.        *)
(***************************************************************************)
InferFollowsRules ==
  TypesOn(header)[expr] = Provided(result.ok, {result.val})

(***************************************************************************)
(* A typing carries over to every header that agrees on the attributes the *)
(* expression names, in whatever order and among whatever others: only     *)
(* then is a BoolExpression proved on one header good on another.          *)
(***************************************************************************)
TypingCarriesOver ==
  \A s \in Headers : AgreeOn(FreeAttributes(expr), header, s) => InferTy(expr, s) = result

(***************************************************************************)
(* A rejection reports a mistake made in one place: the error of some      *)
(* sub-expression whose operands are all accepted, and everything that is  *)
(* evaluated before that sub-expression is accepted too.                   *)
(***************************************************************************)
Culprit(x) ==
  /\ InferTy(x, header) = result
  /\ \A y \in Operands(x) : InferTy(y, header).ok

ErrorIsFirst ==
  ~result.ok =>
    /\ \E x \in SubExpressions[expr] : Culprit(x)
    /\ \A x \in SubExpressions[expr] :
         x.k = "BinOp" /\ ~InferTy(x.lhs, header).ok =>
           InferTy(x, header) = InferTy(x.lhs, header)

(***************************************************************************)
(* An accepted expression without aggregates is closed on its header; one  *)
(* with aggregates need not be, since COUNT is not looked up.              *)
(***************************************************************************)
AcceptedIsClosed ==
  result.ok /\ ~ContainsAggregate(expr) => FreeAttributes(expr) \subseteq NamesOf(header)

-----------------------------------------------------------------------------

(***************************************************************************)
(* IDEA.md:334-340: comparisons are "defined only between operands whose   *)
(* static type belongs to the same comparable equivalence class (`Bool`    *)
(* equality only; ...)", and the expression constructor rejects `Json`     *)
(* against anything.                                                       *)
(***************************************************************************)
Comparable(op, t) ==
  /\ t.k \notin {"Json", "Relation", "Array", "Optional"}
  /\ t.k = "Bool" => op \in {"Eq", "Ne"}

ComparisonsAreComparable ==
  expr.k = "BinOp" /\ result.ok /\ expr.op \in ComparisonOps =>
    Comparable(expr.op, InferTy(expr.lhs, header).val)
============================================================================
