---------------------------- MODULE TypingProofs ----------------------------
(***************************************************************************)
(* Proofs about the typing of expressions, for every set of names and      *)
(* expressions and every header.                                           *)
(***************************************************************************)
EXTENDS Typing, InferLemmas

(***************************************************************************)
(* The result the client holds is what infer answers for the expression    *)
(* and the header it was last called with.                                 *)
(***************************************************************************)
IInv ==
  /\ expr \in Expr /\ header \in Headers
  /\ result = InferTy(expr, header)

LEMMA InitIInv == Init => IInv
BY DEF Init, IInv

LEMMA NextIInv == IInv /\ [Next]_vars => IInv'
<1> SUFFICES ASSUME IInv, [Next]_vars PROVE IInv'
  OBVIOUS
<1>1. CASE Grow
  BY <1>1 DEF Grow, Infers, IInv
<1>2. CASE Retarget
  BY <1>2 DEF Retarget, Infers, IInv
<1>3. CASE UNCHANGED vars
  BY <1>3 DEF IInv, vars
<1> QED
  BY <1>1, <1>2, <1>3 DEF Next

(***************************************************************************)
(* The result the client holds stays the answer of infer for what it asked *)
(* last (infer.rs:82-137).                                                 *)
(***************************************************************************)
THEOREM Invariance == Spec => []IInv
BY InitIInv, NextIInv, PTL DEF Spec

LEMMA HeaderIsValid ==
  ASSUME NEW s \in Headers
  PROVE  ValidHeader(s) /\ \A i \in DOMAIN s : Plain(s[i].ty)
BY HeadersAssumption, SchemaTryNewOk

-----------------------------------------------------------------------------

(***************************************************************************)
(* A typing is the same on every header that agrees on the attributes the  *)
(* expression names: BoolExpression keeps no header and needs none.        *)
(***************************************************************************)
THEOREM TypingsCarryOver == Spec => []TypingCarriesOver
<1>1. IInv => TypingCarriesOver
  BY SameTyping DEF IInv, TypingCarriesOver
<1> QED
  BY <1>1, Invariance, PTL

(***************************************************************************)
(* An accepted expression without aggregates names nothing but attributes  *)
(* of the header it was accepted on.                                       *)
(***************************************************************************)
THEOREM AcceptedAreClosed == Spec => []AcceptedIsClosed
<1>1. IInv => AcceptedIsClosed
  BY AcceptedCloses DEF IInv, AcceptedIsClosed
<1> QED
  BY <1>1, Invariance, PTL

(***************************************************************************)
(* An error infer answers is the one of a sub-expression whose operands    *)
(* were all accepted, and the left operand of an operator is heard first.  *)
(***************************************************************************)
THEOREM ErrorsAreFirst == Spec => []ErrorIsFirst
<1>1. IInv => ErrorIsFirst
  <2> SUFFICES ASSUME IInv, ~result.ok PROVE ErrorIsFirst!2
    BY DEF ErrorIsFirst
  <2>1. expr \in Expr /\ result = InferTy(expr, header)
    BY DEF IInv
  <2>2. \E x \in SubExpressions[expr] : Culprit(x)
    BY <2>1, CulpritExists DEF Culprit
  <2>3. ASSUME NEW x \in SubExpressions[expr], x.k = "BinOp", ~InferTy(x.lhs, header).ok
        PROVE  InferTy(x, header) = InferTy(x.lhs, header)
    <3>1. x \in Expr
      BY <2>1, SubExpressionsIs
    <3> QED
      BY <2>3, <3>1, InferTyIs DEF OfTwo
  <2> QED
    BY <2>2, <2>3
<1> QED
  BY <1>1, Invariance, PTL

-----------------------------------------------------------------------------

(***************************************************************************)
(* The types infer works with are scalars or those of columns and casts,   *)
(* so that a scalar kind tells the type.                                   *)
(***************************************************************************)
LEMMA InferredIsPlain ==
  ASSUME NEW s \in Headers, NEW e \in Expr, InferTy(e, s).ok
  PROVE  Plain(InferTy(e, s).val)
<1>1. InferTy(e, s).val \in Scalars \cup TypesOf(s) \cup CastTargets
  BY HeaderIsValid, TypeSource
<1>2. \A t \in Scalars : Plain(t)
  BY DEF Scalars, Plain, Ty
<1>3. \A t \in TypesOf(s) : Plain(t)
  BY HeaderIsValid DEF TypesOf
<1>4. \A t \in CastTargets : Plain(t)
  BY HeadersAssumption DEF CastTargets
<1> QED
  BY <1>1, <1>2, <1>3, <1>4

(***************************************************************************)
(* The rules give an expression the type infer accepts it with, and none   *)
(* when it is rejected: rule by rule, from what is said of the operands.   *)
(***************************************************************************)
Decided(r) == Provided(r.ok, {r.val})

LEMMA DecidedIs ==
  ASSUME NEW t, NEW x
  PROVE  Decided(Ok(t)) = {t} /\ Decided(Err(x)) = {}
BY DEF Decided, Provided, Ok, Err

LEMMA NumericIs ==
  ASSUME NEW t, Plain(t)
  PROVE  t \in Numeric <=> t.k \in NumericKinds
BY DEF Numeric, NumericKinds, ScalarKinds, Plain, Ty

LEMMA LookupRule ==
  ASSUME NEW s, NEW n
  PROVE  {TypeOf(s, m) : m \in {n} \cap NamesOf(s)} = Decided(Lookup(s, n))
<1>1. n \in NamesOf(s) <=> Has(s, n)
  BY DEF NamesOf, Names, ToSet, Has
<1> QED
  BY <1>1, DecidedIs DEF Lookup, UnknownAttribute

LEMMA AggRule ==
  ASSUME NEW s \in Headers, NEW e \in Expr, e.k = "Agg"
  PROVE  TypesOfAgg(e.agg, s) = Decided(AggTy(e.agg, s))
<1>1. CASE e.agg.f = "Count"
  BY <1>1, DecidedIs DEF TypesOfAgg, AggTy
<1>2. CASE e.agg.f # "Count"
  <2>1. PICK n \in Name : e.agg.over = {n}
    BY <1>2, ExprAssumption DEF KnownVariant
  <2>2. e.agg.f \in {"Sum", "Avg", "Min", "Max"}
    BY <1>2, ExprAssumption DEF KnownVariant
  <2> DEFINE over == {TypeOf(s, m) : m \in e.agg.over \cap NamesOf(s)}
             found == Lookup(s, n)
  <2>3. over = Decided(found)
    BY <2>1, LookupRule
  <2>4. AggTy(e.agg, s) = IF found.ok THEN AggTyOf(e.agg.f, found.val) ELSE found
    BY <1>2, <2>1 DEF AggTy
  <2>5. found.ok => Plain(found.val)
    BY HeaderIsValid, FoundType DEF TypesOf
  <2>6. TypesOfAgg(e.agg, s) =
          CASE e.agg.f = "Sum" -> {IF t = Ty("Int32") THEN Ty("Int64") ELSE t : t \in over \cap Numeric}
            [] e.agg.f = "Avg" -> {IF t = Ty("Decimal") THEN t ELSE Ty("Float64") : t \in over \cap Numeric}
            [] e.agg.f \in {"Min", "Max"} -> {t \in over : t.k \notin {"Json", "Relation"}}
    BY <1>2, <2>2 DEF TypesOfAgg
  <2> HIDE DEF over, found
  <2>7. CASE ~found.ok
    <3>1. over = {} /\ AggTy(e.agg, s) = found /\ Decided(found) = {}
      BY <2>3, <2>4, <2>7 DEF Decided, Provided
    <3> QED
      BY <2>2, <2>6, <3>1
  <2>8. CASE found.ok
    <3> DEFINE t == found.val
    <3>1. over = {t} /\ AggTy(e.agg, s) = AggTyOf(e.agg.f, t) /\ Plain(t)
      BY <2>3, <2>4, <2>5, <2>8 DEF Decided, Provided
    <3>2. t \in Numeric <=> t.k \in NumericKinds
      BY <3>1, NumericIs
    <3>3. \A k \in ScalarKinds : t = Ty(k) <=> t.k = k
      BY <3>1 DEF Plain, Ty
    <3>4. Ty("Int64") # Ty("Int32") /\ Ty("Decimal") # Ty("Float64")
      BY DEF Ty
    <3> HIDE DEF t
    <3>5. CASE e.agg.f = "Sum"
      <4>1. TypesOfAgg(e.agg, s) = {IF x = Ty("Int32") THEN Ty("Int64") ELSE x : x \in {t} \cap Numeric}
        BY <2>6, <3>1, <3>5
      <4>2. CASE t.k \in {"Int32", "Int64"}
        <5>1. AggTyOf("Sum", t) = Ok(Ty("Int64"))
          BY <4>2 DEF AggTyOf
        <5>2. TypesOfAgg(e.agg, s) = {Ty("Int64")}
          BY <3>2, <3>3, <4>1, <4>2 DEF NumericKinds, ScalarKinds
        <5> QED
          BY <3>1, <3>5, <5>1, <5>2, DecidedIs
      <4>3. CASE t.k \in {"Float64", "Decimal"}
        <5>1. AggTyOf("Sum", t) = Ok(t)
          BY <4>3 DEF AggTyOf
        <5>2. TypesOfAgg(e.agg, s) = {t}
          BY <3>2, <4>1, <4>3 DEF NumericKinds, Ty
        <5> QED
          BY <3>1, <3>5, <5>1, <5>2, DecidedIs
      <4>4. CASE t.k \notin NumericKinds
        <5>1. AggTyOf("Sum", t) = NotApplicable(t)
          BY <4>4 DEF AggTyOf, NumericKinds
        <5>2. TypesOfAgg(e.agg, s) = {}
          BY <3>2, <4>1, <4>4
        <5> QED
          BY <3>1, <3>5, <5>1, <5>2, DecidedIs DEF NotApplicable
      <4> QED
        BY <4>2, <4>3, <4>4 DEF NumericKinds
    <3>6. CASE e.agg.f = "Avg"
      <4>1. TypesOfAgg(e.agg, s) = {IF x = Ty("Decimal") THEN x ELSE Ty("Float64") : x \in {t} \cap Numeric}
        BY <2>6, <3>1, <3>6
      <4>2. CASE t.k \in {"Int32", "Int64", "Float64"}
        <5>1. AggTyOf("Avg", t) = Ok(Ty("Float64"))
          BY <4>2 DEF AggTyOf
        <5>2. TypesOfAgg(e.agg, s) = {Ty("Float64")}
          BY <3>2, <4>1, <4>2 DEF NumericKinds, Ty
        <5> QED
          BY <3>1, <3>6, <5>1, <5>2, DecidedIs
      <4>3. CASE t.k = "Decimal"
        <5>1. AggTyOf("Avg", t) = Ok(t)
          BY <4>3 DEF AggTyOf
        <5>2. TypesOfAgg(e.agg, s) = {t}
          BY <3>2, <3>3, <4>1, <4>3 DEF NumericKinds, ScalarKinds
        <5> QED
          BY <3>1, <3>6, <5>1, <5>2, DecidedIs
      <4>4. CASE t.k \notin NumericKinds
        <5>1. AggTyOf("Avg", t) = NotApplicable(t)
          BY <4>4 DEF AggTyOf, NumericKinds
        <5>2. TypesOfAgg(e.agg, s) = {}
          BY <3>2, <4>1, <4>4
        <5> QED
          BY <3>1, <3>6, <5>1, <5>2, DecidedIs DEF NotApplicable
      <4> QED
        BY <4>2, <4>3, <4>4 DEF NumericKinds
    <3>7. CASE e.agg.f \in {"Min", "Max"}
      <4>1. TypesOfAgg(e.agg, s) = {x \in {t} : x.k \notin {"Json", "Relation"}}
        BY <2>6, <3>1, <3>7
      <4>2. CASE t.k \notin {"Json", "Relation"}
        <5>1. AggTyOf(e.agg.f, t) = Ok(t)
          BY <3>7, <4>2 DEF AggTyOf
        <5> QED
          BY <3>1, <4>1, <4>2, <5>1, DecidedIs
      <4>3. CASE t.k \in {"Json", "Relation"}
        <5>1. AggTyOf(e.agg.f, t) = NotApplicable(t)
          BY <3>7, <4>3 DEF AggTyOf
        <5> QED
          BY <3>1, <4>1, <4>3, <5>1, DecidedIs DEF NotApplicable
      <4> QED
        BY <4>2, <4>3
    <3> QED
      BY <2>2, <3>5, <3>6, <3>7
  <2> QED
    BY <2>7, <2>8
<1> QED
  BY <1>1, <1>2

LEMMA BinOpRule ==
  ASSUME NEW s \in Headers, NEW e \in Expr, e.k = "BinOp"
  PROVE  TypesOfBinOp(e.op, Decided(InferTy(e.lhs, s)), Decided(InferTy(e.rhs, s)))
           = Decided(InferTy(e, s))
<1> DEFINE l == InferTy(e.lhs, s)
           r == InferTy(e.rhs, s)
           both == Decided(l) \cap Decided(r)
           rule == TypesOfBinOp(e.op, Decided(l), Decided(r))
<1>1. InferTy(e, s) = OfTwo(e.op, l, r)
  BY InferTyIs
<1>2. e.op \in ArithmeticOps \cup ComparisonOps \cup LogicalOps \cup {"Concat"}
  BY ExprAssumption DEF KnownVariant
<1>3. /\ l.ok => Plain(l.val)
      /\ r.ok => Plain(r.val)
  BY OperandsAre, ExprAssumption, InferredIsPlain
<1>4. /\ e.op \in ArithmeticOps => rule = both \cap Numeric
      /\ e.op \in ComparisonOps => rule = Provided(both # {}, {Ty("Bool")})
      /\ e.op \in LogicalOps => rule = both \cap {Ty("Bool")}
      /\ e.op = "Concat" => rule = both \cap {Ty("String")}
  BY DEF TypesOfBinOp, ArithmeticOps, ComparisonOps, LogicalOps
<1> HIDE DEF l, r, rule
<1>5. CASE ~(l.ok /\ r.ok)
  <2>1. both = {}
    BY <1>5 DEF Decided, Provided
  <2>2. rule = {}
    BY <1>2, <1>4, <2>1 DEF Provided
  <2>3. ~OfTwo(e.op, l, r).ok
    BY <1>5 DEF OfTwo
  <2> QED
    BY <1>1, <2>2, <2>3 DEF rule, l, r, Decided, Provided
<1>6. CASE l.ok /\ r.ok
  <2> DEFINE lt == l.val
             rt == r.val
  <2>1. both = {lt} \cap {rt} /\ InferTy(e, s) = InferBinOp(e.op, lt, rt)
    BY <1>1, <1>6 DEF Decided, Provided, OfTwo
  <2>2. Plain(lt)
    BY <1>3, <1>6
  <2> HIDE DEF lt, rt
  <2>3. CASE e.op \in LogicalOps
    <3>1. rule = ({lt} \cap {rt}) \cap {Ty("Bool")}
      BY <1>4, <2>1, <2>3 DEF ArithmeticOps, ComparisonOps, LogicalOps
    <3>2. CASE lt = Ty("Bool") /\ rt = Ty("Bool")
      <4>1. InferBinOp(e.op, lt, rt) = Ok(Ty("Bool"))
        BY <2>3, <3>2 DEF InferBinOp, Demand, Ok
      <4> QED
        BY <2>1, <3>1, <3>2, <4>1, DecidedIs DEF rule, l, r
    <3>3. CASE ~(lt = Ty("Bool") /\ rt = Ty("Bool"))
      <4>1. ~InferBinOp(e.op, lt, rt).ok
        BY <2>3, <3>3 DEF InferBinOp, Demand, TypeMismatch, Ok, Err
      <4>2. rule = {}
        BY <3>1, <3>3
      <4> QED
        BY <2>1, <4>1, <4>2 DEF rule, l, r, Decided, Provided
    <3> QED
      BY <3>2, <3>3
  <2>4. CASE e.op \notin LogicalOps /\ lt # rt
    <3>1. both = {}
      BY <2>1, <2>4
    <3>2. rule = {}
      BY <1>2, <1>4, <3>1 DEF Provided
    <3>3. ~InferBinOp(e.op, lt, rt).ok
      BY <2>4 DEF InferBinOp, Err
    <3> QED
      BY <2>1, <3>2, <3>3 DEF rule, l, r, Decided, Provided
  <2>5. CASE e.op \notin LogicalOps /\ lt = rt
    <3>1. both = {lt}
      BY <2>1, <2>5
    <3> HIDE DEF both
    <3>2. InferBinOp(e.op, lt, rt) =
            CASE e.op \in ArithmeticOps /\ lt.k \in NumericKinds -> Ok(lt)
              [] e.op = "Concat" /\ lt.k = "String" -> Ok(lt)
              [] e.op \in ComparisonOps -> Ok(Ty("Bool"))
              [] OTHER -> NotApplicable(lt)
      BY <2>5 DEF InferBinOp
    <3>3. CASE e.op \in ArithmeticOps
      <4>1. rule = {lt} \cap Numeric
        BY <1>4, <3>1, <3>3
      <4>2. InferBinOp(e.op, lt, rt) = IF lt.k \in NumericKinds THEN Ok(lt) ELSE NotApplicable(lt)
        BY <3>2, <3>3 DEF ArithmeticOps, ComparisonOps
      <4>3. lt \in Numeric <=> lt.k \in NumericKinds
        BY <2>2, NumericIs
      <4>4. rule = Decided(InferBinOp(e.op, lt, rt))
        <5>1. CASE lt.k \in NumericKinds
          BY <4>1, <4>2, <4>3, <5>1, DecidedIs
        <5>2. CASE lt.k \notin NumericKinds
          <6>1. rule = {} /\ InferBinOp(e.op, lt, rt) = NotApplicable(lt)
            BY <4>1, <4>2, <4>3, <5>2
          <6> QED
            BY <6>1, DecidedIs DEF NotApplicable
        <5> QED
          BY <5>1, <5>2
      <4> QED
        BY <2>1, <4>4 DEF rule, l, r
    <3>4. CASE e.op \in ComparisonOps
      <4>1. rule = {Ty("Bool")}
        BY <1>4, <3>1, <3>4 DEF Provided
      <4>2. InferBinOp(e.op, lt, rt) = Ok(Ty("Bool"))
        BY <3>2, <3>4 DEF ArithmeticOps, ComparisonOps
      <4> QED
        BY <2>1, <4>1, <4>2, DecidedIs DEF rule, l, r
    <3>5. CASE e.op = "Concat"
      <4>1. rule = {lt} \cap {Ty("String")}
        BY <1>4, <3>1, <3>5
      <4>2. InferBinOp(e.op, lt, rt) = IF lt.k = "String" THEN Ok(lt) ELSE NotApplicable(lt)
        BY <3>2, <3>5 DEF ArithmeticOps, ComparisonOps
      <4>3. lt = Ty("String") <=> lt.k = "String"
        BY <2>2 DEF Plain, Ty, ScalarKinds
      <4>4. rule = Decided(InferBinOp(e.op, lt, rt))
        <5>1. CASE lt.k = "String"
          <6>1. rule = {lt} /\ InferBinOp(e.op, lt, rt) = Ok(lt)
            BY <4>1, <4>2, <4>3, <5>1
          <6> QED
            BY <6>1, DecidedIs
        <5>2. CASE lt.k # "String"
          <6>1. rule = {} /\ InferBinOp(e.op, lt, rt) = NotApplicable(lt)
            BY <4>1, <4>2, <4>3, <5>2
          <6> QED
            BY <6>1, DecidedIs DEF NotApplicable
        <5> QED
          BY <5>1, <5>2
      <4> QED
        BY <2>1, <4>4 DEF rule, l, r
    <3> QED
      BY <1>2, <2>5, <3>3, <3>4, <3>5
  <2> QED
    BY <2>3, <2>4, <2>5
<1> QED
  BY <1>5, <1>6

LEMMA InListRule ==
  ASSUME NEW t, NEW values
  PROVE  Provided(\E x \in {t} : Homogeneous(values, x), {Ty("Bool")})
           = Decided(InferInList(t, values))
<1> DEFINE Fails(i) == InferValue(values[i]) # Ok(t)
           first == CHOOSE i \in DOMAIN values : Fails(i) /\ \A j \in 1..(i - 1) : ~Fails(j)
           found == InferValue(values[first])
<1>1. InferInList(t, values) =
        IF \A i \in DOMAIN values : ~Fails(i) THEN Ok(Ty("Bool"))
        ELSE IF found.ok
        THEN Err([k |-> "InListElementMismatch", index |-> first,
                  scrutinee |-> t, got |-> found.val])
        ELSE found
  BY DEF InferInList
<1>2. \A v : InferValue(v) = Ok(t) <=> v.k \in ScalarKinds /\ Ty(v.k) = t
  BY DEF InferValue, Ok, Err
<1>3. ToSet(values) = {values[i] : i \in DOMAIN values}
  BY DEF ToSet
<1>4. Homogeneous(values, t) <=> \A i \in DOMAIN values : ~Fails(i)
  BY <1>2, <1>3 DEF Homogeneous
<1> HIDE DEF Fails, first, found
<1>5. CASE \A i \in DOMAIN values : ~Fails(i)
  BY <1>1, <1>4, <1>5, DecidedIs DEF Provided
<1>6. CASE ~(\A i \in DOMAIN values : ~Fails(i))
  <2>1. ~InferInList(t, values).ok
    BY <1>1, <1>6 DEF Err
  <2> QED
    BY <1>4, <1>6, <2>1 DEF Decided, Provided
<1> QED
  BY <1>5, <1>6

LEMMA OverRule ==
  ASSUME NEW s \in Headers, NEW e \in Expr, e.k \in {"UnOp", "Like", "InList", "IsNull", "Cast"}
  PROVE  TypesOver(e, Decided(InferTy(e.operand, s))) = Decided(InferTy(e, s))
<1> DEFINE operand == InferTy(e.operand, s)
           t == operand.val
<1>1. InferTy(e, s) = OfOne(e, operand)
  BY InferTyIs
<1>2. operand.ok => Plain(t)
  BY OperandsAre, ExprAssumption, InferredIsPlain
<1>3. e.k = "UnOp" => e.op \in {"Neg", "Not"}
  BY ExprAssumption DEF KnownVariant
<1> HIDE DEF operand
<1>4. CASE ~operand.ok
  <2>1. Decided(operand) = {} /\ InferTy(e, s) = operand
    BY <1>1, <1>4 DEF Decided, Provided, OfOne
  <2>2. TypesOver(e, {}) = {}
    <3>1. CASE e.k = "UnOp"
      BY <1>3, <3>1 DEF TypesOver
    <3>2. CASE e.k # "UnOp"
      BY <3>2 DEF TypesOver, Provided
    <3> QED
      BY <3>1, <3>2
  <2> QED
    BY <2>1, <2>2 DEF operand
<1>5. CASE operand.ok
  <2>1. Decided(operand) = {t} /\ InferTy(e, s) = InferOver(e, t) /\ Plain(t)
    BY <1>1, <1>2, <1>5 DEF Decided, Provided, OfOne
  <2> HIDE DEF t
  <2> SUFFICES TypesOver(e, {t}) = Decided(InferOver(e, t))
    BY <2>1 DEF operand
  <2>2. CASE e.k = "UnOp" /\ e.op = "Neg"
    <3>1. TypesOver(e, {t}) = {t} \cap Numeric
      BY <2>2 DEF TypesOver
    <3>2. InferOver(e, t) = IF t.k \in NumericKinds THEN Ok(t) ELSE NotApplicable(t)
      BY <2>2 DEF InferOver, InferUnOp
    <3>3. t \in Numeric <=> t.k \in NumericKinds
      BY <2>1, NumericIs
    <3>4. CASE t.k \in NumericKinds
      <4>1. TypesOver(e, {t}) = {t} /\ InferOver(e, t) = Ok(t)
        BY <3>1, <3>2, <3>3, <3>4
      <4> QED
        BY <4>1, DecidedIs
    <3>5. CASE t.k \notin NumericKinds
      <4>1. TypesOver(e, {t}) = {} /\ InferOver(e, t) = NotApplicable(t)
        BY <3>1, <3>2, <3>3, <3>5
      <4> QED
        BY <4>1, DecidedIs DEF NotApplicable
    <3> QED
      BY <3>4, <3>5
  <2>3. CASE e.k = "UnOp" /\ e.op = "Not"
    <3>1. TypesOver(e, {t}) = {t} \cap {Ty("Bool")}
      BY <2>3 DEF TypesOver
    <3>2. InferOver(e, t) = Demand(Ty("Bool"), t)
      BY <2>3 DEF InferOver, InferUnOp
    <3>3. CASE t = Ty("Bool")
      <4>1. TypesOver(e, {t}) = {t} /\ InferOver(e, t) = Ok(t)
        BY <3>1, <3>2, <3>3 DEF Demand
      <4> QED
        BY <4>1, DecidedIs
    <3>4. CASE t # Ty("Bool")
      <4>1. TypesOver(e, {t}) = {} /\ InferOver(e, t) = TypeMismatch(Ty("Bool"), t)
        BY <3>1, <3>2, <3>4 DEF Demand
      <4> QED
        BY <4>1, DecidedIs DEF TypeMismatch
    <3> QED
      BY <3>3, <3>4
  <2>4. CASE e.k = "Like"
    <3>1. TypesOver(e, {t}) = Provided(t = Ty("String"), {Ty("Bool")})
      BY <2>4 DEF TypesOver, Provided
    <3>2. InferOver(e, t) = IF t = Ty("String") THEN Ok(Ty("Bool")) ELSE TypeMismatch(Ty("String"), t)
      BY <2>4 DEF InferOver
    <3> QED
      BY <3>1, <3>2, DecidedIs DEF Provided, TypeMismatch
  <2>5. CASE e.k = "InList"
    <3>1. TypesOver(e, {t}) = Provided(\E x \in {t} : Homogeneous(e.values, x), {Ty("Bool")})
      BY <2>5 DEF TypesOver
    <3>2. InferOver(e, t) = InferInList(t, e.values)
      BY <2>5 DEF InferOver
    <3> QED
      BY <3>1, <3>2, InListRule
  <2>6. CASE e.k = "IsNull"
    <3>1. TypesOver(e, {t}) = {Ty("Bool")}
      BY <2>6 DEF TypesOver, Provided
    <3>2. InferOver(e, t) = Ok(Ty("Bool"))
      BY <2>6 DEF InferOver
    <3> QED
      BY <3>1, <3>2, DecidedIs
  <2>7. CASE e.k = "Cast"
    <3>1. TypesOver(e, {t}) = {e.to}
      BY <2>7 DEF TypesOver, Provided
    <3>2. InferOver(e, t) = Ok(e.to)
      BY <2>7 DEF InferOver
    <3> QED
      BY <3>1, <3>2, DecidedIs
  <2> QED
    BY <1>3, <2>2, <2>3, <2>4, <2>5, <2>6, <2>7
<1> QED
  BY <1>4, <1>5

-----------------------------------------------------------------------------

(***************************************************************************)
(* What infer decides is the one solution of the typing rules.             *)
(***************************************************************************)
LEMMA TypesFromLocal ==
  ASSUME NEW e \in Expr, NEW s, NEW f, NEW g, \A x \in Operands(e) : f[x] = g[x]
  PROVE  TypesFrom(f, e, s) = TypesFrom(g, e, s)
<1>1. CASE e.k \in {"Attr", "Lit", "Agg"}
  BY <1>1 DEF TypesFrom
<1>2. CASE e.k = "BinOp"
  BY <1>2, OperandsAre DEF TypesFrom
<1>3. CASE e.k \in {"UnOp", "Like", "InList", "IsNull", "Cast"}
  BY <1>3, OperandsAre DEF TypesFrom
<1> QED
  BY <1>1, <1>2, <1>3, OperandsAre

LEMMA DecidedFollows ==
  ASSUME NEW s \in Headers, NEW g, g = [e \in Expr |-> Decided(InferTy(e, s))], NEW e \in Expr
  PROVE  g[e] = TypesFrom(g, e, s)
<1>1. g[e] = Decided(InferTy(e, s)) /\ \A x \in Operands(e) : g[x] = Decided(InferTy(x, s))
  BY ExprAssumption
<1>2. CASE e.k = "Attr"
  BY <1>1, <1>2, InferTyIs, LookupRule DEF TypesFrom
<1>3. CASE e.k = "Lit"
  BY <1>1, <1>3, InferTyIs, SMTT(60) DEF TypesFrom, InferValue, Decided, Provided, Ok, Err
<1>4. CASE e.k = "Agg"
  BY <1>1, <1>4, InferTyIs, AggRule DEF TypesFrom
<1>5. CASE e.k = "BinOp"
  <2>1. TypesFrom(g, e, s) = TypesOfBinOp(e.op, g[e.lhs], g[e.rhs])
    BY <1>5 DEF TypesFrom
  <2>2. g[e.lhs] = Decided(InferTy(e.lhs, s)) /\ g[e.rhs] = Decided(InferTy(e.rhs, s))
    BY <1>1, <1>5, OperandsAre
  <2> QED
    BY <1>1, <1>5, <2>1, <2>2, BinOpRule
<1>6. CASE e.k \in {"UnOp", "Like", "InList", "IsNull", "Cast"}
  <2>1. TypesFrom(g, e, s) = TypesOver(e, g[e.operand])
    BY <1>6 DEF TypesFrom
  <2>2. g[e.operand] = Decided(InferTy(e.operand, s))
    BY <1>1, <1>6, OperandsAre
  <2> QED
    BY <1>1, <1>6, <2>1, <2>2, OverRule
<1> QED
  BY <1>2, <1>3, <1>4, <1>5, <1>6, OperandsAre

LEMMA RulesDecided ==
  ASSUME NEW s \in Headers, NEW e \in Expr
  PROVE  TypesOn(s)[e] = Decided(InferTy(e, s))
<1> DEFINE g == [x \in Expr |-> Decided(InferTy(x, s))]
           f == TypesOn(s)
           Bad == {x \in Expr : f[x] # g[x]}
<1>1. g = [x \in Expr |-> TypesFrom(g, x, s)]
  <2>1. g = [x \in Expr |-> g[x]]
    OBVIOUS
  <2>2. \A x \in Expr : g[x] = TypesFrom(g, x, s)
    BY DecidedFollows
  <2> HIDE DEF g
  <2> QED
    BY <2>1, <2>2
<1>2. f = [x \in Expr |-> TypesFrom(f, x, s)]
  <2> HIDE DEF g
  <2>1. \E h : h = [x \in Expr |-> TypesFrom(h, x, s)]
    BY <1>1
  <2> QED
    BY <2>1 DEF TypesOn
<1> HIDE DEF f, g
<1>3. Bad = {}
  <2> SUFFICES ASSUME Bad # {} PROVE FALSE
    OBVIOUS
  <2>1. PICK x \in Bad : \A y \in Operands(x) : y \notin Bad
    <3>1. Bad \in SUBSET Expr
      OBVIOUS
    <3> HIDE DEF Bad
    <3> QED
      BY <3>1, SmallestExpr
  <2>2. \A y \in Operands(x) : f[y] = g[y]
    BY <2>1, ExprAssumption
  <2>3. TypesFrom(f, x, s) = TypesFrom(g, x, s)
    BY <2>2, TypesFromLocal
  <2> QED
    BY <1>1, <1>2, <2>3
<1> QED
  BY <1>3 DEF f, g

(***************************************************************************)
(* infer accepts an expression with the type the rules give it, and        *)
(* rejects it when they give it none.                                      *)
(***************************************************************************)
THEOREM InferIsTheRules == Spec => []InferFollowsRules
<1>1. IInv => InferFollowsRules
  BY RulesDecided DEF IInv, InferFollowsRules, Decided
<1> QED
  BY <1>1, Invariance, PTL
=============================================================================
