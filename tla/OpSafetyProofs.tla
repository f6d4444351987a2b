--------------------------- MODULE OpSafetyProofs ---------------------------
(***************************************************************************)
(* Theorems about every instance of the builder: any names, expressions,   *)
(* headers and limits.                                                     *)
(***************************************************************************)
EXTENDS OpSafety, HeaderLemmas

-----------------------------------------------------------------------------

(***************************************************************************)
(* A step of the client is one call, whose kind and operands are known.    *)
(***************************************************************************)
LEMMA CallShape ==
  ASSUME NEW c, NEW kind, NEW inputs, NEW arg, NEW header,
         TypeOK, Len(ops) < MaxNodes,
         kind \in {"Source"} \cup UnaryKinds \cup BinaryKinds,
         DOMAIN inputs = 1..Arity(kind),
         \A k \in DOMAIN inputs : inputs[k] \in DOMAIN ops,
         Call(c, kind, inputs, arg, header)
  PROVE  TypeOK'
<1>1. CASE header.ok /\ ops' = Append(ops, Node(kind, inputs, arg, header.val))
           /\ schemas' = schemas \cup {header.val} \cup SubSchemas(header.val)
  <2> DEFINE node == Node(kind, inputs, arg, header.val)
  <2>1. /\ node.kind = kind
        /\ node.inputs = inputs
        /\ node.schema = header.val
    BY DEF Node
  <2>2. /\ DOMAIN ops = 1..Len(ops)
        /\ Len(ops) \in Nat
    BY DEF TypeOK
  <2>3. /\ DOMAIN ops' = 1..(Len(ops) + 1)
        /\ Len(ops') = Len(ops) + 1
        /\ \A i \in 1..Len(ops) : ops'[i] = ops[i]
        /\ ops'[Len(ops) + 1] = node
    BY <1>1, <2>2
  <2>4. Len(ops) + 1 <= MaxNodes
    BY <2>2, BuilderAssumption
  <2>5. ops' = [i \in 1..Len(ops') |-> ops'[i]]
    BY <1>1, <2>2, <2>3
  <2>6. ASSUME NEW i \in DOMAIN ops'
        PROVE  /\ ops'[i].kind \in {"Source"} \cup UnaryKinds \cup BinaryKinds
               /\ DOMAIN ops'[i].inputs = 1..Arity(ops'[i].kind)
               /\ \A k \in DOMAIN ops'[i].inputs : ops'[i].inputs[k] \in 1..(i - 1)
               /\ ops'[i].schema \in schemas'
    <3>1. CASE i \in 1..Len(ops)
      BY <3>1, <1>1, <2>2, <2>3 DEF TypeOK
    <3>2. CASE i = Len(ops) + 1
      <4>1. ops'[i] = node /\ i - 1 = Len(ops)
        BY <3>2, <2>2, <2>3
      <4>2. node.schema \in schemas'
        BY <1>1, <2>1
      <4> HIDE DEF node
      <4> QED
        BY <4>1, <4>2, <2>1, <2>2
    <3> QED
      BY <3>1, <3>2, <2>2, <2>3
  <2> QED
    BY <2>2, <2>3, <2>4, <2>5, <2>6 DEF TypeOK
<1>2. CASE UNCHANGED <<ops, schemas>>
  BY <1>2 DEF TypeOK
<1> QED
  BY <1>1, <1>2 DEF Call

LEMMA OneShape ==
  ASSUME NEW c, NEW kind \in UnaryKinds, NEW i \in DOMAIN ops, NEW arg, NEW header,
         TypeOK, Len(ops) < MaxNodes, Call(c, kind, <<i>>, arg, header)
  PROVE  TypeOK'
<1>1. Arity(kind) = 1
  BY DEF Arity, UnaryKinds
<1>2. DOMAIN <<i>> = 1..1 /\ \A k \in DOMAIN <<i>> : <<i>>[k] \in DOMAIN ops
  OBVIOUS
<1> QED
  BY <1>1, <1>2, CallShape

LEMMA TwoShape ==
  ASSUME NEW c, NEW kind \in BinaryKinds, NEW i \in DOMAIN ops, NEW j \in DOMAIN ops,
         NEW arg, NEW header,
         TypeOK, Len(ops) < MaxNodes, Call(c, kind, <<i, j>>, arg, header)
  PROVE  TypeOK'
<1>1. Arity(kind) = 2
  BY DEF Arity, UnaryKinds, BinaryKinds
<1>2. DOMAIN <<i, j>> = 1..2 /\ \A k \in DOMAIN <<i, j>> : <<i, j>>[k] \in DOMAIN ops
  OBVIOUS
<1> QED
  BY <1>1, <1>2, CallShape

(***************************************************************************)
(* Whatever is called, every Op stays a tree: operands come before the     *)
(* operator that takes them, in the number its kind has (op.rs:1010-1080). *)
(***************************************************************************)
THEOREM TypeCorrect == Spec => []TypeOK
<1>1. Init => TypeOK
  BY BuilderAssumption DEF Init, TypeOK
<1>2. TypeOK /\ [Next]_vars => TypeOK'
  <2> SUFFICES ASSUME TypeOK, [Next]_vars PROVE TypeOK'
    OBVIOUS
  <2>1. CASE UNCHANGED vars
    BY <2>1 DEF vars, TypeOK
  <2>2. ASSUME Len(ops) < MaxNodes, NEW s \in ClientSchemas, SourceOp(s)
        PROVE  TypeOK'
    <3>1. Arity("Source") = 0 /\ DOMAIN <<>> = 1..0
      BY DEF Arity, UnaryKinds, BinaryKinds
    <3> QED
      BY <2>2, <3>1, CallShape DEF SourceOp
  <2>3. ASSUME Len(ops) < MaxNodes, NEW i \in DOMAIN ops, OneOperand(i)
        PROVE  TypeOK'
    <3>1. CASE \E attrs \in AttributeSets : ProjectOp(i, attrs)
      BY <2>3, <3>1, OneShape DEF ProjectOp, UnaryKinds
    <3>2. CASE \E e \in Predicates : RestrictOp(i, e)
      BY <2>3, <3>2, OneShape DEF RestrictOp, UnaryKinds
    <3>3. CASE \E from, to \in Name : RenameOp(i, from, to)
      BY <2>3, <3>3, OneShape DEF RenameOp, UnaryKinds
    <3>4. CASE \E n \in Name, e \in Extensions : ExtendOp(i, n, e)
      BY <2>3, <3>4, OneShape DEF ExtendOp, UnaryKinds
    <3>5. CASE \E by \in GroupingSets, aggs \in NamedAggSets : SummarizeOp(i, by, aggs)
      BY <2>3, <3>5, OneShape DEF SummarizeOp, UnaryKinds
    <3>6. CASE \E by \in OrderKeys : OrderOp(i, by)
      BY <2>3, <3>6, OneShape DEF OrderOp, UnaryKinds
    <3>7. CASE \E offset \in Offsets, count \in LimitCounts : LimitOp(i, offset, count)
      BY <2>3, <3>7, OneShape DEF LimitOp, UnaryKinds
    <3>8. CASE \E path \in Paths : UnnestOp(i, path)
      BY <2>3, <3>8, OneShape DEF UnnestOp, UnaryKinds
    <3>9. CASE \E attrs \in AttributeSets, into \in Name : NestOp(i, attrs, into)
      BY <2>3, <3>9, OneShape DEF NestOp, UnaryKinds
    <3> QED
      BY <2>3, <3>1, <3>2, <3>3, <3>4, <3>5, <3>6, <3>7, <3>8, <3>9 DEF OneOperand
  <2>4. ASSUME Len(ops) < MaxNodes, NEW i \in DOMAIN ops, NEW j \in DOMAIN ops,
               TwoOperands(i, j)
        PROVE  TypeOK'
    <3>1. CASE \E path \in Paths : ModifyOp(i, path, j)
      BY <2>4, <3>1, TwoShape DEF ModifyOp, BinaryKinds
    <3>2. CASE \E kind \in {"Union", "Intersect", "Difference"} : SetOp(kind, i, j)
      BY <2>4, <3>2, TwoShape DEF SetOp, BinaryKinds
    <3>3. CASE ProductOp(i, j)
      BY <2>4, <3>3, TwoShape DEF ProductOp, BinaryKinds
    <3>4. CASE \E kind \in JoinKinds, on \in JoinOns : JoinOp(i, j, kind, on)
      BY <2>4, <3>4, TwoShape DEF JoinOp, BinaryKinds
    <3> QED
      BY <2>4, <3>1, <3>2, <3>3, <3>4 DEF TwoOperands
  <2> QED
    BY <2>1, <2>2, <2>3, <2>4 DEF Next
<1> QED
  BY <1>1, <1>2, PTL DEF Spec

-----------------------------------------------------------------------------

(***************************************************************************)
(* A verified predicate leaves the header as it is.                        *)
(***************************************************************************)
LEMMA AdmitOk ==
  ASSUME NEW e, NEW s, Admit(e, s).ok
  PROVE  Admit(e, s).val = s /\ VerifiedOn(e, s)
<1>1. ~ContainsAggregate(e) /\ BoolExpressionTryNew(s, e).ok /\ Admit(e, s) = Ok(s)
  BY DEF Admit, Then, Wrap, Ok, Err
<1>2. BoolOn(e, s)
  BY <1>1 DEF BoolExpressionTryNew, Demand, TypeMismatch, BoolOn, Ok, Err
<1> QED
  BY <1>1, <1>2 DEF VerifiedOn, Ok

(***************************************************************************)
(* Each header a constructor returns was checked by Schema::try_new or is  *)
(* the header of its operand.                                              *)
(***************************************************************************)
LEMMA ProjectOk ==
  ASSUME NEW s, NEW attrs, ProjectHeader(s, attrs).ok
  PROVE  ValidHeader(ProjectHeader(s, attrs).val)
BY HeaderOfOk DEF ProjectHeader, Then

LEMMA RenameOk ==
  ASSUME NEW s, NEW from, NEW to, RenameHeader(s, from, to).ok
  PROVE  ValidHeader(RenameHeader(s, from, to).val)
BY HeaderOfOk DEF RenameHeader, UnknownAttribute, AlreadyExists, Err

LEMMA ExtendOk ==
  ASSUME NEW s, NEW n, NEW e, ExtendHeader(s, n, e).ok
  PROVE  ValidHeader(ExtendHeader(s, n, e).val)
BY HeaderOfOk DEF ExtendHeader, Then, AlreadyExists, Err

LEMMA SummarizeOk ==
  ASSUME NEW s, NEW by, NEW aggs, SummarizeHeader(s, by, aggs).ok
  PROVE  ValidHeader(SummarizeHeader(s, by, aggs).val)
BY HeaderOfOk DEF SummarizeHeader, Then

LEMMA UnnestOk ==
  ASSUME NEW s, NEW path, UnnestHeader(s, path).ok
  PROVE  ValidHeader(UnnestHeader(s, path).val)
BY HeaderOfOk DEF UnnestHeader, Then

LEMMA NestOk ==
  ASSUME NEW s, NEW attrs, NEW into, NestHeader(s, attrs, into).ok
  PROVE  ValidHeader(NestHeader(s, attrs, into).val)
BY HeaderOfOk DEF NestHeader, NestRemaining, Then, AlreadyExists, Err

LEMMA ModifyOk ==
  ASSUME NEW s, NEW path, NEW sub, ModifyHeader(s, path, sub).ok
  PROVE  ValidHeader(ModifyHeader(s, path, sub).val)
BY HeaderOfOk DEF ModifyHeader, Then

LEMMA ConcatOk ==
  ASSUME NEW l, NEW r, ConcatDisjoint(l, r).ok
  PROVE  ConcatDisjoint(l, r).val = l \o r /\ ValidHeader(l \o r)
BY HeaderOfOk DEF ConcatDisjoint, Err

LEMMA ThetaOk ==
  ASSUME NEW l, NEW r, NEW e, ThetaHeader(l, r, e).ok
  PROVE  /\ ThetaHeader(l, r, e).val = l \o r
         /\ ValidHeader(l \o r)
         /\ VerifiedOn(e, l \o r)
<1>1. ConcatDisjoint(l, r).ok
  BY DEF ThetaHeader, Then
<1>2. ThetaHeader(l, r, e) = Admit(e, l \o r)
  BY <1>1, ConcatOk DEF ThetaHeader, Then
<1> QED
  BY <1>1, <1>2, ConcatOk, AdmitOk

LEMMA JoinOk ==
  ASSUME NEW l, NEW r, NEW kind, NEW on \in JoinOns, JoinHeader(l, r, kind, on).ok
  PROVE  ValidHeader(JoinHeader(l, r, kind, on).val)
<1>1. CASE on.k = "Natural"
  BY <1>1, HeaderOfOk, ConcatOk DEF JoinHeader, NaturalHeader, Then
<1>2. CASE on.k = "Equi"
  BY <1>2, ConcatOk DEF JoinHeader, EquiHeader, Then
<1>3. CASE on.k = "Theta"
  BY <1>3, ThetaOk DEF JoinHeader
<1> QED
  BY <1>1, <1>2, <1>3 DEF JoinOns

-----------------------------------------------------------------------------

(***************************************************************************)
(* What a call leaves behind: the same operators, or one more.             *)
(***************************************************************************)
LEMMA CallAppends ==
  ASSUME NEW c, NEW kind, NEW inputs, NEW arg, NEW header,
         TypeOK, Call(c, kind, inputs, arg, header)
  PROVE  \/ ops' = ops
         \/ /\ header.ok
            /\ DOMAIN ops' = DOMAIN ops \cup {Len(ops) + 1}
            /\ \A i \in DOMAIN ops : ops'[i] = ops[i]
            /\ ops'[Len(ops) + 1] = Node(kind, inputs, arg, header.val)
            /\ Len(ops) + 1 \notin DOMAIN ops
<1>1. DOMAIN ops = 1..Len(ops) /\ Len(ops) \in Nat
  BY DEF TypeOK
<1>2. CASE header.ok /\ ops' = Append(ops, Node(kind, inputs, arg, header.val))
  <2> DEFINE node == Node(kind, inputs, arg, header.val)
  <2>1. /\ DOMAIN ops' = 1..(Len(ops) + 1)
        /\ \A i \in 1..Len(ops) : ops'[i] = ops[i]
        /\ ops'[Len(ops) + 1] = node
    <3> HIDE DEF node
    <3> QED
      BY <1>1, <1>2 DEF node
  <2>2. /\ 1..(Len(ops) + 1) = 1..Len(ops) \cup {Len(ops) + 1}
        /\ Len(ops) + 1 \notin 1..Len(ops)
    BY <1>1
  <2> HIDE DEF node
  <2> QED
    BY <1>1, <1>2, <2>1, <2>2, ZenonT(60) DEF node
<1> QED
  BY <1>2 DEF Call

LEMMA CallHeaders ==
  ASSUME NEW c, NEW kind, NEW inputs, NEW arg, NEW header,
         TypeOK, HeadersValid, Call(c, kind, inputs, arg, header),
         header.ok => ValidHeader(header.val)
  PROVE  HeadersValid'
<1>1. CASE ops' = ops
  BY <1>1 DEF HeadersValid, Schema
<1>2. CASE ops' # ops
  <2>1. /\ header.ok
        /\ DOMAIN ops' = DOMAIN ops \cup {Len(ops) + 1}
        /\ \A i \in DOMAIN ops : ops'[i] = ops[i]
        /\ ops'[Len(ops) + 1] = Node(kind, inputs, arg, header.val)
    BY <1>2, CallAppends
  <2>2. Node(kind, inputs, arg, header.val).schema = header.val
    BY DEF Node
  <2> QED
    BY <2>1, <2>2 DEF HeadersValid, Schema
<1> QED
  BY <1>1, <1>2

(***************************************************************************)
(* The predicates that were verified stay so: operands never change.       *)
(***************************************************************************)
LEMMA CallPredicates ==
  ASSUME NEW c, NEW kind, NEW inputs, NEW arg, NEW header,
         TypeOK, PredicatesVerified, Call(c, kind, inputs, arg, header),
         kind \in {"Restrict", "Join"} => inputs[1] \in DOMAIN ops,
         kind = "Join" => inputs[2] \in DOMAIN ops,
         kind = "Restrict" /\ header.ok => VerifiedOn(arg.predicate, Schema(inputs[1])),
         kind = "Join" /\ arg.on.k = "Theta" /\ header.ok =>
           VerifiedOn(arg.on.predicate, Schema(inputs[1]) \o Schema(inputs[2]))
  PROVE  PredicatesVerified'
<1>1. CASE ops' = ops
  BY <1>1 DEF PredicatesVerified, OfKind, Input, Schema
<1>2. CASE ops' # ops
  <2> DEFINE new == Len(ops) + 1
  <2>1. /\ header.ok
        /\ DOMAIN ops' = DOMAIN ops \cup {new}
        /\ \A i \in DOMAIN ops : ops'[i] = ops[i]
        /\ ops'[new] = Node(kind, inputs, arg, header.val)
        /\ new \notin DOMAIN ops
    BY <1>2, CallAppends
  <2>2. /\ ops'[new].kind = kind
        /\ ops'[new].inputs = inputs
        /\ ops'[new].arg = arg
    BY <2>1 DEF Node
  <2> HIDE DEF new
  <2>3. ASSUME NEW i \in DOMAIN ops, NEW k \in 1..Arity(ops[i].kind)
        PROVE  ops[i].inputs[k] \in DOMAIN ops /\ Input(i, k)' = Input(i, k)
    <3>1. ops[i].inputs[k] \in DOMAIN ops
      <4>1. DOMAIN ops = 1..Len(ops) /\ Len(ops) \in Nat
        BY DEF TypeOK
      <4>2. ops[i].inputs[k] \in 1..(i - 1)
        BY DEF TypeOK
      <4> QED
        BY <4>1, <4>2
    <3> QED
      BY <2>1, <3>1 DEF Input, Schema
  <2>4. ASSUME NEW i \in OfKind("Restrict")'
        PROVE  VerifiedOn(ops'[i].arg.predicate, Input(i, 1)')
    <3>1. CASE i = new
      BY <2>1, <2>2, <3>1 DEF OfKind, Input, Schema
    <3>2. CASE i \in DOMAIN ops
      <4>1. i \in OfKind("Restrict") /\ 1 \in 1..Arity(ops[i].kind)
        BY <2>1, <3>2 DEF OfKind, Arity, UnaryKinds
      <4> QED
        BY <2>1, <2>3, <3>2, <4>1 DEF PredicatesVerified
    <3> QED
      BY <2>1, <3>1, <3>2 DEF OfKind
  <2>5. ASSUME NEW i \in OfKind("Join")', ops'[i].arg.on.k = "Theta"
        PROVE  VerifiedOn(ops'[i].arg.on.predicate, Input(i, 1)' \o Input(i, 2)')
    <3>1. CASE i = new
      BY <2>1, <2>2, <2>5, <3>1 DEF OfKind, Input, Schema
    <3>2. CASE i \in DOMAIN ops
      <4>1. /\ i \in OfKind("Join")
            /\ 1 \in 1..Arity(ops[i].kind)
            /\ 2 \in 1..Arity(ops[i].kind)
        BY <2>1, <3>2 DEF OfKind, Arity, UnaryKinds, BinaryKinds
      <4>2. ops[i].arg.on.k = "Theta"
        BY <2>1, <2>5, <3>2
      <4>3. VerifiedOn(ops[i].arg.on.predicate, Input(i, 1) \o Input(i, 2))
        BY <4>1, <4>2 DEF PredicatesVerified
      <4>4. Input(i, 1)' = Input(i, 1) /\ Input(i, 2)' = Input(i, 2)
        BY <2>3, <3>2, <4>1
      <4> QED
        BY <2>1, <3>2, <4>3, <4>4
    <3> QED
      BY <2>1, <3>1, <3>2 DEF OfKind
  <2> QED
    BY <2>4, <2>5 DEF PredicatesVerified
<1> QED
  BY <1>1, <1>2

(***************************************************************************)
(* Every Op has a header within the limit and without a repeated name      *)
(* (schema.rs:95-113), although restrict, order, limit and the set         *)
(* operations never check the one they keep.                               *)
(***************************************************************************)
LEMMA HeadersStep == TypeOK /\ HeadersValid /\ [Next]_vars => HeadersValid'
<1> SUFFICES ASSUME TypeOK, HeadersValid, [Next]_vars PROVE HeadersValid'
  OBVIOUS
<1>1. CASE UNCHANGED vars
  BY <1>1 DEF vars, HeadersValid, Schema
<1>2. ASSUME NEW s \in ClientSchemas, SourceOp(s)
      PROVE  HeadersValid'
  BY <1>2, SchemaTryNewOk, CallHeaders DEF SourceOp, ClientSchemas, Ok
<1>3. ASSUME NEW i \in DOMAIN ops, OneOperand(i)
      PROVE  HeadersValid'
  <2>1. CASE \E attrs \in AttributeSets : ProjectOp(i, attrs)
    BY <2>1, CallHeaders, ProjectOk DEF ProjectOp
  <2>2. CASE \E e \in Predicates : RestrictOp(i, e)
    BY <2>2, CallHeaders, AdmitOk DEF RestrictOp, RestrictHeader, HeadersValid
  <2>3. CASE \E from, to \in Name : RenameOp(i, from, to)
    BY <2>3, CallHeaders, RenameOk DEF RenameOp
  <2>4. CASE \E n \in Name, e \in Extensions : ExtendOp(i, n, e)
    BY <2>4, CallHeaders, ExtendOk DEF ExtendOp
  <2>5. CASE \E by \in GroupingSets, aggs \in NamedAggSets : SummarizeOp(i, by, aggs)
    BY <2>5, CallHeaders, SummarizeOk DEF SummarizeOp
  <2>6. CASE \E by \in OrderKeys : OrderOp(i, by)
    BY <2>6, CallHeaders DEF OrderOp, Ok, HeadersValid
  <2>7. CASE \E offset \in Offsets, count \in LimitCounts : LimitOp(i, offset, count)
    BY <2>7, CallHeaders DEF LimitOp, Ok, HeadersValid
  <2>8. CASE \E path \in Paths : UnnestOp(i, path)
    BY <2>8, CallHeaders, UnnestOk DEF UnnestOp
  <2>9. CASE \E attrs \in AttributeSets, into \in Name : NestOp(i, attrs, into)
    BY <2>9, CallHeaders, NestOk DEF NestOp
  <2> QED
    BY <1>3, <2>1, <2>2, <2>3, <2>4, <2>5, <2>6, <2>7, <2>8, <2>9 DEF OneOperand
<1>4. ASSUME NEW i \in DOMAIN ops, NEW j \in DOMAIN ops, TwoOperands(i, j)
      PROVE  HeadersValid'
  <2>1. CASE \E path \in Paths : ModifyOp(i, path, j)
    BY <2>1, CallHeaders, ModifyOk DEF ModifyOp
  <2>2. CASE \E kind \in {"Union", "Intersect", "Difference"} : SetOp(kind, i, j)
    BY <2>2, CallHeaders DEF SetOp, SetOpHeader, Ok, Err, HeadersValid
  <2>3. CASE ProductOp(i, j)
    BY <2>3, CallHeaders, ConcatOk DEF ProductOp
  <2>4. CASE \E kind \in JoinKinds, on \in JoinOns : JoinOp(i, j, kind, on)
    BY <2>4, CallHeaders, JoinOk DEF JoinOp
  <2> QED
    BY <1>4, <2>1, <2>2, <2>3, <2>4 DEF TwoOperands
<1> QED
  BY <1>1, <1>2, <1>3, <1>4 DEF Next

(***************************************************************************)
(* No sequence of constructor calls yields an Op whose header is empty,    *)
(* past the limit or repeats a name (op.rs:349-983, schema.rs:95-113).     *)
(***************************************************************************)
THEOREM HeadersAlwaysValid == Spec => []HeadersValid
<1>1. Init => HeadersValid
  BY DEF Init, HeadersValid
<1> QED
  BY <1>1, HeadersStep, TypeCorrect, PTL DEF Spec

(***************************************************************************)
(* A restriction and a theta join verify their predicate again, on their   *)
(* own header (op.rs:406-431 and 935-955), so the Schema a BoolExpression  *)
(* was proved on never matters.                                            *)
(***************************************************************************)
LEMMA PredicatesStep == TypeOK /\ PredicatesVerified /\ [Next]_vars => PredicatesVerified'
<1> SUFFICES ASSUME TypeOK, PredicatesVerified, [Next]_vars PROVE PredicatesVerified'
  OBVIOUS
<1>1. CASE UNCHANGED vars
  BY <1>1 DEF vars, PredicatesVerified, OfKind, Input, Schema
<1>2. ASSUME NEW s \in ClientSchemas, SourceOp(s)
      PROVE  PredicatesVerified'
  BY <1>2, CallPredicates DEF SourceOp
<1>3. ASSUME NEW i \in DOMAIN ops, OneOperand(i)
      PROVE  PredicatesVerified'
  <2>1. CASE \E attrs \in AttributeSets : ProjectOp(i, attrs)
    BY <2>1, CallPredicates DEF ProjectOp
  <2>2. CASE \E e \in Predicates : RestrictOp(i, e)
    BY <2>2, CallPredicates, AdmitOk DEF RestrictOp, RestrictHeader
  <2>3. CASE \E from, to \in Name : RenameOp(i, from, to)
    BY <2>3, CallPredicates DEF RenameOp
  <2>4. CASE \E n \in Name, e \in Extensions : ExtendOp(i, n, e)
    BY <2>4, CallPredicates DEF ExtendOp
  <2>5. CASE \E by \in GroupingSets, aggs \in NamedAggSets : SummarizeOp(i, by, aggs)
    BY <2>5, CallPredicates DEF SummarizeOp
  <2>6. CASE \E by \in OrderKeys : OrderOp(i, by)
    BY <2>6, CallPredicates DEF OrderOp
  <2>7. CASE \E offset \in Offsets, count \in LimitCounts : LimitOp(i, offset, count)
    BY <2>7, CallPredicates DEF LimitOp
  <2>8. CASE \E path \in Paths : UnnestOp(i, path)
    BY <2>8, CallPredicates DEF UnnestOp
  <2>9. CASE \E attrs \in AttributeSets, into \in Name : NestOp(i, attrs, into)
    BY <2>9, CallPredicates DEF NestOp
  <2> QED
    BY <1>3, <2>1, <2>2, <2>3, <2>4, <2>5, <2>6, <2>7, <2>8, <2>9 DEF OneOperand
<1>4. ASSUME NEW i \in DOMAIN ops, NEW j \in DOMAIN ops, TwoOperands(i, j)
      PROVE  PredicatesVerified'
  <2>1. CASE \E path \in Paths : ModifyOp(i, path, j)
    BY <2>1, CallPredicates DEF ModifyOp
  <2>2. CASE \E kind \in {"Union", "Intersect", "Difference"} : SetOp(kind, i, j)
    BY <2>2, CallPredicates DEF SetOp
  <2>3. CASE ProductOp(i, j)
    BY <2>3, CallPredicates DEF ProductOp
  <2>4. CASE \E kind \in JoinKinds, on \in JoinOns : JoinOp(i, j, kind, on)
    <3>1. PICK kind \in JoinKinds, on \in JoinOns : JoinOp(i, j, kind, on)
      BY <2>4
    <3>2. CASE BecomesProduct(Schema(i), Schema(j), kind, on)
      BY <3>1, <3>2, CallPredicates DEF JoinOp
    <3>3. CASE ~BecomesProduct(Schema(i), Schema(j), kind, on)
      <4> DEFINE header == JoinHeader(Schema(i), Schema(j), kind, on)
      <4>1. Call("Join", "Join", <<i, j>>, [kind |-> kind, on |-> on], header)
        BY <3>1, <3>3 DEF JoinOp
      <4>2. on.k = "Theta" /\ header.ok => VerifiedOn(on.predicate, Schema(i) \o Schema(j))
        BY ThetaOk DEF JoinHeader
      <4> HIDE DEF header
      <4> QED
        BY <4>1, <4>2, CallPredicates
    <3> QED
      BY <3>2, <3>3
  <2> QED
    BY <1>4, <2>1, <2>2, <2>3, <2>4 DEF TwoOperands
<1> QED
  BY <1>1, <1>2, <1>3, <1>4 DEF Next

(***************************************************************************)
(* The predicate of every restriction and theta join is boolean on the     *)
(* header its rows have (op.rs:406-431 and 935-955).                       *)
(***************************************************************************)
THEOREM PredicatesAlwaysVerified == Spec => []PredicatesVerified
<1>1. Init => PredicatesVerified
  BY DEF Init, PredicatesVerified, OfKind
<1> QED
  BY <1>1, PredicatesStep, TypeCorrect, PTL DEF Spec

-----------------------------------------------------------------------------

LEMMA CallIdle ==
  ASSUME NEW c, NEW kind, NEW inputs, NEW arg, NEW header,
         Call(c, kind, inputs, arg, header),
         c \in Rebuilding /\ ~header.ok => header.err.k # "Schema"
  PROVE  RevalidationIdle'
<1>1. CASE outcome' = [call |-> c, err |-> NoError]
  BY <1>1 DEF RevalidationIdle
<1>2. CASE ~header.ok /\ outcome' = [call |-> c, err |-> Variant(header.err)]
  <2>1. Variant(header.err)[1] = header.err.k
    BY DEF Variant
  <2> QED
    BY <1>2, <2>1 DEF RevalidationIdle
<1> QED
  BY <1>1, <1>2 DEF Call

LEMMA AdmitIdle ==
  ASSUME NEW e, NEW s, ~Admit(e, s).ok
  PROVE  Admit(e, s).err.k # "Schema"
<1>1. CASE ContainsAggregate(e)
  BY <1>1 DEF Admit, Err
<1>2. CASE ~ContainsAggregate(e)
  <2>1. ~BoolExpressionTryNew(s, e).ok
    BY <1>2 DEF Admit, Then, Wrap, Ok
  <2> QED
    BY <1>2, <2>1 DEF Admit, Then, Wrap, Err
<1> QED
  BY <1>1, <1>2

(***************************************************************************)
(* A renaming keeps the length and, its target being free, the names       *)
(* distinct.                                                               *)
(***************************************************************************)
LEMMA RenameIdle ==
  ASSUME NEW s, NEW from, NEW to, ValidHeader(s), ~RenameHeader(s, from, to).ok
  PROVE  RenameHeader(s, from, to).err.k # "Schema"
<1> DEFINE renamed == [i \in DOMAIN s |->
                         IF s[i].name = from THEN Column(to, s[i].ty) ELSE s[i]]
<1>1. CASE ~Has(s, from) \/ (from # to /\ Has(s, to))
  BY <1>1 DEF RenameHeader, UnknownAttribute, AlreadyExists, Err
<1>2. CASE Has(s, from) /\ ~(from # to /\ Has(s, to))
  <2>1. DOMAIN renamed = DOMAIN s
    OBVIOUS
  <2>2. Len(renamed) = Len(s)
    BY <2>1
  <2>3. \A i \in DOMAIN s : renamed[i].name = IF s[i].name = from THEN to ELSE s[i].name
    BY DEF Column
  <2> HIDE DEF renamed
  <2>4. Distinct(Names(renamed))
    BY <1>2, <2>1, <2>3 DEF ValidHeader, Distinct, Names, Has
  <2>5. ValidHeader(renamed)
    BY <2>2, <2>4 DEF ValidHeader
  <2>6. RenameHeader(s, from, to) = HeaderOf(renamed)
    BY <1>2 DEF RenameHeader, renamed
  <2> QED
    BY <2>5, <2>6, HeaderOfOk DEF Ok
<1> QED
  BY <1>1, <1>2

(***************************************************************************)
(* A modify replaces one type and no name.                                 *)
(***************************************************************************)
LEMMA ModifyIdle ==
  ASSUME NEW s, NEW path, NEW sub, ValidHeader(s), ~ModifyHeader(s, path, sub).ok
  PROVE  ModifyHeader(s, path, sub).err.k # "Schema"
<1> DEFINE at == NestedAt(s, path)
           modified == [i \in DOMAIN s |->
                          IF s[i].name = at.val THEN Column(at.val, RelationTy(sub)) ELSE s[i]]
<1>1. CASE ~at.ok
  <2>1. at.err.k # "Schema"
    BY <1>1 DEF NestedAt, Then, FindAttribute, UnknownAttribute, Ok, Err
  <2>2. ModifyHeader(s, path, sub) = at
    BY <1>1 DEF ModifyHeader, Then
  <2> QED
    BY <2>1, <2>2
<1>2. CASE at.ok
  <2>1. DOMAIN modified = DOMAIN s
    OBVIOUS
  <2>2. Len(modified) = Len(s)
    BY <2>1
  <2>3. \A i \in DOMAIN s : modified[i].name = s[i].name
    BY DEF Column
  <2>4. ModifyHeader(s, path, sub) = HeaderOf(modified)
    BY <1>2 DEF ModifyHeader, Then
  <2> HIDE DEF modified
  <2>5. ValidHeader(modified)
    BY <2>1, <2>2, <2>3 DEF ValidHeader, Distinct, Names
  <2> QED
    BY <2>4, <2>5, HeaderOfOk DEF Ok
<1> QED
  BY <1>1, <1>2

(***************************************************************************)
(* A projection has the length and the names of its attribute list.        *)
(***************************************************************************)
LEMMA ProjectIdle ==
  ASSUME NEW s, NEW attrs \in AttributeSets, ValidHeader(s), ~ProjectHeader(s, attrs).ok
  PROVE  ProjectHeader(s, attrs).err.k # "Schema"
<1> DEFINE found == [i \in DOMAIN attrs |-> FindAttribute(s, attrs[i])]
           header == [i \in DOMAIN found |-> found[i].val]
<1>1. /\ attrs \in Seq(Name)
      /\ Len(attrs) \in 1..MaxSchemaAttributes
      /\ Distinct(attrs)
  BY BuilderAssumption DEF AttributeSets, AttributeSetTryNew, Checked, Err
<1>2. CASE \A i \in DOMAIN found : found[i].ok
  <2>1. \A i \in DOMAIN attrs : Has(s, attrs[i]) /\ header[i] = Find(s, attrs[i])
    BY <1>2 DEF FindAttribute, UnknownAttribute, Ok, Err
  <2>2. DOMAIN header = DOMAIN attrs
    OBVIOUS
  <2>3. ProjectHeader(s, attrs) = HeaderOf(header)
    BY <1>2 DEF ProjectHeader, FindAll, Collect, Then, Ok
  <2> HIDE DEF header
  <2>4. \A i \in DOMAIN attrs : header[i].name = attrs[i]
    BY <2>1, FindByName
  <2>5. Len(header) = Len(attrs)
    BY <2>2
  <2>6. Distinct(Names(header))
    BY <1>1, <2>2, <2>4 DEF Distinct, Names
  <2>7. ValidHeader(header)
    BY <1>1, <2>5, <2>6 DEF ValidHeader
  <2> QED
    BY <2>3, <2>7, HeaderOfOk DEF Ok
<1>3. CASE ~(\A i \in DOMAIN found : found[i].ok)
  <2> DEFINE first == SelectInSeq(found, LAMBDA r : ~r.ok)
  <2>1. found \in Seq({FindAttribute(s, attrs[i]) : i \in DOMAIN attrs})
    BY <1>1
  <2>2. first \in DOMAIN found /\ ~found[first].ok
    BY <1>3, <2>1, FirstFailure
  <2>3. FindAll(s, attrs) = found[first]
    BY <1>3 DEF FindAll, Collect
  <2> HIDE DEF first
  <2>4. found[first] = UnknownAttribute(attrs[first])
    BY <2>2 DEF FindAttribute, Ok
  <2>5. ProjectHeader(s, attrs) = UnknownAttribute(attrs[first])
    BY <2>2, <2>3, <2>4 DEF ProjectHeader, Then
  <2> QED
    BY <2>5 DEF UnknownAttribute, Err
<1> QED
  BY <1>2, <1>3

(***************************************************************************)
(* The Schema error of project, rename, modify, restrict, order, limit and *)
(* the set operations is dead code (op.rs:368-499, 560-609, 789-840): the  *)
(* operand's header was checked, and nothing they do to it can break it.   *)
(***************************************************************************)
LEMMA RevalidationStep ==
  TypeOK /\ HeadersValid /\ RevalidationIdle /\ [Next]_vars => RevalidationIdle'
<1> SUFFICES ASSUME HeadersValid, RevalidationIdle, [Next]_vars PROVE RevalidationIdle'
  OBVIOUS
<1>1. CASE UNCHANGED vars
  BY <1>1 DEF vars, RevalidationIdle
<1>2. ASSUME NEW s \in ClientSchemas, SourceOp(s)
      PROVE  RevalidationIdle'
  BY <1>2, CallIdle DEF SourceOp, Ok
<1>3. ASSUME NEW i \in DOMAIN ops, OneOperand(i)
      PROVE  RevalidationIdle'
  <2> ValidHeader(Schema(i))
    BY DEF HeadersValid
  <2>1. CASE \E attrs \in AttributeSets : ProjectOp(i, attrs)
    BY <2>1, CallIdle, ProjectIdle DEF ProjectOp
  <2>2. CASE \E e \in Predicates : RestrictOp(i, e)
    BY <2>2, CallIdle, AdmitIdle DEF RestrictOp, RestrictHeader
  <2>3. CASE \E from, to \in Name : RenameOp(i, from, to)
    BY <2>3, CallIdle, RenameIdle DEF RenameOp
  <2>4. CASE \E n \in Name, e \in Extensions : ExtendOp(i, n, e)
    BY <2>4, CallIdle DEF ExtendOp, Rebuilding
  <2>5. CASE \E by \in GroupingSets, aggs \in NamedAggSets : SummarizeOp(i, by, aggs)
    BY <2>5, CallIdle DEF SummarizeOp, Rebuilding
  <2>6. CASE \E by \in OrderKeys : OrderOp(i, by)
    BY <2>6, CallIdle DEF OrderOp, Ok
  <2>7. CASE \E offset \in Offsets, count \in LimitCounts : LimitOp(i, offset, count)
    BY <2>7, CallIdle DEF LimitOp, Ok
  <2>8. CASE \E path \in Paths : UnnestOp(i, path)
    BY <2>8, CallIdle DEF UnnestOp, Rebuilding
  <2>9. CASE \E attrs \in AttributeSets, into \in Name : NestOp(i, attrs, into)
    BY <2>9, CallIdle DEF NestOp, Rebuilding
  <2> QED
    BY <1>3, <2>1, <2>2, <2>3, <2>4, <2>5, <2>6, <2>7, <2>8, <2>9 DEF OneOperand
<1>4. ASSUME NEW i \in DOMAIN ops, NEW j \in DOMAIN ops, TwoOperands(i, j)
      PROVE  RevalidationIdle'
  <2> ValidHeader(Schema(i))
    BY DEF HeadersValid
  <2>1. CASE \E path \in Paths : ModifyOp(i, path, j)
    BY <2>1, CallIdle, ModifyIdle DEF ModifyOp
  <2>2. CASE \E kind \in {"Union", "Intersect", "Difference"} : SetOp(kind, i, j)
    BY <2>2, CallIdle DEF SetOp, SetOpHeader, Ok, Err
  <2>3. CASE ProductOp(i, j)
    BY <2>3, CallIdle DEF ProductOp, Rebuilding
  <2>4. CASE \E kind \in JoinKinds, on \in JoinOns : JoinOp(i, j, kind, on)
    BY <2>4, CallIdle DEF JoinOp, Rebuilding
  <2> QED
    BY <1>4, <2>1, <2>2, <2>3, <2>4 DEF TwoOperands
<1> QED
  BY <1>1, <1>2, <1>3, <1>4 DEF Next

(***************************************************************************)
(* The constructors that only rearrange a header never return a Schema     *)
(* error (op.rs:362-499, 542-609 and 783-840).                             *)
(***************************************************************************)
THEOREM RevalidationAlwaysIdle == Spec => []RevalidationIdle
<1>1. Init => RevalidationIdle
  BY DEF Init, RevalidationIdle
<1> QED
  BY <1>1, RevalidationStep, HeadersAlwaysValid, TypeCorrect, PTL DEF Spec

-----------------------------------------------------------------------------

(***************************************************************************)
(* Two numbers that are each at most half of the largest word have a sum   *)
(* that is a word.                                                         *)
(***************************************************************************)
LEMMA HalvesFit ==
  ASSUME NEW offset \in Offsets, NEW count \in LimitCounts, count.k = "Bounded"
  PROVE  offset + count.n \in Word
<1>1. offset \in Nat /\ offset <= (WordSize - 1) \div 2
  BY BuilderAssumption, WordAssumption
     DEF Offsets, OffsetTryNew, Within, MaxOffset, Word, Ok, Err
<1>2. PICK w \in Words : LimitCountBounded(w).ok /\ count = LimitCountBounded(w).val
  BY DEF LimitCounts, Unbounded
<1>3. Within(w, MaxLimitCount).ok
  BY <1>2 DEF LimitCountBounded
<1>4. count.n = w /\ w \in Nat /\ w <= (WordSize - 1) \div 2
  BY <1>2, <1>3, BuilderAssumption, WordAssumption
     DEF LimitCountBounded, Within, MaxLimitCount, Word, Ok, Err
<1> QED
  BY <1>1, <1>4, WordAssumption DEF Word

LEMMA CallWindows ==
  ASSUME NEW c, NEW kind, NEW inputs, NEW arg, NEW header,
         TypeOK, WindowsFit, Call(c, kind, inputs, arg, header),
         kind = "Limit" /\ arg.count.k = "Bounded" => arg.offset + arg.count.n \in Word
  PROVE  WindowsFit'
<1>1. CASE ops' = ops
  BY <1>1 DEF WindowsFit, OfKind
<1>2. CASE ops' # ops
  <2> DEFINE new == Len(ops) + 1
  <2>1. /\ DOMAIN ops' = DOMAIN ops \cup {new}
        /\ \A i \in DOMAIN ops : ops'[i] = ops[i]
        /\ ops'[new] = Node(kind, inputs, arg, header.val)
    BY <1>2, CallAppends
  <2>2. ops'[new].kind = kind /\ ops'[new].arg = arg
    BY <2>1 DEF Node
  <2> HIDE DEF new
  <2> QED
    BY <2>1, <2>2 DEF WindowsFit, OfKind
<1> QED
  BY <1>1, <1>2

(***************************************************************************)
(* No limit has an offset and a count whose sum leaves the machine word    *)
(* (limits.rs:20-26), for any word size.                                   *)
(***************************************************************************)
LEMMA WindowsStep == TypeOK /\ WindowsFit /\ [Next]_vars => WindowsFit'
<1> SUFFICES ASSUME TypeOK, WindowsFit, [Next]_vars PROVE WindowsFit'
  OBVIOUS
<1>1. CASE UNCHANGED vars
  BY <1>1 DEF vars, WindowsFit, OfKind
<1>2. ASSUME NEW s \in ClientSchemas, SourceOp(s)
      PROVE  WindowsFit'
  BY <1>2, CallWindows DEF SourceOp
<1>3. ASSUME NEW i \in DOMAIN ops, OneOperand(i)
      PROVE  WindowsFit'
  <2>1. CASE \E attrs \in AttributeSets : ProjectOp(i, attrs)
    BY <2>1, CallWindows DEF ProjectOp
  <2>2. CASE \E e \in Predicates : RestrictOp(i, e)
    BY <2>2, CallWindows DEF RestrictOp
  <2>3. CASE \E from, to \in Name : RenameOp(i, from, to)
    BY <2>3, CallWindows DEF RenameOp
  <2>4. CASE \E n \in Name, e \in Extensions : ExtendOp(i, n, e)
    BY <2>4, CallWindows DEF ExtendOp
  <2>5. CASE \E by \in GroupingSets, aggs \in NamedAggSets : SummarizeOp(i, by, aggs)
    BY <2>5, CallWindows DEF SummarizeOp
  <2>6. CASE \E by \in OrderKeys : OrderOp(i, by)
    BY <2>6, CallWindows DEF OrderOp
  <2>7. CASE \E offset \in Offsets, count \in LimitCounts : LimitOp(i, offset, count)
    BY <2>7, CallWindows, HalvesFit DEF LimitOp
  <2>8. CASE \E path \in Paths : UnnestOp(i, path)
    BY <2>8, CallWindows DEF UnnestOp
  <2>9. CASE \E attrs \in AttributeSets, into \in Name : NestOp(i, attrs, into)
    BY <2>9, CallWindows DEF NestOp
  <2> QED
    BY <1>3, <2>1, <2>2, <2>3, <2>4, <2>5, <2>6, <2>7, <2>8, <2>9 DEF OneOperand
<1>4. ASSUME NEW i \in DOMAIN ops, NEW j \in DOMAIN ops, TwoOperands(i, j)
      PROVE  WindowsFit'
  <2>1. CASE \E path \in Paths : ModifyOp(i, path, j)
    BY <2>1, CallWindows DEF ModifyOp
  <2>2. CASE \E kind \in {"Union", "Intersect", "Difference"} : SetOp(kind, i, j)
    BY <2>2, CallWindows DEF SetOp
  <2>3. CASE ProductOp(i, j)
    BY <2>3, CallWindows DEF ProductOp
  <2>4. CASE \E kind \in JoinKinds, on \in JoinOns : JoinOp(i, j, kind, on)
    BY <2>4, CallWindows DEF JoinOp
  <2> QED
    BY <1>4, <2>1, <2>2, <2>3, <2>4 DEF TwoOperands
<1> QED
  BY <1>1, <1>2, <1>3, <1>4 DEF Next

(***************************************************************************)
(* Offset plus count of every limit that is built is a machine word        *)
(* (limits.rs:20-26, limit.rs:15-67).                                      *)
(***************************************************************************)
THEOREM WindowsAlwaysFit == Spec => []WindowsFit
<1>1. Init => WindowsFit
  BY DEF Init, WindowsFit, OfKind
<1> QED
  BY <1>1, WindowsStep, TypeCorrect, PTL DEF Spec
============================================================================
