-------------------------- MODULE CoherenceProofs --------------------------
(***************************************************************************)
(* The header an operator caches, for any names, types, expressions,       *)
(* headers, limits and number of operators: what it is made of, that it is *)
(* the one the algebra gives, and that the builder implements the algebra. *)
(***************************************************************************)
EXTENDS OpSafetyProofs

-----------------------------------------------------------------------------

(***************************************************************************)
(* The inductive invariant: each node stores a header its constructor      *)
(* computed, from the arguments it stores and the headers its operands     *)
(* still cache; and each Schema value is a list of attributes whose nested *)
(* headers the program holds too.                                          *)
(***************************************************************************)
Gives(result, h) == result.ok /\ h = result.val

MadeOne(kind, arg, s, h) ==
  \/ kind = "Project" /\ arg.attrs \in AttributeSets /\ Gives(ProjectHeader(s, arg.attrs), h)
  \/ kind = "Restrict" /\ arg.predicate \in Expr /\ Gives(RestrictHeader(s, arg.predicate), h)
  \/ /\ kind = "Rename" /\ arg.from \in Name /\ arg.to \in Name
     /\ arg = [from |-> arg.from, to |-> arg.to]
     /\ Gives(RenameHeader(s, arg.from, arg.to), h)
  \/ /\ kind = "Extend" /\ arg.name \in Name /\ arg.expr \in Expr
     /\ Gives(ExtendHeader(s, arg.name, arg.expr), h)
  \/ /\ kind = "Summarize" /\ arg.by \in GroupingSets /\ arg.aggs \in NamedAggSets
     /\ Gives(SummarizeHeader(s, arg.by, arg.aggs), h)
  \/ kind \in {"Order", "Limit"} /\ h = s
  \/ kind = "Unnest" /\ Gives(UnnestHeader(s, arg.path), h)
  \/ /\ kind = "Nest" /\ arg.attrs \in AttributeSets /\ arg.into \in Name
     /\ Gives(NestHeader(s, arg.attrs, arg.into), h)

KnownOn(on) ==
  \/ on.k = "Natural"
  \/ on.k = "Equi" /\ on.pairs \in EquiPairSets
  \/ on.k = "Theta" /\ on.predicate \in Expr

MadeTwo(kind, arg, l, r, h) ==
  \/ kind = "Modify" /\ Gives(ModifyHeader(l, arg.path, r), h)
  \/ kind \in {"Union", "Intersect", "Difference"} /\ Gives(SetOpHeader(l, r), h)
  \/ kind = "Product" /\ Gives(ConcatDisjoint(l, r), h)
  \/ /\ kind = "Join" /\ KnownOn(arg.on)
     /\ ~BecomesProduct(l, r, arg.kind, arg.on)
     /\ Gives(JoinHeader(l, r, arg.kind, arg.on), h)

MadeFrom(nodes, kind, inputs, arg, h) ==
  \/ kind = "Source" /\ inputs = <<>> /\ h \in ClientSchemas
  \/ \E i \in DOMAIN nodes : inputs = <<i>> /\ MadeOne(kind, arg, nodes[i].schema, h)
  \/ \E i, j \in DOMAIN nodes :
       inputs = <<i, j>> /\ MadeTwo(kind, arg, nodes[i].schema, nodes[j].schema, h)

Recomputed ==
  \A i \in DOMAIN ops : MadeFrom(ops, ops[i].kind, ops[i].inputs, ops[i].arg, ops[i].schema)

Closed(H) ==
  /\ ClientSchemas \subseteq H
  /\ \A s \in H : Built(s) /\ SubSchemas(s) \subseteq H

-----------------------------------------------------------------------------

(***************************************************************************)
(* The arguments the checked lists let through.                            *)
(***************************************************************************)
LEMMA CheckedList ==
  ASSUME NEW list, NEW keys, NEW lo, NEW hi, Checked(list, keys, lo, hi).ok
  PROVE  Len(list) \in lo..hi /\ Distinct(keys)
BY DEF Checked, Err

LEMMA AttributesAre ==
  ASSUME NEW attrs \in AttributeSets
  PROVE  attrs \in Seq(Name) /\ Len(attrs) \in 1..MaxSchemaAttributes /\ Distinct(attrs)
<1>1. attrs \in Seq(Name) /\ Checked(attrs, attrs, 1, MaxSchemaAttributes).ok
  BY BuilderAssumption DEF AttributeSets, AttributeSetTryNew
<1> QED
  BY <1>1, CheckedList

LEMMA KeysAre ==
  ASSUME NEW by \in GroupingSets
  PROVE  by \in Seq(Name) /\ Distinct(by)
<1>1. by \in Seq(Name) /\ Checked(by, by, 0, MaxSchemaAttributes).ok
  BY BuilderAssumption DEF GroupingSets, GroupingSetTryNew
<1> QED
  BY <1>1, CheckedList

LEMMA AggsAre ==
  ASSUME NEW aggs \in NamedAggSets
  PROVE  /\ aggs \in Seq(ToSet(aggs)) /\ Len(aggs) > 0 /\ Distinct(Names(aggs))
         /\ \A i \in DOMAIN aggs : aggs[i].name \in Name
<1>1. /\ aggs \in Seq(ToSet(aggs))
      /\ \A agg \in ToSet(aggs) : agg.name \in Name
      /\ Checked(aggs, Names(aggs), 1, MaxSchemaAttributes).ok
  BY BuilderAssumption DEF NamedAggSets, NamedAggSetTryNew
<1>2. Len(aggs) \in 1..MaxSchemaAttributes /\ Distinct(Names(aggs))
  BY <1>1, CheckedList
<1>3. \A i \in DOMAIN aggs : aggs[i] \in ToSet(aggs)
  BY DEF ToSet
<1> QED
  BY <1>1, <1>2, <1>3

LEMMA PairsAre ==
  ASSUME NEW pairs \in EquiPairSets
  PROVE  pairs \in Seq(ToSet(pairs))
BY BuilderAssumption DEF EquiPairSets

LEMMA ClientsAre ==
  ASSUME NEW s \in ClientSchemas
  PROVE  Built(s) /\ SubSchemas(s) \subseteq ClientSchemas
BY BuilderAssumption, SchemaTryNewOk DEF ClientSchemas, Built

-----------------------------------------------------------------------------

(***************************************************************************)
(* What a step does to the operators: nothing, or one more that was made   *)
(* from those there are.                                                   *)
(***************************************************************************)
Adds(kind, inputs, arg, h) ==
  /\ ops' = Append(ops, Node(kind, inputs, arg, h))
  /\ schemas' = schemas \cup {h} \cup SubSchemas(h)
  /\ MadeFrom(ops, kind, inputs, arg, h)

Grows ==
  \/ UNCHANGED <<ops, schemas>>
  \/ \E kind, inputs, arg, h : Adds(kind, inputs, arg, h)

LEMMA CallAdds ==
  ASSUME NEW c, NEW kind, NEW inputs, NEW arg, NEW header,
         Call(c, kind, inputs, arg, header),
         header.ok => MadeFrom(ops, kind, inputs, arg, header.val)
  PROVE  Grows
<1>1. CASE header.ok
  <2>1. Adds(kind, inputs, arg, header.val)
    BY <1>1 DEF Call, Adds
  <2> QED
    BY <2>1 DEF Grows
<1>2. CASE ~header.ok
  BY <1>2 DEF Call, Grows
<1> QED
  BY <1>1, <1>2

LEMMA OneAdds ==
  ASSUME NEW c, NEW kind, NEW i \in DOMAIN ops, NEW arg, NEW header,
         Call(c, kind, <<i>>, arg, header),
         header.ok => MadeOne(kind, arg, Schema(i), header.val)
  PROVE  Grows
BY CallAdds DEF MadeFrom, Schema

LEMMA TwoAdds ==
  ASSUME NEW c, NEW kind, NEW i \in DOMAIN ops, NEW j \in DOMAIN ops, NEW arg, NEW header,
         Call(c, kind, <<i, j>>, arg, header),
         header.ok => MadeTwo(kind, arg, Schema(i), Schema(j), header.val)
  PROVE  Grows
BY CallAdds DEF MadeFrom, Schema

(***************************************************************************)
(* An inner natural join of two headers that share no name is their        *)
(* product.                                                                *)
(***************************************************************************)
LEMMA ProductMade ==
  ASSUME NEW l, Built(l), NEW r, NEW kind, NEW on,
         BecomesProduct(l, r, kind, on), JoinHeader(l, r, kind, on).ok
  PROVE  JoinHeader(l, r, kind, on) = ConcatDisjoint(l, r)
<1>1. on.k = "Natural"
  BY DEF BecomesProduct
<1>2. JoinHeader(l, r, kind, on) = NaturalHeader(l, r, kind, on)
  BY <1>1 DEF JoinHeader
<1> QED
  BY <1>2, NaturalIs DEF Built

LEMMA StepAdds ==
  TypeOK /\ Closed(schemas) /\ Next => Grows
<1> SUFFICES ASSUME TypeOK, Closed(schemas), Next PROVE Grows
  OBVIOUS
<1>1. ASSUME NEW s \in ClientSchemas, SourceOp(s)
      PROVE  Grows
  BY <1>1, CallAdds DEF SourceOp, Ok, MadeFrom
<1>2. ASSUME NEW i \in DOMAIN ops, OneOperand(i)
      PROVE  Grows
  <2>1. CASE \E attrs \in AttributeSets : ProjectOp(i, attrs)
    BY <2>1, OneAdds DEF ProjectOp, MadeOne, Gives
  <2>2. CASE \E e \in Predicates : RestrictOp(i, e)
    BY <2>2, OneAdds DEF RestrictOp, MadeOne, Gives, Predicates
  <2>3. CASE \E from, to \in Name : RenameOp(i, from, to)
    BY <2>3, OneAdds DEF RenameOp, MadeOne, Gives
  <2>4. CASE \E n \in Name, e \in Extensions : ExtendOp(i, n, e)
    BY <2>4, OneAdds, BuilderAssumption DEF ExtendOp, MadeOne, Gives
  <2>5. CASE \E by \in GroupingSets, aggs \in NamedAggSets : SummarizeOp(i, by, aggs)
    BY <2>5, OneAdds DEF SummarizeOp, MadeOne, Gives
  <2>6. CASE \E by \in OrderKeys : OrderOp(i, by)
    BY <2>6, OneAdds DEF OrderOp, MadeOne, Ok
  <2>7. CASE \E offset \in Offsets, count \in LimitCounts : LimitOp(i, offset, count)
    BY <2>7, OneAdds DEF LimitOp, MadeOne, Ok
  <2>8. CASE \E path \in Paths : UnnestOp(i, path)
    BY <2>8, OneAdds DEF UnnestOp, MadeOne, Gives
  <2>9. CASE \E attrs \in AttributeSets, into \in Name : NestOp(i, attrs, into)
    BY <2>9, OneAdds DEF NestOp, MadeOne, Gives
  <2> QED
    BY <1>2, <2>1, <2>2, <2>3, <2>4, <2>5, <2>6, <2>7, <2>8, <2>9 DEF OneOperand
<1>3. ASSUME NEW i \in DOMAIN ops, NEW j \in DOMAIN ops, TwoOperands(i, j)
      PROVE  Grows
  <2>1. CASE \E path \in Paths : ModifyOp(i, path, j)
    BY <2>1, TwoAdds DEF ModifyOp, MadeTwo, Gives
  <2>2. CASE \E kind \in {"Union", "Intersect", "Difference"} : SetOp(kind, i, j)
    BY <2>2, TwoAdds DEF SetOp, MadeTwo, Gives
  <2>3. CASE ProductOp(i, j)
    BY <2>3, TwoAdds DEF ProductOp, MadeTwo, Gives
  <2>4. CASE \E kind \in JoinKinds, on \in JoinOns : JoinOp(i, j, kind, on)
    <3>1. PICK kind \in JoinKinds, on \in JoinOns : JoinOp(i, j, kind, on)
      BY <2>4
    <3> DEFINE header == JoinHeader(Schema(i), Schema(j), kind, on)
    <3>2. CASE BecomesProduct(Schema(i), Schema(j), kind, on)
      <4>1. Call("Join", "Product", <<i, j>>, <<>>, header)
        BY <3>1, <3>2 DEF JoinOp
      <4>2. Built(Schema(i))
        BY DEF TypeOK, Closed, Schema
      <4>3. header.ok => header = ConcatDisjoint(Schema(i), Schema(j))
        BY <3>2, <4>2, ProductMade
      <4>4. header.ok => MadeTwo("Product", <<>>, Schema(i), Schema(j), header.val)
        BY <4>3 DEF MadeTwo, Gives
      <4> HIDE DEF header
      <4> QED
        BY <4>1, <4>4, TwoAdds
    <3>3. CASE ~BecomesProduct(Schema(i), Schema(j), kind, on)
      <4>1. Call("Join", "Join", <<i, j>>, [kind |-> kind, on |-> on], header)
        BY <3>1, <3>3 DEF JoinOp
      <4>2. KnownOn(on)
        BY DEF KnownOn, JoinOns, Predicates
      <4>3. header.ok => MadeTwo("Join", [kind |-> kind, on |-> on], Schema(i), Schema(j), header.val)
        BY <3>3, <4>2 DEF MadeTwo, Gives
      <4> HIDE DEF header
      <4> QED
        BY <4>1, <4>3, TwoAdds
    <3> QED
      BY <3>2, <3>3
  <2> QED
    BY <1>3, <2>1, <2>2, <2>3, <2>4 DEF TwoOperands
<1> QED
  BY <1>1, <1>2, <1>3 DEF Next

(***************************************************************************)
(* What was made once stays made: operands do not change.                  *)
(***************************************************************************)
LEMMA AddedIs ==
  ASSUME TypeOK, NEW kind, NEW inputs, NEW arg, NEW h, Adds(kind, inputs, arg, h)
  PROVE  /\ DOMAIN ops = 1..Len(ops) /\ Len(ops) \in Nat
         /\ DOMAIN ops' = DOMAIN ops \cup {Len(ops) + 1}
         /\ Len(ops) + 1 \notin DOMAIN ops
         /\ \A i \in DOMAIN ops : ops'[i] = ops[i]
         /\ ops'[Len(ops) + 1] = Node(kind, inputs, arg, h)
<1> DEFINE node == Node(kind, inputs, arg, h)
<1>1. DOMAIN ops = 1..Len(ops) /\ Len(ops) \in Nat
  BY DEF TypeOK
<1>2. /\ DOMAIN ops' = 1..(Len(ops) + 1)
      /\ \A i \in 1..Len(ops) : ops'[i] = ops[i]
      /\ ops'[Len(ops) + 1] = node
  <2>1. ops' = Append(ops, node)
    BY DEF Adds
  <2> HIDE DEF node
  <2> QED
    BY <1>1, <2>1
<1>3. /\ 1..(Len(ops) + 1) = 1..Len(ops) \cup {Len(ops) + 1}
      /\ Len(ops) + 1 \notin 1..Len(ops)
  BY <1>1
<1> QED
  BY <1>1, <1>2, <1>3

LEMMA MadeStays ==
  ASSUME NEW nodes, NEW more, DOMAIN nodes \subseteq DOMAIN more,
         \A i \in DOMAIN nodes : more[i] = nodes[i],
         NEW kind, NEW inputs, NEW arg, NEW h, MadeFrom(nodes, kind, inputs, arg, h)
  PROVE  MadeFrom(more, kind, inputs, arg, h)
<1>1. CASE kind = "Source" /\ inputs = <<>> /\ h \in ClientSchemas
  BY <1>1 DEF MadeFrom
<1>2. ASSUME NEW i \in DOMAIN nodes, inputs = <<i>> /\ MadeOne(kind, arg, nodes[i].schema, h)
      PROVE  MadeFrom(more, kind, inputs, arg, h)
  <2>1. i \in DOMAIN more /\ inputs = <<i>> /\ MadeOne(kind, arg, more[i].schema, h)
    BY <1>2
  <2> QED
    BY <2>1 DEF MadeFrom
<1>3. ASSUME NEW i \in DOMAIN nodes, NEW j \in DOMAIN nodes,
             inputs = <<i, j>> /\ MadeTwo(kind, arg, nodes[i].schema, nodes[j].schema, h)
      PROVE  MadeFrom(more, kind, inputs, arg, h)
  <2>1. /\ i \in DOMAIN more /\ j \in DOMAIN more
        /\ inputs = <<i, j>> /\ MadeTwo(kind, arg, more[i].schema, more[j].schema, h)
    BY <1>3
  <2> QED
    BY <2>1 DEF MadeFrom
<1> QED
  BY <1>1, <1>2, <1>3 DEF MadeFrom

LEMMA RecomputedStep ==
  TypeOK /\ Recomputed /\ Grows => Recomputed'
<1> SUFFICES ASSUME TypeOK, Recomputed, Grows PROVE Recomputed'
  OBVIOUS
<1>1. CASE UNCHANGED <<ops, schemas>>
  BY <1>1 DEF Recomputed
<1>2. ASSUME NEW kind, NEW inputs, NEW arg, NEW h, Adds(kind, inputs, arg, h)
      PROVE  Recomputed'
  <2> DEFINE new == Len(ops) + 1
  <2>1. /\ DOMAIN ops' = DOMAIN ops \cup {new}
        /\ \A i \in DOMAIN ops : ops'[i] = ops[i]
        /\ ops'[new] = Node(kind, inputs, arg, h)
    BY <1>2, AddedIs
  <2> HIDE DEF new
  <2>2. ASSUME NEW i \in DOMAIN ops
        PROVE  MadeFrom(ops', ops'[i].kind, ops'[i].inputs, ops'[i].arg, ops'[i].schema)
    <3>1. MadeFrom(ops, ops[i].kind, ops[i].inputs, ops[i].arg, ops[i].schema)
      BY DEF Recomputed
    <3> QED
      BY ONLY <2>1, <3>1, MadeStays
  <2>3. MadeFrom(ops', kind, inputs, arg, h)
    <3>1. MadeFrom(ops, kind, inputs, arg, h)
      BY <1>2 DEF Adds
    <3> QED
      BY ONLY <2>1, <3>1, MadeStays
  <2>4. MadeFrom(ops', ops'[new].kind, ops'[new].inputs, ops'[new].arg, ops'[new].schema)
    BY <2>1, <2>3 DEF Node
  <2> QED
    BY <2>1, <2>2, <2>4 DEF Recomputed
<1> QED
  BY <1>1, <1>2 DEF Grows

-----------------------------------------------------------------------------

(***************************************************************************)
(* Where the attributes of a header come from: each is a column, and a     *)
(* relation nested in it is a header whose own nested relations are known. *)
(***************************************************************************)
Fine(H, a) ==
  /\ a.name \in Name
  /\ a = Column(a.name, a.ty)
  /\ IsRelationTy(a.ty) => Built(a.ty.schema) /\ SubSchemas(a.ty.schema) \subseteq H

Safe(H, h) ==
  /\ Built(h)
  /\ \A s \in SubSchemas(h) : Built(s) /\ SubSchemas(s) \subseteq H

LEMMA KnownFine ==
  ASSUME NEW H, Closed(H), NEW s \in H, NEW a \in ToSet(s)
  PROVE  Fine(H, a)
<1>1. a.name \in Name /\ a = Column(a.name, a.ty)
  BY DEF Closed, Built, Listed
<1>2. ASSUME IsRelationTy(a.ty)
      PROVE  Built(a.ty.schema) /\ SubSchemas(a.ty.schema) \subseteq H
  <2>1. a.ty.schema \in SubSchemas(s)
    BY <1>2, SubSchemasAre
  <2> QED
    BY <2>1 DEF Closed
<1> QED
  BY <1>1, <1>2 DEF Fine

LEMMA FineIsSafe ==
  ASSUME NEW H, NEW S, NEW h \in Seq(S), ValidHeader(h), \A a \in ToSet(h) : Fine(H, a)
  PROVE  Safe(H, h)
<1>1. Built(h)
  <2>1. \A a \in ToSet(h) : a.name \in Name /\ a = Column(a.name, a.ty)
    BY DEF Fine
  <2> QED
    BY <2>1, ListedIs DEF Built
<1>2. ASSUME NEW s \in SubSchemas(h) PROVE Built(s) /\ SubSchemas(s) \subseteq H
  <2>1. PICK a \in ToSet(h) : IsRelationTy(a.ty) /\ s = a.ty.schema
    BY SubSchemasAre
  <2> QED
    BY <2>1 DEF Fine
<1> QED
  BY <1>1, <1>2 DEF Safe

LEMMA KnownSafe ==
  ASSUME NEW H, Closed(H), NEW s \in H
  PROVE  Safe(H, s)
BY DEF Closed, Safe

LEMMA ColumnFine ==
  ASSUME NEW H, NEW n \in Name, NEW t,
         IsRelationTy(t) => Built(t.schema) /\ SubSchemas(t.schema) \subseteq H
  PROVE  /\ Fine(H, Column(n, t)) /\ Column(n, t).name = n /\ Column(n, t).ty = t
BY DEF Fine, Column

(***************************************************************************)
(* The type of a column that is computed is a scalar, or one of the header *)
(* it is computed on, or the target of a cast.                             *)
(***************************************************************************)
LEMMA InferredFine ==
  ASSUME NEW H, Closed(H), NEW s \in H, NEW e \in Expr, InferTy(e, s).ok,
         IsRelationTy(InferTy(e, s).val)
  PROVE  /\ Built(InferTy(e, s).val.schema)
         /\ SubSchemas(InferTy(e, s).val.schema) \subseteq H
<1> DEFINE t == InferTy(e, s).val
<1>1. t \in TypesOf(s) \cup CastTargets
  BY TypeSource DEF Closed, Built
<1> HIDE DEF t
<1>2. CASE t \in TypesOf(s)
  <2>1. PICK i \in DOMAIN s : t = s[i].ty
    BY <1>2 DEF TypesOf
  <2>2. s[i] \in ToSet(s)
    BY DEF ToSet
  <2>3. Fine(H, s[i])
    BY <2>2, KnownFine
  <2> QED
    BY <2>1, <2>3 DEF Fine, t
<1>3. CASE t \in CastTargets
  <2>1. PICK x \in Expr : x.k = "Cast" /\ t = x.to
    BY <1>3 DEF CastTargets
  <2>2. t.schema \in ClientSchemas
    BY <2>1, BuilderAssumption DEF t
  <2>3. t.schema \in H
    BY <2>2 DEF Closed
  <2> QED
    BY <2>3 DEF Closed, t
<1> QED
  BY <1>1, <1>2, <1>3

-----------------------------------------------------------------------------

(***************************************************************************)
(* What each constructor makes of headers the program holds is safe.       *)
(***************************************************************************)
LEMMA ProjectSafe ==
  ASSUME NEW H, Closed(H), NEW s \in H, NEW attrs \in AttributeSets, NEW h,
         Gives(ProjectHeader(s, attrs), h)
  PROVE  /\ ToSet(attrs) \subseteq NamesOf(s) /\ h = Picked(s, attrs)
         /\ Safe(H, h)
<1>1. Built(s) /\ attrs \in Seq(Name) /\ Len(attrs) \in 1..MaxSchemaAttributes /\ Distinct(attrs)
  BY AttributesAre DEF Closed
<1>2. ToSet(attrs) \subseteq NamesOf(s)
  <2>1. \A n : ~UnknownAttribute(n).ok
    BY DEF UnknownAttribute, Err
  <2> QED
    BY <1>1, <2>1, ProjectIs DEF Gives
<1>3. h = Picked(s, attrs) /\ ValidHeader(h)
  BY <1>1, <1>2, ProjectIs, HeaderOfOk DEF Gives
<1>4. h \in Seq(ToSet(s)) /\ \A a \in ToSet(h) : a \in ToSet(s)
  BY <1>1, <1>2, <1>3, PickedIs DEF Built
<1> QED
  BY <1>2, <1>3, <1>4, KnownFine, FineIsSafe

LEMMA RestrictSafe ==
  ASSUME NEW H, Closed(H), NEW s \in H, NEW e, NEW h, Gives(RestrictHeader(s, e), h)
  PROVE  h = s /\ VerifiedOn(e, s) /\ Safe(H, h)
<1>1. h = s /\ VerifiedOn(e, s)
  BY AdmitOk DEF Gives, RestrictHeader
<1> QED
  BY <1>1, KnownSafe

LEMMA RenameSafe ==
  ASSUME NEW H, Closed(H), NEW s \in H, NEW from \in Name, NEW to \in Name, NEW h,
         Gives(RenameHeader(s, from, to), h)
  PROVE  /\ Renames(s, from, to) /\ h = RenamedList(s, from, to)
         /\ Safe(H, h)
<1>1. Built(s)
  BY DEF Closed
<1>2. Renames(s, from, to)
  <2>1. ~UnknownAttribute(from).ok /\ ~AlreadyExists(to).ok
    BY DEF UnknownAttribute, AlreadyExists, Err
  <2> QED
    BY <2>1, RenameIs DEF Gives
<1>3. h = RenamedList(s, from, to)
  BY <1>2, RenameIs, HeaderOfOk DEF Gives
<1>4. Built(h) /\ \A a \in ToSet(h) : \E b \in ToSet(s) : a.ty = b.ty
  BY <1>1, <1>2, <1>3, RenamedListIs
<1>5. ASSUME NEW a \in ToSet(h) PROVE Fine(H, a)
  <2>1. PICK b \in ToSet(s) : a.ty = b.ty
    BY <1>4
  <2>2. Fine(H, b)
    BY KnownFine
  <2>3. a.name \in Name /\ a = Column(a.name, a.ty)
    BY <1>4 DEF Built, Listed
  <2> QED
    BY <2>1, <2>2, <2>3 DEF Fine
<1>6. h \in Seq(ToSet(h)) /\ ValidHeader(h)
  BY <1>4 DEF Built, Listed
<1> QED
  BY <1>2, <1>3, <1>5, <1>6, FineIsSafe

LEMMA ExtendSafe ==
  ASSUME NEW H, Closed(H), NEW s \in H, NEW n \in Name, NEW e \in Expr, NEW h,
         Gives(ExtendHeader(s, n, e), h)
  PROVE  /\ Extends(s, n, e) /\ h = ExtendedList(s, n, InferTy(e, s).val)
         /\ Safe(H, h)
<1> DEFINE t == InferTy(e, s).val
           c == Column(n, t)
<1>1. Built(s)
  BY DEF Closed
<1>2. Extends(s, n, e)
  BY ExtendIs DEF Gives
<1>3. h = ExtendedList(s, n, t) /\ ValidHeader(h)
  BY <1>2, ExtendIs, HeaderOfOk DEF Gives
<1>4. n \notin NamesOf(s) /\ InferTy(e, s).ok
  BY <1>2, NamesAre DEF Extends
<1>5. IsRelationTy(t) => Built(t.schema) /\ SubSchemas(t.schema) \subseteq H
  BY <1>4, InferredFine
<1> HIDE DEF t
<1>6. Fine(H, c)
  BY <1>5, ColumnFine
<1>7. h \in Seq(ToSet(s) \cup {c}) /\ ToSet(h) = ToSet(s) \cup {c}
  BY <1>1, <1>3, <1>4, ExtendedIs
<1> HIDE DEF c
<1>8. \A a \in ToSet(h) : Fine(H, a)
  BY <1>6, <1>7, KnownFine
<1>9. Safe(H, h)
  BY <1>3, <1>7, <1>8, FineIsSafe
<1> QED
  BY <1>2, <1>3, <1>9 DEF t

LEMMA SummarizeSafe ==
  ASSUME NEW H, Closed(H), NEW s \in H, NEW by \in GroupingSets, NEW aggs \in NamedAggSets, NEW h,
         Gives(SummarizeHeader(s, by, aggs), h)
  PROVE  /\ Summarizing(s, by, aggs) /\ h = SummaryList(s, by, aggs)
         /\ Safe(H, h)
<1>1. /\ Built(s) /\ by \in Seq(Name) /\ Distinct(by)
      /\ aggs \in Seq(ToSet(aggs)) /\ Len(aggs) > 0 /\ Distinct(Names(aggs))
      /\ \A i \in DOMAIN aggs : aggs[i].name \in Name
  BY KeysAre, AggsAre DEF Closed
<1>2. Summarizing(s, by, aggs)
  BY <1>1, SummarizeIs DEF Gives
<1>3. h = SummaryList(s, by, aggs) /\ ValidHeader(h)
  BY <1>1, <1>2, SummarizeIs, HeaderOfOk DEF Gives
<1>4. /\ h \in Seq(ToSet(s) \cup ToSet(Computed(s, aggs)))
      /\ \A a \in ToSet(h) : a \in ToSet(s) \/ a \in ToSet(Computed(s, aggs))
  <2>1. SummaryList(s, by, aggs) \in Seq(ToSet(s) \cup ToSet(Computed(s, aggs)))
    BY <1>1, <1>2, SummaryListIs
  <2>2. \A a \in ToSet(SummaryList(s, by, aggs)) : a \in ToSet(s) \/ a \in ToSet(Computed(s, aggs))
    BY <1>1, <1>2, SummaryListIs
  <2> QED
    BY <1>3, <2>1, <2>2
<1>5. ASSUME NEW a \in ToSet(Computed(s, aggs)) PROVE Fine(H, a)
  <2>1. PICK i \in DOMAIN aggs : a = Column(aggs[i].name, AggTy(aggs[i].agg, s).val)
    BY DEF Computed, ToSet
  <2>2. AggTy(aggs[i].agg, s).ok
    BY <1>2 DEF Summarizing
  <2>3. ~IsRelationTy(AggTy(aggs[i].agg, s).val)
    BY <1>1, <2>2, AggTySource DEF Built
  <2> QED
    BY <1>1, <2>1, <2>3, ColumnFine
<1>6. \A a \in ToSet(h) : Fine(H, a)
  BY <1>4, <1>5, KnownFine
<1> QED
  BY <1>2, <1>3, <1>4, <1>6, FineIsSafe

LEMMA ReachedIs ==
  ASSUME NEW H, Closed(H), NEW s \in H, NEW path, Reaches(s, path)
  PROVE  /\ path.steps[1].name \in NamesOf(s)
         /\ HeaderFn(s)[path.steps[1].name].schema \in H
         /\ Built(HeaderFn(s)[path.steps[1].name].schema)
<1> DEFINE n == path.steps[1].name
<1>1. ValidHeader(s) /\ n \in NamesOf(s) /\ IsRelationTy(HeaderFn(s)[n])
  BY DEF Closed, Built, Reaches
<1>2. PICK a \in ToSet(s) : HeaderFn(s)[n] = a.ty
  <2>1. Find(s, n) \in ToSet(s) /\ Find(s, n).ty = HeaderFn(s)[n]
    BY <1>1, NamesAre, FoundIs
  <2> QED
    BY <2>1
<1>3. a.ty.schema \in SubSchemas(s)
  BY <1>1, <1>2, SubSchemasAre
<1> QED
  BY <1>1, <1>2, <1>3 DEF Closed

LEMMA UnnestSafe ==
  ASSUME NEW H, Closed(H), NEW s \in H, NEW path, NEW h, Gives(UnnestHeader(s, path), h)
  PROVE  /\ Reaches(s, path) /\ h = UnnestedList(s, path.steps[1].name)
         /\ Safe(H, h)
<1> DEFINE n == path.steps[1].name
           sub == HeaderFn(s)[n].schema
<1>1. Built(s) /\ ValidHeader(s)
  BY DEF Closed, Built
<1>2. Reaches(s, path)
  BY <1>1, UnnestIs, NestedAtIs DEF Gives
<1>3. h = UnnestedList(s, n) /\ ValidHeader(h)
  BY <1>1, <1>2, UnnestIs, HeaderOfOk DEF Gives
<1>4. n \in NamesOf(s) /\ sub \in H /\ Built(sub)
  BY <1>2, ReachedIs
<1>5. h \in Seq(ToSet(s) \cup ToSet(sub)) /\ ToSet(h) = Others(s, n) \cup ToSet(sub)
  BY <1>1, <1>3, <1>4, UnnestedListIs
<1> HIDE DEF sub
<1>6. \A a \in ToSet(h) : Fine(H, a)
  BY <1>4, <1>5, KnownFine DEF Others
<1> QED
  BY <1>2, <1>3, <1>5, <1>6, FineIsSafe

LEMMA NestSafe ==
  ASSUME NEW H, Closed(H), NEW s \in H, NEW attrs \in AttributeSets, NEW into \in Name, NEW h,
         Gives(NestHeader(s, attrs, into), h)
  PROVE  /\ ToSet(attrs) \subseteq NamesOf(s) /\ into \notin NamesOf(s) \ ToSet(attrs)
         /\ h = NestedList(s, attrs, into)
         /\ Safe(H, h)
<1> DEFINE sub == Picked(s, attrs)
           c == Column(into, RelationTy(sub))
<1>1. /\ Built(s) /\ ValidHeader(s) /\ attrs \in Seq(Name)
      /\ Len(attrs) \in 1..MaxSchemaAttributes /\ Distinct(attrs)
  BY AttributesAre DEF Closed, Built
<1>2. ToSet(attrs) \subseteq NamesOf(s) /\ into \notin NamesOf(s) \ ToSet(attrs)
  <2>1. \A n : ~UnknownAttribute(n).ok /\ ~AlreadyExists(n).ok
    BY DEF UnknownAttribute, AlreadyExists, Err
  <2> QED
    BY <1>1, <2>1, NestIs DEF Gives
<1>3. h = NestedList(s, attrs, into) /\ ValidHeader(h)
  BY <1>1, <1>2, NestIs, HeaderOfOk DEF Gives
<1>4. Built(sub) /\ \A a \in ToSet(sub) : a \in ToSet(s)
  BY <1>1, <1>2, PickedBuilt
<1>5. /\ h \in Seq(ToSet(s) \cup {c})
      /\ \A a \in ToSet(h) : a \in ToSet(s) \/ a = c
  BY <1>1, <1>2, <1>3, NestedListIs
<1> HIDE DEF sub
<1>6. SubSchemas(sub) \subseteq H
  <2>1. SubSchemas(sub) \subseteq SubSchemas(s)
    BY <1>4, SubSchemasAre
  <2> QED
    BY <2>1 DEF Closed
<1>7. Fine(H, c)
  <2>1. RelationTy(sub).schema = sub
    BY DEF RelationTy
  <2> QED
    BY <1>4, <1>6, <2>1, ColumnFine
<1> HIDE DEF c
<1>8. \A a \in ToSet(h) : Fine(H, a)
  BY <1>5, <1>7, KnownFine
<1> QED
  BY <1>2, <1>3, <1>5, <1>8, FineIsSafe

LEMMA ModifySafe ==
  ASSUME NEW H, Closed(H), NEW l \in H, NEW r \in H, NEW path, NEW h,
         Gives(ModifyHeader(l, path, r), h)
  PROVE  /\ Reaches(l, path) /\ h = ModifiedList(l, path.steps[1].name, r)
         /\ Safe(H, h)
<1> DEFINE n == path.steps[1].name
<1>1. Built(l) /\ ValidHeader(l)
  BY DEF Closed, Built
<1>2. Reaches(l, path)
  BY <1>1, ModifyIs, NestedAtIs DEF Gives
<1>3. h = ModifiedList(l, n, r) /\ ValidHeader(h)
  BY <1>1, <1>2, ModifyIs, HeaderOfOk DEF Gives
<1>4. Built(h) /\ \A a \in ToSet(h) : a \in ToSet(l) \/ a.ty = RelationTy(r)
  BY <1>1, <1>2, <1>3, ModifiedListIs DEF Reaches
<1>5. ASSUME NEW a \in ToSet(h) PROVE Fine(H, a)
  <2>1. CASE a \in ToSet(l)
    BY <2>1, KnownFine
  <2>2. CASE a.ty = RelationTy(r)
    <3>1. a.name \in Name /\ a = Column(a.name, a.ty)
      BY <1>4 DEF Built, Listed
    <3>2. Built(r) /\ SubSchemas(r) \subseteq H
      BY DEF Closed
    <3> QED
      BY <2>2, <3>1, <3>2 DEF Fine, RelationTy
  <2> QED
    BY <1>4, <2>1, <2>2
<1>6. h \in Seq(ToSet(h))
  BY <1>4 DEF Built, Listed
<1> QED
  BY <1>2, <1>3, <1>5, <1>6, FineIsSafe

LEMMA ConcatSafe ==
  ASSUME NEW H, Closed(H), NEW l \in H, NEW r \in H, NEW h, Gives(ConcatDisjoint(l, r), h)
  PROVE  Shared(l, r) = {} /\ h = l \o r /\ Safe(H, h)
<1>1. Built(l) /\ Built(r)
  BY DEF Closed
<1>2. Shared(l, r) = {} /\ h = l \o r /\ ValidHeader(h)
  BY ConcatDisjointIs, ConcatOk DEF Gives
<1>3. h \in Seq(ToSet(l) \cup ToSet(r)) /\ ToSet(h) = ToSet(l) \cup ToSet(r)
  BY <1>1, <1>2, DisjointListIs
<1>4. \A a \in ToSet(h) : Fine(H, a)
  BY <1>3, KnownFine
<1> QED
  BY <1>2, <1>3, <1>4, FineIsSafe

LEMMA JoinSafe ==
  ASSUME NEW H, Closed(H), NEW l \in H, NEW r \in H, NEW kind, NEW on, KnownOn(on), NEW h,
         ~BecomesProduct(l, r, kind, on), Gives(JoinHeader(l, r, kind, on), h)
  PROVE  /\ on.k = "Natural" => Agreeing(l, r) /\ h = JoinedList(l, r)
         /\ on.k # "Natural" => Shared(l, r) = {} /\ h = l \o r
         /\ Safe(H, h)
<1>1. Built(l) /\ Built(r) /\ Listed(l)
  BY DEF Closed, Built
<1>2. CASE on.k = "Natural"
  <2>1. Gives(NaturalHeader(l, r, kind, on), h)
    BY <1>2 DEF JoinHeader
  <2>2. Agreeing(l, r) /\ h = JoinedList(l, r) /\ ValidHeader(h)
    <3>1. NaturalHeader(l, r, kind, on).ok /\ NaturalHeader(l, r, kind, on).val = h
      BY <2>1 DEF Gives
    <3>2. Agreeing(l, r) /\ NaturalHeader(l, r, kind, on) = HeaderOf(JoinedList(l, r))
      BY <1>1, <3>1, NaturalIs
    <3> QED
      BY <3>1, <3>2, HeaderOfOk
  <2>3. /\ h \in Seq(ToSet(l) \cup ToSet(r))
        /\ \A a \in ToSet(h) : a \in ToSet(l) \/ a \in ToSet(r)
    BY <1>1, <2>2, JoinedListIs
  <2>4. \A a \in ToSet(h) : Fine(H, a)
    BY <2>3, KnownFine
  <2> QED
    BY <1>2, <2>2, <2>3, <2>4, FineIsSafe
<1>3. CASE on.k = "Equi" /\ on.pairs \in EquiPairSets
  <2>1. Gives(EquiHeader(l, r, on.pairs), h)
    BY <1>3 DEF JoinHeader
  <2>2. on.pairs \in Seq(ToSet(on.pairs))
    BY <1>3, PairsAre
  <2>3. \/ EquiHeader(l, r, on.pairs) = ConcatDisjoint(l, r)
        \/ ~EquiHeader(l, r, on.pairs).ok
    BY <2>2, EquiIs
  <2>4. EquiHeader(l, r, on.pairs) = ConcatDisjoint(l, r)
    BY <2>1, <2>3 DEF Gives
  <2>5. Gives(ConcatDisjoint(l, r), h)
    BY <2>1, <2>4
  <2> QED
    BY <1>3, <2>5, ConcatSafe
<1>4. CASE on.k = "Theta"
  <2>1. Gives(ThetaHeader(l, r, on.predicate), h)
    BY <1>4 DEF JoinHeader
  <2>2. ConcatDisjoint(l, r).ok
    BY <2>1 DEF Gives, ThetaHeader, Then
  <2>3. Gives(ConcatDisjoint(l, r), h)
    <3>1. ThetaHeader(l, r, on.predicate).ok /\ h = ThetaHeader(l, r, on.predicate).val
      BY <2>1 DEF Gives
    <3>2. ThetaHeader(l, r, on.predicate).val = l \o r
      BY <3>1, ThetaOk
    <3>3. ConcatDisjoint(l, r).val = l \o r
      BY <2>2, ConcatOk
    <3> QED
      BY <2>2, <3>1, <3>2, <3>3 DEF Gives
  <2> QED
    BY <1>4, <2>3, ConcatSafe
<1> QED
  BY <1>2, <1>3, <1>4 DEF KnownOn

-----------------------------------------------------------------------------

LEMMA MadeSafe ==
  ASSUME TypeOK, Closed(schemas), NEW kind, NEW inputs, NEW arg, NEW h,
         MadeFrom(ops, kind, inputs, arg, h)
  PROVE  Safe(schemas, h)
<1>1. \A i \in DOMAIN ops : ops[i].schema \in schemas
  BY DEF TypeOK
<1>2. CASE kind = "Source" /\ h \in ClientSchemas
  BY <1>2, KnownSafe DEF Closed
<1>3. ASSUME NEW i \in DOMAIN ops, MadeOne(kind, arg, ops[i].schema, h)
      PROVE  Safe(schemas, h)
  <2> DEFINE s == ops[i].schema
  <2>0. s \in schemas /\ MadeOne(kind, arg, s, h)
    BY <1>1, <1>3
  <2> HIDE DEF s
  <2>1. CASE arg.attrs \in AttributeSets /\ Gives(ProjectHeader(s, arg.attrs), h)
    BY <2>0, <2>1, ProjectSafe
  <2>2. CASE Gives(RestrictHeader(s, arg.predicate), h)
    BY <2>0, <2>2, RestrictSafe
  <2>3. CASE arg.from \in Name /\ arg.to \in Name /\ Gives(RenameHeader(s, arg.from, arg.to), h)
    BY <2>0, <2>3, RenameSafe
  <2>4. CASE arg.name \in Name /\ arg.expr \in Expr /\ Gives(ExtendHeader(s, arg.name, arg.expr), h)
    BY <2>0, <2>4, ExtendSafe
  <2>5. CASE /\ arg.by \in GroupingSets /\ arg.aggs \in NamedAggSets
             /\ Gives(SummarizeHeader(s, arg.by, arg.aggs), h)
    BY <2>0, <2>5, SummarizeSafe
  <2>6. CASE h = s
    BY <2>0, <2>6, KnownSafe
  <2>7. CASE Gives(UnnestHeader(s, arg.path), h)
    BY <2>0, <2>7, UnnestSafe
  <2>8. CASE arg.attrs \in AttributeSets /\ arg.into \in Name /\ Gives(NestHeader(s, arg.attrs, arg.into), h)
    BY <2>0, <2>8, NestSafe
  <2> QED
    BY <2>0, <2>1, <2>2, <2>3, <2>4, <2>5, <2>6, <2>7, <2>8 DEF MadeOne
<1>4. ASSUME NEW i \in DOMAIN ops, NEW j \in DOMAIN ops,
             MadeTwo(kind, arg, ops[i].schema, ops[j].schema, h)
      PROVE  Safe(schemas, h)
  <2> DEFINE l == ops[i].schema
             r == ops[j].schema
  <2>0. l \in schemas /\ r \in schemas /\ MadeTwo(kind, arg, l, r, h)
    BY <1>1, <1>4
  <2> HIDE DEF l, r
  <2>1. CASE Gives(ModifyHeader(l, arg.path, r), h)
    BY <2>0, <2>1, ModifySafe
  <2>2. CASE Gives(SetOpHeader(l, r), h)
    BY <2>0, <2>2, KnownSafe DEF Gives, SetOpHeader, Ok, Err
  <2>3. CASE Gives(ConcatDisjoint(l, r), h)
    BY <2>0, <2>3, ConcatSafe
  <2>4. CASE /\ KnownOn(arg.on) /\ ~BecomesProduct(l, r, arg.kind, arg.on)
             /\ Gives(JoinHeader(l, r, arg.kind, arg.on), h)
    BY <2>0, <2>4, JoinSafe
  <2> QED
    BY <2>0, <2>1, <2>2, <2>3, <2>4 DEF MadeTwo
<1> QED
  BY <1>2, <1>3, <1>4 DEF MadeFrom

LEMMA ClosedStep ==
  TypeOK /\ Closed(schemas) /\ Grows => Closed(schemas')
<1> SUFFICES ASSUME TypeOK, Closed(schemas), Grows PROVE Closed(schemas')
  OBVIOUS
<1>1. CASE UNCHANGED <<ops, schemas>>
  BY <1>1
<1>2. ASSUME NEW kind, NEW inputs, NEW arg, NEW h, Adds(kind, inputs, arg, h)
      PROVE  Closed(schemas')
  <2>1. schemas' = schemas \cup {h} \cup SubSchemas(h) /\ Safe(schemas, h)
    BY <1>2, MadeSafe DEF Adds
  <2>2. ClientSchemas \subseteq schemas'
    BY <2>1 DEF Closed
  <2>3. ASSUME NEW s \in schemas' PROVE Built(s) /\ SubSchemas(s) \subseteq schemas'
    <3>1. CASE s \in schemas
      BY <2>1, <3>1 DEF Closed
    <3>2. CASE s = h
      BY <2>1, <3>2 DEF Safe
    <3>3. CASE s \in SubSchemas(h)
      BY <2>1, <3>3 DEF Safe
    <3> QED
      BY <2>1, <3>1, <3>2, <3>3
  <2> QED
    BY <2>2, <2>3 DEF Closed
<1> QED
  BY <1>1, <1>2 DEF Grows

IInv == TypeOK /\ Closed(schemas) /\ Recomputed

LEMMA InitIInv == Init => IInv
<1> SUFFICES ASSUME Init PROVE IInv
  OBVIOUS
<1>1. TypeOK
  BY BuilderAssumption DEF Init, TypeOK
<1>2. Closed(schemas)
  BY ClientsAre DEF Init, Closed
<1>3. Recomputed
  BY DEF Init, Recomputed
<1> QED
  BY <1>1, <1>2, <1>3 DEF IInv

LEMMA NextIInv == IInv /\ TypeOK' /\ [Next]_vars => IInv'
<1> SUFFICES ASSUME IInv, TypeOK', [Next]_vars PROVE IInv'
  OBVIOUS
<1>1. Grows
  <2>1. CASE Next
    BY <2>1, StepAdds DEF IInv
  <2>2. CASE UNCHANGED vars
    BY <2>2 DEF vars, Grows
  <2> QED
    BY <2>1, <2>2
<1> QED
  BY <1>1, RecomputedStep, ClosedStep DEF IInv

(***************************************************************************)
(* The builder keeps its shape, every Schema it holds is valid at any      *)
(* depth, and a node caches the header its constructor computes from its   *)
(* argument and the headers of its operands (op.rs:349-983).               *)
(***************************************************************************)
THEOREM Invariance == Spec => []IInv
  BY InitIInv, NextIInv, TypeCorrect, PTL DEF Spec

(***************************************************************************)
(* Every Schema value the program holds is within the limit and repeats no *)
(* name, and so does each header nested in it, at any depth                *)
(* (schema.rs:95-113; modify and nest, op.rs:542-609 and 674-729, put      *)
(* headers inside types, where nothing checks them again).                 *)
(***************************************************************************)
THEOREM SchemasAlwaysWellFormed == Spec => []SchemasWellFormed
<1>1. IInv => SchemasWellFormed
  BY DEF IInv, SchemasWellFormed, Closed, Built
<1> QED
  BY <1>1, Invariance, PTL

-----------------------------------------------------------------------------

(***************************************************************************)
(* The operand of a node that has one, and the two of a node that has two. *)
(***************************************************************************)
LEMMA OneOf ==
  ASSUME IInv, NEW i \in DOMAIN ops, ops[i].kind \in UnaryKinds
  PROVE  /\ MadeOne(ops[i].kind, ops[i].arg, Input(i, 1), Schema(i))
         /\ Input(i, 1) \in schemas /\ Schema(i) \in schemas
         /\ \E p \in DOMAIN ops : ops[i].inputs = <<p>> /\ Input(i, 1) = Schema(p)
<1>1. MadeFrom(ops, ops[i].kind, ops[i].inputs, ops[i].arg, ops[i].schema)
  BY DEF IInv, Recomputed
<1>2. ops[i].kind # "Source" /\ \A l, r : ~MadeTwo(ops[i].kind, ops[i].arg, l, r, ops[i].schema)
  BY DEF MadeTwo, UnaryKinds
<1>3. PICK p \in DOMAIN ops :
        ops[i].inputs = <<p>> /\ MadeOne(ops[i].kind, ops[i].arg, ops[p].schema, ops[i].schema)
  BY <1>1, <1>2 DEF MadeFrom
<1>4. Input(i, 1) = ops[p].schema /\ Schema(i) = ops[i].schema /\ Schema(p) = ops[p].schema
  BY <1>3 DEF Input, Schema
<1>5. ops[p].schema \in schemas /\ ops[i].schema \in schemas
  BY DEF IInv, TypeOK
<1> QED
  BY <1>3, <1>4, <1>5

LEMMA TwoOf ==
  ASSUME IInv, NEW i \in DOMAIN ops, ops[i].kind \in BinaryKinds
  PROVE  /\ MadeTwo(ops[i].kind, ops[i].arg, Input(i, 1), Input(i, 2), Schema(i))
         /\ Input(i, 1) \in schemas /\ Input(i, 2) \in schemas /\ Schema(i) \in schemas
         /\ \E p, q \in DOMAIN ops : /\ ops[i].inputs = <<p, q>>
                                     /\ Input(i, 1) = Schema(p)
                                     /\ Input(i, 2) = Schema(q)
<1>1. MadeFrom(ops, ops[i].kind, ops[i].inputs, ops[i].arg, ops[i].schema)
  BY DEF IInv, Recomputed
<1>2. ops[i].kind # "Source" /\ \A l : ~MadeOne(ops[i].kind, ops[i].arg, l, ops[i].schema)
  BY DEF MadeOne, BinaryKinds
<1>3. PICK p \in DOMAIN ops, q \in DOMAIN ops :
        /\ ops[i].inputs = <<p, q>>
        /\ MadeTwo(ops[i].kind, ops[i].arg, ops[p].schema, ops[q].schema, ops[i].schema)
  BY <1>1, <1>2 DEF MadeFrom
<1>4. /\ Input(i, 1) = ops[p].schema /\ Input(i, 2) = ops[q].schema /\ Schema(i) = ops[i].schema
      /\ Schema(p) = ops[p].schema /\ Schema(q) = ops[q].schema
  BY <1>3 DEF Input, Schema
<1>5. ops[p].schema \in schemas /\ ops[q].schema \in schemas /\ ops[i].schema \in schemas
  BY DEF IInv, TypeOK
<1> QED
  BY <1>3, <1>4, <1>5

(***************************************************************************)
(* A restriction only reads attributes its input has: a predicate that was *)
(* admitted on a header is closed on it (op.rs:390-431, infer.rs:82-137,   *)
(* canonical.rs:86-122).                                                   *)
(***************************************************************************)
THEOREM PredicatesAlwaysClosed == Spec => []PredicatesClosed
<1>1. IInv => PredicatesClosed
  <2> SUFFICES ASSUME IInv, NEW i \in OfKind("Restrict")
               PROVE  FreeAttributes(ops[i].arg.predicate) \subseteq NamesOf(Input(i, 1))
    BY DEF PredicatesClosed
  <2>1. i \in DOMAIN ops /\ ops[i].kind = "Restrict"
    BY DEF OfKind
  <2>2. MadeOne("Restrict", ops[i].arg, Input(i, 1), Schema(i))
    BY <2>1, OneOf DEF UnaryKinds
  <2>3. ops[i].arg.predicate \in Expr /\ Gives(RestrictHeader(Input(i, 1), ops[i].arg.predicate), Schema(i))
    BY <2>2 DEF MadeOne
  <2>4. VerifiedOn(ops[i].arg.predicate, Input(i, 1))
    BY <2>3, AdmitOk DEF Gives, RestrictHeader
  <2>5. InferTy(ops[i].arg.predicate, Input(i, 1)).ok /\ ~ContainsAggregate(ops[i].arg.predicate)
    BY <2>4 DEF VerifiedOn, BoolOn
  <2> QED
    BY <2>3, <2>5, AcceptedCloses
<1> QED
  BY <1>1, Invariance, PTL

-----------------------------------------------------------------------------

(***************************************************************************)
(* A type that was inferred comes in an Ok.                                *)
(***************************************************************************)
LEMMA AggShape ==
  ASSUME NEW agg, NEW s, AggTy(agg, s).ok
  PROVE  AggTy(agg, s) = Ok(AggTy(agg, s).val)
<1> DEFINE n == CHOOSE m \in agg.over : TRUE
           found == Lookup(s, n)
<1>1. CASE agg.f = "Count"
  BY <1>1 DEF AggTy, Ok
<1>2. CASE agg.f # "Count"
  <2>1. found.ok /\ AggTy(agg, s) = AggTyOf(agg.f, found.val)
    BY <1>2 DEF AggTy
  <2> HIDE DEF found
  <2>2. ASSUME NEW t, AggTyOf(agg.f, t).ok PROVE AggTyOf(agg.f, t) = Ok(AggTyOf(agg.f, t).val)
    BY <2>2 DEF AggTyOf, NotApplicable, Ok, Err
  <2> QED
    BY <2>1, <2>2
<1> QED
  BY <1>1, <1>2

LEMMA BinOpShape ==
  ASSUME NEW op, NEW lt, NEW rt, InferBinOp(op, lt, rt).ok
  PROVE  InferBinOp(op, lt, rt) = Ok(InferBinOp(op, lt, rt).val)
BY DEF InferBinOp, Demand, TypeMismatch, NotApplicable, Ok, Err

LEMMA InListShape ==
  ASSUME NEW t, NEW values, InferInList(t, values).ok
  PROVE  InferInList(t, values) = Ok(InferInList(t, values).val)
BY DEF InferInList, Ok, Err

LEMMA OverShape ==
  ASSUME NEW e \in Expr, e.k \in {"UnOp", "Like", "InList", "IsNull", "Cast"},
         NEW t, InferOver(e, t).ok
  PROVE  InferOver(e, t) = Ok(InferOver(e, t).val)
<1>1. CASE e.k = "UnOp"
  <2>1. e.op \in {"Neg", "Not"}
    BY <1>1, ExprAssumption DEF KnownVariant
  <2> QED
    BY <1>1, <2>1 DEF InferOver, InferUnOp, Demand, TypeMismatch, NotApplicable, Ok, Err
<1>2. CASE e.k = "InList"
  BY <1>2, InListShape DEF InferOver
<1>3. CASE e.k \in {"Like", "IsNull", "Cast"}
  BY <1>3 DEF InferOver, TypeMismatch, Ok, Err
<1> QED
  BY <1>1, <1>2, <1>3

LEMMA InferShape ==
  ASSUME NEW s, NEW e \in Expr, InferTy(e, s).ok
  PROVE  InferTy(e, s) = Ok(InferTy(e, s).val)
<1>1. CASE e.k = "Attr"
  BY <1>1, InferTyIs DEF Lookup, UnknownAttribute, Ok, Err
<1>2. CASE e.k = "Lit"
  BY <1>2, InferTyIs DEF InferValue, Ok, Err
<1>3. CASE e.k = "Agg"
  BY <1>3, InferTyIs, AggShape
<1>4. CASE e.k = "BinOp"
  <2> DEFINE left == InferTy(e.lhs, s)
             right == InferTy(e.rhs, s)
  <2>1. InferTy(e, s) = OfTwo(e.op, left, right)
    BY <1>4, InferTyIs
  <2> HIDE DEF left, right
  <2>2. OfTwo(e.op, left, right) = InferBinOp(e.op, left.val, right.val)
    BY <2>1 DEF OfTwo
  <2> QED
    BY <2>1, <2>2, BinOpShape
<1>5. CASE e.k \in {"UnOp", "Like", "InList", "IsNull", "Cast"}
  <2> DEFINE operand == InferTy(e.operand, s)
  <2>1. InferTy(e, s) = OfOne(e, operand)
    BY <1>5, InferTyIs
  <2> HIDE DEF operand
  <2>2. OfOne(e, operand) = InferOver(e, operand.val)
    BY <2>1 DEF OfOne
  <2> QED
    BY <1>5, <2>1, <2>2, OverShape
<1> QED
  BY <1>1, <1>2, <1>3, <1>4, <1>5, ExprAssumption DEF KnownVariant

-----------------------------------------------------------------------------

(***************************************************************************)
(* The header each constructor makes follows the algebra.                  *)
(***************************************************************************)
LEMMA ProjectFollows ==
  ASSUME NEW H, Closed(H), NEW s \in H, NEW attrs \in AttributeSets, NEW h,
         Gives(ProjectHeader(s, attrs), h)
  PROVE  HeaderFn(h) \in Projected(HeaderFn(s), ToSet(attrs))
<1>1. ToSet(attrs) \subseteq NamesOf(s) /\ h = Picked(s, attrs) /\ ValidHeader(s)
  BY ProjectSafe DEF Closed, Built
<1>2. HeaderFn(h) = Restrict(HeaderFn(s), ToSet(attrs))
  BY <1>1, AttributesAre, PickedValid
<1>3. DOMAIN HeaderFn(s) = NamesOf(s)
  BY DEF HeaderFn
<1> QED
  BY <1>1, <1>2, <1>3 DEF Projected, When

LEMMA RenameFollows ==
  ASSUME NEW H, Closed(H), NEW s \in H, NEW from \in Name, NEW to \in Name, NEW h,
         Gives(RenameHeader(s, from, to), h)
  PROVE  HeaderFn(h) \in Renamed(HeaderFn(s), from, to)
<1>1. Built(s) /\ Renames(s, from, to) /\ h = RenamedList(s, from, to)
  BY RenameSafe DEF Closed
<1> QED
  BY <1>1, RenamedListIs

LEMMA ExtendFollows ==
  ASSUME NEW H, Closed(H), NEW s \in H, NEW n \in Name, NEW e \in Expr, NEW h,
         Gives(ExtendHeader(s, n, e), h)
  PROVE  /\ n \in DOMAIN HeaderFn(h)
         /\ HeaderFn(h) \in Extended(HeaderFn(s), n, HeaderFn(h)[n])
         /\ InferTy(e, s) = Ok(HeaderFn(h)[n])
<1> DEFINE t == InferTy(e, s).val
           f == HeaderFn(s)
           g == HeaderFn(h)
<1>1. Built(s) /\ Extends(s, n, e) /\ h = ExtendedList(s, n, t) /\ ValidHeader(h)
  BY ExtendSafe DEF Closed, Safe, Built
<1>2. n \notin NamesOf(s) /\ InferTy(e, s) = Ok(t)
  BY <1>1, NamesAre, InferShape DEF Extends
<1> HIDE DEF t
<1>3. g = Plus(f, n, t) /\ Fits(Plus(f, n, t))
  BY <1>1, <1>2, ExtendedIs
<1>4. n \notin DOMAIN f
  BY <1>2 DEF HeaderFn
<1> HIDE DEF f, g
<1>5. n \in DOMAIN g /\ g[n] = t
  BY <1>3 DEF Plus
<1>6. g \in Extended(f, n, t)
  BY <1>3, <1>4 DEF Extended
<1> QED
  BY <1>2, <1>5, <1>6 DEF f, g

LEMMA SummarizeFollows ==
  ASSUME NEW H, Closed(H), NEW s \in H, NEW by \in GroupingSets, NEW aggs \in NamedAggSets, NEW h,
         Gives(SummarizeHeader(s, by, aggs), h)
  PROVE  /\ Summarizes(HeaderFn(s), ToSet(by), HeaderFn(h))
         /\ DOMAIN HeaderFn(h) = ToSet(by) \cup NamesOf(aggs)
         /\ \A k \in DOMAIN aggs : AggTy(aggs[k].agg, s) = Ok(HeaderFn(h)[aggs[k].name])
<1>1. Built(s) /\ Summarizing(s, by, aggs) /\ h = SummaryList(s, by, aggs) /\ ValidHeader(h)
  BY SummarizeSafe, ZenonT(60) DEF Closed, Safe, Built
<1>2. /\ by \in Seq(Name) /\ Distinct(by)
      /\ aggs \in Seq(ToSet(aggs)) /\ Len(aggs) > 0 /\ Distinct(Names(aggs))
  BY KeysAre, AggsAre
<1>3. SummaryFn(s, by, aggs, HeaderFn(h))
  <2>1. ValidHeader(SummaryList(s, by, aggs))
    BY <1>1
  <2>2. SummaryFn(s, by, aggs, HeaderFn(SummaryList(s, by, aggs)))
    BY <1>1, <1>2, <2>1, SummaryListIs
  <2> QED
    BY <1>1, <2>2
<1>4. \A k \in DOMAIN aggs : AggTy(aggs[k].agg, s) = Ok(AggTy(aggs[k].agg, s).val)
  BY <1>1, AggShape DEF Summarizing
<1> QED
  BY <1>3, <1>4 DEF SummaryFn

LEMMA UnnestFollows ==
  ASSUME NEW H, Closed(H), NEW s \in H, NEW path, NEW h, Gives(UnnestHeader(s, path), h)
  PROVE  HeaderFn(h) \in Unnested(HeaderFn(s), path.steps[1].name)
<1> DEFINE n == path.steps[1].name
           sub == HeaderFn(s)[n].schema
<1>1. Built(s) /\ Reaches(s, path) /\ h = UnnestedList(s, n) /\ ValidHeader(h)
  BY UnnestSafe DEF Closed, Safe, Built
<1>2. n \in NamesOf(s) /\ Built(sub)
  BY <1>1, ReachedIs
<1>3. n \in DOMAIN HeaderFn(s) /\ IsRelationTy(HeaderFn(s)[n])
  BY <1>1, <1>2 DEF Reaches, HeaderFn
<1>4. HeaderFn(h) \in Concatenated(Without(HeaderFn(s), {n}), HeaderFn(sub))
  BY <1>1, <1>2, UnnestedListIs
<1> QED
  BY <1>3, <1>4 DEF Unnested

LEMMA NestFollows ==
  ASSUME NEW H, Closed(H), NEW s \in H, NEW attrs \in AttributeSets, NEW into \in Name, NEW h,
         Gives(NestHeader(s, attrs, into), h)
  PROVE  HeaderFn(h) \in Nested(HeaderFn(s), ToSet(attrs), into)
<1> DEFINE sub == Picked(s, attrs)
           f == HeaderFn(s)
           names == ToSet(attrs)
<1>1. /\ Built(s) /\ ValidHeader(s)
      /\ names \subseteq NamesOf(s) /\ into \notin NamesOf(s) \ names
      /\ h = NestedList(s, attrs, into)
  BY NestSafe DEF Closed, Built
<1>2. HeaderFn(h) = Plus(Without(f, names), into, RelationTy(sub))
  BY <1>1, AttributesAre, NestedListIs
<1>3. Built(sub) /\ HeaderFn(sub) = Restrict(f, names)
  BY <1>1, AttributesAre, PickedBuilt, PickedValid
<1>4. sub \in Orders(Restrict(f, names))
  <2> HIDE DEF sub, f, names
  <2> QED
    BY <1>3, OrdersOf
<1>5. DOMAIN f = NamesOf(s)
  BY DEF HeaderFn
<1> HIDE DEF sub, f, names
<1> QED
  BY <1>1, <1>2, <1>4, <1>5 DEF Nested, f, names

LEMMA ModifyFollows ==
  ASSUME NEW H, Closed(H), NEW l \in H, NEW r \in H, NEW path, NEW h,
         Gives(ModifyHeader(l, path, r), h)
  PROVE  HeaderFn(h) \in Refocused(HeaderFn(l), path.steps[1].name, r)
<1> DEFINE n == path.steps[1].name
<1>1. Built(l) /\ Reaches(l, path) /\ h = ModifiedList(l, n, r)
  BY ModifySafe DEF Closed
<1>2. n \in NamesOf(l) /\ IsRelationTy(HeaderFn(l)[n])
  BY <1>1 DEF Reaches
<1>3. HeaderFn(h) = [HeaderFn(l) EXCEPT ![n] = RelationTy(r)]
  BY <1>1, <1>2, ModifiedListIs
<1>4. DOMAIN HeaderFn(l) = NamesOf(l)
  BY DEF HeaderFn
<1> QED
  BY <1>2, <1>3, <1>4 DEF Refocused, When

LEMMA ConcatFollows ==
  ASSUME NEW H, Closed(H), NEW l \in H, NEW r \in H, Shared(l, r) = {}, Safe(H, l \o r)
  PROVE  HeaderFn(l \o r) \in Concatenated(HeaderFn(l), HeaderFn(r))
<1>1. Built(l) /\ Built(r) /\ ValidHeader(l \o r)
  BY DEF Closed, Safe, Built
<1>2. /\ HeaderFn(l \o r) = Merge(HeaderFn(l), HeaderFn(r))
      /\ Fits(Merge(HeaderFn(l), HeaderFn(r)))
  BY <1>1, DisjointListIs
<1>3. DOMAIN HeaderFn(l) \cap DOMAIN HeaderFn(r) = {}
  BY DEF HeaderFn, Shared
<1> QED
  BY <1>2, <1>3 DEF Concatenated, Disjoint

LEMMA NaturalFollows ==
  ASSUME NEW H, Closed(H), NEW l \in H, NEW r \in H, Agreeing(l, r), Safe(H, JoinedList(l, r))
  PROVE  HeaderFn(JoinedList(l, r)) \in Coalesced(HeaderFn(l), HeaderFn(r))
<1>1. Built(l) /\ Built(r) /\ ValidHeader(JoinedList(l, r))
  BY DEF Closed, Safe, Built
<1>2. /\ HeaderFn(JoinedList(l, r)) = Merge(HeaderFn(l), HeaderFn(r))
      /\ Fits(Merge(HeaderFn(l), HeaderFn(r)))
  BY <1>1, JoinedListIs
<1>3. \A n \in DOMAIN HeaderFn(l) \cap DOMAIN HeaderFn(r) : HeaderFn(l)[n] = HeaderFn(r)[n]
  BY <1>1, AgreeingIs
<1> QED
  BY <1>2, <1>3 DEF Coalesced

-----------------------------------------------------------------------------

(***************************************************************************)
(* Each node caches the header its arguments and its operands' headers     *)
(* give it.                                                                *)
(***************************************************************************)
LEMMA OneCoherent ==
  ASSUME IInv, NEW i \in DOMAIN ops, ops[i].kind \in UnaryKinds
  PROVE  Coherent(i)
<1> DEFINE kind == ops[i].kind
           arg == ops[i].arg
           s == Input(i, 1)
           h == Schema(i)
<1>1. Closed(schemas) /\ s \in schemas /\ MadeOne(kind, arg, s, h)
  BY OneOf DEF IInv
<1>2. InputFn(i, 1) = HeaderFn(s) /\ Header(i) = HeaderFn(h)
  BY DEF InputFn, Header
<1>3. CASE kind = "Project"
  <2>1. arg.attrs \in AttributeSets /\ Gives(ProjectHeader(s, arg.attrs), h)
    BY <1>1, <1>3 DEF MadeOne
  <2>2. HeaderFn(h) \in Projected(HeaderFn(s), ToSet(arg.attrs))
    BY <1>1, <2>1, ProjectFollows
  <2> QED
    BY <1>2, <1>3, <2>2 DEF Coherent
<1>4. CASE kind = "Restrict"
  <2>1. h = s
    BY <1>1, <1>4, RestrictSafe DEF MadeOne
  <2> QED
    BY <1>4, <2>1 DEF Coherent
<1>5. CASE kind = "Rename"
  <2>1. arg.from \in Name /\ arg.to \in Name /\ Gives(RenameHeader(s, arg.from, arg.to), h)
    BY <1>1, <1>5 DEF MadeOne
  <2>2. HeaderFn(h) \in Renamed(HeaderFn(s), arg.from, arg.to)
    BY <1>1, <2>1, RenameFollows
  <2> QED
    BY <1>2, <1>5, <2>2 DEF Coherent
<1>6. CASE kind = "Extend"
  <2>1. arg.name \in Name /\ arg.expr \in Expr /\ Gives(ExtendHeader(s, arg.name, arg.expr), h)
    BY <1>1, <1>6 DEF MadeOne
  <2>2. /\ arg.name \in DOMAIN HeaderFn(h)
        /\ HeaderFn(h) \in Extended(HeaderFn(s), arg.name, HeaderFn(h)[arg.name])
        /\ InferTy(arg.expr, s) = Ok(HeaderFn(h)[arg.name])
    BY <1>1, <2>1, ExtendFollows
  <2> QED
    BY <1>2, <1>6, <2>2 DEF Coherent
<1>7. CASE kind = "Summarize"
  <2>1. /\ arg.by \in GroupingSets /\ arg.aggs \in NamedAggSets
        /\ Gives(SummarizeHeader(s, arg.by, arg.aggs), h)
    BY <1>1, <1>7 DEF MadeOne
  <2>2. /\ Summarizes(HeaderFn(s), ToSet(arg.by), HeaderFn(h))
        /\ DOMAIN HeaderFn(h) = ToSet(arg.by) \cup NamesOf(arg.aggs)
        /\ \A k \in DOMAIN arg.aggs : AggTy(arg.aggs[k].agg, s) = Ok(HeaderFn(h)[arg.aggs[k].name])
    BY <1>1, <2>1, SummarizeFollows
  <2>3. SummaryOf(i)
    BY <1>2, <2>2 DEF SummaryOf
  <2> QED
    BY <1>7, <2>3 DEF Coherent
<1>8. CASE kind \in {"Order", "Limit"}
  BY <1>1, <1>8 DEF MadeOne, Coherent
<1>9. CASE kind = "Unnest"
  <2>1. HeaderFn(h) \in Unnested(HeaderFn(s), arg.path.steps[1].name)
    BY <1>1, <1>9, UnnestFollows DEF MadeOne
  <2> QED
    BY <1>2, <1>9, <2>1 DEF Coherent
<1>10. CASE kind = "Nest"
  <2>1. /\ arg.attrs \in AttributeSets /\ arg.into \in Name
        /\ Gives(NestHeader(s, arg.attrs, arg.into), h)
    BY <1>1, <1>10 DEF MadeOne
  <2>2. HeaderFn(h) \in Nested(HeaderFn(s), ToSet(arg.attrs), arg.into)
    BY <1>1, <2>1, NestFollows
  <2> QED
    BY <1>2, <1>10, <2>2 DEF Coherent
<1> QED
  BY <1>3, <1>4, <1>5, <1>6, <1>7, <1>8, <1>9, <1>10 DEF UnaryKinds

LEMMA TwoCoherent ==
  ASSUME IInv, NEW i \in DOMAIN ops, ops[i].kind \in BinaryKinds
  PROVE  Coherent(i)
<1> DEFINE kind == ops[i].kind
           arg == ops[i].arg
           l == Input(i, 1)
           r == Input(i, 2)
           h == Schema(i)
<1>1. Closed(schemas) /\ l \in schemas /\ r \in schemas /\ MadeTwo(kind, arg, l, r, h)
  BY TwoOf DEF IInv
<1>2. InputFn(i, 1) = HeaderFn(l) /\ InputFn(i, 2) = HeaderFn(r) /\ Header(i) = HeaderFn(h)
  BY DEF InputFn, Header
<1>3. CASE kind = "Modify"
  <2>1. HeaderFn(h) \in Refocused(HeaderFn(l), arg.path.steps[1].name, r)
    BY <1>1, <1>3, ModifyFollows DEF MadeTwo
  <2> QED
    BY <1>2, <1>3, <2>1 DEF Coherent
<1>4. CASE kind \in {"Union", "Intersect", "Difference"}
  <2>1. Gives(SetOpHeader(l, r), h)
    BY <1>1, <1>4 DEF MadeTwo
  <2>2. h = l /\ h = r
    BY <2>1 DEF Gives, SetOpHeader, Ok, Err
  <2> QED
    BY <1>4, <2>2 DEF Coherent
<1>5. CASE kind = "Product"
  <2>1. Gives(ConcatDisjoint(l, r), h)
    BY <1>1, <1>5 DEF MadeTwo
  <2>2. Shared(l, r) = {} /\ h = l \o r /\ Safe(schemas, h)
    BY <1>1, <2>1, ConcatSafe
  <2>3. HeaderFn(h) \in Concatenated(HeaderFn(l), HeaderFn(r))
    BY <1>1, <2>2, ConcatFollows
  <2> QED
    BY <1>2, <1>5, <2>3 DEF Coherent
<1>6. CASE kind = "Join"
  <2>1. /\ KnownOn(arg.on) /\ ~BecomesProduct(l, r, arg.kind, arg.on)
        /\ Gives(JoinHeader(l, r, arg.kind, arg.on), h)
    BY <1>1, <1>6 DEF MadeTwo
  <2>2. /\ arg.on.k = "Natural" => Agreeing(l, r) /\ h = JoinedList(l, r)
        /\ arg.on.k # "Natural" => Shared(l, r) = {} /\ h = l \o r
        /\ Safe(schemas, h)
    BY <1>1, <2>1, JoinSafe
  <2>3. CASE arg.on.k = "Natural"
    <3>1. HeaderFn(h) \in Coalesced(HeaderFn(l), HeaderFn(r))
      BY <1>1, <2>2, <2>3, NaturalFollows
    <3> QED
      BY <1>2, <1>6, <2>3, <3>1 DEF Coherent, JoinOf
  <2>4. CASE arg.on.k # "Natural"
    <3>1. HeaderFn(h) \in Concatenated(HeaderFn(l), HeaderFn(r))
      BY <1>1, <2>2, <2>4, ConcatFollows
    <3> QED
      BY <1>2, <1>6, <2>4, <3>1 DEF Coherent, JoinOf
  <2> QED
    BY <2>3, <2>4
<1> QED
  BY <1>3, <1>4, <1>5, <1>6 DEF BinaryKinds

(***************************************************************************)
(* The header a node caches is never stale: it is the one the algebra      *)
(* gives its arguments and the headers its operands cache, whatever calls  *)
(* were made in between (op.rs:349-983).                                   *)
(***************************************************************************)
THEOREM CacheAlwaysCoherent == Spec => []CacheCoherent
<1>1. IInv => CacheCoherent
  <2> SUFFICES ASSUME IInv, NEW i \in DOMAIN ops PROVE Coherent(i)
    BY DEF CacheCoherent
  <2>1. ops[i].kind \in {"Source"} \cup UnaryKinds \cup BinaryKinds
    BY DEF IInv, TypeOK
  <2>2. CASE ops[i].kind = "Source"
    BY <2>2 DEF Coherent
  <2> QED
    BY <2>1, <2>2, OneCoherent, TwoCoherent
<1> QED
  BY <1>1, Invariance, PTL

(***************************************************************************)
(* An inner natural join that stayed a join shares an attribute, a product *)
(* none, however either came about (op.rs:881-912).                        *)
(***************************************************************************)
THEOREM AlwaysCanonical == Spec => []NaturalCanonical
<1>1. IInv => NaturalCanonical
  <2> SUFFICES ASSUME IInv PROVE NaturalCanonical
    OBVIOUS
  <2>1. ASSUME NEW i \in OfKind("Join"), ops[i].arg.on.k = "Natural", ops[i].arg.kind = "Inner"
        PROVE  Len(Schema(i)) < Len(Input(i, 1)) + Len(Input(i, 2))
    <3> DEFINE l == Input(i, 1)
               r == Input(i, 2)
               arg == ops[i].arg
    <3>1. i \in DOMAIN ops /\ ops[i].kind = "Join"
      BY DEF OfKind
    <3>2. Closed(schemas) /\ l \in schemas /\ r \in schemas /\ MadeTwo("Join", arg, l, r, Schema(i))
      BY <3>1, TwoOf DEF IInv, BinaryKinds
    <3>3. /\ KnownOn(arg.on) /\ ~BecomesProduct(l, r, arg.kind, arg.on)
          /\ Gives(JoinHeader(l, r, arg.kind, arg.on), Schema(i))
      BY <3>2 DEF MadeTwo
    <3>4. Schema(i) = JoinedList(l, r)
      BY <2>1, <3>2, <3>3, JoinSafe
    <3>5. Shared(l, r) # {} /\ Built(l) /\ Built(r)
      BY <2>1, <3>2, <3>3 DEF BecomesProduct, Closed
    <3> QED
      BY <3>4, <3>5, JoinedListIs
  <2>2. ASSUME NEW i \in OfKind("Product")
        PROVE  Len(Schema(i)) = Len(Input(i, 1)) + Len(Input(i, 2))
    <3> DEFINE l == Input(i, 1)
               r == Input(i, 2)
    <3>1. i \in DOMAIN ops /\ ops[i].kind = "Product"
      BY DEF OfKind
    <3>2. Closed(schemas) /\ l \in schemas /\ r \in schemas /\ MadeTwo("Product", ops[i].arg, l, r, Schema(i))
      BY <3>1, TwoOf DEF IInv, BinaryKinds
    <3>3. Gives(ConcatDisjoint(l, r), Schema(i))
      BY <3>2 DEF MadeTwo
    <3>4. Shared(l, r) = {} /\ Schema(i) = l \o r
      BY <3>2, <3>3, ConcatSafe
    <3>5. Built(l) /\ Built(r)
      BY <3>2 DEF Closed
    <3> QED
      BY <3>4, <3>5, DisjointListIs
  <2> QED
    BY <2>1, <2>2 DEF NaturalCanonical
<1> QED
  BY <1>1, Invariance, PTL

(***************************************************************************)
(* An unnest of the column a nest made gives back the same attributes, and *)
(* a renaming back gives the same list (op.rs:433-472, 611-729).           *)
(***************************************************************************)
THEOREM AlwaysRoundTrips == Spec => []RoundTrip
<1>1. IInv => RoundTrip
  <2> SUFFICES ASSUME IInv, NEW i \in DOMAIN ops, NEW p \in ToSet(ops[i].inputs)
               PROVE  /\ /\ ops[i].kind = "Unnest"
                         /\ ops[p].kind = "Nest"
                         /\ ops[i].arg.path.steps[1].name = ops[p].arg.into
                         => ToSet(Schema(i)) = ToSet(Input(p, 1))
                      /\ /\ ops[i].kind = "Rename"
                         /\ ops[p].kind = "Rename"
                         /\ ops[i].arg = [from |-> ops[p].arg.to, to |-> ops[p].arg.from]
                         => Schema(i) = Input(p, 1)
    BY DEF RoundTrip
  <2> DEFINE s == Input(p, 1)
  <2>0. Closed(schemas)
    BY DEF IInv
  <2>1. ASSUME ops[i].kind \in UnaryKinds
        PROVE  /\ p \in DOMAIN ops /\ Input(i, 1) = Schema(p)
               /\ MadeOne(ops[i].kind, ops[i].arg, Schema(p), Schema(i))
               /\ Schema(p) \in schemas /\ Schema(i) \in schemas
    <3>1. PICK q \in DOMAIN ops : ops[i].inputs = <<q>> /\ Input(i, 1) = Schema(q)
      BY <2>1, OneOf
    <3>2. p = q
      BY <3>1 DEF ToSet
    <3> QED
      BY <2>1, <3>1, <3>2, OneOf
  <2>2. ASSUME ops[i].kind = "Unnest", ops[p].kind = "Nest",
               ops[i].arg.path.steps[1].name = ops[p].arg.into
        PROVE  ToSet(Schema(i)) = ToSet(s)
    <3> DEFINE attrs == ops[p].arg.attrs
               into == ops[p].arg.into
    <3>1. /\ p \in DOMAIN ops /\ Schema(p) \in schemas
          /\ Gives(UnnestHeader(Schema(p), ops[i].arg.path), Schema(i))
      BY <2>1, <2>2 DEF MadeOne, UnaryKinds
    <3>2. Schema(i) = UnnestedList(Schema(p), into)
      BY <2>0, <2>2, <3>1, UnnestSafe
    <3>3. s \in schemas /\ MadeOne("Nest", ops[p].arg, s, Schema(p))
      BY <2>2, <3>1, OneOf DEF UnaryKinds
    <3>4. attrs \in AttributeSets /\ into \in Name /\ Gives(NestHeader(s, attrs, into), Schema(p))
      BY <3>3 DEF MadeOne
    <3>5. /\ ToSet(attrs) \subseteq NamesOf(s) /\ into \notin NamesOf(s) \ ToSet(attrs)
          /\ Schema(p) = NestedList(s, attrs, into)
      BY <2>0, <3>3, <3>4, NestSafe
    <3>6. /\ attrs \in Seq(Name) /\ Len(attrs) \in 1..MaxSchemaAttributes /\ Distinct(attrs)
          /\ Built(s)
      BY <2>0, <3>3, <3>4, AttributesAre DEF Closed
    <3> HIDE DEF attrs, into
    <3> QED
      BY <3>2, <3>4, <3>5, <3>6, NestUndone
  <2>3. ASSUME ops[i].kind = "Rename", ops[p].kind = "Rename",
               ops[i].arg = [from |-> ops[p].arg.to, to |-> ops[p].arg.from]
        PROVE  Schema(i) = s
    <3> DEFINE from == ops[p].arg.from
               to == ops[p].arg.to
    <3>0. ops[i].arg.from = to /\ ops[i].arg.to = from
      BY <2>3
    <3>1. /\ p \in DOMAIN ops /\ Schema(p) \in schemas
          /\ MadeOne("Rename", ops[i].arg, Schema(p), Schema(i))
      BY <2>1, <2>3 DEF UnaryKinds
    <3>2. from \in Name /\ to \in Name /\ Gives(RenameHeader(Schema(p), to, from), Schema(i))
      BY <3>0, <3>1 DEF MadeOne
    <3>3. Schema(i) = RenamedList(Schema(p), to, from)
      BY <2>0, <3>1, <3>2, RenameSafe
    <3>4. s \in schemas /\ MadeOne("Rename", ops[p].arg, s, Schema(p))
      BY <2>3, <3>1, OneOf DEF UnaryKinds
    <3>5. Gives(RenameHeader(s, from, to), Schema(p))
      BY <3>4 DEF MadeOne
    <3>6. Renames(s, from, to) /\ Schema(p) = RenamedList(s, from, to) /\ Built(s)
      BY <2>0, <3>2, <3>4, <3>5, RenameSafe DEF Closed
    <3> QED
      BY <3>3, <3>6, RenameUndone
  <2> QED
    BY <2>2, <2>3
<1> QED
  BY <1>1, Invariance, PTL

-----------------------------------------------------------------------------

(***************************************************************************)
(* The names a constructor puts together are distinct, whatever their      *)
(* number; an unnest alone cannot know.                                    *)
(***************************************************************************)
Origin(c, header) ==
  ~header.ok /\ header.err.k = "Schema" =>
    /\ c \in {"Extend", "Summarize", "Product", "Join", "Unnest"}
    /\ header.err.source.k = "DuplicateAttribute" => c = "Unnest"

LEMMA TooLong ==
  ASSUME NEW h, Distinct(Names(h)), ~HeaderOf(h).ok
  PROVE  HeaderOf(h).err.source.k = "Cardinality"
<1>1. ~ValidHeader(h)
  BY HeaderOfOk DEF Ok
<1>2. Len(h) \notin 1..MaxSchemaAttributes
  BY <1>1 DEF ValidHeader
<1> QED
  BY <1>1, <1>2, HeaderOfErr

LEMMA ExtendOrigin ==
  ASSUME NEW s, Built(s), NEW n, NEW e
  PROVE  Origin("Extend", ExtendHeader(s, n, e))
<1> SUFFICES ASSUME ~ExtendHeader(s, n, e).ok, ExtendHeader(s, n, e).err.k = "Schema"
             PROVE  ExtendHeader(s, n, e).err.source.k = "Cardinality"
  BY DEF Origin
<1> DEFINE t == InferTy(e, s).val
<1>1. Extends(s, n, e) /\ ExtendHeader(s, n, e) = HeaderOf(ExtendedList(s, n, t))
  BY ExtendIs
<1>2. n \notin NamesOf(s)
  BY <1>1, NamesAre DEF Extends
<1> HIDE DEF t
<1>3. Distinct(Names(ExtendedList(s, n, t)))
  BY <1>2, ExtendedIs
<1> QED
  BY <1>1, <1>3, TooLong

LEMMA SummarizeOrigin ==
  ASSUME NEW s, Built(s), NEW by \in GroupingSets, NEW aggs \in NamedAggSets
  PROVE  Origin("Summarize", SummarizeHeader(s, by, aggs))
<1> SUFFICES ASSUME ~SummarizeHeader(s, by, aggs).ok, SummarizeHeader(s, by, aggs).err.k = "Schema"
             PROVE  SummarizeHeader(s, by, aggs).err.source.k = "Cardinality"
  BY DEF Origin
<1>1. /\ by \in Seq(Name) /\ Distinct(by)
      /\ aggs \in Seq(ToSet(aggs)) /\ Len(aggs) > 0 /\ Distinct(Names(aggs))
  BY KeysAre, AggsAre
<1>2. Summarizing(s, by, aggs) /\ SummarizeHeader(s, by, aggs) = HeaderOf(SummaryList(s, by, aggs))
  BY <1>1, SummarizeIs
<1>3. Distinct(Names(SummaryList(s, by, aggs)))
  BY <1>1, <1>2, SummaryListIs
<1> QED
  BY <1>2, <1>3, TooLong

LEMMA NestOrigin ==
  ASSUME NEW s, Built(s), NEW attrs \in AttributeSets, NEW into
  PROVE  Origin("Nest", NestHeader(s, attrs, into))
<1>1. /\ ValidHeader(s)
      /\ attrs \in Seq(Name) /\ Len(attrs) \in 1..MaxSchemaAttributes /\ Distinct(attrs)
  BY AttributesAre DEF Built
<1>2. \A n : UnknownAttribute(n).err.k # "Schema" /\ AlreadyExists(n).err.k # "Schema"
  BY DEF UnknownAttribute, AlreadyExists, Err
<1>3. CASE ToSet(attrs) \subseteq NamesOf(s) /\ into \notin NamesOf(s) \ ToSet(attrs)
  <2>1. ValidHeader(NestedList(s, attrs, into))
    BY <1>1, <1>3, NestedListIs
  <2>2. NestHeader(s, attrs, into).ok
    BY <1>1, <1>3, <2>1, NestIs, HeaderOfOk DEF Ok
  <2> QED
    BY <2>2 DEF Origin
<1>4. CASE ~(ToSet(attrs) \subseteq NamesOf(s))
  <2>1. \E n : NestHeader(s, attrs, into) = UnknownAttribute(n)
    BY <1>1, <1>4, NestIs
  <2> QED
    BY <1>2, <2>1 DEF Origin
<1>5. CASE ToSet(attrs) \subseteq NamesOf(s) /\ into \in NamesOf(s) \ ToSet(attrs)
  <2>1. NestHeader(s, attrs, into) = AlreadyExists(into)
    BY <1>1, <1>5, NestIs
  <2> QED
    BY <1>2, <2>1 DEF Origin
<1> QED
  BY <1>3, <1>4, <1>5

LEMMA ConcatOrigin ==
  ASSUME NEW l, Built(l), NEW r, Built(r), NEW c \in {"Product", "Join"}
  PROVE  Origin(c, ConcatDisjoint(l, r))
<1>1. CASE Shared(l, r) = {}
  <2>1. ConcatDisjoint(l, r) = HeaderOf(l \o r) /\ Distinct(Names(l \o r))
    BY <1>1, ConcatDisjointIs, DisjointListIs
  <2> QED
    BY <2>1, TooLong DEF Origin
<1>2. CASE Shared(l, r) # {}
  BY <1>2, ConcatDisjointIs DEF Origin
<1> QED
  BY <1>1, <1>2

LEMMA ThetaOrigin ==
  ASSUME NEW l, Built(l), NEW r, Built(r), NEW e
  PROVE  Origin("Join", ThetaHeader(l, r, e))
<1>1. CASE ConcatDisjoint(l, r).ok
  <2>1. ThetaHeader(l, r, e) = Admit(e, l \o r)
    BY <1>1, ConcatOk DEF ThetaHeader, Then
  <2> QED
    BY <2>1, AdmitIdle DEF Origin
<1>2. CASE ~ConcatDisjoint(l, r).ok
  <2>1. ThetaHeader(l, r, e) = ConcatDisjoint(l, r)
    BY <1>2 DEF ThetaHeader, Then
  <2> QED
    BY <2>1, ConcatOrigin
<1> QED
  BY <1>1, <1>2

LEMMA JoinOrigin ==
  ASSUME NEW l, Built(l), NEW r, Built(r), NEW kind, NEW on, KnownOn(on)
  PROVE  Origin("Join", JoinHeader(l, r, kind, on))
<1>1. CASE on.k = "Natural"
  <2>1. JoinHeader(l, r, kind, on) = NaturalHeader(l, r, kind, on) /\ Listed(l)
    BY <1>1 DEF JoinHeader, Built
  <2>2. CASE Agreeing(l, r) /\ BecomesProduct(l, r, kind, on)
    BY <2>1, <2>2, NaturalIs, ConcatOrigin
  <2>3. CASE Agreeing(l, r) /\ ~BecomesProduct(l, r, kind, on)
    <3>1. JoinHeader(l, r, kind, on) = HeaderOf(JoinedList(l, r)) /\ Distinct(Names(JoinedList(l, r)))
      BY <2>1, <2>3, NaturalIs, JoinedListIs
    <3> QED
      BY <3>1, TooLong DEF Origin
  <2>4. CASE ~Agreeing(l, r)
    BY <2>1, <2>4, NaturalIs DEF Origin
  <2> QED
    BY <2>2, <2>3, <2>4
<1>2. CASE on.k = "Equi" /\ on.pairs \in EquiPairSets
  <2>1. JoinHeader(l, r, kind, on) = EquiHeader(l, r, on.pairs)
    BY <1>2 DEF JoinHeader
  <2>2. on.pairs \in Seq(ToSet(on.pairs))
    BY <1>2, PairsAre
  <2>3. \/ EquiHeader(l, r, on.pairs) = ConcatDisjoint(l, r)
        \/ ~EquiHeader(l, r, on.pairs).ok /\ EquiHeader(l, r, on.pairs).err.k # "Schema"
    BY <2>2, EquiIs
  <2> QED
    BY <2>1, <2>3, ConcatOrigin DEF Origin
<1>3. CASE on.k = "Theta"
  BY <1>3, ThetaOrigin DEF JoinHeader
<1> QED
  BY <1>1, <1>2, <1>3 DEF KnownOn

LEMMA CallOrigin ==
  ASSUME NEW c, NEW kind, NEW inputs, NEW arg, NEW header,
         Call(c, kind, inputs, arg, header),
         RevalidationIdle',
         c \in Rebuilding \/ Origin(c, header)
  PROVE  SchemaErrorOrigin'
<1>1. outcome'.call = c
  BY DEF Call
<1>2. CASE c \in Rebuilding
  <2>1. outcome'.err # NoError => outcome'.err[1] # "Schema"
    BY <1>1, <1>2 DEF RevalidationIdle
  <2>2. ASSUME NEW k PROVE outcome'.err # <<"Schema", k>>
    <3>1. Len(<<"Schema", k>>) = 2 /\ <<"Schema", k>>[1] = "Schema" /\ Len(<<>>) = 0
      OBVIOUS
    <3>2. <<"Schema", k>> # <<>>
      BY <3>1
    <3> QED
      BY <2>1, <3>1, <3>2 DEF NoError
  <2> QED
    BY <2>2 DEF SchemaErrorOrigin
<1>3. CASE Origin(c, header)
  <2>1. CASE outcome' = [call |-> c, err |-> NoError]
    BY <2>1 DEF SchemaErrorOrigin, NoError
  <2>2. CASE ~header.ok /\ outcome' = [call |-> c, err |-> Variant(header.err)]
    <3>1. ASSUME NEW k \in {"Cardinality", "DuplicateAttribute"}, Variant(header.err) = <<"Schema", k>>
          PROVE  header.err.k = "Schema" /\ header.err.source.k = k
      BY <3>1 DEF Variant
    <3> QED
      BY <1>3, <2>2, <3>1 DEF SchemaErrorOrigin, Origin
  <2> QED
    BY <2>1, <2>2 DEF Call
<1> QED
  BY <1>2, <1>3

LEMMA OriginStep ==
  IInv /\ RevalidationIdle' /\ SchemaErrorOrigin /\ [Next]_vars => SchemaErrorOrigin'
<1> SUFFICES ASSUME IInv, RevalidationIdle', SchemaErrorOrigin, [Next]_vars
             PROVE  SchemaErrorOrigin'
  OBVIOUS
<1>0. \A i \in DOMAIN ops : Built(Schema(i))
  BY DEF IInv, TypeOK, Closed, Schema
<1>1. CASE UNCHANGED vars
  BY <1>1 DEF vars, SchemaErrorOrigin
<1>2. ASSUME NEW s \in ClientSchemas, SourceOp(s)
      PROVE  SchemaErrorOrigin'
  BY <1>2, CallOrigin DEF SourceOp, Rebuilding
<1>3. ASSUME NEW i \in DOMAIN ops, OneOperand(i)
      PROVE  SchemaErrorOrigin'
  <2> Built(Schema(i))
    BY <1>0
  <2>1. CASE \E attrs \in AttributeSets : ProjectOp(i, attrs)
    BY <2>1, CallOrigin DEF ProjectOp, Rebuilding
  <2>2. CASE \E e \in Predicates : RestrictOp(i, e)
    BY <2>2, CallOrigin DEF RestrictOp, Rebuilding
  <2>3. CASE \E from, to \in Name : RenameOp(i, from, to)
    BY <2>3, CallOrigin DEF RenameOp, Rebuilding
  <2>4. CASE \E n \in Name, e \in Extensions : ExtendOp(i, n, e)
    BY <2>4, CallOrigin, ExtendOrigin DEF ExtendOp
  <2>5. CASE \E by \in GroupingSets, aggs \in NamedAggSets : SummarizeOp(i, by, aggs)
    BY <2>5, CallOrigin, SummarizeOrigin DEF SummarizeOp
  <2>6. CASE \E by \in OrderKeys : OrderOp(i, by)
    BY <2>6, CallOrigin DEF OrderOp, Rebuilding
  <2>7. CASE \E offset \in Offsets, count \in LimitCounts : LimitOp(i, offset, count)
    BY <2>7, CallOrigin DEF LimitOp, Rebuilding
  <2>8. CASE \E path \in Paths : UnnestOp(i, path)
    BY <2>8, CallOrigin DEF UnnestOp, Origin
  <2>9. CASE \E attrs \in AttributeSets, into \in Name : NestOp(i, attrs, into)
    BY <2>9, CallOrigin, NestOrigin DEF NestOp
  <2> QED
    BY <1>3, <2>1, <2>2, <2>3, <2>4, <2>5, <2>6, <2>7, <2>8, <2>9 DEF OneOperand
<1>4. ASSUME NEW i \in DOMAIN ops, NEW j \in DOMAIN ops, TwoOperands(i, j)
      PROVE  SchemaErrorOrigin'
  <2> Built(Schema(i)) /\ Built(Schema(j))
    BY <1>0
  <2>1. CASE \E path \in Paths : ModifyOp(i, path, j)
    BY <2>1, CallOrigin DEF ModifyOp, Rebuilding
  <2>2. CASE \E kind \in {"Union", "Intersect", "Difference"} : SetOp(kind, i, j)
    BY <2>2, CallOrigin DEF SetOp, Rebuilding
  <2>3. CASE ProductOp(i, j)
    BY <2>3, CallOrigin, ConcatOrigin DEF ProductOp
  <2>4. CASE \E kind \in JoinKinds, on \in JoinOns : JoinOp(i, j, kind, on)
    <3>1. PICK kind \in JoinKinds, on \in JoinOns : JoinOp(i, j, kind, on)
      BY <2>4
    <3>2. KnownOn(on)
      BY DEF KnownOn, JoinOns, Predicates
    <3>3. Origin("Join", JoinHeader(Schema(i), Schema(j), kind, on))
      BY <3>2, JoinOrigin
    <3> QED
      BY <3>1, <3>3, CallOrigin DEF JoinOp
  <2> QED
    BY <1>4, <2>1, <2>2, <2>3, <2>4 DEF TwoOperands
<1> QED
  BY <1>1, <1>2, <1>3, <1>4 DEF Next

(***************************************************************************)
(* The Schema error a constructor can return has two origins: a header     *)
(* past the limit, from the five that add attributes, and a name that is   *)
(* brought up twice, from unnest alone (op.rs:349-983).                    *)
(***************************************************************************)
THEOREM SchemaErrorsExplained == Spec => []SchemaErrorOrigin
<1>1. Init => SchemaErrorOrigin
  <2>1. Len(<<>>) = 0 /\ \A k : Len(<<"Schema", k>>) = 2
    OBVIOUS
  <2>2. \A k : <<"Schema", k>> # <<>>
    BY <2>1
  <2> QED
    BY <2>2 DEF Init, SchemaErrorOrigin, NoError
<1> QED
  BY <1>1, OriginStep, Invariance, RevalidationAlwaysIdle, PTL DEF Spec

-----------------------------------------------------------------------------

(***************************************************************************)
(* A constructor succeeds exactly where the algebra has a header.          *)
(***************************************************************************)
LEMMA InnocentErrors ==
  ASSUME NEW err, NEW names, err.k \notin {"UnknownAttribute", "AttributeAlreadyExists"}
  PROVE  Guilty(err, names)
BY DEF Guilty

LEMMA HeaderMeets ==
  ASSUME NEW h, NEW promised, NEW names,
         ValidHeader(h) => HeaderFn(h) \in promised,
         ~ValidHeader(h) => promised = {}
  PROVE  Meets(HeaderOf(h), promised, names)
<1>1. CASE ValidHeader(h)
  <2>1. HeaderOf(h).ok /\ HeaderOf(h).val = h
    BY <1>1, HeaderOfOk DEF Ok
  <2> QED
    BY <1>1, <2>1 DEF Meets
<1>2. CASE ~ValidHeader(h)
  <2>1. ~HeaderOf(h).ok /\ HeaderOf(h).err.k = "Schema"
    BY <1>2, HeaderOfErr
  <2> QED
    BY <1>2, <2>1, InnocentErrors DEF Meets
<1> QED
  BY <1>1, <1>2

LEMMA ProjectMeets ==
  ASSUME NEW s, Built(s), NEW attrs \in AttributeSets
  PROVE  Meets(ProjectHeader(s, attrs), Projected(HeaderFn(s), ToSet(attrs)), NamesOf(s))
<1>1. /\ attrs \in Seq(Name) /\ Len(attrs) \in 1..MaxSchemaAttributes /\ Distinct(attrs)
      /\ ValidHeader(s) /\ DOMAIN HeaderFn(s) = NamesOf(s)
  BY AttributesAre DEF Built, HeaderFn
<1>2. CASE ToSet(attrs) \subseteq NamesOf(s)
  <2>1. /\ ProjectHeader(s, attrs) = HeaderOf(Picked(s, attrs))
        /\ ValidHeader(Picked(s, attrs))
        /\ HeaderFn(Picked(s, attrs)) = Restrict(HeaderFn(s), ToSet(attrs))
    BY <1>1, <1>2, ProjectIs, PickedValid
  <2>2. HeaderFn(Picked(s, attrs)) \in Projected(HeaderFn(s), ToSet(attrs))
    BY <1>1, <1>2, <2>1 DEF Projected, When
  <2> QED
    BY <2>1, <2>2, HeaderMeets
<1>3. CASE ~(ToSet(attrs) \subseteq NamesOf(s))
  <2>1. PICK n \in ToSet(attrs) \ NamesOf(s) : ProjectHeader(s, attrs) = UnknownAttribute(n)
    BY <1>1, <1>3, ProjectIs
  <2>2. Projected(HeaderFn(s), ToSet(attrs)) = {}
    BY <1>1, <1>3 DEF Projected, When
  <2> QED
    BY <2>1, <2>2 DEF Meets, Guilty, UnknownAttribute, Err
<1> QED
  BY <1>2, <1>3

LEMMA RenameMeets ==
  ASSUME NEW s, Built(s), NEW from \in Name, NEW to \in Name
  PROVE  Meets(RenameHeader(s, from, to), Renamed(HeaderFn(s), from, to), NamesOf(s))
<1>1. DOMAIN HeaderFn(s) = NamesOf(s)
  BY DEF HeaderFn
<1>2. CASE Renames(s, from, to)
  <2>1. /\ RenameHeader(s, from, to) = HeaderOf(RenamedList(s, from, to))
        /\ ValidHeader(RenamedList(s, from, to))
        /\ HeaderFn(RenamedList(s, from, to)) \in Renamed(HeaderFn(s), from, to)
    BY <1>2, RenameIs, RenamedListIs DEF Built
  <2> QED
    BY <2>1, HeaderMeets
<1>3. CASE ~Renames(s, from, to)
  <2>1. Renamed(HeaderFn(s), from, to) = {}
    BY <1>1, <1>3 DEF Renamed, Renames, When
  <2>2. CASE from \notin NamesOf(s)
    <3>1. RenameHeader(s, from, to) = UnknownAttribute(from)
      BY <2>2, RenameIs
    <3> QED
      BY <2>1, <2>2, <3>1 DEF Meets, Guilty, UnknownAttribute, Err
  <2>3. CASE from \in NamesOf(s)
    <3>1. RenameHeader(s, from, to) = AlreadyExists(to) /\ to \in NamesOf(s)
      BY <1>3, <2>3, RenameIs
    <3> QED
      BY <2>1, <3>1 DEF Meets, Guilty, AlreadyExists, Err
  <2> QED
    BY <2>2, <2>3
<1> QED
  BY <1>2, <1>3

LEMMA NestMeets ==
  ASSUME NEW s, Built(s), NEW attrs \in AttributeSets, NEW into \in Name
  PROVE  Meets(NestHeader(s, attrs, into), Nested(HeaderFn(s), ToSet(attrs), into), NamesOf(s))
<1> DEFINE f == HeaderFn(s)
           names == ToSet(attrs)
           sub == Picked(s, attrs)
<1>1. /\ attrs \in Seq(Name) /\ Len(attrs) \in 1..MaxSchemaAttributes /\ Distinct(attrs)
      /\ ValidHeader(s) /\ DOMAIN f = NamesOf(s)
  BY AttributesAre DEF Built, HeaderFn
<1>2. CASE names \subseteq NamesOf(s) /\ into \notin NamesOf(s) \ names
  <2>1. NestHeader(s, attrs, into) = HeaderOf(NestedList(s, attrs, into))
    BY <1>1, <1>2, NestIs
  <2>2. /\ ValidHeader(NestedList(s, attrs, into))
        /\ HeaderFn(NestedList(s, attrs, into)) = Plus(Without(f, names), into, RelationTy(sub))
    BY <1>1, <1>2, NestedListIs
  <2>3. Built(sub) /\ HeaderFn(sub) = Restrict(f, names)
    BY <1>1, <1>2, PickedBuilt, PickedValid
  <2>4. sub \in Orders(Restrict(f, names))
    <3> HIDE DEF sub, f, names
    <3> QED
      BY <2>3, OrdersOf
  <2>5. HeaderFn(NestedList(s, attrs, into)) \in Nested(f, names, into)
    <3> HIDE DEF sub, f, names
    <3> QED
      BY <1>1, <1>2, <2>2, <2>4 DEF Nested
  <2> QED
    BY <2>1, <2>2, <2>5, HeaderMeets
<1>3. CASE ~(names \subseteq NamesOf(s))
  <2>1. PICK n \in names \ NamesOf(s) : NestHeader(s, attrs, into) = UnknownAttribute(n)
    BY <1>1, <1>3, NestIs
  <2>2. Nested(f, names, into) = {}
    BY <1>1, <1>3 DEF Nested
  <2> QED
    BY <2>1, <2>2 DEF Meets, Guilty, UnknownAttribute, Err
<1>4. CASE names \subseteq NamesOf(s) /\ into \in NamesOf(s) \ names
  <2>1. NestHeader(s, attrs, into) = AlreadyExists(into)
    BY <1>1, <1>4, NestIs
  <2>2. Nested(f, names, into) = {}
    BY <1>1, <1>4 DEF Nested
  <2> QED
    BY <1>4, <2>1, <2>2 DEF Meets, Guilty, AlreadyExists, Err
<1> QED
  BY <1>2, <1>3, <1>4

(***************************************************************************)
(* The path of one field reaches the attribute it names if that is a       *)
(* relation.                                                               *)
(***************************************************************************)
LEMMA FocusReaches ==
  ASSUME NEW s, NEW n
  PROVE  /\ Focus(n).steps[1].name = n
         /\ Reaches(s, Focus(n)) <=> n \in NamesOf(s) /\ IsRelationTy(HeaderFn(s)[n])
<1>1. Focus(n).steps[1].name = n /\ IsOneField(Focus(n))
  BY DEF Focus, IsOneField
<1> QED
  BY <1>1 DEF Reaches

LEMMA UnnestMeets ==
  ASSUME NEW H, Closed(H), NEW s \in H, NEW n \in Name
  PROVE  Meets(UnnestHeader(s, Focus(n)), Unnested(HeaderFn(s), n), NamesOf(s))
<1> DEFINE f == HeaderFn(s)
           sub == f[n].schema
<1>1. Built(s) /\ ValidHeader(s) /\ DOMAIN f = NamesOf(s)
  BY DEF Closed, Built, HeaderFn
<1>2. CASE Reaches(s, Focus(n))
  <2>1. UnnestHeader(s, Focus(n)) = HeaderOf(UnnestedList(s, n))
    BY <1>1, <1>2, UnnestIs, FocusReaches
  <2>2. n \in NamesOf(s) /\ IsRelationTy(f[n])
    BY <1>2, FocusReaches
  <2>3. Built(sub)
    BY <1>2, ReachedIs, FocusReaches
  <2>4. Unnested(f, n) = Concatenated(Without(f, {n}), HeaderFn(sub))
    BY <1>1, <2>2 DEF Unnested
  <2>5. /\ ValidHeader(UnnestedList(s, n)) <=> Unnested(f, n) # {}
        /\ ValidHeader(UnnestedList(s, n)) => HeaderFn(UnnestedList(s, n)) \in Unnested(f, n)
    BY <1>1, <2>2, <2>3, <2>4, UnnestedListIs
  <2> QED
    BY <2>1, <2>5, HeaderMeets
<1>3. CASE ~Reaches(s, Focus(n))
  <2>1. UnnestHeader(s, Focus(n)) = NestedAt(s, Focus(n))
    BY <1>1, <1>3, UnnestIs
  <2>2. /\ ~NestedAt(s, Focus(n)).ok
        /\ Guilty(NestedAt(s, Focus(n)).err, NamesOf(s))
    BY <1>1, <1>3, NestedAtIs DEF Guilty
  <2>3. Unnested(f, n) = {}
    BY <1>1, <1>3, FocusReaches DEF Unnested
  <2> QED
    BY <2>1, <2>2, <2>3 DEF Meets
<1> QED
  BY <1>2, <1>3

LEMMA ModifyMeets ==
  ASSUME NEW l, Built(l), NEW r, NEW n \in Name
  PROVE  Meets(ModifyHeader(l, Focus(n), r), Refocused(HeaderFn(l), n, r), NamesOf(l))
<1> DEFINE f == HeaderFn(l)
<1>1. ValidHeader(l) /\ DOMAIN f = NamesOf(l)
  BY DEF Built, HeaderFn
<1>2. CASE Reaches(l, Focus(n))
  <2>1. ModifyHeader(l, Focus(n), r) = HeaderOf(ModifiedList(l, n, r))
    BY <1>1, <1>2, ModifyIs, FocusReaches
  <2>2. n \in NamesOf(l) /\ IsRelationTy(f[n])
    BY <1>2, FocusReaches
  <2>3. /\ ValidHeader(ModifiedList(l, n, r))
        /\ HeaderFn(ModifiedList(l, n, r)) = [f EXCEPT ![n] = RelationTy(r)]
    BY <2>2, ModifiedListIs DEF Built
  <2>4. HeaderFn(ModifiedList(l, n, r)) \in Refocused(f, n, r)
    BY <1>1, <2>2, <2>3 DEF Refocused, When
  <2> QED
    BY <2>1, <2>3, <2>4, HeaderMeets
<1>3. CASE ~Reaches(l, Focus(n))
  <2>1. ModifyHeader(l, Focus(n), r) = NestedAt(l, Focus(n))
    BY <1>1, <1>3, ModifyIs
  <2>2. /\ ~NestedAt(l, Focus(n)).ok
        /\ Guilty(NestedAt(l, Focus(n)).err, NamesOf(l))
    BY <1>1, <1>3, NestedAtIs DEF Guilty
  <2>3. Refocused(f, n, r) = {}
    BY <1>1, <1>3, FocusReaches DEF Refocused, When
  <2> QED
    BY <2>1, <2>2, <2>3 DEF Meets
<1> QED
  BY <1>2, <1>3

LEMMA ConcatMeets ==
  ASSUME NEW l, Built(l), NEW r, Built(r)
  PROVE  Meets(ConcatDisjoint(l, r), Concatenated(HeaderFn(l), HeaderFn(r)), NamesOf(l))
<1> DEFINE f == HeaderFn(l)
           g == HeaderFn(r)
<1>1. DOMAIN f = NamesOf(l) /\ DOMAIN g = NamesOf(r)
  BY DEF HeaderFn
<1>2. CASE Shared(l, r) = {}
  <2>1. /\ ConcatDisjoint(l, r) = HeaderOf(l \o r)
        /\ ValidHeader(l \o r) <=> Fits(Merge(f, g))
        /\ ValidHeader(l \o r) => HeaderFn(l \o r) = Merge(f, g)
    BY <1>2, ConcatDisjointIs, DisjointListIs
  <2>2. Disjoint(f, g)
    BY <1>1, <1>2 DEF Disjoint, Shared
  <2>3. Fits(Merge(f, g)) => Merge(f, g) \in Concatenated(f, g)
    BY <2>2 DEF Concatenated
  <2>4. ~Fits(Merge(f, g)) => Concatenated(f, g) = {}
    BY DEF Concatenated
  <2> QED
    BY <2>1, <2>3, <2>4, HeaderMeets
<1>3. CASE Shared(l, r) # {}
  <2>1. /\ ~ConcatDisjoint(l, r).ok
        /\ Guilty(ConcatDisjoint(l, r).err, NamesOf(l))
    BY <1>3, ConcatDisjointIs, InnocentErrors
  <2>2. Concatenated(f, g) = {}
    BY <1>1, <1>3 DEF Concatenated, Disjoint, Shared
  <2> QED
    BY <2>1, <2>2 DEF Meets
<1> QED
  BY <1>2, <1>3

LEMMA NaturalMeets ==
  ASSUME NEW l, Built(l), NEW r, Built(r), NEW kind
  PROVE  Meets(JoinHeader(l, r, kind, [k |-> "Natural"]),
               Coalesced(HeaderFn(l), HeaderFn(r)), NamesOf(l))
<1> DEFINE f == HeaderFn(l)
           g == HeaderFn(r)
           on == [k |-> "Natural"]
           agree == \A n \in DOMAIN f \cap DOMAIN g : f[n] = g[n]
<1>1. Listed(l) /\ JoinHeader(l, r, kind, on) = NaturalHeader(l, r, kind, on)
  BY DEF Built, JoinHeader
<1>2. Agreeing(l, r) <=> agree
  BY AgreeingIs
<1>3. CASE Agreeing(l, r) /\ BecomesProduct(l, r, kind, on)
  <2>1. JoinHeader(l, r, kind, on) = ConcatDisjoint(l, r)
    BY <1>1, <1>3, NaturalIs
  <2>2. DOMAIN f \cap DOMAIN g = {}
    BY <1>3 DEF BecomesProduct, Shared, HeaderFn
  <2>3. Coalesced(f, g) = Concatenated(f, g)
    <3> HIDE DEF f, g
    <3> QED
      BY <2>2 DEF Coalesced, Concatenated, Disjoint
  <2> QED
    BY <2>1, <2>3, ConcatMeets
<1>4. CASE Agreeing(l, r) /\ ~BecomesProduct(l, r, kind, on)
  <2>1. JoinHeader(l, r, kind, on) = HeaderOf(JoinedList(l, r))
    BY <1>1, <1>4, NaturalIs
  <2>2. /\ ValidHeader(JoinedList(l, r)) <=> Fits(Merge(f, g))
        /\ ValidHeader(JoinedList(l, r)) => HeaderFn(JoinedList(l, r)) = Merge(f, g)
    BY JoinedListIs
  <2>3. /\ Fits(Merge(f, g)) => Merge(f, g) \in Coalesced(f, g)
        /\ ~Fits(Merge(f, g)) => Coalesced(f, g) = {}
    BY <1>2, <1>4 DEF Coalesced
  <2> QED
    BY <2>1, <2>2, <2>3, HeaderMeets
<1>5. CASE ~Agreeing(l, r)
  <2>1. /\ ~NaturalHeader(l, r, kind, on).ok
        /\ Guilty(NaturalHeader(l, r, kind, on).err, NamesOf(l))
    BY <1>1, <1>5, NaturalIs, InnocentErrors
  <2>2. Coalesced(f, g) = {}
    BY <1>2, <1>5 DEF Coalesced
  <2> QED
    BY <1>1, <2>1, <2>2 DEF Meets
<1> QED
  BY <1>3, <1>4, <1>5

(***************************************************************************)
(* On every header the program holds, project, rename, unnest and nest     *)
(* succeed exactly when the algebra admits their arguments, with the       *)
(* header it gives, and an attribute they blame is guilty                  *)
(* (op.rs:362-388, 433-472, 611-729).                                      *)
(***************************************************************************)
THEOREM UnaryAlwaysExact == Spec => []UnaryExact
<1>1. IInv => UnaryExact
  <2> SUFFICES ASSUME IInv, NEW s \in schemas
               PROVE  LET f == HeaderFn(s)
                      IN  /\ \A l \in AttributeSets : Meets(ProjectHeader(s, l), Projected(f, ToSet(l)), DOMAIN f)
                          /\ \A n, m \in Name : Meets(RenameHeader(s, n, m), Renamed(f, n, m), DOMAIN f)
                          /\ \A n \in Name : Meets(UnnestHeader(s, Focus(n)), Unnested(f, n), DOMAIN f)
                          /\ \A l \in AttributeSets, n \in Name :
                               Meets(NestHeader(s, l, n), Nested(f, ToSet(l), n), DOMAIN f)
    BY DEF UnaryExact
  <2>1. Closed(schemas) /\ Built(s)
    BY DEF IInv, Closed
  <2>2. DOMAIN HeaderFn(s) = NamesOf(s)
    BY DEF HeaderFn
  <2>3. \A l \in AttributeSets : Meets(ProjectHeader(s, l), Projected(HeaderFn(s), ToSet(l)), NamesOf(s))
    BY <2>1, ProjectMeets
  <2>4. \A n, m \in Name : Meets(RenameHeader(s, n, m), Renamed(HeaderFn(s), n, m), NamesOf(s))
    BY <2>1, RenameMeets
  <2>5. \A n \in Name : Meets(UnnestHeader(s, Focus(n)), Unnested(HeaderFn(s), n), NamesOf(s))
    BY <2>1, UnnestMeets
  <2>6. \A l \in AttributeSets, n \in Name :
          Meets(NestHeader(s, l, n), Nested(HeaderFn(s), ToSet(l), n), NamesOf(s))
    BY <2>1, NestMeets
  <2> QED
    BY <2>2, <2>3, <2>4, <2>5, <2>6
<1> QED
  BY <1>1, Invariance, PTL

(***************************************************************************)
(* On every two headers the program holds, product, natural join and       *)
(* modify succeed exactly when the algebra admits them, with the header it *)
(* gives (op.rs:542-609, 881-912, 965-983).                                *)
(***************************************************************************)
THEOREM BinaryAlwaysExact == Spec => []BinaryExact
<1>1. IInv => BinaryExact
  <2> SUFFICES ASSUME IInv, NEW l \in schemas, NEW r \in schemas
               PROVE  LET f == HeaderFn(l)
                          g == HeaderFn(r)
                      IN  /\ Meets(ConcatDisjoint(l, r), Concatenated(f, g), DOMAIN f)
                          /\ \A kind \in JoinKinds :
                               Meets(JoinHeader(l, r, kind, [k |-> "Natural"]), Coalesced(f, g), DOMAIN f)
                          /\ \A n \in Name : Meets(ModifyHeader(l, Focus(n), r), Refocused(f, n, r), DOMAIN f)
    BY DEF BinaryExact
  <2>1. Built(l) /\ Built(r)
    BY DEF IInv, Closed
  <2>2. DOMAIN HeaderFn(l) = NamesOf(l)
    BY DEF HeaderFn
  <2>3. Meets(ConcatDisjoint(l, r), Concatenated(HeaderFn(l), HeaderFn(r)), NamesOf(l))
    BY <2>1, ConcatMeets
  <2>4. \A kind \in JoinKinds :
          Meets(JoinHeader(l, r, kind, [k |-> "Natural"]), Coalesced(HeaderFn(l), HeaderFn(r)), NamesOf(l))
    BY <2>1, NaturalMeets
  <2>5. \A n \in Name : Meets(ModifyHeader(l, Focus(n), r), Refocused(HeaderFn(l), n, r), NamesOf(l))
    BY <2>1, ModifyMeets
  <2> QED
    BY <2>2, <2>3, <2>4, <2>5
<1> QED
  BY <1>1, Invariance, PTL

-----------------------------------------------------------------------------

(***************************************************************************)
(* The instance of the algebra has definitions of its own, which are those *)
(* of this module.                                                         *)
(***************************************************************************)
LEMMA SameNamesOf ==
  ASSUME NEW s PROVE Algebra!NamesOf(s) = NamesOf(s)
BY DEF Algebra!NamesOf, NamesOf, Algebra!Names, Names, Algebra!ToSet, ToSet

LEMMA SameTypeOf ==
  ASSUME NEW s, NEW n PROVE Algebra!TypeOf(s, n) = TypeOf(s, n)
BY DEF Algebra!TypeOf, TypeOf, Algebra!Find, Find, Algebra!Position, Position

LEMMA SameHeaderFn ==
  ASSUME NEW s PROVE Algebra!HeaderFn(s) = HeaderFn(s)
BY SameNamesOf, SameTypeOf DEF Algebra!HeaderFn, HeaderFn

LEMMA SameFits ==
  ASSUME NEW f PROVE Algebra!Fits(f) <=> Fits(f)
BY DEF Algebra!Fits, Fits, Algebra!Cardinality, Cardinality

LEMMA SameMerge ==
  ASSUME NEW f, NEW g PROVE Algebra!Merge(f, g) = Merge(f, g)
BY DEF Algebra!Merge, Merge

LEMMA SamePlus ==
  ASSUME NEW f, NEW n, NEW t PROVE Algebra!Plus(f, n, t) = Plus(f, n, t)
BY DEF Algebra!Plus, Plus

LEMMA SameRestrict ==
  ASSUME NEW f, NEW names PROVE Algebra!Restrict(f, names) = Restrict(f, names)
BY DEF Algebra!Restrict, Restrict

LEMMA SameWithout ==
  ASSUME NEW f, NEW names PROVE Algebra!Without(f, names) = Without(f, names)
BY SameRestrict DEF Algebra!Without, Without

LEMMA SameOrders ==
  ASSUME NEW f PROVE Algebra!Orders(f) = Orders(f)
BY DEF Algebra!Orders, Orders, Algebra!SetToSeqs, SetToSeqs, Algebra!Column, Column,
       Algebra!Cardinality, Cardinality, Algebra!IsInjective, IsInjective

LEMMA SameProjected ==
  ASSUME NEW f, NEW names PROVE Algebra!Projected(f, names) = Projected(f, names)
BY SameRestrict DEF Algebra!Projected, Projected, Algebra!When, When

LEMMA SameRenamed ==
  ASSUME NEW f, NEW from, NEW to PROVE Algebra!Renamed(f, from, to) = Renamed(f, from, to)
BY DEF Algebra!Renamed, Renamed, Algebra!When, When

LEMMA SameExtended ==
  ASSUME NEW f, NEW n, NEW t PROVE Algebra!Extended(f, n, t) = Extended(f, n, t)
BY SamePlus, SameFits DEF Algebra!Extended, Extended

LEMMA SameConcatenated ==
  ASSUME NEW f, NEW g PROVE Algebra!Concatenated(f, g) = Concatenated(f, g)
BY SameMerge, SameFits DEF Algebra!Concatenated, Concatenated, Algebra!Disjoint, Disjoint

LEMMA SameCoalesced ==
  ASSUME NEW f, NEW g PROVE Algebra!Coalesced(f, g) = Coalesced(f, g)
BY SameMerge, SameFits DEF Algebra!Coalesced, Coalesced

LEMMA SameRefocused ==
  ASSUME NEW f, NEW n, NEW s PROVE Algebra!Refocused(f, n, s) = Refocused(f, n, s)
BY DEF Algebra!Refocused, Refocused, Algebra!When, When, Algebra!IsRelationTy, IsRelationTy,
       Algebra!RelationTy, RelationTy

LEMMA SameUnnested ==
  ASSUME NEW f, NEW n PROVE Algebra!Unnested(f, n) = Unnested(f, n)
BY SameConcatenated, SameWithout, SameHeaderFn
   DEF Algebra!Unnested, Unnested, Algebra!IsRelationTy, IsRelationTy

LEMMA SameNested ==
  ASSUME NEW f, NEW names, NEW into PROVE Algebra!Nested(f, names, into) = Nested(f, names, into)
BY SamePlus, SameWithout, SameOrders, SameRestrict
   DEF Algebra!Nested, Nested, Algebra!RelationTy, RelationTy

LEMMA SameSummarizes ==
  ASSUME NEW f, NEW keys, NEW g PROVE Algebra!Summarizes(f, keys, g) <=> Summarizes(f, keys, g)
BY SameRestrict DEF Algebra!Summarizes, Summarizes

-----------------------------------------------------------------------------

(***************************************************************************)
(* Each header a constructor makes is explained by the algebra.            *)
(***************************************************************************)
LEMMA OneExplained ==
  ASSUME NEW H, Closed(H), NEW s \in H, NEW kind, NEW arg, NEW h, MadeOne(kind, arg, s, h)
  PROVE  Algebra!OnOne(kind, HeaderFn(s), HeaderFn(h))
<1> DEFINE f == HeaderFn(s)
           g == HeaderFn(h)
<1>1. CASE /\ kind = "Project" /\ arg.attrs \in AttributeSets
           /\ Gives(ProjectHeader(s, arg.attrs), h)
  <2>1. g \in Projected(f, ToSet(arg.attrs))
    BY <1>1, ProjectFollows
  <2>2. ToSet(arg.attrs) \in SUBSET DOMAIN f
    BY <2>1 DEF Projected, When
  <2> HIDE DEF f, g
  <2>3. \E names \in SUBSET DOMAIN f : g \in Algebra!Projected(f, names)
    BY <2>1, <2>2, SameProjected
  <2> QED
    BY <1>1, <2>3 DEF Algebra!OnOne, f, g
<1>2. CASE kind = "Restrict" /\ Gives(RestrictHeader(s, arg.predicate), h)
  <2>1. h = s
    BY <1>2, RestrictSafe
  <2> QED
    BY <1>2, <2>1 DEF Algebra!OnOne
<1>3. CASE /\ kind = "Rename" /\ arg.from \in Name /\ arg.to \in Name
           /\ Gives(RenameHeader(s, arg.from, arg.to), h)
  <2>1. g \in Renamed(f, arg.from, arg.to)
    BY <1>3, RenameFollows
  <2> HIDE DEF f, g
  <2>2. \E from, to \in Name : g \in Algebra!Renamed(f, from, to)
    BY <1>3, <2>1, SameRenamed
  <2> QED
    BY <1>3, <2>2 DEF Algebra!OnOne, f, g
<1>4. CASE /\ kind = "Extend" /\ arg.name \in Name /\ arg.expr \in Expr
           /\ Gives(ExtendHeader(s, arg.name, arg.expr), h)
  <2>1. arg.name \in DOMAIN g /\ g \in Extended(f, arg.name, g[arg.name])
    BY <1>4, ExtendFollows
  <2> HIDE DEF f, g
  <2>2. \E n \in DOMAIN g : g \in Algebra!Extended(f, n, g[n])
    BY <2>1, SameExtended
  <2> QED
    BY <1>4, <2>2 DEF Algebra!OnOne, f, g
<1>5. CASE /\ kind = "Summarize" /\ arg.by \in GroupingSets /\ arg.aggs \in NamedAggSets
           /\ Gives(SummarizeHeader(s, arg.by, arg.aggs), h)
  <2>1. Summarizes(f, ToSet(arg.by), g)
    BY <1>5, SummarizeFollows
  <2> HIDE DEF f, g
  <2>2. ToSet(arg.by) \in SUBSET DOMAIN f /\ Algebra!Summarizes(f, ToSet(arg.by), g)
    BY <2>1, SameSummarizes DEF Summarizes
  <2>3. \E keys \in SUBSET DOMAIN f : Algebra!Summarizes(f, keys, g)
    BY <2>2
  <2> QED
    BY <1>5, <2>3 DEF Algebra!OnOne, f, g
<1>6. CASE kind \in {"Order", "Limit"} /\ h = s
  BY <1>6 DEF Algebra!OnOne
<1>7. CASE kind = "Unnest" /\ Gives(UnnestHeader(s, arg.path), h)
  <2> DEFINE n == arg.path.steps[1].name
  <2>1. g \in Unnested(f, n)
    BY <1>7, UnnestFollows
  <2> HIDE DEF f, g, n
  <2>2. n \in DOMAIN f
    BY <2>1 DEF Unnested
  <2>3. \E m \in DOMAIN f : g \in Algebra!Unnested(f, m)
    BY <2>1, <2>2, SameUnnested
  <2> QED
    BY <1>7, <2>3 DEF Algebra!OnOne, f, g
<1>8. CASE /\ kind = "Nest" /\ arg.attrs \in AttributeSets /\ arg.into \in Name
           /\ Gives(NestHeader(s, arg.attrs, arg.into), h)
  <2>1. g \in Nested(f, ToSet(arg.attrs), arg.into)
    BY <1>8, NestFollows
  <2> HIDE DEF f, g
  <2>2. ToSet(arg.attrs) \in SUBSET DOMAIN f
    BY <2>1 DEF Nested
  <2>3. \E names \in SUBSET DOMAIN f, into \in Name : g \in Algebra!Nested(f, names, into)
    BY <1>8, <2>1, <2>2, SameNested
  <2> QED
    BY <1>8, <2>3 DEF Algebra!OnOne, f, g
<1> QED
  BY <1>1, <1>2, <1>3, <1>4, <1>5, <1>6, <1>7, <1>8 DEF MadeOne

LEMMA TwoExplained ==
  ASSUME NEW H, Closed(H), NEW l \in H, NEW r \in H, NEW kind, NEW arg, NEW h,
         MadeTwo(kind, arg, l, r, h)
  PROVE  Algebra!OnTwo(kind, HeaderFn(l), HeaderFn(r), HeaderFn(h))
<1> DEFINE f == HeaderFn(l)
           g == HeaderFn(r)
           k == HeaderFn(h)
<1>1. CASE kind = "Modify" /\ Gives(ModifyHeader(l, arg.path, r), h)
  <2> DEFINE n == arg.path.steps[1].name
  <2>1. k \in Refocused(f, n, r)
    BY <1>1, ModifyFollows
  <2>2. r \in Orders(g)
    BY OrdersOf DEF Closed
  <2> HIDE DEF f, g, k, n
  <2>3. n \in DOMAIN f
    BY <2>1 DEF Refocused, When
  <2>4. \E m \in DOMAIN f, s \in Algebra!Orders(g) : k \in Algebra!Refocused(f, m, s)
    BY <2>1, <2>2, <2>3, SameRefocused, SameOrders
  <2> QED
    BY <1>1, <2>4 DEF Algebra!OnTwo, f, g, k
<1>2. CASE kind \in {"Union", "Intersect", "Difference"} /\ Gives(SetOpHeader(l, r), h)
  <2>1. h = l /\ h = r
    BY <1>2 DEF Gives, SetOpHeader, Ok, Err
  <2>2. k \in Algebra!Same(f, g)
    BY <2>1 DEF Algebra!Same, Algebra!When
  <2> QED
    BY <1>2, <2>2 DEF Algebra!OnTwo
<1>3. ASSUME Gives(ConcatDisjoint(l, r), h)
      PROVE  k \in Algebra!Concatenated(f, g)
  <2>1. Shared(l, r) = {} /\ h = l \o r /\ Safe(H, h)
    BY <1>3, ConcatSafe
  <2>2. k \in Concatenated(f, g)
    BY <2>1, ConcatFollows
  <2> QED
    BY <2>2, SameConcatenated
<1>4. CASE kind = "Product" /\ Gives(ConcatDisjoint(l, r), h)
  BY <1>3, <1>4 DEF Algebra!OnTwo
<1>5. CASE /\ kind = "Join" /\ KnownOn(arg.on)
           /\ ~BecomesProduct(l, r, arg.kind, arg.on)
           /\ Gives(JoinHeader(l, r, arg.kind, arg.on), h)
  <2>1. /\ arg.on.k = "Natural" => Agreeing(l, r) /\ h = JoinedList(l, r)
        /\ arg.on.k # "Natural" => Shared(l, r) = {} /\ h = l \o r
        /\ Safe(H, h)
    BY <1>5, JoinSafe
  <2>2. CASE arg.on.k = "Natural"
    <3>1. k \in Coalesced(f, g)
      BY <2>1, <2>2, NaturalFollows
    <3> QED
      BY <1>5, <3>1, SameCoalesced DEF Algebra!OnTwo
  <2>3. CASE arg.on.k # "Natural"
    <3>1. k \in Concatenated(f, g)
      BY <2>1, <2>3, ConcatFollows
    <3> QED
      BY <1>5, <3>1, SameConcatenated DEF Algebra!OnTwo
  <2> QED
    BY <2>2, <2>3
<1> QED
  BY <1>1, <1>2, <1>4, <1>5 DEF MadeTwo

(***************************************************************************)
(* The list of expressions the operators stand for, and what a step does   *)
(* to it: nothing, or one more expression that the algebra explains.       *)
(***************************************************************************)
Exprs(nodes) == [i \in DOMAIN nodes |-> Abstract(nodes[i])]

ExplainedIn(exprs, x) ==
  \/ x.kind = "Source" /\ x.inputs = <<>>
  \/ \E i \in DOMAIN exprs : x.inputs = <<i>> /\ Algebra!OnOne(x.kind, exprs[i].header, x.header)
  \/ \E i, j \in DOMAIN exprs :
       /\ x.inputs = <<i, j>>
       /\ Algebra!OnTwo(x.kind, exprs[i].header, exprs[j].header, x.header)

LEMMA MadeExplained ==
  ASSUME NEW H, Closed(H), NEW nodes, \A i \in DOMAIN nodes : nodes[i].schema \in H,
         NEW kind, NEW inputs, NEW arg, NEW h, MadeFrom(nodes, kind, inputs, arg, h)
  PROVE  ExplainedIn(Exprs(nodes), Abstract(Node(kind, inputs, arg, h)))
<1> DEFINE x == Abstract(Node(kind, inputs, arg, h))
           e == Exprs(nodes)
<1>1. x.kind = kind /\ x.inputs = inputs /\ x.header = HeaderFn(h)
  BY DEF Abstract, Node
<1>2. DOMAIN e = DOMAIN nodes /\ \A i \in DOMAIN nodes : e[i].header = HeaderFn(nodes[i].schema)
  BY DEF Exprs, Abstract
<1> HIDE DEF x, e
<1>3. ASSUME kind = "Source", inputs = <<>> PROVE ExplainedIn(e, x)
  BY <1>1, <1>3 DEF ExplainedIn
<1>4. ASSUME NEW i \in DOMAIN nodes, inputs = <<i>>, MadeOne(kind, arg, nodes[i].schema, h)
      PROVE  ExplainedIn(e, x)
  <2>1. Algebra!OnOne(kind, HeaderFn(nodes[i].schema), HeaderFn(h))
    BY <1>4, OneExplained
  <2>2. i \in DOMAIN e /\ x.inputs = <<i>> /\ Algebra!OnOne(x.kind, e[i].header, x.header)
    BY <1>1, <1>2, <1>4, <2>1
  <2> QED
    BY <2>2 DEF ExplainedIn
<1>5. ASSUME NEW i \in DOMAIN nodes, NEW j \in DOMAIN nodes, inputs = <<i, j>>,
             MadeTwo(kind, arg, nodes[i].schema, nodes[j].schema, h)
      PROVE  ExplainedIn(e, x)
  <2>1. Algebra!OnTwo(kind, HeaderFn(nodes[i].schema), HeaderFn(nodes[j].schema), HeaderFn(h))
    BY <1>5, TwoExplained
  <2>2. /\ i \in DOMAIN e /\ j \in DOMAIN e /\ x.inputs = <<i, j>>
        /\ Algebra!OnTwo(x.kind, e[i].header, e[j].header, x.header)
    BY <1>1, <1>2, <1>5, <2>1
  <2> QED
    BY <2>2 DEF ExplainedIn
<1> QED
  BY <1>3, <1>4, <1>5 DEF MadeFrom, x, e

LEMMA SchemaFits ==
  ASSUME NEW h, Built(h) PROVE Fits(HeaderFn(h))
BY ValidFits DEF Built, Listed, ValidHeader

LEMMA BuildStep ==
  IInv /\ Grows => [Algebra!Build]_(Exprs(ops))
<1> SUFFICES ASSUME IInv, Grows PROVE [Algebra!Build]_(Exprs(ops))
  OBVIOUS
<1>1. CASE UNCHANGED <<ops, schemas>>
  BY <1>1 DEF Exprs
<1>2. ASSUME NEW kind, NEW inputs, NEW arg, NEW h, Adds(kind, inputs, arg, h)
      PROVE  Algebra!Build
  <2> DEFINE x == Abstract(Node(kind, inputs, arg, h))
             new == Len(ops) + 1
  <2>0. TypeOK /\ Closed(schemas)
    BY DEF IInv
  <2>1. /\ DOMAIN ops = 1..Len(ops) /\ Len(ops) \in Nat
        /\ DOMAIN ops' = DOMAIN ops \cup {new} /\ new \notin DOMAIN ops
        /\ \A i \in DOMAIN ops : ops'[i] = ops[i]
        /\ ops'[new] = Node(kind, inputs, arg, h)
    BY <1>2, <2>0, AddedIs
  <2>2. Safe(schemas, h)
    BY <1>2, <2>0, MadeSafe DEF Adds
  <2>3. Algebra!Fits(x.header)
    BY <2>2, SchemaFits, SameFits DEF Safe, Abstract, Node
  <2>4. ExplainedIn(Exprs(ops), x)
    BY <1>2, <2>0, MadeExplained DEF Adds, TypeOK
  <2> HIDE DEF x
  <2>5. /\ Exprs(ops) = [i \in 1..Len(ops) |-> Abstract(ops[i])]
        /\ Len(Exprs(ops)) = Len(ops)
    BY <2>1 DEF Exprs
  <2>6. Exprs(ops)' = Exprs(ops')
    BY DEF Exprs
  <2>7. Exprs(ops') = [i \in 1..new |-> IF i = new THEN x ELSE Abstract(ops[i])]
    BY <2>1 DEF Exprs, x
  <2>8. /\ Exprs(ops') = Append(Exprs(ops), x)
        /\ Len(Exprs(ops')) = new
        /\ Exprs(ops')[new] = x
    BY <2>1, <2>5, <2>7
  <2>9. Algebra!Explained(x)
    BY <2>4 DEF Algebra!Explained, ExplainedIn, Exprs
  <2>10. /\ Exprs(ops)' = Append(Exprs(ops), x)
         /\ Len(Exprs(ops)') = Len(Exprs(ops)) + 1
         /\ x = Exprs(ops)'[Len(Exprs(ops)) + 1]
    BY <2>5, <2>6, <2>8
  <2> QED
    BY <2>3, <2>9, <2>10 DEF Algebra!Build, Exprs
<1> QED
  BY <1>1, <1>2 DEF Grows

(***************************************************************************)
(* The builder implements the algebra of unordered headers: whatever calls *)
(* a client makes, each operator it is given is one the algebra explains   *)
(* by the operators it was built on, and none ever changes                 *)
(* (op.rs:349-983).                                                        *)
(***************************************************************************)
THEOREM BuilderImplementsAlgebra == Spec => ImplementsAlgebra
<1>1. Init => Algebra!Init
  BY DEF Init, Algebra!Init
<1>2. IInv /\ [Next]_vars => [Algebra!Build]_(Exprs(ops))
  <2>1. IInv /\ Next => Grows
    BY StepAdds DEF IInv
  <2>2. UNCHANGED vars => Grows
    BY DEF vars, Grows
  <2> QED
    BY <2>1, <2>2, BuildStep
<1>3. Exprs(ops) = [i \in DOMAIN ops |-> Abstract(ops[i])]
  BY DEF Exprs
<1> QED
  BY <1>1, <1>2, Invariance, PTL DEF Spec, ImplementsAlgebra, Algebra!Spec, Exprs

(***************************************************************************)
(* Whichever two of three headers are joined first.                        *)
(***************************************************************************)
LEMMA EitherWay ==
  ASSUME NEW l, Built(l), NEW m, Built(m), NEW r, Built(r)
  PROVE  Regroups(l, m, r)
<1> DEFINE triple == Triple(HeaderFn(l), HeaderFn(m), HeaderFn(r))
           first == Then(Joined(l, m), LAMBDA s : Joined(s, r))
           last == Then(Joined(m, r), LAMBDA s : Joined(l, s))
<1>1. first = IF Joined(l, m).ok THEN Joined(Joined(l, m).val, r) ELSE Joined(l, m)
  BY DEF Then
<1>2. last = IF Joined(m, r).ok THEN Joined(l, Joined(m, r).val) ELSE Joined(m, r)
  BY DEF Then
<1> HIDE DEF first, last
<1>3. /\ Joins(l, m) => Joined(l, m) = Ok(JoinedList(l, m)) /\ Built(JoinedList(l, m))
      /\ ~Joins(l, m) => Joined(l, m).ok = FALSE
  BY InnerNaturalIs, JoinedBuilt DEF Joined, Joins
<1>4. /\ Joins(m, r) => Joined(m, r) = Ok(JoinedList(m, r)) /\ Built(JoinedList(m, r))
      /\ ~Joins(m, r) => Joined(m, r).ok = FALSE
  BY InnerNaturalIs, JoinedBuilt DEF Joined, Joins
<1>5. /\ triple => first = Ok(JoinedList(JoinedList(l, m), r))
      /\ ~triple => first.ok = FALSE
  <2>1. Joins(l, m) /\ Joins(JoinedList(l, m), r) <=> triple
    BY FirstJoins
  <2> HIDE DEF triple
  <2>2. CASE Joins(l, m)
    <3> DEFINE list == JoinedList(l, m)
    <3>1. Built(list) /\ first = Joined(list, r)
      BY <1>1, <1>3, <2>2 DEF Ok
    <3> HIDE DEF list
    <3>2. /\ Joins(list, r) => Joined(list, r) = Ok(JoinedList(list, r))
          /\ ~Joins(list, r) => Joined(list, r).ok = FALSE
      BY <3>1, InnerNaturalIs DEF Joined
    <3> QED
      BY <2>1, <2>2, <3>1, <3>2 DEF list
  <2>3. CASE ~Joins(l, m)
    BY <1>1, <1>3, <2>1, <2>3
  <2> QED
    BY <2>2, <2>3
<1>6. /\ triple => last = Ok(JoinedList(l, JoinedList(m, r)))
      /\ ~triple => last.ok = FALSE
  <2>1. Joins(m, r) /\ Joins(l, JoinedList(m, r)) <=> triple
    BY LastJoins
  <2> HIDE DEF triple
  <2>2. CASE Joins(m, r)
    <3> DEFINE list == JoinedList(m, r)
    <3>1. Built(list) /\ last = Joined(l, list)
      BY <1>2, <1>4, <2>2 DEF Ok
    <3> HIDE DEF list
    <3>2. /\ Joins(l, list) => Joined(l, list) = Ok(JoinedList(l, list))
          /\ ~Joins(l, list) => Joined(l, list).ok = FALSE
      BY <3>1, InnerNaturalIs DEF Joined
    <3> QED
      BY <2>1, <2>2, <3>1, <3>2 DEF list
  <2>3. CASE ~Joins(m, r)
    BY <1>2, <1>4, <2>1, <2>3
  <2> QED
    BY <2>2, <2>3
<1>7. triple => JoinedList(JoinedList(l, m), r) = JoinedList(l, JoinedList(m, r))
  <2>1. triple => ValidHeader(JoinedList(l, m))
    BY FirstJoins DEF Joins
  <2> HIDE DEF triple
  <2> QED
    BY <2>1, JoinedRegroups
<1> HIDE DEF triple
<1>8. first.ok = last.ok /\ (first.ok => first = last)
  BY <1>5, <1>6, <1>7 DEF Ok
<1> QED
  BY <1>8 DEF Regroups, first, last

(***************************************************************************)
(* Natural joins of the headers the program holds can be regrouped:        *)
(* whichever two of three are joined first, the attributes and their order *)
(* are the same, or both ways are refused (op.rs:881-912).                 *)
(***************************************************************************)
THEOREM JoinsAlwaysRegroup == Spec => []JoinsRegroup
<1>1. IInv => JoinsRegroup
  <2> SUFFICES ASSUME IInv PROVE JoinsRegroup
    OBVIOUS
  <2>1. \A i \in DOMAIN ops : Built(Schema(i))
    BY DEF IInv, TypeOK, Closed, Schema
  <2> QED
    BY <2>1, EitherWay DEF JoinsRegroup
<1> QED
  BY <1>1, Invariance, PTL
============================================================================
