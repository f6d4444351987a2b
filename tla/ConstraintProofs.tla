-------------------------- MODULE ConstraintProofs --------------------------
(***************************************************************************)
(* Proofs about canonical predicates and constraints, for every set of     *)
(* names, expressions and Schema values, and every limit.                  *)
(***************************************************************************)
EXTENDS ConstraintSafety, InferLemmas

(***************************************************************************)
(* What the three kinds of values are once they are built.                 *)
(***************************************************************************)
Proved ==
  {p \in {[expr |-> e, on |-> s] : e \in Expr, s \in SchemaSet} :
     BoolOn(p.expr, p.on) /\ ~ContainsAggregate(p.expr)}

OnAttr ==
  {c \in {AttributeConstraint(n, p) : n \in Name, p \in Proved} :
     FreeAttributes(c.predicate.expr) = {c.attr}}

OnRow == {[predicate |-> p] : p \in Proved}

(***************************************************************************)
(* The lists a client collects contain such values, and a set was within   *)
(* its bounds and without a repeated scope when it was built.              *)
(***************************************************************************)
IInv ==
  /\ held \subseteq Proved
  /\ perAttr \in Seq(OnAttr) /\ perRow \in Seq(OnRow)
  /\ set.perAttr \in Seq(OnAttr) /\ set.perRow \in Seq(OnRow)
  /\ Len(set.perAttr) <= MaxSchemaAttributes /\ Distinct(Scopes(set.perAttr))
  /\ Len(set.perRow) <= MaxSchemaAttributes

-----------------------------------------------------------------------------

LEMMA CanonicalOk ==
  ASSUME NEW s \in SchemaSet, NEW e \in Expr, CanonicalPredicateTryNew(s, e).ok
  PROVE  CanonicalPredicateTryNew(s, e).val \in Proved
<1> DEFINE typed == Wrap("Infer", BoolExpressionTryNew(s, e))
<1>1. ~ContainsAggregate(e)
  BY DEF CanonicalPredicateTryNew, Err
<1>2. CanonicalPredicateTryNew(s, e) =
        IF typed.ok THEN Ok([expr |-> e, on |-> s]) ELSE typed
  BY <1>1 DEF CanonicalPredicateTryNew, Then
<1>3. typed.ok => BoolExpressionTryNew(s, e).ok
  BY DEF Wrap, Err
<1>4. BoolExpressionTryNew(s, e).ok => BoolOn(e, s)
  BY DEF BoolExpressionTryNew, Demand, TypeMismatch, BoolOn, Ok, Err
<1> HIDE DEF typed
<1>5. BoolOn(e, s) /\ CanonicalPredicateTryNew(s, e).val = [expr |-> e, on |-> s]
  BY <1>2, <1>3, <1>4 DEF Ok
<1> QED
  BY <1>1, <1>5 DEF Proved

LEMMA AttributeConstraintOk ==
  ASSUME NEW n \in Name, NEW p \in Proved, AttributeConstraintTryNew(n, p).ok
  PROVE  AttributeConstraintTryNew(n, p).val \in OnAttr
<1>1. FreeAttributes(p.expr) = {n} /\ AttributeConstraintTryNew(n, p) = Ok(AttributeConstraint(n, p))
  BY DEF AttributeConstraintTryNew, Ok, Err
<1>2. AttributeConstraint(n, p).attr = n /\ AttributeConstraint(n, p).predicate = p
  BY DEF AttributeConstraint
<1> QED
  BY <1>1, <1>2 DEF OnAttr, Ok

LEMMA SetOk ==
  ASSUME NEW attrs \in Seq(OnAttr), NEW rows \in Seq(OnRow), ConstraintSetTryNew(attrs, rows).ok
  PROVE  /\ ConstraintSetTryNew(attrs, rows).val = ConstraintSet(attrs, rows)
         /\ Len(attrs) <= MaxSchemaAttributes /\ Distinct(Scopes(attrs))
         /\ Len(rows) <= MaxSchemaAttributes
<1>1. PerAttrTryNew(attrs).ok
  BY DEF ConstraintSetTryNew, Then
<1>2. Len(attrs) \in 0..MaxSchemaAttributes /\ Distinct(Scopes(attrs))
  BY <1>1 DEF PerAttrTryNew, Wrap, Checked, Ok, Err
<1>3. ConstraintSetTryNew(attrs, rows) =
        IF PerRowTryNew(rows).ok THEN Ok(ConstraintSet(attrs, rows)) ELSE PerRowTryNew(rows)
  BY <1>1 DEF ConstraintSetTryNew, Then
<1>4. PerRowTryNew(rows).ok => Len(rows) \in 0..MaxSchemaAttributes
  BY LenItemsOk DEF PerRowTryNew, Wrap, Err
<1>5. PerRowTryNew(rows).ok
  BY <1>3
<1>6. ConstraintSetTryNew(attrs, rows).val = ConstraintSet(attrs, rows)
  BY <1>3, <1>5 DEF Ok
<1> QED
  BY <1>2, <1>4, <1>5, <1>6, LimitAssumption

(***************************************************************************)
(* ConstraintSet::empty is the set of no constraint.                       *)
(***************************************************************************)
LEMMA EmptyIs == EmptySet = ConstraintSet(<<>>, <<>>)
<1>1. Checked(<<>>, Scopes(<<>>), 0, MaxSchemaAttributes) = Ok(<<>>)
  BY LimitAssumption DEF Checked, Scopes, Distinct, Ok
<1>2. PerAttrTryNew(<<>>).ok
  BY <1>1 DEF PerAttrTryNew, Ok
<1>3. PerRowTryNew(<<>>).ok
  BY LenItemsOk, LimitAssumption DEF PerRowTryNew, Wrap
<1> QED
  BY <1>2, <1>3 DEF EmptySet, ConstraintSetTryNew, Then, Ok

LEMMA EmptyGood ==
  /\ EmptySet.perAttr = <<>> /\ EmptySet.perRow = <<>>
  /\ Distinct(Scopes(<<>>))
BY EmptyIs DEF ConstraintSet, Distinct, Scopes

-----------------------------------------------------------------------------

LEMMA InitIInv == Init => IInv
<1> SUFFICES ASSUME Init PROVE IInv
  OBVIOUS
<1>1. held = {} /\ perAttr = <<>> /\ perRow = <<>>
  BY DEF Init
<1>2. set.perAttr = <<>> /\ set.perRow = <<>> /\ Distinct(Scopes(set.perAttr))
  BY EmptyGood DEF Init
<1>3. <<>> \in Seq(OnAttr) /\ <<>> \in Seq(OnRow)
  OBVIOUS
<1>4. Len(<<>>) <= MaxSchemaAttributes
  BY LimitAssumption
<1> QED
  BY <1>1, <1>2, <1>3, <1>4 DEF IInv

LEMMA NextIInv == IInv /\ [Next]_vars => IInv'
<1> SUFFICES ASSUME IInv, [Next]_vars PROVE IInv'
  OBVIOUS
<1>1. ASSUME NEW s \in SchemaSet, NEW e \in Expr, Prove(s, e) PROVE IInv'
  <2>1. held' \subseteq Proved
    BY <1>1, CanonicalOk DEF Prove, IInv
  <2>2. UNCHANGED <<perAttr, perRow, set>>
    BY <1>1 DEF Prove
  <2> QED
    BY <2>1, <2>2 DEF IInv
<1>2. ASSUME NEW p \in held, ForRow(p) PROVE IInv'
  <2>1. perRow' = Append(perRow, [predicate |-> p]) /\ UNCHANGED <<held, perAttr, set>>
    BY <1>2 DEF ForRow
  <2>2. [predicate |-> p] \in OnRow
    BY DEF OnRow, IInv
  <2>3. perRow' \in Seq(OnRow)
    BY <2>1, <2>2 DEF IInv
  <2> QED
    BY <2>1, <2>3 DEF IInv
<1>3. ASSUME NEW p \in held, NEW n \in Name, Scope(n, p) PROVE IInv'
  <2> DEFINE scoped == AttributeConstraintTryNew(n, p)
  <2>1. /\ perAttr' = IF scoped.ok THEN Append(perAttr, scoped.val) ELSE perAttr
        /\ UNCHANGED <<held, perRow, set>>
    BY <1>3 DEF Scope
  <2>2. p \in Proved
    BY DEF IInv
  <2>3. scoped.ok => scoped.val \in OnAttr
    BY <2>2, AttributeConstraintOk
  <2> HIDE DEF scoped
  <2>4. perAttr' \in Seq(OnAttr)
    BY <2>1, <2>3 DEF IInv
  <2> QED
    BY <2>1, <2>4 DEF IInv
<1>4. CASE Assemble
  <2> DEFINE assembled == ConstraintSetTryNew(perAttr, perRow)
  <2>1. /\ set' = IF assembled.ok THEN assembled.val ELSE set
        /\ UNCHANGED <<held, perAttr, perRow>>
    BY <1>4 DEF Assemble
  <2>2. assembled.ok =>
          /\ assembled.val.perAttr = perAttr /\ assembled.val.perRow = perRow
          /\ Len(perAttr) <= MaxSchemaAttributes /\ Distinct(Scopes(perAttr))
          /\ Len(perRow) <= MaxSchemaAttributes
    <3>1. perAttr \in Seq(OnAttr) /\ perRow \in Seq(OnRow)
      BY DEF IInv
    <3> HAVE assembled.ok
    <3>2. /\ assembled.val = ConstraintSet(perAttr, perRow)
          /\ Len(perAttr) <= MaxSchemaAttributes /\ Distinct(Scopes(perAttr))
          /\ Len(perRow) <= MaxSchemaAttributes
      BY <3>1, SetOk
    <3> QED
      BY <3>2 DEF ConstraintSet
  <2> HIDE DEF assembled
  <2> QED
    BY <2>1, <2>2 DEF IInv
<1>5. CASE Empty
  BY <1>5, EmptyGood, LimitAssumption DEF Empty, IInv
<1>6. CASE UNCHANGED vars
  BY <1>6 DEF IInv, vars
<1> QED
  BY <1>1, <1>2, <1>3, <1>4, <1>5, <1>6 DEF Next

(***************************************************************************)
(* What the client has collected, and what a set was built from, are       *)
(* proved predicates, in the scope they were given (constraint.rs:61-228). *)
(***************************************************************************)
THEOREM Invariance == Spec => []IInv
BY InitIInv, NextIInv, PTL DEF Spec

-----------------------------------------------------------------------------

(***************************************************************************)
(* Every predicate in use, held or inside a constraint or a set, is        *)
(* boolean and free of aggregates on the Schema it was proved on.          *)
(***************************************************************************)
LEMMA UsedProved ==
  ASSUME NEW list, list \in Seq(OnAttr) \/ list \in Seq(OnRow)
  PROVE  Used(list) \subseteq Proved
<1>1. \A c \in OnAttr \cup OnRow : c.predicate \in Proved
  BY DEF OnAttr, OnRow, AttributeConstraint
<1>2. ToSet(list) \subseteq OnAttr \cup OnRow
  BY DEF ToSet
<1> QED
  BY <1>1, <1>2 DEF Used

(***************************************************************************)
(* Every predicate in use, in a constraint or in a set built long ago too, *)
(* is boolean and free of aggregates on the Schema it was proved on        *)
(* (canonical.rs:46-60).                                                   *)
(***************************************************************************)
THEOREM PredicatesStayProved == Spec => []TypeOK
<1>1. IInv => TypeOK
  <2> SUFFICES ASSUME IInv PROVE TypeOK
    OBVIOUS
  <2>1. Canonical \subseteq Proved
    BY UsedProved DEF IInv, Canonical
  <2> QED
    BY <2>1 DEF TypeOK, Proved
<1> QED
  BY <1>1, Invariance, PTL

(***************************************************************************)
(* A ConstraintSet has at most one constraint on an attribute, whose       *)
(* predicate names that attribute and no other, and is within its bounds.  *)
(***************************************************************************)
THEOREM SetsStayScoped == Spec => []SetScoped
<1>1. IInv => SetScoped
  <2> SUFFICES ASSUME IInv PROVE SetScoped
    OBVIOUS
  <2>1. \A i \in DOMAIN set.perAttr : set.perAttr[i] \in OnAttr
    BY DEF IInv
  <2>2. \A c \in OnAttr : FreeAttributes(c.predicate.expr) = {c.attr}
    BY DEF OnAttr
  <2> QED
    BY <2>1, <2>2 DEF IInv, SetScoped, Scoped
<1> QED
  BY <1>1, Invariance, PTL

-----------------------------------------------------------------------------

(***************************************************************************)
(* A constraint on an attribute holds a predicate that is boolean on every *)
(* Schema that has the attribute with the same type.                       *)
(***************************************************************************)
THEOREM ScopesTravel == Spec => []ScopeTravels
<1>1. IInv => ScopeTravels
  <2> SUFFICES ASSUME IInv, NEW c \in ToSet(set.perAttr), NEW s \in SchemaSet,
                      SameColumn(c.attr, s, c.predicate.on)
               PROVE  BoolOn(c.predicate.expr, s)
    BY DEF ScopeTravels
  <2>1. c \in OnAttr
    BY DEF IInv, ToSet
  <2>2. c.predicate \in Proved /\ FreeAttributes(c.predicate.expr) = {c.attr}
    BY <2>1 DEF OnAttr, AttributeConstraint
  <2>3. c.predicate.expr \in Expr /\ BoolOn(c.predicate.expr, c.predicate.on)
    BY <2>2 DEF Proved
  <2>4. AgreeOn(FreeAttributes(c.predicate.expr), s, c.predicate.on)
    <3> DEFINE on == c.predicate.on
    <3>1. AgreeOn({c.attr}, s, on)
      <4>1. Has(s, c.attr) /\ Has(on, c.attr) /\ TypeOf(s, c.attr) = TypeOf(on, c.attr)
        BY DEF SameColumn
      <4> HIDE DEF on
      <4> QED
        BY <4>1 DEF AgreeOn
    <3> QED
      BY <2>2, <3>1
  <2>5. InferTy(c.predicate.expr, s) = InferTy(c.predicate.expr, c.predicate.on)
    BY <2>3, <2>4, SameTyping
  <2> QED
    BY <2>3, <2>5 DEF BoolOn
<1> QED
  BY <1>1, Invariance, PTL

-----------------------------------------------------------------------------

(***************************************************************************)
(* Giving a column another name takes its old name away and says nothing   *)
(* else of the header.                                                     *)
(***************************************************************************)
LEMMA HidingHides ==
  ASSUME NEW s \in SchemaSet, NEW n, Has(s, n)
  PROVE  /\ ~Has(Hiding(s, n), n)
         /\ \A names : names \subseteq NamesOf(s) \ {n} => AgreeOn(names, s, Hiding(s, n))
<1> DEFINE other == CHOOSE m \in Name : ~Has(s, m)
           hidden == Hiding(s, n)
<1>1. ~Has(s, other)
  BY FreshName
<1>2. hidden = [i \in DOMAIN s |-> IF s[i].name = n THEN Column(other, s[i].ty) ELSE s[i]]
  BY DEF Hiding
<1> HIDE DEF other, hidden
<1>3. other # n
  BY <1>1
<1>4. ASSUME NEW i \in DOMAIN s
      PROVE  /\ s[i].name # n => hidden[i] = s[i]
             /\ s[i].name = n => hidden[i].name = other
  BY <1>2 DEF Column
<1>5. DOMAIN hidden = DOMAIN s
  BY <1>2
<1>6. ASSUME NEW m, Has(s, m), m # n
      PROVE  Has(hidden, m) /\ TypeOf(s, m) = TypeOf(hidden, m)
  <2>1. \A i \in DOMAIN s : hidden[i].name = m <=> s[i].name = m
    BY <1>1, <1>4, <1>6 DEF Has
  <2>2. Position(hidden, m) = Position(s, m)
    BY <1>5, <2>1 DEF Position
  <2>3. \A i \in DOMAIN s : s[i].name = m => hidden[i] = s[i]
    BY <1>4, <1>6
  <2>4. ValidHeader(s)
    BY ConstraintAssumption, SchemaTryNewOk
  <2>5. Position(s, m) \in DOMAIN s /\ s[Position(s, m)].name = m
    BY <1>6, <2>4, FindByName DEF Find
  <2>6. TypeOf(s, m) = TypeOf(hidden, m)
    BY <2>2, <2>3, <2>5 DEF TypeOf, Find
  <2> QED
    BY <1>5, <2>1, <2>6, <1>6 DEF Has
<1>7. ~Has(hidden, n)
  BY <1>3, <1>4, <1>5 DEF Has
<1>8. ASSUME NEW names, names \subseteq NamesOf(s) \ {n}
      PROVE  AgreeOn(names, s, hidden)
  <2>1. \A m \in names : Has(s, m) /\ m # n
    BY <1>8 DEF NamesOf, Names, ToSet, Has
  <2>2. \A m \in names : Has(hidden, m) /\ TypeOf(s, m) = TypeOf(hidden, m)
    BY <1>6, <2>1
  <2> QED
    BY <2>1, <2>2 DEF AgreeOn
<1> QED
  BY <1>7, <1>8 DEF hidden

(***************************************************************************)
(* The attributes a canonical predicate names are those its typing needs.  *)
(***************************************************************************)
LEMMA NeededIsFree ==
  ASSUME NEW p \in Proved
  PROVE  FreeAttributes(p.expr) = Needed(p) /\ FreeAttributes(p.expr) \subseteq NamesOf(p.on)
<1>1. /\ p.expr \in Expr /\ p.on \in SchemaSet
      /\ InferTy(p.expr, p.on).ok /\ ~ContainsAggregate(p.expr)
  BY DEF Proved, BoolOn
<1>2. FreeAttributes(p.expr) \subseteq NamesOf(p.on)
  BY <1>1, AcceptedCloses
<1>3. ASSUME NEW n \in NamesOf(p.on)
      PROVE  n \in FreeAttributes(p.expr) <=> ~InferTy(p.expr, Hiding(p.on, n)).ok
  <2>1. Has(p.on, n)
    BY <1>3 DEF NamesOf, Names, ToSet, Has
  <2>2. CASE n \in FreeAttributes(p.expr)
    <3>1. n \notin NamesOf(Hiding(p.on, n))
      BY <1>1, <2>1, HidingHides DEF NamesOf, Names, ToSet, Has
    <3> QED
      BY <1>1, <2>2, <3>1, AcceptedCloses
  <2>3. CASE n \notin FreeAttributes(p.expr)
    <3>1. AgreeOn(FreeAttributes(p.expr), p.on, Hiding(p.on, n))
      BY <1>1, <1>2, <2>1, <2>3, HidingHides
    <3> QED
      BY <1>1, <2>3, <3>1, SameTyping
  <2> QED
    BY <2>2, <2>3
<1> QED
  BY <1>2, <1>3 DEF Needed

(***************************************************************************)
(* An attribute is free in a canonical predicate exactly when the          *)
(* predicate has no type once the column is hidden (canonical.rs:76-112).  *)
(***************************************************************************)
THEOREM FreeAreNeeded == Spec => []FreeIsNeeded
<1>1. IInv => FreeIsNeeded
  <2> SUFFICES ASSUME IInv, NEW p \in Canonical PROVE FreeAttributes(p.expr) = Needed(p)
    BY DEF FreeIsNeeded
  <2>1. p \in Proved
    BY UsedProved DEF IInv, Canonical
  <2> QED
    BY <2>1, NeededIsFree
<1> QED
  BY <1>1, Invariance, PTL

-----------------------------------------------------------------------------

(***************************************************************************)
(* A header of one column.                                                 *)
(***************************************************************************)
LEMMA OneColumn ==
  ASSUME NEW n, NEW t
  PROVE  LET h == <<Column(n, t)>>
         IN  NamesOf(h) = {n} /\ Has(h, n) /\ TypeOf(h, n) = t
<1> DEFINE h == <<Column(n, t)>>
<1>1. DOMAIN h = {1} /\ h[1].name = n /\ h[1].ty = t
  BY DEF Column
<1> HIDE DEF h
<1>2. NamesOf(h) = {n} /\ Has(h, n)
  BY <1>1 DEF NamesOf, Names, ToSet, Has
<1>3. Position(h, n) = 1
  BY <1>1 DEF Position
<1> QED
  BY <1>1, <1>2, <1>3 DEF TypeOf, Find, h

(***************************************************************************)
(* The walk over free attributes meets one of them first.                  *)
(***************************************************************************)
LEMMA LeastIsOne ==
  ASSUME NEW names \in SUBSET Name, names # {}
  PROVE  Least(names) \in names
<1> DEFINE Ranks == {Rank[n] : n \in names}
<1>1. Ranks \subseteq Nat /\ Ranks # {}
  BY ConstraintAssumption
<1>2. PICK r \in Ranks : \A q \in Ranks : r <= q
  BY <1>1, LeastInSeq
<1>3. PICK n \in names : Rank[n] = r
  OBVIOUS
<1>4. ASSUME NEW m \in names \ {n} PROVE Rank[n] < Rank[m]
  <2>1. Rank[n] \in Nat /\ Rank[m] \in Nat /\ Rank[n] # Rank[m]
    BY ConstraintAssumption
  <2>2. r <= Rank[m]
    BY <1>2
  <2> QED
    BY <1>3, <2>1, <2>2
<1> QED
  BY <1>3, <1>4 DEF Least

(***************************************************************************)
(* One attribute is all that is needed exactly when the predicate needs it *)
(* and is boolean on a header that has no other column.                    *)
(***************************************************************************)
LEMMA AloneIsEnough ==
  ASSUME NEW p \in Proved, NEW n \in FreeAttributes(p.expr)
  PROVE  FreeAttributes(p.expr) = {n} <=> TypedAlone(p, n)
<1> DEFINE alone == <<Column(n, TypeOf(p.on, n))>>
<1>1. /\ p.expr \in Expr /\ p.on \in SchemaSet
      /\ BoolOn(p.expr, p.on) /\ ~ContainsAggregate(p.expr)
  BY DEF Proved
<1>2. NamesOf(alone) = {n} /\ Has(alone, n) /\ TypeOf(alone, n) = TypeOf(p.on, n)
  BY OneColumn
<1>3. TypedAlone(p, n) <=> BoolOn(p.expr, alone)
  BY DEF TypedAlone
<1>4. Has(p.on, n)
  BY NeededIsFree DEF NamesOf, Names, ToSet, Has
<1> HIDE DEF alone
<1>5. ASSUME FreeAttributes(p.expr) = {n} PROVE BoolOn(p.expr, alone)
  <2>1. AgreeOn(FreeAttributes(p.expr), alone, p.on)
    BY <1>2, <1>4, <1>5 DEF AgreeOn
  <2> QED
    BY <1>1, <2>1, SameTyping DEF BoolOn
<1>6. ASSUME BoolOn(p.expr, alone) PROVE FreeAttributes(p.expr) = {n}
  <2>1. FreeAttributes(p.expr) \subseteq NamesOf(alone)
    BY <1>1, <1>6, AcceptedCloses DEF BoolOn
  <2> QED
    BY <1>2, <2>1
<1> QED
  BY <1>3, <1>5, <1>6

(***************************************************************************)
(* AttributeConstraint::try_new accepts exactly the predicates that can be *)
(* checked on the attribute alone and need it, and blames what is wrong    *)
(* with the others (constraint.rs:61-92).                                  *)
(***************************************************************************)
THEOREM ScopesExact == Spec => []ScopeExact
<1>1. IInv => ScopeExact
  <2> SUFFICES ASSUME IInv, NEW p \in Canonical, NEW n \in Name
               PROVE  LET scoped == AttributeConstraintTryNew(n, p)
                      IN  /\ scoped.ok <=> n \in Needed(p) /\ TypedAlone(p, n)
                          /\ ~scoped.ok =>
                               CASE scoped.err.k = "ConstantPredicate" ->
                                      \A s \in SchemaSet : BoolOn(p.expr, s)
                                 [] scoped.err.k = "MissingScope" ->
                                      n \notin Needed(p) /\ Needed(p) # {}
                                 [] scoped.err.k = "ForeignAttribute" ->
                                      scoped.err.foreign \in Needed(p) \ {n}
    BY DEF ScopeExact
  <2> DEFINE free == FreeAttributes(p.expr)
             scoped == AttributeConstraintTryNew(n, p)
             Accepts == scoped.ok <=> n \in free /\ TypedAlone(p, n)
             Blames ==
               CASE scoped.err.k = "ConstantPredicate" -> \A s \in SchemaSet : BoolOn(p.expr, s)
                 [] scoped.err.k = "MissingScope" -> n \notin free /\ free # {}
                 [] scoped.err.k = "ForeignAttribute" -> scoped.err.foreign \in free \ {n}
  <2>1. p \in Proved
    BY UsedProved DEF IInv, Canonical
  <2>2. p.expr \in Expr /\ p.on \in SchemaSet /\ BoolOn(p.expr, p.on)
    BY <2>1 DEF Proved
  <2>3. free = Needed(p) /\ free \subseteq Name
    BY <2>1, <2>2, NeededIsFree, ConstraintAssumption
  <2>4. n \in free => (free = {n} <=> TypedAlone(p, n))
    BY <2>1, AloneIsEnough
  <2>5. scoped =
          IF free = {} THEN Err([k |-> "ConstantPredicate", scope |-> n])
          ELSE IF n \notin free THEN Err([k |-> "MissingScope", scope |-> n])
          ELSE IF free # {n}
          THEN Err([k |-> "ForeignAttribute", scope |-> n, foreign |-> Least(free \ {n})])
          ELSE Ok(AttributeConstraint(n, p))
    BY DEF AttributeConstraintTryNew
  <2>6. ASSUME free = {}, NEW s \in SchemaSet PROVE BoolOn(p.expr, s)
    <3>1. AgreeOn(FreeAttributes(p.expr), s, p.on)
      BY <2>6 DEF AgreeOn
    <3> QED
      BY <2>2, <3>1, SameTyping DEF BoolOn
  <2>7. n \in free /\ free # {n} => Least(free \ {n}) \in free \ {n}
    BY <2>3, LeastIsOne
  <2> HIDE DEF free, scoped
  <2> SUFFICES Accepts /\ (~scoped.ok => Blames)
    BY <2>3 DEF scoped
  <2>8. CASE free = {}
    <3>1. ~scoped.ok /\ scoped.err.k = "ConstantPredicate"
      BY <2>5, <2>8 DEF Err
    <3> QED
      BY <2>6, <2>8, <3>1
  <2>9. CASE free # {} /\ n \notin free
    <3>1. ~scoped.ok /\ scoped.err.k = "MissingScope"
      BY <2>5, <2>9 DEF Err
    <3> QED
      BY <2>9, <3>1
  <2>10. CASE n \in free /\ free # {n}
    <3>1. /\ ~scoped.ok /\ scoped.err.k = "ForeignAttribute"
          /\ scoped.err.foreign = Least(free \ {n})
      BY <2>5, <2>10 DEF Err
    <3> QED
      BY <2>4, <2>7, <2>10, <3>1
  <2>11. CASE free = {n}
    <3>1. scoped.ok
      BY <2>5, <2>11 DEF Ok
    <3> QED
      BY <2>4, <2>11, <3>1
  <2> QED
    BY <2>8, <2>9, <2>10, <2>11
<1> QED
  BY <1>1, Invariance, PTL
=============================================================================
