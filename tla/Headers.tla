------------------------------ MODULE Headers ------------------------------
(***************************************************************************)
(* The header each smart constructor of op.rs computes, or the error it    *)
(* returns.  One operator per constructor, from the headers of the         *)
(* operands; the checks are made in the order of the code, and the first   *)
(* that fails decides.                                                     *)
(***************************************************************************)
EXTENDS Infer

CONSTANT MaxPathSteps   \* MAX_PATH_STEPS: 32 in the crate

ASSUME PathAssumption == MaxPathSteps \in Nat

-----------------------------------------------------------------------------

AlreadyExists(n) == Err([k |-> "AttributeAlreadyExists", attribute |-> n])

FindAttribute(s, n) == IF Has(s, n) THEN Ok(Find(s, n)) ELSE UnknownAttribute(n)

FindAll(s, names) == Collect([i \in DOMAIN names |-> FindAttribute(s, names[i])])

HeaderOf(attributes) == Wrap("Schema", SchemaTryNew(attributes))

-----------------------------------------------------------------------------

ProjectHeader(s, attrs) == Then(FindAll(s, attrs), HeaderOf)

(***************************************************************************)
(* The check restrict and the theta join make on a predicate, on their own *)
(* header: what was proved when the predicate was built does not count.    *)
(***************************************************************************)
\* A wrong Admit: the proof made on another header is trusted.
AdmitTrusting(e, s) ==
  IF ContainsAggregate(e) THEN Err([k |-> "AggregateOutsideSummarize"]) ELSE Ok(s)

Admit(e, s) ==
  IF ContainsAggregate(e) THEN Err([k |-> "AggregateOutsideSummarize"])
  ELSE Then(Wrap("Infer", BoolExpressionTryNew(s, e)), LAMBDA t : Ok(s))

RestrictHeader(s, e) == Admit(e, s)

\* A wrong RenameHeader: the result is neither compared nor checked.
RenameUnchecked(s, from, to) ==
  IF ~Has(s, from) THEN UnknownAttribute(from)
  ELSE Ok([i \in DOMAIN s |-> IF s[i].name = from THEN Column(to, s[i].ty) ELSE s[i]])

\* A wrong RenameHeader: a taken name is left to Schema::try_new.
RenameLate(s, from, to) ==
  IF ~Has(s, from) THEN UnknownAttribute(from)
  ELSE HeaderOf([i \in DOMAIN s |->
                   IF s[i].name = from THEN Column(to, s[i].ty) ELSE s[i]])

\* A wrong RenameHeader: the attribute is removed and put at the end.
RenameAtEnd(s, from, to) ==
  IF ~Has(s, from) THEN UnknownAttribute(from)
  ELSE IF from # to /\ Has(s, to) THEN AlreadyExists(to)
  ELSE HeaderOf(Append(Dropping(s, {from}), Column(to, TypeOf(s, from))))

RenameHeader(s, from, to) ==
  IF ~Has(s, from) THEN UnknownAttribute(from)
  ELSE IF from # to /\ Has(s, to) THEN AlreadyExists(to)
  ELSE HeaderOf([i \in DOMAIN s |->
                   IF s[i].name = from THEN Column(to, s[i].ty) ELSE s[i]])

\* A wrong ExtendHeader: the header of the operand is kept.
ExtendStale(s, n, e) ==
  IF Has(s, n) THEN AlreadyExists(n)
  ELSE IF ContainsAggregate(e) THEN Err([k |-> "AggregateOutsideSummarize"])
  ELSE Then(Wrap("Infer", InferTy(e, s)), LAMBDA t : HeaderOf(s))

ExtendHeader(s, n, e) ==
  IF Has(s, n) THEN AlreadyExists(n)
  ELSE IF ContainsAggregate(e) THEN Err([k |-> "AggregateOutsideSummarize"])
  ELSE Then(Wrap("Infer", InferTy(e, s)),
            LAMBDA t : HeaderOf(Append(s, Column(n, t))))

-----------------------------------------------------------------------------

(***************************************************************************)
(* Paths.  A step is [k |-> "Field", name |-> n], [k |-> "Each"] or        *)
(* [k |-> "Index", index |-> i]; a path carries its kind.  Modify and      *)
(* unnest go on only with a lens of one field that reaches a nested        *)
(* relation.                                                               *)
(***************************************************************************)
Each == [k |-> "Each"]

LensTryNew(steps) ==
  IF Len(steps) > MaxPathSteps THEN Err([k |-> "Length", actual |-> Len(steps)])
  ELSE IF Each \in ToSet(steps)
  THEN Err([k |-> "LensWithEach", index |-> SelectInSeq(steps, LAMBDA x : x = Each)])
  ELSE Ok([kind |-> "Lens", steps |-> steps])

TraversalTryNew(steps) ==
  IF Len(steps) > MaxPathSteps THEN Err([k |-> "Length", actual |-> Len(steps)])
  ELSE IF Each \in ToSet(steps) THEN Ok([kind |-> "Traversal", steps |-> steps])
  ELSE Err([k |-> "TraversalWithoutEach"])

IsOneField(path) ==
  path.kind = "Lens" /\ Len(path.steps) = 1 /\ path.steps[1].k = "Field"

NestedAt(s, path) ==
  IF ~IsOneField(path) THEN Err([k |-> "UnsupportedPathShape"])
  ELSE Then(FindAttribute(s, path.steps[1].name),
            LAMBDA a : IF IsRelationTy(a.ty) THEN Ok(a.name)
                       ELSE Err([k |-> "NotARelation", attribute |-> a.name]))

\* A wrong ModifyHeader: the column keeps its type.
ModifyStale(s, path, sub) == Then(NestedAt(s, path), LAMBDA n : Ok(s))

ModifyHeader(s, path, sub) ==
  Then(NestedAt(s, path),
       LAMBDA n : HeaderOf([i \in DOMAIN s |->
         IF s[i].name = n THEN Column(n, RelationTy(sub)) ELSE s[i]]))

\* A wrong UnnestHeader: the names brought up are not checked.
UnnestUnchecked(s, path) ==
  Then(NestedAt(s, path),
       LAMBDA n : Ok(Splicing(s, Position(s, n), TypeOf(s, n).schema)))

UnnestHeader(s, path) ==
  Then(NestedAt(s, path),
       LAMBDA n : HeaderOf(Splicing(s, Position(s, n), TypeOf(s, n).schema)))

(***************************************************************************)
(* The nested header lists its attributes in the order of attrs.           *)
(***************************************************************************)
\* A wrong NestRemaining: the nested attributes stay outside as well.
NestKeeping(s, attrs, into, nested) ==
  IF Has(s, into) THEN AlreadyExists(into)
  ELSE HeaderOf(Append(s, Column(into, RelationTy(nested))))

\* A wrong NestRemaining: the new name is left to Schema::try_new.
NestLate(s, attrs, into, nested) ==
  HeaderOf(Append(Dropping(s, ToSet(attrs)),
                  Column(into, RelationTy(nested))))

\* A wrong NestRemaining: a name that is being nested away is not free.
NestNeverReuses(s, attrs, into, nested) ==
  IF Has(s, into) THEN AlreadyExists(into)
  ELSE HeaderOf(Append(Dropping(s, ToSet(attrs)),
                       Column(into, RelationTy(nested))))

NestRemaining(s, attrs, into, nested) ==
  IF Has(s, into) /\ into \notin ToSet(attrs) THEN AlreadyExists(into)
  ELSE HeaderOf(Append(Dropping(s, ToSet(attrs)),
                       Column(into, RelationTy(nested))))

\* A wrong NestHeader: the nested header lists its attributes as the input does.
NestInOrder(s, attrs, into) ==
  Then(FindAll(s, attrs),
       LAMBDA found : NestRemaining(s, attrs, into,
                                    Dropping(s, NamesOf(s) \ ToSet(attrs))))

NestHeader(s, attrs, into) ==
  Then(ProjectHeader(s, attrs), LAMBDA nested : NestRemaining(s, attrs, into, nested))

-----------------------------------------------------------------------------

AggColumn(s, by, a) ==
  IF a.name \in ToSet(by) THEN AlreadyExists(a.name)
  ELSE Then(Wrap("Infer", AggTy(a.agg, s)), LAMBDA t : Ok(Column(a.name, t)))

AggColumns(s, by, aggs) == Collect([i \in DOMAIN aggs |-> AggColumn(s, by, aggs[i])])

SummarizeHeader(s, by, aggs) ==
  Then(FindAll(s, by),
       LAMBDA keys : Then(AggColumns(s, by, aggs), LAMBDA cols : HeaderOf(keys \o cols)))

\* A wrong SetOpHeader: the headers are not compared.
SetOpLeft(l, r) == Ok(l)

SetOpHeader(l, r) == IF l = r THEN Ok(l) ELSE Err([k |-> "SchemaMismatch"])

(***************************************************************************)
(* concat_disjoint_schemas                                                 *)
(***************************************************************************)
\* A wrong ConcatDisjoint: attributes the left side has are dropped.
ConcatDropping(l, r) == HeaderOf(l \o Dropping(r, NamesOf(l)))

\* A wrong ConcatDisjoint: an overlap is left to Schema::try_new.
ConcatLate(l, r) == HeaderOf(l \o r)

ConcatDisjoint(l, r) ==
  IF \E i \in DOMAIN r : Has(l, r[i].name)
  THEN Err([k |-> "DuplicateAcrossOperands",
            attribute |-> r[SelectInSeq(r, LAMBDA a : Has(l, a.name))].name])
  ELSE HeaderOf(l \o r)

(***************************************************************************)
(* join.  Natural: the shared attributes, in the order of the left side,   *)
(* must agree on their types; with none shared an inner join is a product. *)
(***************************************************************************)
Agrees(a, r) ==
  IF Has(r, a.name) /\ TypeOf(r, a.name) # a.ty
  THEN Err([k |-> "JoinTypeMismatch", attribute |-> a.name])
  ELSE Ok(a)

Shared(l, r) == NamesOf(l) \cap NamesOf(r)

\* A wrong BecomesProduct: a natural join is always kept.
NeverProduct(l, r, kind, on) == FALSE

BecomesProduct(l, r, kind, on) ==
  on.k = "Natural" /\ kind = "Inner" /\ Shared(l, r) = {}

\* A wrong NaturalHeader: the types of the shared attributes are not compared.
NaturalByName(l, r, kind, on) ==
  IF BecomesProduct(l, r, kind, on) THEN ConcatDisjoint(l, r)
  ELSE HeaderOf(l \o Dropping(r, NamesOf(l)))

\* A wrong NaturalHeader: the shared attributes are kept on neither side.
NaturalDropping(l, r, kind, on) ==
  HeaderOf(Dropping(l, NamesOf(r))
             \o Dropping(r, NamesOf(l)))

NaturalHeader(l, r, kind, on) ==
  Then(Collect([i \in DOMAIN l |-> Agrees(l[i], r)]),
       LAMBDA left : IF BecomesProduct(l, r, kind, on) THEN ConcatDisjoint(l, r)
                     ELSE HeaderOf(left \o Dropping(r, NamesOf(l))))

EquiPair(l, r, pair) ==
  Then(FindAttribute(l, pair.left),
       LAMBDA a : Then(FindAttribute(r, pair.right),
         LAMBDA b : IF a.ty = b.ty THEN Ok(pair)
                    ELSE Err([k |-> "JoinTypeMismatch", attribute |-> pair.left])))

EquiHeader(l, r, pairs) ==
  Then(Collect([i \in DOMAIN pairs |-> EquiPair(l, r, pairs[i])]),
       LAMBDA checked : ConcatDisjoint(l, r))

\* A wrong ThetaHeader: the predicate is not verified on the combined header.
ThetaTrusting(l, r, e) == ConcatDisjoint(l, r)

ThetaHeader(l, r, e) == Then(ConcatDisjoint(l, r), LAMBDA combined : Admit(e, combined))

JoinHeader(l, r, kind, on) ==
  CASE on.k = "Natural" -> NaturalHeader(l, r, kind, on)
    [] on.k = "Equi" -> EquiHeader(l, r, on.pairs)
    [] on.k = "Theta" -> ThetaHeader(l, r, on.predicate)
============================================================================
