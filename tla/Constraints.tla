---------------------------- MODULE Constraints ----------------------------
(***************************************************************************)
(* Canonical predicates and the constraints made of them: canonical.rs and *)
(* constraint.rs, called by a client in any order.                         *)
(*                                                                         *)
(* A canonical predicate is [expr, on], where on is the Schema it was      *)
(* proved on; the code does not keep it, and no action reads it.           *)
(* `held` contains the last one the client built, `perAttr` and `perRow`   *)
(* are the lists of constraints it has collected, `set` is the last        *)
(* ConstraintSet it built, and `outcome` is what the last constructor      *)
(* answered.                                                               *)
(***************************************************************************)
EXTENDS Infer

CONSTANTS
  SchemaSet,    \* the Schema values the client holds
  Rank,         \* the place of every name in the order of AttributeName
  MaxCollected  \* a bound on the constraints the client collects

VARIABLES held, perAttr, perRow, set, outcome

vars == <<held, perAttr, perRow, set, outcome>>

ASSUME ConstraintAssumption ==
  /\ \A s \in SchemaSet : SchemaTryNew(s).ok /\ NamesOf(s) \subseteq Name
  /\ \A n \in Name : Rank[n] \in Nat
  /\ \A n, m \in Name : Rank[n] = Rank[m] => n = m
  /\ MaxCollected \in Nat

-----------------------------------------------------------------------------

\* A wrong CanonicalPredicateTryNew: any type will do.
TypedOnly(s, e) ==
  IF ContainsAggregate(e) THEN Err([k |-> "ContainsAggregate"])
  ELSE Then(Wrap("Infer", InferTy(e, s)), LAMBDA t : Ok([expr |-> e, on |-> s]))

CanonicalPredicateTryNew(s, e) ==
  IF ContainsAggregate(e) THEN Err([k |-> "ContainsAggregate"])
  ELSE Then(Wrap("Infer", BoolExpressionTryNew(s, e)),
            LAMBDA t : Ok([expr |-> e, on |-> s]))

(***************************************************************************)
(* The free attributes are walked in the order of their names.             *)
(***************************************************************************)
Least(names) == CHOOSE n \in names : \A m \in names \ {n} : Rank[n] < Rank[m]

AttributeConstraint(n, p) == [attr |-> n, predicate |-> p]

\* A wrong AttributeConstraintTryNew: other attributes may be named as well.
ScopeMentioned(n, p) ==
  LET free == FreeAttributes(p.expr)
  IN  IF free = {} THEN Err([k |-> "ConstantPredicate", scope |-> n])
      ELSE IF n \notin free THEN Err([k |-> "MissingScope", scope |-> n])
      ELSE Ok(AttributeConstraint(n, p))

\* A wrong AttributeConstraintTryNew: the first free attribute is reported as foreign.
ForeignFirst(n, p) ==
  LET free == FreeAttributes(p.expr)
  IN  IF free = {} THEN Err([k |-> "ConstantPredicate", scope |-> n])
      ELSE IF n \notin free THEN Err([k |-> "MissingScope", scope |-> n])
      ELSE IF free # {n}
      THEN Err([k |-> "ForeignAttribute", scope |-> n, foreign |-> Least(free)])
      ELSE Ok(AttributeConstraint(n, p))

AttributeConstraintTryNew(n, p) ==
  LET free == FreeAttributes(p.expr)
  IN  IF free = {} THEN Err([k |-> "ConstantPredicate", scope |-> n])
      ELSE IF n \notin free THEN Err([k |-> "MissingScope", scope |-> n])
      ELSE IF free # {n}
      THEN Err([k |-> "ForeignAttribute", scope |-> n, foreign |-> Least(free \ {n})])
      ELSE Ok(AttributeConstraint(n, p))

(***************************************************************************)
(* ConstraintSet::try_new: the list of attribute constraints is checked    *)
(* first, its length and then its scopes, and the row constraints after.   *)
(***************************************************************************)
Scopes(constraints) == [i \in DOMAIN constraints |-> constraints[i].attr]

\* A wrong PerAttrTryNew: two constraints may have one scope.
PerAttrUnkeyed(constraints) ==
  Wrap("PerAttributeLength", LenItems(constraints, 0, MaxSchemaAttributes))

PerAttrTryNew(constraints) ==
  LET checked == Checked(constraints, Scopes(constraints), 0, MaxSchemaAttributes)
  IN  IF checked.ok THEN checked
      ELSE IF checked.err.k = "LenOutOfRange"
      THEN Wrap("PerAttributeLength", checked) ELSE Wrap("PerAttributeDuplicate", checked)

PerRowTryNew(constraints) ==
  Wrap("PerRow", LenItems(constraints, 0, MaxSchemaAttributes))

ConstraintSet(attrs, rows) == [perAttr |-> attrs, perRow |-> rows]

ConstraintSetTryNew(attrs, rows) ==
  Then(PerAttrTryNew(attrs),
       LAMBDA a : Then(PerRowTryNew(rows), LAMBDA r : Ok(ConstraintSet(attrs, rows))))

-----------------------------------------------------------------------------

Answer(call, result) ==
  outcome' = [call |-> call, verdict |-> IF result.ok THEN Ok(TRUE) ELSE result]

EmptySet == ConstraintSetTryNew(<<>>, <<>>).val

Init ==
  /\ held = {}
  /\ perAttr = <<>>
  /\ perRow = <<>>
  /\ set = EmptySet
  /\ outcome = [call |-> "None", verdict |-> Ok(TRUE)]

Prove(s, e) ==
  LET proved == CanonicalPredicateTryNew(s, e)
  IN  /\ held' = IF proved.ok THEN {proved.val} ELSE held
      /\ Answer("CanonicalPredicate", proved)
      /\ UNCHANGED <<perAttr, perRow, set>>

Scope(n, p) ==
  LET scoped == AttributeConstraintTryNew(n, p)
  IN  /\ Len(perAttr) + Len(perRow) < MaxCollected
      /\ perAttr' = IF scoped.ok THEN Append(perAttr, scoped.val) ELSE perAttr
      /\ Answer("AttributeConstraint", scoped)
      /\ UNCHANGED <<held, perRow, set>>

\* RowConstraint::new cannot fail.
ForRow(p) ==
  /\ Len(perAttr) + Len(perRow) < MaxCollected
  /\ perRow' = Append(perRow, [predicate |-> p])
  /\ Answer("RowConstraint", Ok(p))
  /\ UNCHANGED <<held, perAttr, set>>

Assemble ==
  LET assembled == ConstraintSetTryNew(perAttr, perRow)
  IN  /\ set' = IF assembled.ok THEN assembled.val ELSE set
      /\ Answer("ConstraintSet", assembled)
      /\ UNCHANGED <<held, perAttr, perRow>>

Empty ==
  /\ set' = EmptySet
  /\ Answer("ConstraintSet", Ok(EmptySet))
  /\ UNCHANGED <<held, perAttr, perRow>>

Next ==
  \/ \E s \in SchemaSet, e \in Expr : Prove(s, e)
  \/ \E p \in held : ForRow(p) \/ \E n \in Name : Scope(n, p)
  \/ Assemble
  \/ Empty

Spec == Init /\ [][Next]_vars
============================================================================
