-------------------------- MODULE ConstraintSafety --------------------------
(***************************************************************************)
(* What must hold of the constraints a client has built.                   *)
(***************************************************************************)
EXTENDS Constraints

Used(constraints) == {c.predicate : c \in ToSet(constraints)}

Canonical == held \cup Used(perAttr) \cup Used(perRow) \cup Used(set.perAttr) \cup Used(set.perRow)

(***************************************************************************)
(* Every predicate a constraint holds is boolean and free of aggregates on *)
(* the Schema it was proved on, however many calls ago.                    *)
(***************************************************************************)
TypeOK ==
  \A p \in Canonical :
    p.on \in SchemaSet /\ BoolOn(p.expr, p.on) /\ ~ContainsAggregate(p.expr)

(***************************************************************************)
(* A built set has at most one constraint on an attribute, which names     *)
(* that attribute and no other, and both lists are within the bound        *)
(* (constraint.rs:25-34 and 148-168).                                      *)
(***************************************************************************)
Scoped(constraints) ==
  /\ Len(constraints) <= MaxSchemaAttributes
  /\ Distinct(Scopes(constraints))
  /\ \A i \in DOMAIN constraints :
       FreeAttributes(constraints[i].predicate.expr) = {constraints[i].attr}

SetScoped == Scoped(set.perAttr) /\ Len(set.perRow) <= MaxSchemaAttributes

-----------------------------------------------------------------------------

SameColumn(n, s, t) == Has(s, n) /\ Has(t, n) /\ TypeOf(s, n) = TypeOf(t, n)

(***************************************************************************)
(* An attribute constraint can be attached to every relation that has its  *)
(* attribute with the type it was proved with: the Schema of the proof is  *)
(* not kept, and it does not matter (canonical.rs:53-60).                  *)
(***************************************************************************)
ScopeTravels ==
  \A c \in ToSet(set.perAttr) : \A s \in SchemaSet :
    SameColumn(c.attr, s, c.predicate.on) => BoolOn(c.predicate.expr, s)

(***************************************************************************)
(* free_attributes names what the typing depends on: an attribute is free  *)
(* in a canonical predicate exactly when the predicate has no type once    *)
(* the column goes by another name (canonical.rs:76-112, infer.rs:88-137). *)
(* There is always another name: the bound on the length of one leaves far *)
(* more of them than a header may have attributes.                         *)
(***************************************************************************)
ASSUME FreshName == \A s \in SchemaSet : \E m \in Name : ~Has(s, m)

Hiding(s, n) ==
  LET other == CHOOSE m \in Name : ~Has(s, m)
  IN  [i \in DOMAIN s |-> IF s[i].name = n THEN Column(other, s[i].ty) ELSE s[i]]

Needed(p) == {n \in NamesOf(p.on) : ~InferTy(p.expr, Hiding(p.on, n)).ok}

FreeIsNeeded == \A p \in Canonical : FreeAttributes(p.expr) = Needed(p)

(***************************************************************************)
(* A predicate can be scoped to an attribute exactly when it needs that    *)
(* attribute, and can be typed on a relation that has no other: whoever    *)
(* checks the constraint gets one value and no row.  A refusal blames what *)
(* is wrong: a constant one is boolean on every Schema, so that no scope   *)
(* would do; the missing scope is not needed; and the foreign attribute is *)
(* needed besides the scope (constraint.rs:61-92).                         *)
(***************************************************************************)
TypedAlone(p, n) == BoolOn(p.expr, <<Column(n, TypeOf(p.on, n))>>)

ScopeExact ==
  \A p \in Canonical :
    LET needed == Needed(p)
        scoped(n) == AttributeConstraintTryNew(n, p)
    IN  \A n \in Name :
          /\ scoped(n).ok <=> n \in needed /\ TypedAlone(p, n)
          /\ ~scoped(n).ok =>
               CASE scoped(n).err.k = "ConstantPredicate" -> \A s \in SchemaSet : BoolOn(p.expr, s)
                 [] scoped(n).err.k = "MissingScope" -> n \notin needed /\ needed # {}
                 [] scoped(n).err.k = "ForeignAttribute" -> scoped(n).err.foreign \in needed \ {n}
============================================================================
