--------------------------- MODULE HeaderAlgebra ---------------------------
(***************************************************************************)
(* What the smart constructors of op.rs promise about headers, without the *)
(* order of the attributes: a header is a function from names to types,    *)
(* and each operator of the algebra is a set operation on such functions.  *)
(* An operator of this module is the set of the headers the operator of    *)
(* the algebra may have: empty when its operands do not admit it.          *)
(***************************************************************************)
EXTENDS Schemas

-----------------------------------------------------------------------------

HeaderFn(s) == [n \in NamesOf(s) |-> TypeOf(s, n)]

When(admissible, f) == IF admissible THEN {f} ELSE {}

Fits(f) == Cardinality(DOMAIN f) \in 1..MaxSchemaAttributes

Without(f, names) == Restrict(f, DOMAIN f \ names)

(***************************************************************************)
(* A header with one attribute added or replaced, and with those of        *)
(* another header added.                                                   *)
(***************************************************************************)
Plus(f, n, t) == [m \in DOMAIN f \cup {n} |-> IF m = n THEN t ELSE f[m]]

Merge(f, g) == [m \in DOMAIN f \cup DOMAIN g |-> IF m \in DOMAIN f THEN f[m] ELSE g[m]]

Disjoint(f, g) == DOMAIN f \cap DOMAIN g = {}

(***************************************************************************)
(* The lists a header may be written as, one for each order of its names.  *)
(***************************************************************************)
Orders(f) ==
  {[i \in DOMAIN names |-> Column(names[i], f[names[i]])] : names \in SetToSeqs(DOMAIN f)}

-----------------------------------------------------------------------------

Projected(f, names) == When(names \subseteq DOMAIN f, Restrict(f, names))

Renamed(f, from, to) ==
  When(from \in DOMAIN f /\ (to = from \/ to \notin DOMAIN f),
       [n \in (DOMAIN f \ {from}) \cup {to} |-> IF n = to THEN f[from] ELSE f[n]])

Extended(f, n, t) == {g \in {Plus(f, n, t)} : n \notin DOMAIN f /\ Fits(g)}

Concatenated(f, g) == {h \in {Merge(f, g)} : Disjoint(f, g) /\ Fits(h)}

(***************************************************************************)
(* A natural join coalesces the shared attributes, whose types must agree. *)
(***************************************************************************)
Coalesced(f, g) ==
  {h \in {Merge(f, g)} : Fits(h) /\ \A n \in DOMAIN f \cap DOMAIN g : f[n] = g[n]}

Refocused(f, n, sub) ==
  When(n \in DOMAIN f /\ IsRelationTy(f[n]), [f EXCEPT ![n] = RelationTy(sub)])

Unnested(f, n) ==
  LET inner == HeaderFn(f[n].schema)
  IN  IF n \in DOMAIN f /\ IsRelationTy(f[n])
      THEN Concatenated(Without(f, {n}), inner) ELSE {}

(***************************************************************************)
(* A nest may list the nested attributes in any order.                     *)
(***************************************************************************)
Nested(f, names, into) ==
  IF names \subseteq DOMAIN f /\ into \notin DOMAIN f \ names
  THEN {Plus(Without(f, names), into, RelationTy(s)) : s \in Orders(Restrict(f, names))}
  ELSE {}

(***************************************************************************)
(* A summary keeps its keys with their types and adds at least one other   *)
(* attribute.                                                              *)
(***************************************************************************)
Summarizes(f, keys, g) ==
  /\ keys \subseteq DOMAIN f
  /\ keys \subseteq DOMAIN g
  /\ keys # DOMAIN g
  /\ Restrict(g, keys) = Restrict(f, keys)

============================================================================
