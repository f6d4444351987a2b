------------------------------- MODULE Values -------------------------------
(***************************************************************************)
(* Values and the check of a row against a header: ty.rs, row.rs and the   *)
(* second half of infer.rs, with the length bounds of limits.rs.           *)
(*                                                                         *)
(* A value is a record tagged by k.  A scalar is known by its variant      *)
(* alone; the compound ones are [k |-> "Optional", some |-> <<>> or <<v>>],*)
(* [k |-> "Array", items |-> a list of values] and [k |-> "Relation",      *)
(* rows |-> a list of rows].  A row is a list of values.  The recursions   *)
(* are functions on Value and ValueType, which contain the components of   *)
(* their elements.                                                         *)
(***************************************************************************)
EXTENDS Schemas

CONSTANTS
  Value,          \* the values in use, with their components
  ValueType,      \* the types in use, with the types inside them
  MaxRowsInAst,   \* MAX_ROWS_IN_AST: 16384 in the crate
  MaxInList       \* MAX_IN_LIST: 1024 in the crate

MaxArrayLen == MaxInList

RowTryNew(values) == LenItems(values, 1, MaxSchemaAttributes)

RowsTryNew(rows) == LenItems(rows, 0, MaxRowsInAst)

InListValuesTryNew(values) == LenItems(values, 1, MaxInList)

-----------------------------------------------------------------------------

Components(v) ==
  CASE v.k \in ScalarKinds -> {}
    [] v.k = "Optional" -> ToSet(v.some)
    [] v.k = "Array" -> ToSet(v.items)
    [] v.k = "Relation" -> UNION {ToSet(row) : row \in ToSet(v.rows)}

(***************************************************************************)
(* The bounds a compound value was built under, and its lists are lists.   *)
(***************************************************************************)
Listing(list) == list \in Seq(ToSet(list))

Constructed(v) ==
  \/ v.k \in ScalarKinds
  \/ v.k = "Optional" /\ Listing(v.some) /\ Len(v.some) <= 1
  \/ v.k = "Array" /\ Listing(v.items) /\ LenItems(v.items, 0, MaxArrayLen).ok
  \/ /\ v.k = "Relation" /\ Listing(v.rows) /\ RowsTryNew(v.rows).ok
     /\ \A row \in ToSet(v.rows) : Listing(row) /\ RowTryNew(row).ok

InnerTypes(t) ==
  CASE t.k \in ScalarKinds -> {}
    [] t.k \in {"Optional", "Array"} -> {t.of}
    [] t.k = "Relation" -> {t.schema[i].ty : i \in DOMAIN t.schema}

(***************************************************************************)
(* Values and types are finite trees, which their weights show.            *)
(***************************************************************************)
ValueWeight[v \in Value] == 1 + MapThenSumSet(LAMBDA x : ValueWeight[x], Components(v))

TypeWeight[t \in ValueType] == 1 + MapThenSumSet(LAMBDA x : TypeWeight[x], InnerTypes(t))

ASSUME ValueAssumption ==
  /\ MaxRowsInAst \in Nat
  /\ MaxInList \in Nat
  /\ \A v \in Value :
       /\ Constructed(v)
       /\ Components(v) \subseteq Value
       /\ ValueWeight[v] \in Nat
       /\ \A x \in Components(v) : ValueWeight[x] < ValueWeight[v]
  /\ \A t \in ValueType :
       /\ t.k \in ScalarKinds \cup {"Optional", "Array", "Relation"}
       /\ t.k \in ScalarKinds => t = Ty(t.k)
       /\ t.k = "Relation" => Listing(t.schema)
       /\ InnerTypes(t) \subseteq ValueType
       /\ TypeWeight[t] \in Nat
       /\ \A u \in InnerTypes(t) : TypeWeight[u] < TypeWeight[t]

-----------------------------------------------------------------------------

(***************************************************************************)
(* ValueTypeError: a failure inside a compound value is wrapped with the   *)
(* place it was found at.                                                  *)
(***************************************************************************)
Fits == Ok(TRUE)
Mismatch == Err([k |-> "Mismatch"])

At(k, place, result) ==
  IF result.ok THEN Fits ELSE Err([k |-> k, at |-> place, source |-> result.err])

(***************************************************************************)
(* row_matches_schema, from the verdicts on the cells that have a column:  *)
(* the width first, then the first cell that does not fit.                 *)
(***************************************************************************)
Paired(row, s) == DOMAIN row \cap DOMAIN s

FirstMisfit(cells) == Collect([p \in DOMAIN cells |-> At("RelationField", p, cells[p])])

\* A wrong RowVerdict: the zip of row and columns hides a row of another width.
RowZipped(row, s, cells) == FirstMisfit(cells)

RowVerdict(row, s, cells) ==
  IF Len(row) # Len(s)
  THEN Err([k |-> "RowWidth", expected |-> Len(s), actual |-> Len(row)])
  ELSE FirstMisfit(cells)

(***************************************************************************)
(* value_matches_type: a missing value fits every optional type.  RowFrom  *)
(* and MatchFrom are given the verdicts on the components.                 *)
(***************************************************************************)
RowFrom(verdicts, row, s) ==
  RowVerdict(row, s, [p \in Paired(row, s) |-> verdicts[row[p]][s[p].ty]])

MatchFrom(verdicts, v, t) ==
  IF v.k # t.k THEN Mismatch
  ELSE CASE v.k \in ScalarKinds \/ (v.k = "Optional" /\ v.some = <<>>) -> Fits
         [] v.k = "Optional" /\ v.some # <<>> ->
              At("Optional", 1, verdicts[v.some[1]][t.of])
         [] v.k = "Array" ->
              Collect([i \in DOMAIN v.items |->
                         At("ArrayElement", i, verdicts[v.items[i]][t.of])])
         [] v.k = "Relation" ->
              Collect([i \in DOMAIN v.rows |->
                         At("RelationRow", i, RowFrom(verdicts, v.rows[i], t.schema))])

Verdicts[v \in Value] == [t \in ValueType |-> MatchFrom(Verdicts, v, t)]

ValueMatchesType(v, t) == Verdicts[v][t]

RowMatchesSchema(row, s) == RowFrom(Verdicts, row, s)

-----------------------------------------------------------------------------

(***************************************************************************)
(* What the checks are measured against: a type is a set of values, and a  *)
(* header a set of tuples.                                                 *)
(***************************************************************************)
TupleOver(row, s, domain) ==
  /\ DOMAIN row = DOMAIN s
  /\ \A p \in DOMAIN row : row[p] \in domain[s[p].ty]

MembersFrom(domain, t) ==
  {v \in Value :
     /\ v.k = t.k
     /\ v.k = "Optional" => ToSet(v.some) \subseteq domain[t.of]
     /\ v.k = "Array" => ToSet(v.items) \subseteq domain[t.of]
     /\ v.k = "Relation" => \A row \in ToSet(v.rows) : TupleOver(row, t.schema, domain)}

Denotation[t \in ValueType] == MembersFrom(Denotation, t)
============================================================================
