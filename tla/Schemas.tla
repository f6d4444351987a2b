------------------------------ MODULE Schemas ------------------------------
(***************************************************************************)
(* Headers of relations and the lists that are checked on construction:    *)
(* schema.rs, the refined lists of op.rs, order.rs and join.rs, and the    *)
(* list rules of the external `whittle` crate they are all built from.     *)
(*                                                                         *)
(* An attribute is a record [name, ty].  A type is a record tagged by k:   *)
(* [k |-> "Int64"] and the other scalars, [k |-> "Relation", schema |-> s],*)
(* [k |-> "Optional", of |-> t] and [k |-> "Array", of |-> t].  A header   *)
(* is a sequence of attributes.  A fallible constructor returns            *)
(* [ok |-> TRUE, val |-> v] or [ok |-> FALSE, err |-> e], and e.k names    *)
(* the variant of the error.                                               *)
(***************************************************************************)
EXTENDS Naturals, SequencesExt

CONSTANTS
  Name,                 \* the attribute names the client uses
  MaxSchemaAttributes   \* MAX_SCHEMA_ATTRIBUTES: 256 in the crate

ASSUME LimitAssumption == MaxSchemaAttributes \in Nat \ {0}

-----------------------------------------------------------------------------

Ok(v)  == [ok |-> TRUE, val |-> v]
Err(e) == [ok |-> FALSE, err |-> e]

(***************************************************************************)
(* Results in sequence: the ? operator, an error wrapped in an OpError,    *)
(* and a loop that collects results until the first error.                 *)
(***************************************************************************)
Then(result, F(_)) == IF result.ok THEN F(result.val) ELSE result

Wrap(k, result) ==
  IF result.ok THEN result ELSE Err([k |-> k, source |-> result.err])

Collect(results) ==
  IF \A i \in DOMAIN results : results[i].ok
  THEN Ok([i \in DOMAIN results |-> results[i].val])
  ELSE results[SelectInSeq(results, LAMBDA r : ~r.ok)]

(***************************************************************************)
(* A scalar type, a nested relation, and a column of a header.              *)
(***************************************************************************)
Ty(k) == [k |-> k]
RelationTy(s) == [k |-> "Relation", schema |-> s]
Column(n, t) == [name |-> n, ty |-> t]
IsRelationTy(t) == t.k = "Relation"

ScalarKinds == {"Bool", "Int32", "Int64", "Float64", "Decimal", "String",
                "Bytes", "DateTime", "Json"}

(***************************************************************************)
(* The whittle rule And<LenItems<lo, hi>, UniqueByKey>: the length is      *)
(* looked at first, and of two equal keys the second one is reported.      *)
(* Positions are counted from 1 here and from 0 in the code.               *)
(***************************************************************************)
Distinct(keys) == \A i, j \in DOMAIN keys : keys[i] = keys[j] => i = j

RepeatsEarlier(keys, j) == \E i \in 1..(j - 1) : keys[i] = keys[j]

SecondOccurrence(keys) ==
  CHOOSE j \in DOMAIN keys :
    /\ RepeatsEarlier(keys, j)
    /\ \A i \in 1..(j - 1) : ~RepeatsEarlier(keys, i)

Checked(list, keys, lo, hi) ==
  IF Len(list) \notin lo..hi
  THEN Err([k |-> "LenOutOfRange", actual |-> Len(list)])
  ELSE IF Distinct(keys)
       THEN Ok(list)
       ELSE Err([k |-> "DuplicateKey", index |-> SecondOccurrence(keys)])

\* LenItems<lo, hi> alone, on a list and, as LenChars, on a string.
LenItems(list, lo, hi) == Checked(list, <<>>, lo, hi)

(***************************************************************************)
(* The refined lists.  Each is checked once, on construction, and has its  *)
(* own pair of names for the two errors; those of SchemaTryNew are seen by *)
(* the operators.                                                          *)
(***************************************************************************)
Names(s) == [i \in DOMAIN s |-> s[i].name]

SchemaTryNew(attributes) ==
  LET checked == Checked(attributes, Names(attributes), 1, MaxSchemaAttributes)
  IN  CASE checked.ok -> checked
        [] ~checked.ok /\ checked.err.k = "LenOutOfRange" ->
             Err([k |-> "Cardinality", actual |-> checked.err.actual])
        [] ~checked.ok /\ checked.err.k = "DuplicateKey" ->
             Err([k |-> "DuplicateAttribute", index |-> checked.err.index])

AttributeSetTryNew(attrs) == Checked(attrs, attrs, 1, MaxSchemaAttributes)

GroupingSetTryNew(keys) == Checked(keys, keys, 0, MaxSchemaAttributes)

NamedAggSetTryNew(aggs) == Checked(aggs, Names(aggs), 1, MaxSchemaAttributes)

OrderKeysTryNew(keys) ==
  Checked(keys, [i \in DOMAIN keys |-> keys[i].attr], 1, MaxSchemaAttributes)

EquiPairsTryNew(pairs) ==
  Checked(pairs, [i \in DOMAIN pairs |-> pairs[i].left], 1, MaxSchemaAttributes)

-----------------------------------------------------------------------------

(***************************************************************************)
(* Reading a header.  Position(s, n) is where Schema::find stops: the      *)
(* first attribute with that name.                                         *)
(***************************************************************************)
Has(s, n) == \E i \in DOMAIN s : s[i].name = n

Position(s, n) ==
  CHOOSE i \in DOMAIN s :
    s[i].name = n /\ \A j \in DOMAIN s \ {i} : s[j].name = n => i < j

Find(s, n) == s[Position(s, n)]

TypeOf(s, n) == Find(s, n).ty

(***************************************************************************)
(* The attributes of a header but those with some names, in order: the     *)
(* loops of nest and of the natural join over the attributes they keep.    *)
(* It is written as a recursive function, and not with SelectSeq, to be    *)
(* proved about.                                                           *)
(***************************************************************************)
Dropping(s, names) ==
  LET kept[i \in 0..Len(s)] ==
        IF i = 0 THEN <<>>
        ELSE IF s[i].name \in names THEN kept[i - 1] ELSE Append(kept[i - 1], s[i])
  IN  kept[Len(s)]

(***************************************************************************)
(* A header with a list of attributes in the place of the p-th one.        *)
(***************************************************************************)
Splicing(s, p, list) == SubSeq(s, 1, p - 1) \o list \o SubSeq(s, p + 1, Len(s))

-----------------------------------------------------------------------------

(***************************************************************************)
(* The unordered view of a header, which the properties are stated with.   *)
(***************************************************************************)
NamesOf(s) == ToSet(Names(s))

ValidHeader(s) ==
  /\ Len(s) \in 1..MaxSchemaAttributes
  /\ Distinct(Names(s))

Listed(s) ==
  /\ s \in Seq(ToSet(s))
  /\ \A a \in ToSet(s) : a.name \in Name /\ a = Column(a.name, a.ty)

SubSchemas(s) == {s[i].ty.schema : i \in {j \in DOMAIN s : IsRelationTy(s[j].ty)}}
============================================================================
