---------------------------- MODULE SourceSafety ----------------------------
(***************************************************************************)
(* What must hold of the sources a client has built and of the answers it  *)
(* got.                                                                    *)
(***************************************************************************)
EXTENDS Sources

(***************************************************************************)
(* Columns have identifiers for names and a known type, rows a width that  *)
(* some header has, and a source is a table or memory with a checked       *)
(* header.                                                                 *)
(***************************************************************************)
Identifier(name) ==
  /\ name \in Seq(IdentChar)
  /\ Len(name) \in 1..MaxAttributeNameLen
  /\ name[1] \in Letters

TypeOK ==
  /\ \A i \in DOMAIN columns : Identifier(columns[i].name) /\ columns[i].ty \in ValueType
  /\ \A i \in DOMAIN batch : Len(batch[i]) \in 1..MaxSchemaAttributes
  /\ source.k \in {"None", "Memory", "Table"}
  /\ source.k # "None" => ValidHeader(source.schema)

(***************************************************************************)
(* The rows a memory source carries match the header it carries, width and *)
(* values, and are within the bound (source.rs:62-71), however the columns *)
(* and the batch it was built from went on to grow.                        *)
(***************************************************************************)
SourceConforms ==
  source.k = "Memory" =>
    /\ Len(source.rows) <= MaxRowsInAst
    /\ \A i \in DOMAIN source.rows : RowMatchesSchema(source.rows[i], source.schema).ok

-----------------------------------------------------------------------------

Tuple(row, s) == TupleOver(row, s, Denotation)

(***************************************************************************)
(* try_memory accepts exactly the relations: a header, and no more tuples  *)
(* over it than the bound, the values at each position being in the set    *)
(* the type of the column stands for, at any depth of arrays, optional     *)
(* values and nested relations.                                            *)
(***************************************************************************)
SourceExact ==
  outcome.call = "Memory" =>
    (outcome.verdict.ok <=>
       /\ ValidHeader(columns)
       /\ Len(batch) <= MaxRowsInAst
       /\ \A row \in ToSet(batch) : Tuple(row, columns))

(***************************************************************************)
(* The path in an error leads to the first culprit: what comes before the  *)
(* place it names fits, what is there does not, and the error wrapped in   *)
(* it is the one that part gets when it is looked at on its own            *)
(* (infer.rs:136-190, source.rs:73-88).                                    *)
(***************************************************************************)
FirstOf(place, fits) == ~fits[place] /\ \A j \in 1..(place - 1) : fits[j]

BlamesRow(row, s, e) ==
  LET fits == [p \in DOMAIN row |-> p \in DOMAIN s /\ row[p] \in Denotation[s[p].ty]]
  IN  CASE e.k = "RowWidth" -> e.expected = Len(s) /\ e.actual = Len(row) /\ Len(row) # Len(s)
        [] e.k = "RelationField" ->
             /\ Len(row) = Len(s)
             /\ FirstOf(e.at, fits)
             /\ e.source = ValueMatchesType(row[e.at], s[e.at].ty).err
        [] OTHER -> FALSE

BlamesValue(v, t, e) ==
  CASE e.k = "Mismatch" -> v.k # t.k
    [] e.k = "Optional" -> e.source = ValueMatchesType(v.some[1], t.of).err
    [] e.k = "ArrayElement" ->
         /\ FirstOf(e.at, [i \in DOMAIN v.items |-> v.items[i] \in Denotation[t.of]])
         /\ e.source = ValueMatchesType(v.items[e.at], t.of).err
    [] e.k = "RelationRow" ->
         /\ FirstOf(e.at, [i \in DOMAIN v.rows |-> Tuple(v.rows[i], t.schema)])
         /\ BlamesRow(v.rows[e.at], t.schema, e.source)

BlamesFirst ==
  LET e == outcome.verdict.err
  IN  outcome.call = "Memory" /\ ~outcome.verdict.ok /\ e.k = "RowMismatch" =>
        /\ FirstOf(e.at, [i \in DOMAIN batch |-> Tuple(batch[i], columns)])
        /\ BlamesRow(batch[e.at], columns, e.source)
        /\ \A v \in ToSet(batch[e.at]), t \in ValueType :
             ~ValueMatchesType(v, t).ok => BlamesValue(v, t, ValueMatchesType(v, t).err)

(***************************************************************************)
(* Once a batch is refused for one of its rows, more rows change nothing:  *)
(* the same row is blamed for the same reason, although the bound on their *)
(* number is crossed on the way (source.rs:101-107).                       *)
(***************************************************************************)
RefusedForRow(result) == ~result.ok /\ result.err.k = "RowMismatch"

RefusalSticks ==
  [][RefusedForRow(TryMemoryOf(columns, batch)) /\ columns' = columns
       => TryMemoryOf(columns', batch') = TryMemoryOf(columns, batch)]_vars

(***************************************************************************)
(* The two typings of a literal agree: the values a source accepts in a    *)
(* column make an IN list over that column exactly when its type is a      *)
(* scalar one (infer.rs:110-124, 208-217 and 281-296).                     *)
(***************************************************************************)
ColumnsSearchable ==
  source.k = "Memory" =>
    \A p \in DOMAIN source.schema :
      LET values == [i \in DOMAIN source.rows |-> source.rows[i][p]]
          t == source.schema[p].ty
      IN  InListValuesTryNew(values).ok =>
            (InferInList(t, values).ok <=> t.k \in ScalarKinds)

(***************************************************************************)
(* The offset in a BodyChar error is where the string stops being a name:  *)
(* cut there, its characters are fine; cut after that character, the same  *)
(* error comes back (identifier.rs:66-76).                                 *)
(***************************************************************************)
BadCharLocated ==
  LET e == outcome.verdict.err
      upTo(n) == AttributeNameTryNew(SubSeq(outcome.arg, 1, n))
  IN  outcome.call = "AttributeName" /\ ~outcome.verdict.ok /\ e.k = "BodyChar" =>
        /\ ~upTo(e.offset).ok => upTo(e.offset).err.k # "BodyChar"
        /\ upTo(e.offset + 1) = outcome.verdict
============================================================================
