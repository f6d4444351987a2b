------------------------------ MODULE RowFlow ------------------------------
(***************************************************************************)
(* A row is a list of values and carries no name (row.rs:1-4): whoever     *)
(* evaluates an operator finds the position of an attribute in the header  *)
(* the operand caches.  This module follows one row of every source up the *)
(* tree in two ways, by position through the cached headers and by name    *)
(* as the algebra defines the operators, to compare the two.               *)
(*                                                                         *)
(* A value has a tag, which tells the values of a run apart, and is either *)
(* Whole, still as a source, an extension or an aggregate made it, of a    *)
(* type of its own, or Rows, a nested relation made by nest or modify,     *)
(* known by one of its rows.  A positional row is a sequence of values, a  *)
(* named one a function from names to values.                              *)
(***************************************************************************)
EXTENDS OpSafety

Whole(tag, t) == [k |-> "Whole", tag |-> tag, ty |-> t]

Rows(tag, row) == [k |-> "Rows", tag |-> tag, row |-> row]

Both(row, tuple) == [row |-> row, tuple |-> tuple]

(***************************************************************************)
(* A row of a nested relation, by position and by name.  A whole value is  *)
(* opened with the header of its own type, whatever column it is in: the   *)
(* tag of what is inside tells where it was.                               *)
(***************************************************************************)
RowIn(value) ==
  LET h == value.ty.schema
  IN  IF value.k = "Rows" THEN value.row
      ELSE [p \in DOMAIN h |-> Whole(Append(value.tag, p), h[p].ty)]

TupleIn(value) ==
  LET h == value.ty.schema
  IN  IF value.k = "Rows" THEN value.row
      ELSE [n \in NamesOf(h) |-> Whole(Append(value.tag, Position(h, n)), TypeOf(h, n))]

-----------------------------------------------------------------------------

(***************************************************************************)
(* The operators on a row x of the header s, in both ways.  By position:   *)
(* the values at the names of a list in its order, those at all other      *)
(* attributes, and new ones at the end.                                    *)
(***************************************************************************)
ValuesAt(row, s, names) == [k \in DOMAIN names |-> row[Position(s, names[k])]]

OtherValues(row, s, names) == ValuesAt(row, s, Names(Dropping(s, names)))

Projecting(x, s, attrs) ==
  Both(ValuesAt(x.row, s, attrs), Restrict(x.tuple, ToSet(attrs)))

Renaming(x, from, to) ==
  Both(x.row, Plus(Without(x.tuple, {from}), to, x.tuple[from]))

Extending(x, n, value) == Both(Append(x.row, value), Plus(x.tuple, n, value))

(***************************************************************************)
(* Aggregates are values of their own, one after the other after the keys. *)
(***************************************************************************)
Aggregating(x, s, by, aggs, i) ==
  LET value(k) == Whole(<<i, k>>, AggTy(aggs[k].agg, s).val)
  IN  Both(ValuesAt(x.row, s, by) \o [k \in DOMAIN aggs |-> value(k)],
           Merge(Restrict(x.tuple, ToSet(by)),
                 [n \in NamesOf(aggs) |-> value(Position(aggs, n))]))

Nesting(x, s, attrs, into, tag) ==
  Both(Append(OtherValues(x.row, s, ToSet(attrs)), Rows(tag, ValuesAt(x.row, s, attrs))),
       Plus(Without(x.tuple, ToSet(attrs)), into, Rows(tag, Restrict(x.tuple, ToSet(attrs)))))

Unnesting(x, s, n) ==
  LET p == Position(s, n)
  IN  Both(SubSeq(x.row, 1, p - 1) \o RowIn(x.row[p]) \o SubSeq(x.row, p + 1, Len(x.row)),
           Merge(Without(x.tuple, {n}), TupleIn(x.tuple[n])))

Modifying(x, s, n, y, tag) ==
  Both([x.row EXCEPT ![Position(s, n)] = Rows(tag, y.row)],
       [x.tuple EXCEPT ![n] = Rows(tag, y.tuple)])

(***************************************************************************)
(* A matched row of a product or a join: a natural join has the values of  *)
(* the shared attributes once, from the left side.  The rows that outer    *)
(* joins pad (op.rs:896-899) are left out.                                 *)
(***************************************************************************)
Pairing(x, y, t, dropped) ==
  Both(x.row \o OtherValues(y.row, t, dropped), Merge(x.tuple, y.tuple))

-----------------------------------------------------------------------------

(***************************************************************************)
(* The rows that leave node i, each in both ways: those of a source, those *)
(* of an operator from the rows of its operand, and from the rows of its   *)
(* two operands.  A union and an intersection may hand on the row of       *)
(* either side.                                                            *)
(***************************************************************************)
SourceRows(i) ==
  LET table == Whole(<<i>>, RelationTy(Schema(i)))
  IN  {Both(RowIn(table), TupleIn(table))}

OneRow(i, x) ==
  LET kind == ops[i].kind
      arg == ops[i].arg
      s == Input(i, 1)
  IN  CASE kind \in {"Restrict", "Order", "Limit"} -> x
        [] kind = "Project" -> Projecting(x, s, arg.attrs)
        [] kind = "Rename" -> Renaming(x, arg.from, arg.to)
        [] kind = "Extend" -> Extending(x, arg.name, Whole(<<i>>, InferTy(arg.expr, s).val))
        [] kind = "Summarize" -> Aggregating(x, s, arg.by, arg.aggs, i)
        [] kind = "Nest" -> Nesting(x, s, arg.attrs, arg.into, <<i>>)
        [] kind = "Unnest" -> Unnesting(x, s, arg.path.steps[1].name)

TwoRows(i, x, y) ==
  LET kind == ops[i].kind
      arg == ops[i].arg
      s == Input(i, 1)
      t == Input(i, 2)
  IN  CASE kind \in {"Union", "Intersect"} -> {x, y}
        [] kind = "Difference" -> {x}
        [] kind = "Modify" -> {Modifying(x, s, arg.path.steps[1].name, y, <<i>>)}
        [] kind = "Product" -> {Pairing(x, y, t, {})}
        [] kind = "Join" ->
             {Pairing(x, y, t, IF arg.on.k = "Natural" THEN NamesOf(s) ELSE {})}

RowsFrom(rows, i) ==
  LET inputs == ops[i].inputs
  IN  CASE Len(inputs) = 0 -> SourceRows(i)
        [] Len(inputs) = 1 -> {OneRow(i, x) : x \in rows[inputs[1]]}
        [] Len(inputs) = 2 ->
             UNION {TwoRows(i, x, y) : x \in rows[inputs[1]], y \in rows[inputs[2]]}

AllRows == LET rows[i \in DOMAIN ops] == RowsFrom(rows, i) IN rows

-----------------------------------------------------------------------------

(***************************************************************************)
(* Reading a row through a header: it is as wide as the header, and under  *)
(* each name is the value the tuple has for that name, of the type of the  *)
(* column.                                                                 *)
(***************************************************************************)
View(row, s, tuple) == [row |-> row, header |-> s, tuple |-> tuple]

SameValue(c, d, t) ==
  /\ c.k = d.k
  /\ c.tag = d.tag
  /\ IF c.k = "Whole" THEN c.ty = t /\ d.ty = t ELSE IsRelationTy(t)

ReadsAs(v) ==
  /\ Len(v.row) = Len(v.header)
  /\ DOMAIN v.tuple = NamesOf(v.header)
  /\ \A p \in DOMAIN v.header :
       SameValue(v.row[p], v.tuple[v.header[p].name], v.header[p].ty)

(***************************************************************************)
(* The rows inside its values, each with the header and the tuple it is to *)
(* be read with, and the rows inside those, level by level.  Only nest and *)
(* modify make levels, so there are no more than operators.                *)
(***************************************************************************)
InnerViews(v) ==
  {View(v.row[p].row, v.header[p].ty.schema, v.tuple[v.header[p].name].row) :
     p \in {q \in DOMAIN v.header : v.row[q].k = "Rows"}}

Levels(v) ==
  LET level[n \in 0..Len(ops)] ==
        IF n = 0 THEN {v} ELSE UNION {InnerViews(u) : u \in level[n - 1]}
  IN  level

ReadsBack(v) == \A n \in 0..Len(ops) : \A u \in Levels(v)[n] : ReadsAs(u)

(***************************************************************************)
(* Read through the header it caches, a row of the newest operator is the  *)
(* tuple the algebra gives for it: no column has moved under a name or a   *)
(* type, at any depth and however many operators are stacked, and the two  *)
(* sides of a set operation are read alike.  (The operators below it were  *)
(* checked when they were the newest.)                                     *)
(***************************************************************************)
RowsReadBack ==
  ops # <<>> =>
    LET i == Len(ops)
    IN  \A x \in AllRows[i] : ReadsBack(View(x.row, Schema(i), x.tuple))
============================================================================
