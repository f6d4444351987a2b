--------------------------- MODULE MCConstraints ---------------------------
(***************************************************************************)
(* Small instances of the constraints: three names, headers that type one  *)
(* column in two ways, and predicates over none, one and two of them.      *)
(***************************************************************************)
EXTENDS ConstraintSafety

CONSTANTS a, b, c

Names3 == {a, b, c}

Alphabetical == (a :> 1) @@ (b :> 2) @@ (c :> 3)

Attr(n)       == [k |-> "Attr", name |-> n]
Lit(kind)     == [k |-> "Lit", v |-> [k |-> kind]]
Bin(op, l, r) == [k |-> "BinOp", op |-> op, lhs |-> l, rhs |-> r]
Sum(n)        == [k |-> "Agg", agg |-> [f |-> "Sum", over |-> {n}]]

Positive == Bin("Gt", Attr(a), Lit("Int64"))
Both     == Bin("And", Positive, Attr(b))
Total    == Bin("Gt", Sum(c), Lit("Int64"))

Exprs ==
  {Attr(a), Attr(b), Lit("Int64"), Lit("Bool"), Sum(c), Positive, Both, Total}

Schemas3 ==
  {<<Column(a, Ty("Int64")), Column(b, Ty("Bool"))>>,
   <<Column(b, Ty("Int64")), Column(a, Ty("Int64"))>>,
   <<Column(c, Ty("Int64"))>>}
============================================================================
