---------------------------- MODULE MCOpBuilder ----------------------------
(***************************************************************************)
(* Small instances of the builder.  Three names and headers of at most     *)
(* three attributes: one attribute more overflows a header.                *)
(***************************************************************************)
EXTENDS DocClaims

CONSTANTS a, b, c

Names3 == {a, b, c}

Int64 == Ty("Int64")
Bool  == Ty("Bool")

Attr(n)         == [k |-> "Attr", name |-> n]
Lit(kind)       == [k |-> "Lit", v |-> [k |-> kind]]
Bin(op, l, r)   == [k |-> "BinOp", op |-> op, lhs |-> l, rhs |-> r]
IsNull(e)       == [k |-> "IsNull", operand |-> e]
CastTo(e, t)    == [k |-> "Cast", operand |-> e, to |-> t]
Count(over)     == [f |-> "Count", over |-> over]
Sum(n)          == [f |-> "Sum", over |-> {n}]
Least(n)        == [f |-> "Min", over |-> {n}]
Agg(agg)        == [k |-> "Agg", agg |-> agg]
Field(n)        == [k |-> "Field", name |-> n]

(***************************************************************************)
(* Headers: one in two orders, one disjoint from it, one with a nested     *)
(* relation, and two that Schema::try_new rejects.                         *)
(***************************************************************************)
AB       == <<Column(a, Int64), Column(b, Bool)>>
BA       == <<Column(b, Bool), Column(a, Int64)>>
OnlyC    == <<Column(c, Int64)>>
BC       == <<Column(b, Bool), Column(c, Int64)>>
NestedBC == <<Column(a, Int64), Column(b, RelationTy(BC))>>
Rejected == {<<>>, <<Column(a, Int64), Column(a, Bool)>>}

(***************************************************************************)
(* Expressions: boolean on one header and not on another, with aggregates, *)
(* and with operands of two types.                                         *)
(***************************************************************************)
Predicates3 ==
  {Attr(b),
   Bin("Gt", Attr(a), Lit("Int64")),
   Bin("Eq", Attr(b), Attr(c)),
   Bin("Eq", Agg(Count({})), Lit("Int64"))}

Terms ==
  {Bin("Add", Attr(a), Lit("Int64")), CastTo(Attr(b), Int64), IsNull(Attr(c)), Agg(Sum(a))}

Leaves == {Attr(n) : n \in Names3} \cup {Lit("Int64"), Agg(Count({}))}

Exprs == Leaves \cup Predicates3 \cup Terms

\* For theta joins, where b decides: a boolean in some headers, a number in others.
JoinExprs == Leaves \cup {Bin("Eq", Agg(Count({})), Lit("Int64"))}

-----------------------------------------------------------------------------

UnaryConstructors ==
  {"Source", "Project", "Restrict", "Rename", "Extend", "Summarize", "Order", "Limit"}
NestConstructors == {"Source", "Project", "Rename", "Modify", "Unnest", "Nest"}
JoinConstructors ==
  {"Source", "Rename", "Product", "Join", "Union", "Intersect", "Difference"}

UnaryHeaders == {AB, OnlyC} \cup Rejected
NestHeaders  == {BC, NestedBC} \cup Rejected
JoinHeaders  == {AB, BA, OnlyC} \cup Rejected

ShortLists == {<<>>, <<a>>, <<b>>, <<c, a>>, <<a, b, c>>, <<a, a>>}
NestLists  == {<<a>>, <<c>>, <<c, b>>, <<b, c>>, <<a, a>>}

SomeAggs ==
  {<<>>,
   <<[name |-> c, agg |-> Count({c})]>>,
   <<[name |-> a, agg |-> Sum(a)], [name |-> c, agg |-> Least(b)]>>,
   <<[name |-> c, agg |-> Sum(a)], [name |-> c, agg |-> Sum(b)]>>}

Key(n) == [attr |-> n, direction |-> "Asc", nulls |-> "NullsLast"]
SomeKeys == {<<>>, <<Key(a)>>, <<Key(c), Key(b)>>, <<Key(a), Key(a)>>}

Pair(l, r) == [left |-> l, right |-> r]
SomePairs == {<<Pair(a, c)>>, <<Pair(b, c)>>, <<Pair(a, c), Pair(a, b)>>}

Index(i) == [k |-> "Index", index |-> i]

SomeSteps ==
  {<<>>, <<Field(a), Field(b)>>, <<[k |-> "Each"]>>, <<Index(0)>>, <<Field(a), Index(2)>>}
    \cup {<<Field(n)>> : n \in Names3}

TwoKinds == {"Inner", "LeftOuter"}
Empty == {}

(***************************************************************************)
(* A word of three bits: the bound on offsets and counts is 3, and 4 is    *)
(* refused.                                                                *)
(***************************************************************************)
SomeWords == {3, 4, 5}
============================================================================
