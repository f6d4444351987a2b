----------------------------- MODULE MCSources -----------------------------
(***************************************************************************)
(* Small instances of the leaves: two columns, three rows, and values that *)
(* are wrong at the surface or only deep inside.                           *)
(***************************************************************************)
EXTENDS SourceSafety

LetterA == {"a"}
Digit1  == {"1"}

AcceptedNames == {<<"a">>, <<"a", "1">>}

Refused == {<<>>, <<"1", "a">>, <<"-", "a">>, <<"a", "-", "-">>, <<"a", "a", "a", "a">>}

SomeNames == AcceptedNames \cup Refused

TableNames == {<<"-">>, <<"a", "a", "a", "a">>}

-----------------------------------------------------------------------------

Scalar(kind)  == [k |-> kind]
None          == [k |-> "Optional", some |-> <<>>]
Some(v)       == [k |-> "Optional", some |-> <<v>>]
Array(items)  == [k |-> "Array", items |-> items]
Table(rows)   == [k |-> "Relation", rows |-> rows]

Int32   == Scalar("Int32")
Int64   == Scalar("Int64")

OptionalOf(t) == [k |-> "Optional", of |-> t]
ArrayOf(t)    == [k |-> "Array", of |-> t]
Inner         == <<Column(<<"a">>, Ty("Int32"))>>

SomeTypes ==
  {Ty("Int32"), ArrayOf(OptionalOf(Ty("Int32"))), OptionalOf(Ty("Int32")),
   RelationTy(Inner)}

Mixed == Array(<<Some(Int32), Some(Int64), Int32>>)

Ragged == Table(<<<<Int32>>, <<Int32, Int32>>>>)

SomeValues ==
  {Int32, Int64, None, Some(Int32), Some(Int64), Array(<<None, Some(Int32)>>), Mixed,
   Table(<<>>), Table(<<<<Int32>>>>), Ragged}

SomeRows ==
  {<<>>, <<Int32>>, <<Mixed>>, <<Ragged>>, <<None, Int64>>,
   <<Array(<<None, Some(Int32)>>), Table(<<<<Int32>>>>)>>, <<Int32, Int32, Int32>>}

NoExpr == {}
============================================================================
