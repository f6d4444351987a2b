------------------------------ MODULE MCTyping ------------------------------
(***************************************************************************)
(* Every variant of an expression over two names, two levels deep in full  *)
(* and some of the third level, on every header of one or two attributes   *)
(* over five types.                                                        *)
(***************************************************************************)
EXTENDS Typing

CONSTANTS a, b

TwoNames == {a, b}

Nested == RelationTy(<<Column(a, Ty("Bool"))>>)

Columns ==
  {Column(a, t) : t \in {Ty("Int32"), Ty("Bool"), Ty("String"), Nested}}
    \cup {Column(b, t) : t \in {Ty("Int32"), Ty("Bool"), Ty("Json")}}

AllHeaders ==
  {s \in {<<x>> : x \in Columns} \cup {<<x, y>> : x, y \in Columns} : SchemaTryNew(s).ok}

Agg(f, over) == [k |-> "Agg", agg |-> [f |-> f, over |-> over]]
Val(kind) == [k |-> kind]
Lit(kind) == [k |-> "Lit", v |-> Val(kind)]
Over(k, e) == [k |-> k, operand |-> e]

AttrA == [k |-> "Attr", name |-> a]
AttrB == [k |-> "Attr", name |-> b]

Leaves ==
  {AttrA, AttrB, Lit("Int32"), Lit("Bool"), Lit("Optional"), Agg("Count", {b}),
   Agg("Sum", {a}), Agg("Min", {b}), Agg("Avg", {a})}

Bins(ops, es, fs) == {[k |-> "BinOp", op |-> op, lhs |-> e, rhs |-> f] : op \in ops, e \in es, f \in fs}

InLists(es) ==
  {[k |-> "InList", operand |-> e, values |-> vs] :
     e \in es, vs \in {<<Val("Int32")>>, <<Val("Bool"), Val("Array")>>,
                       <<Val("Int32"), Val("String"), Val("Array")>>}}

Unaries(es) ==
  {[k |-> "UnOp", op |-> op, operand |-> e] : op \in {"Neg", "Not"}, e \in es}
    \cup {Over("Like", e) : e \in es} \cup {Over("IsNull", e) : e \in es}
    \cup {[k |-> "Cast", operand |-> e, to |-> Ty("String")] : e \in es}

Second ==
  Bins({"Add", "Lt", "And"}, Leaves, Leaves) \cup Bins({"Concat"}, {AttrA}, Leaves)
    \cup Unaries(Leaves) \cup InLists({AttrA, AttrB, Lit("Bool")})

Third ==
  LET some == Bins({"Lt", "Add"}, {AttrA}, {Lit("Int32"), AttrB})
  IN  Bins({"And", "Add"}, some, some) \cup Unaries(some)

AllExprs == Leaves \cup Second \cup Third
============================================================================
