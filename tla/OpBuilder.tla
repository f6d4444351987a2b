----------------------------- MODULE OpBuilder -----------------------------
(***************************************************************************)
(* The smart constructors of op.rs, called by a client in any order.       *)
(*                                                                         *)
(* `ops` lists the Op values built so far; an operand is the index of an   *)
(* earlier one.  An Op is moved into the operator built on it, and it can  *)
(* be cloned before, so any value built so far can be an operand.  A node  *)
(* is [kind, inputs, arg, schema], where schema is the header the node     *)
(* caches.  `schemas` is the set of the Schema values the program holds:   *)
(* the client's own, the cached headers and the headers nested in them.    *)
(* `outcome` is what the last call returned: no error, or which one.       *)
(***************************************************************************)
EXTENDS Headers, HeaderAlgebra, Limits

CONSTANTS
  Constructors,  \* the constructors the client calls
  HeaderLists,   \* attribute lists it passes to Schema::try_new
  NameLists,     \* name lists it passes to AttributeSet and GroupingSet
  AggLists,      \* lists of [name, agg] it passes to NamedAggSet
  KeyLists,      \* lists of [attr, direction, nulls] it passes to OrderKeys
  PairLists,     \* lists of [left, right] it passes to EquiPairs
  StepLists,     \* step lists it passes to LensPath and TraversalPath
  JoinKinds,     \* the kinds of join it asks for
  Words,         \* the numbers it passes to Offset and LimitCount
  Extensions,    \* the expressions it extends with
  MaxNodes       \* a bound on the number of Op values

VARIABLES ops, schemas, outcome

vars == <<ops, schemas, outcome>>

-----------------------------------------------------------------------------

(***************************************************************************)
(* The arguments the client can hold: what the checked lists let through.  *)
(***************************************************************************)
ClientSchemas == {h \in HeaderLists : SchemaTryNew(h).ok}
AttributeSets == {l \in NameLists : AttributeSetTryNew(l).ok}
GroupingSets  == {l \in NameLists : GroupingSetTryNew(l).ok}
NamedAggSets  == {l \in AggLists : NamedAggSetTryNew(l).ok}
OrderKeys     == {l \in KeyLists : OrderKeysTryNew(l).ok}
EquiPairSets  == {l \in PairLists : EquiPairsTryNew(l).ok}
Offsets       == {w \in Words : OffsetTryNew(w).ok}
LimitCounts   == {Unbounded}
                   \cup {LimitCountBounded(w).val : w \in {x \in Words : LimitCountBounded(x).ok}}

Indexed(steps) ==
  \A step \in ToSet(steps) : step.k = "Index" => BoundedIndexTryNew(step.index).ok

Paths ==
  LET lists == {l \in StepLists : Indexed(l)}
  IN  {LensTryNew(l).val : l \in {x \in lists : LensTryNew(x).ok}}
        \cup {TraversalTryNew(l).val : l \in {x \in lists : TraversalTryNew(x).ok}}

(***************************************************************************)
(* A BoolExpression is proved on some Schema the client holds, not kept    *)
(* with it, and never given up.  Predicate::Opaque, which is not verified, *)
(* takes an OpaqueId that nothing outside the crate's tests can make yet   *)
(* (expression.rs:154-162), so no predicate is one.                        *)
(***************************************************************************)
Predicates == {e \in Expr : \E s \in schemas : BoolExpressionTryNew(s, e).ok}

JoinOns ==
  {[k |-> "Natural"]}
    \cup {[k |-> "Equi", pairs |-> p] : p \in EquiPairSets}
    \cup {[k |-> "Theta", predicate |-> e] : e \in Predicates}

ASSUME BuilderAssumption ==
  /\ MaxNodes \in Nat
  /\ NameLists \subseteq Seq(Name)
  /\ Words \subseteq Word
  /\ Extensions \subseteq Expr
  /\ \A h \in HeaderLists : Listed(h)
  /\ \A l \in AggLists : l \in Seq(ToSet(l)) /\ \A agg \in ToSet(l) : agg.name \in Name
  /\ \A l \in PairLists : l \in Seq(ToSet(l))
  /\ \A h \in ClientSchemas : SubSchemas(h) \subseteq ClientSchemas
  /\ \A e \in Expr : e.k = "Cast" /\ IsRelationTy(e.to) => e.to.schema \in ClientSchemas

-----------------------------------------------------------------------------

(***************************************************************************)
(* What is kept of an error: its variant, and the variant it wraps.        *)
(***************************************************************************)
NoError == <<>>

Variant(err) == IF err.k \in {"Schema", "Infer"} THEN <<err.k, err.source.k>> ELSE <<err.k>>

Schema(i) == ops[i].schema

Node(kind, inputs, arg, schema) ==
  [kind |-> kind, inputs |-> inputs, arg |-> arg, schema |-> schema]

Init ==
  /\ ops = <<>>
  /\ schemas = ClientSchemas
  /\ outcome = [call |-> "None", err |-> NoError]

(***************************************************************************)
(* A call: on success the node is built with the header computed for it,   *)
(* on failure nothing is.                                                  *)
(***************************************************************************)
Call(constructor, kind, inputs, arg, header) ==
  /\ constructor \in Constructors
  /\ \/ /\ header.ok
        /\ ops' = Append(ops, Node(kind, inputs, arg, header.val))
        /\ schemas' = schemas \cup {header.val} \cup SubSchemas(header.val)
        /\ outcome' = [call |-> constructor, err |-> NoError]
     \/ /\ ~header.ok
        /\ outcome' = [call |-> constructor, err |-> Variant(header.err)]
        /\ UNCHANGED <<ops, schemas>>

SourceOp(s) == Call("Source", "Source", <<>>, <<>>, Ok(s))

ProjectOp(i, attrs) ==
  Call("Project", "Project", <<i>>, [attrs |-> attrs], ProjectHeader(Schema(i), attrs))

RestrictOp(i, e) ==
  Call("Restrict", "Restrict", <<i>>, [predicate |-> e], RestrictHeader(Schema(i), e))

RenameOp(i, from, to) ==
  Call("Rename", "Rename", <<i>>, [from |-> from, to |-> to],
       RenameHeader(Schema(i), from, to))

ExtendOp(i, n, e) ==
  Call("Extend", "Extend", <<i>>, [name |-> n, expr |-> e], ExtendHeader(Schema(i), n, e))

SummarizeOp(i, by, aggs) ==
  Call("Summarize", "Summarize", <<i>>, [by |-> by, aggs |-> aggs],
       SummarizeHeader(Schema(i), by, aggs))

(***************************************************************************)
(* order and limit cannot fail: the keys are not looked up in the header,  *)
(* and the window was checked when its bounds were built.                  *)
(***************************************************************************)
OrderOp(i, by) == Call("Order", "Order", <<i>>, [by |-> by], Ok(Schema(i)))

LimitOp(i, offset, count) ==
  Call("Limit", "Limit", <<i>>, [offset |-> offset, count |-> count], Ok(Schema(i)))

(***************************************************************************)
(* The sub-operator of modify is any Op: its header replaces the nested    *)
(* one, whatever it was built on.                                          *)
(***************************************************************************)
ModifyOp(i, path, j) ==
  Call("Modify", "Modify", <<i, j>>, [path |-> path],
       ModifyHeader(Schema(i), path, Schema(j)))

UnnestOp(i, path) ==
  Call("Unnest", "Unnest", <<i>>, [path |-> path], UnnestHeader(Schema(i), path))

NestOp(i, attrs, into) ==
  Call("Nest", "Nest", <<i>>, [attrs |-> attrs, into |-> into],
       NestHeader(Schema(i), attrs, into))

SetOp(kind, i, j) ==
  Call(kind, kind, <<i, j>>, <<>>, SetOpHeader(Schema(i), Schema(j)))

\* A wrong ProductOp: products are flattened.
ProductFlattened(i, j) ==
  Call("Product", "Product", Append(ops[i].inputs, j), <<>>,
       ConcatDisjoint(Schema(i), Schema(j)))

ProductOp(i, j) ==
  Call("Product", "Product", <<i, j>>, <<>>, ConcatDisjoint(Schema(i), Schema(j)))

JoinOp(i, j, kind, on) ==
  LET header == JoinHeader(Schema(i), Schema(j), kind, on)
  IN  IF BecomesProduct(Schema(i), Schema(j), kind, on)
      THEN Call("Join", "Product", <<i, j>>, <<>>, header)
      ELSE Call("Join", "Join", <<i, j>>, [kind |-> kind, on |-> on], header)

(***************************************************************************)
(* MaxNodes bounds the exploration; the code has no such limit.            *)
(***************************************************************************)
OneOperand(i) ==
  \/ \E attrs \in AttributeSets : ProjectOp(i, attrs)
  \/ \E e \in Predicates : RestrictOp(i, e)
  \/ \E from, to \in Name : RenameOp(i, from, to)
  \/ \E n \in Name, e \in Extensions : ExtendOp(i, n, e)
  \/ \E by \in GroupingSets, aggs \in NamedAggSets : SummarizeOp(i, by, aggs)
  \/ \E by \in OrderKeys : OrderOp(i, by)
  \/ \E offset \in Offsets, count \in LimitCounts : LimitOp(i, offset, count)
  \/ \E path \in Paths : UnnestOp(i, path)
  \/ \E attrs \in AttributeSets, into \in Name : NestOp(i, attrs, into)

TwoOperands(i, j) ==
  \/ \E path \in Paths : ModifyOp(i, path, j)
  \/ \E kind \in {"Union", "Intersect", "Difference"} : SetOp(kind, i, j)
  \/ ProductOp(i, j)
  \/ \E kind \in JoinKinds, on \in JoinOns : JoinOp(i, j, kind, on)

Next ==
  /\ Len(ops) < MaxNodes
  /\ \/ \E s \in ClientSchemas : SourceOp(s)
     \/ \E i \in DOMAIN ops : OneOperand(i)
     \/ \E i, j \in DOMAIN ops : TwoOperands(i, j)

Spec == Init /\ [][Next]_vars
============================================================================
