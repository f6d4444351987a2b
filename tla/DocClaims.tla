----------------------------- MODULE DocClaims -----------------------------
(***************************************************************************)
(* What the documentation of the crate says of the operators and the code  *)
(* does not do.  Each is refuted by a run of its own.                      *)
(***************************************************************************)
EXTENDS RowFlow

(***************************************************************************)
(* join.rs:115-119: "With no shared columns, the smart constructor of      *)
(* `Op::join` rewrites this to a cartesian product".                       *)
(***************************************************************************)
NaturalJoinsShare ==
  \A i \in OfKind("Join") :
    ops[i].arg.on.k = "Natural" => Shared(Input(i, 1), Input(i, 2)) # {}

(***************************************************************************)
(* op.rs:678-680: the sub-schema of a nest is "the header carrying just    *)
(* the nested attributes (in their original order)".                       *)
(***************************************************************************)
NestKeepsOrder ==
  \A i \in OfKind("Nest") :
    TypeOf(Schema(i), ops[i].arg.into).schema =
      SelectSeq(Input(i, 1), LAMBDA x : x.name \in ToSet(ops[i].arg.attrs))

(***************************************************************************)
(* infer.rs:302-304: agg_ty "returns `UnknownAttribute` if the aggregate   *)
(* references a missing attribute", so no summary is built over one.       *)
(***************************************************************************)
AggregatesResolve ==
  \A i \in OfKind("Summarize") : \A agg \in ToSet(ops[i].arg.aggs) :
    agg.agg.over \subseteq NamesOf(Input(i, 1))

(***************************************************************************)
(* ARCHITECTURE.md:559-561: the sub-operator of a modify "is interpreted   *)
(* against an implicit source whose schema is the path-focus type;         *)
(* references in `sub` to attributes outside the focus are rejected at     *)
(* smart-constructor time": its sources have no attribute beyond the focus.*)
(***************************************************************************)
SourcesUnder(i) ==
  LET under[k \in DOMAIN ops] ==
        IF ops[k].kind = "Source" THEN {k}
        ELSE UNION {under[ops[k].inputs[m]] : m \in DOMAIN ops[k].inputs}
  IN  under[i]

ModifyFocused ==
  \A i \in OfKind("Modify") : \A leaf \in SourcesUnder(ops[i].inputs[2]) :
    NamesOf(Schema(leaf)) \subseteq
      NamesOf(TypeOf(Input(i, 1), ops[i].arg.path.steps[1].name).schema)

(***************************************************************************)
(* IDEA.md:811-813 on the names that callers supply: "Construction-time    *)
(* validation MUST reject names not present in the schema.", so that an    *)
(* operator sorts by attributes of its input.                              *)
(***************************************************************************)
OrderKeysResolve ==
  \A i \in OfKind("Order") : \A key \in ToSet(ops[i].arg.by) : Has(Input(i, 1), key.attr)
============================================================================
