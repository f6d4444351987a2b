------------------------------ MODULE OpSafety ------------------------------
(***************************************************************************)
(* What must hold of the operators a client has built, however it built    *)
(* them.                                                                   *)
(***************************************************************************)
EXTENDS OpBuilder

UnaryKinds  == {"Project", "Restrict", "Rename", "Extend", "Summarize", "Order",
                "Limit", "Unnest", "Nest"}
BinaryKinds == {"Modify", "Union", "Intersect", "Difference", "Product", "Join"}

Arity(kind) == IF kind \in UnaryKinds THEN 1 ELSE IF kind \in BinaryKinds THEN 2 ELSE 0

Input(i, k) == Schema(ops[i].inputs[k])

Header(i) == HeaderFn(Schema(i))

InputFn(i, k) == HeaderFn(Input(i, k))

OfKind(kind) == {i \in DOMAIN ops : ops[i].kind = kind}

(***************************************************************************)
(* Op is a tree of known kinds, each with its number of operands, all of   *)
(* them built before it; what it caches is a Schema value of the program.  *)
(***************************************************************************)
TypeOK ==
  /\ ops = [i \in 1..Len(ops) |-> ops[i]]
  /\ Len(ops) <= MaxNodes
  /\ \A i \in DOMAIN ops :
       /\ ops[i].kind \in {"Source"} \cup UnaryKinds \cup BinaryKinds
       /\ DOMAIN ops[i].inputs = 1..Arity(ops[i].kind)
       /\ \A k \in DOMAIN ops[i].inputs : ops[i].inputs[k] \in 1..(i - 1)
       /\ ops[i].schema \in schemas

(***************************************************************************)
(* Every Schema the program holds, cached or nested at any depth, has at   *)
(* least one and at most MaxSchemaAttributes attributes and no name twice: *)
(* restrict, order, limit and the set operations reuse a header without    *)
(* checking it, and modify and nest put one inside a type.                 *)
(***************************************************************************)
SchemasWellFormed ==
  \A s \in schemas : ValidHeader(s) /\ SubSchemas(s) \subseteq schemas

(***************************************************************************)
(* The part of it that is about the headers the operators cache: no call   *)
(* leaves an Op with a header that Schema::try_new would not have let      *)
(* through, and concat, rename, modify and join build on that.             *)
(***************************************************************************)
HeadersValid == \A i \in DOMAIN ops : ValidHeader(Schema(i))

(***************************************************************************)
(* The predicate of a restriction or of a theta join is boolean, free of   *)
(* aggregates and closed on the header its rows have, whatever Schema its  *)
(* BoolExpression was proved on.                                           *)
(***************************************************************************)
VerifiedOn(e, s) == BoolOn(e, s) /\ ~ContainsAggregate(e)

PredicatesVerified ==
  /\ \A i \in OfKind("Restrict") : VerifiedOn(ops[i].arg.predicate, Input(i, 1))
  /\ \A i \in OfKind("Join") :
       ops[i].arg.on.k = "Theta" =>
         VerifiedOn(ops[i].arg.on.predicate, Input(i, 1) \o Input(i, 2))

(***************************************************************************)
(* A predicate that was admitted names attributes of its input only.       *)
(***************************************************************************)
PredicatesClosed ==
  \A i \in OfKind("Restrict") :
    FreeAttributes(ops[i].arg.predicate) \subseteq NamesOf(Input(i, 1))

-----------------------------------------------------------------------------

(***************************************************************************)
(* The header a node caches is the one the algebra gives it, from the      *)
(* arguments it stores and the headers its operands cache: what the        *)
(* optimiser and the backends read in O(1) is what they would recompute.   *)
(***************************************************************************)
SummaryOf(i) ==
  LET arg == ops[i].arg
      g   == Header(i)
  IN  /\ Summarizes(InputFn(i, 1), ToSet(arg.by), g)
      /\ DOMAIN g = ToSet(arg.by) \cup NamesOf(arg.aggs)
      /\ \A k \in DOMAIN arg.aggs : AggTy(arg.aggs[k].agg, Input(i, 1)) = Ok(g[arg.aggs[k].name])

JoinOf(i) ==
  Header(i) \in IF ops[i].arg.on.k = "Natural" THEN Coalesced(InputFn(i, 1), InputFn(i, 2))
                ELSE Concatenated(InputFn(i, 1), InputFn(i, 2))

Coherent(i) ==
  LET arg  == ops[i].arg
      kind == ops[i].kind
      g    == Header(i)
  IN  \/ kind = "Source"
      \/ kind \in {"Restrict", "Order", "Limit"} /\ Schema(i) = Input(i, 1)
      \/ kind \in {"Union", "Intersect", "Difference"}
           /\ Schema(i) = Input(i, 1) /\ Schema(i) = Input(i, 2)
      \/ kind = "Project" /\ g \in Projected(InputFn(i, 1), ToSet(arg.attrs))
      \/ kind = "Rename" /\ g \in Renamed(InputFn(i, 1), arg.from, arg.to)
      \/ kind = "Extend" /\ arg.name \in DOMAIN g
                         /\ g \in Extended(InputFn(i, 1), arg.name, g[arg.name])
                         /\ InferTy(arg.expr, Input(i, 1)) = Ok(g[arg.name])
      \/ kind = "Summarize" /\ SummaryOf(i)
      \/ kind = "Unnest" /\ g \in Unnested(InputFn(i, 1), arg.path.steps[1].name)
      \/ kind = "Nest" /\ g \in Nested(InputFn(i, 1), ToSet(arg.attrs), arg.into)
      \/ kind = "Modify" /\ g \in Refocused(InputFn(i, 1), arg.path.steps[1].name, Input(i, 2))
      \/ kind = "Product" /\ g \in Concatenated(InputFn(i, 1), InputFn(i, 2))
      \/ kind = "Join" /\ JoinOf(i)

CacheCoherent == \A i \in DOMAIN ops : Coherent(i)

(***************************************************************************)
(* Inner natural joins and products do not overlap: an inner natural join  *)
(* that was kept coalesces at least one attribute, a product none.         *)
(***************************************************************************)
NaturalCanonical ==
  /\ \A i \in OfKind("Join") :
       ops[i].arg.on.k = "Natural" /\ ops[i].arg.kind = "Inner" =>
         Len(Schema(i)) < Len(Input(i, 1)) + Len(Input(i, 2))
  /\ \A i \in OfKind("Product") :
       Len(Schema(i)) = Len(Input(i, 1)) + Len(Input(i, 2))

(***************************************************************************)
(* The last check of every constructor, on the header it computed, is not  *)
(* idle, and it only catches what the earlier checks cannot see: a header  *)
(* that grew past the limit, and the names an unnest brings up.            *)
(***************************************************************************)
SchemaErrorOrigin ==
  /\ outcome.err = <<"Schema", "Cardinality">> =>
       outcome.call \in {"Extend", "Summarize", "Product", "Join", "Unnest"}
  /\ outcome.err = <<"Schema", "DuplicateAttribute">> => outcome.call = "Unnest"

(***************************************************************************)
(* So a constructor that neither adds an attribute nor unnests one never   *)
(* reports a Schema error, the one it could return by its type.            *)
(***************************************************************************)
Rebuilding ==
  {"Source", "Project", "Restrict", "Rename", "Order", "Limit", "Modify", "Union",
   "Intersect", "Difference"}

RevalidationIdle ==
  outcome.call \in Rebuilding /\ outcome.err # NoError => outcome.err[1] # "Schema"

(***************************************************************************)
(* Two constructors that undo each other give the header back: the same    *)
(* attributes after a nest and an unnest of the new column, and the same   *)
(* list after a rename and its inverse.                                    *)
(***************************************************************************)
RoundTrip ==
  \A i \in DOMAIN ops : \A p \in ToSet(ops[i].inputs) :
    /\ /\ ops[i].kind = "Unnest"
       /\ ops[p].kind = "Nest"
       /\ ops[i].arg.path.steps[1].name = ops[p].arg.into
       => ToSet(Schema(i)) = ToSet(Input(p, 1))
    /\ /\ ops[i].kind = "Rename"
       /\ ops[p].kind = "Rename"
       /\ ops[i].arg = [from |-> ops[p].arg.to, to |-> ops[p].arg.from]
       => Schema(i) = Input(p, 1)

-----------------------------------------------------------------------------

(***************************************************************************)
(* A constructor succeeds exactly when the algebra admits its operands,    *)
(* and an attribute it blames is guilty: on every header reached, with     *)
(* every argument the client holds.                                        *)
(***************************************************************************)
Guilty(err, names) ==
  /\ err.k = "UnknownAttribute" => err.attribute \notin names
  /\ err.k = "AttributeAlreadyExists" => err.attribute \in names

Meets(header, promised, names) ==
  IF header.ok THEN HeaderFn(header.val) \in promised
  ELSE promised = {} /\ Guilty(header.err, names)

Focus(n) == [kind |-> "Lens", steps |-> <<[k |-> "Field", name |-> n]>>]

UnaryExact ==
  \A s \in schemas :
    LET f == HeaderFn(s)
    IN  /\ \A l \in AttributeSets : Meets(ProjectHeader(s, l), Projected(f, ToSet(l)), DOMAIN f)
        /\ \A n, m \in Name : Meets(RenameHeader(s, n, m), Renamed(f, n, m), DOMAIN f)
        /\ \A n \in Name : Meets(UnnestHeader(s, Focus(n)), Unnested(f, n), DOMAIN f)
        /\ \A l \in AttributeSets, n \in Name :
             Meets(NestHeader(s, l, n), Nested(f, ToSet(l), n), DOMAIN f)

BinaryExact ==
  \A l, r \in schemas :
    LET f == HeaderFn(l)
        g == HeaderFn(r)
    IN  /\ Meets(ConcatDisjoint(l, r), Concatenated(f, g), DOMAIN f)
        /\ \A kind \in JoinKinds :
             Meets(JoinHeader(l, r, kind, [k |-> "Natural"]), Coalesced(f, g), DOMAIN f)
        /\ \A n \in Name : Meets(ModifyHeader(l, Focus(n), r), Refocused(f, n, r), DOMAIN f)

-----------------------------------------------------------------------------

(***************************************************************************)
(* The end of a window, offset plus count, is a number a backend can hold  *)
(* in the word it gets the two in (limits.rs:20-26): the sum is never      *)
(* computed in this crate, so only the bounds on the parts protect it.     *)
(***************************************************************************)
WindowsFit ==
  \A i \in OfKind("Limit") :
    ops[i].arg.count.k = "Bounded" => ops[i].arg.offset + ops[i].arg.count.n \in Word

(***************************************************************************)
(* Natural joins can be regrouped: whichever two of three relations are    *)
(* joined first, the result has the same attributes in the same order, or  *)
(* is refused either way.  (Triples of older headers were checked before.) *)
(***************************************************************************)
Joined(l, r) == JoinHeader(l, r, "Inner", [k |-> "Natural"])

Regroups(l, m, r) ==
  LET first == Then(Joined(l, m), LAMBDA s : Joined(s, r))
      last  == Then(Joined(m, r), LAMBDA s : Joined(l, s))
  IN  first.ok = last.ok /\ (first.ok => first = last)

JoinsRegroup ==
  LET headers == {Schema(i) : i \in DOMAIN ops}
      older == {Schema(i) : i \in 1..(Len(ops) - 1)}
  IN  \A n \in headers \ older, s, t \in headers :
        Regroups(n, s, t) /\ Regroups(s, n, t) /\ Regroups(s, t, n)

-----------------------------------------------------------------------------

(***************************************************************************)
(* The builder implements the algebra of unordered headers.                *)
(***************************************************************************)
Abstract(o) == [kind |-> o.kind, inputs |-> o.inputs, header |-> HeaderFn(o.schema)]

Algebra == INSTANCE AbstractOps WITH exprs <- [i \in DOMAIN ops |-> Abstract(ops[i])]

ImplementsAlgebra == Algebra!Spec
============================================================================
