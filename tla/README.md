# A verification model of axiom-core

axiom-core is a Rust crate of typed relational algebra: a client builds operator
trees (`Op`) with fallible *smart constructors*, each of which checks its
arguments, computes the header (`Schema`) of the result and caches it in the node.
Optimizer and backends, when they land, are meant to trust the cached header and the
checks without repeating them. There are no threads, no I/O and nothing is
persisted. What is hard here is that every later constructor relies on what the
earlier ones established, that checks made on one header are reused on another,
that rows are read by position through headers cached long before, and that the
order of the checks and of the attributes is visible to the client.

## The system

| Part | Source (`src/crates/axiom-core/src/`) | State | Operations | What makes it correct |
|---|---|---|---|---|
| Headers, refined lists | `schema.rs`, `ty.rs`, `order.rs`, `join.rs`, lists of `op.rs` | immutable values | `try_new`, `find`, `contains` | length within limits, keys unique, length error before duplicate error |
| Expression typing | `infer.rs`, `expression.rs`, `op_enums.rs` | none | `infer`, `agg_ty`, `BoolExpression::try_new`, `contains_aggregate` | decides the typing rules; blames the first mistake; depends only on the attributes an expression names |
| Operator constructors | `op.rs` | the tree: kind, operands, argument, cached header | source, project, restrict, rename, order, limit, extend, modify, unnest, nest, summarize, union, intersect, difference, join, product | cached header is the algebra's; a row read by position is the algebra's tuple; predicates verified where they are used; no invalid header reachable; exact acceptance |
| Paths | `path.rs` | immutable | `LensPath::try_new`, `TraversalPath::try_new` | lens without `Each`, traversal with one, bounded length and indices |
| Windows, limits | `limit.rs`, `limits.rs` | immutable | `Offset::try_new`, `LimitCount::bounded` | the end of a window fits in a word |
| Identifiers | `identifier.rs` | immutable | `AttributeName::try_new`, `TableName::try_new` | three lexical rules in order; the right character is blamed |
| Values, rows, sources | `ty.rs`, `row.rs`, `source.rs`, part of `infer.rs` | what the client collected; rows of a memory source | `value_matches_type`, `row_matches_schema`, `Row::try_new`, `MemorySource::try_new`, tables | a source is accepted exactly when it is a relation; the first culprit is blamed |
| Canonical predicates, constraints | `canonical.rs`, `constraint.rs` | predicates, constraints and sets the client holds | `CanonicalPredicate::try_new`, `free_attributes`, `AttributeConstraint`, `RowConstraint`, `ConstraintSet` | aggregates excluded, only the attribute in scope, a proof that stays good |
| axiom-mem, axiom-pg, axiom-derive, optimizer | `docs/` only | | | no code at this commit |

The parts interact by calls and by values only. A constructor of `op.rs` moves its
operands into the new node, but an `Op` can be cloned first, so every value built
so far can be an operand of several others. A `BoolExpression` carries a proof made
against a `Schema` it does not keep; `restrict` and the theta join verify it again,
while a constraint keeps a `CanonicalPredicate` and never verifies it again.
`union`, `intersect` and `difference` compare cached headers. `modify` puts the
cached header of one tree inside a type in the header of another, `nest` does
so with a part of its own, and `unnest` takes such a header out again. A memory
source gets a header that `Schema::try_new` checked, whose names went through
`AttributeName::try_new`. The list, length and character checks are those of the
external crate `whittle`, modelled from how these files use it.

## The modules

Models of the code:

* `Schemas` - headers, types, and the checked lists (external rule `Checked`).
* `Infer` (on `Schemas`) - static typing, `contains_aggregate` and
  `free_attributes`. The recursion over an expression is a recursive function over
  `Expr`, the set of the expressions in use.
* `Limits` (on `Schemas`) - offsets, counts and path indices, on words of any size.
* `Headers` (on `Infer`) - for every constructor, the header it computes or the
  error it returns, checks in the order of the code, first failure wins.
* `OpBuilder` (on `Headers`, `HeaderAlgebra`, `Limits`) - a state machine: a client
  that calls the constructors of `op.rs` in any order.
* `Values` (on `Schemas`) - values at any depth, the check of a value against a type and of a
  row against a header, with the path of the first failure; and types as sets of values.
* `Identifiers` (on `Schemas`) - the lexical rules.
* `Sources` (on `Values`, `Identifiers`, `Infer`) - a state machine: a client that collects
  columns and rows and makes memory sources and tables of them.
* `Constraints` (on `Infer`) - a state machine: a client that proves predicates and
  makes constraints and constraint sets of them.

Specifications and properties:

* `HeaderAlgebra`, `AbstractOps` - the abstract specification, which knows nothing
  of lists: a header is a function from names to types, an operator a set operation on such
  functions, and a behaviour is a growing list of expressions.
* `OpSafety` - properties of the builder, and the refinement mapping to `AbstractOps`.
* `RowFlow` (on `OpSafety`) - rows sent up every tree twice, by position and by name.
* `Typing` - a client that types growing expressions on several headers, an
  independent statement of the typing rules, and the properties of `infer`.
* `SourceSafety`, `ConstraintSafety` - properties of the other two state machines.
* `DocClaims` - statements of the documentation that the code does not keep.

Lemmas: `InferLemmas` (what a `?` chain, a loop and a checked list return; when a recursion over
finite trees has a solution; what the recursions of `infer`, `contains_aggregate` and
`free_attributes` compute), `HeaderLemmas` (headers as lists and as functions: filtering, splicing,
concatenating, and what each operator makes of them). Proofs: `OpSafetyProofs`, on it
`CoherenceProofs` and on that `RowProofs` about the builder, `TypingProofs`, `SourceProofs`, `ConstraintProofs` about the other
state machines. Instances: `MCOpBuilder`, `MCTyping`, `MCSources`, `MCConstraints`, with one `.cfg`
for each run.

### State and actions of OpBuilder

`ops` is the sequence of the `Op` values built so far: `kind`, `inputs` (indices of
earlier ones, standing for the boxed operands), `arg` (what `OpKind` stores besides)
and `schema` (the cached header). `schemas` is the set of the `Schema` values the
program can put its hands on: the client's own, cached headers and the headers
nested in them. `outcome` is what the last call returned: which constructor, and
either no error or the variant of `OpError` with the variant it wraps.

There is one action per constructor (`SourceOp` ... `JoinOp`); `SetOp` stands for the three
set operations. An action is one call as a whole: it takes any operands and any
arguments the client can hold (lists that their own `try_new` let through, paths, windows, predicates
proved on some known schema) and either appends the node or returns the error and
leaves everything alone. `join` may append a product node, as the code rewrites it.

Abstractions: names are model values; a literal is known by its variant; a `LIKE`
pattern is left out, and the rows behind a source are the business of `Sources` and `RowFlow`;
positions count from 1. `SubSchemas` sees relations that are the type of an attribute, not
those inside an array or optional type. A set operation is accepted when the two lists are
equal, as the code compares them. `Predicate::Opaque`, which the constructors do
not verify, is not modelled: its `OpaqueId` has no constructor outside the tests of the crate.
When a backend can mint one, `PredicatesVerified` has to except it.

`RowFlow` is not code of the crate, which evaluates nothing: it is what an evaluator
has to do, given that rows carry no names (`row.rs:1-4`). Each source emits one row
of values with distinct tags; every operator above moves values by the positions that the
headers cached in its operands give, and, separately, does to a tuple what the
algebra says. A value is either `Whole`, with the tag and the type it was made with, or `Rows`, a
relation that `nest` or `modify` made, known by one of its rows. A whole value of a relation type is
opened only when `unnest` takes it out, with the header of its own type. The two ways are compared
tag by tag and type by type, through the header the newest operator caches, and inside `Rows` through
the headers nested in that one, level by level; there are no more levels than operators. Checking the
newest operator is enough, since every other one was the newest before. A restriction keeps every
row, a join of any kind is followed on matched rows only (the padded rows of the outer kinds,
`op.rs:896-899`, are outside the model), and aggregates and extensions are values of their own.
The module has no recursive operator, so that it can be reasoned about: levels and rows are recursive functions.

### State and actions of Sources

`columns` and `batch` are the vectors of attributes and of rows the client has collected,
which only grow; `source` is the last source it built, with a header and rows of its own;
`outcome` is the last answer. `AddColumn` is `AttributeName::try_new` and, when it accepts, a push;
`PushRow` the same for `Row::try_new`; `TryMemory` is `Schema::try_new` followed by
`MemorySource::try_new`, and `TryTable` the constructors of a table source. A string is a sequence of
characters of which only the class matters; a scalar is known by its variant, so
that `Float64` being finite is left to `whittle`; compound values are
modelled in full, to any depth. Character offsets are byte offsets, since the
characters an identifier may have before the bad one are ASCII.

### State and actions of Constraints

`held` has the last canonical predicate, `perAttr` and `perRow` are the constraints
collected, `set` is the last set that was built. A predicate is paired with
the schema it was proved on, which the code drops: no action reads it, only the
properties do. `Prove` is `CanonicalPredicate::try_new`, `Scope` is
`AttributeConstraint::try_new`, `ForRow` is `RowConstraint::new`, `Assemble` and `Empty` are the two
constructors of `ConstraintSet`. `Rank` is the order of `AttributeName`, in which
`free_attributes` is walked and so which foreign attribute is reported.

A few definitions named as *wrong* variants stand beside the definitions they
vary (`RenameUnchecked`, `LengthFirst`, ...). No specification uses them; each
is a plausible mistake in that piece of code, and putting it in the place of the
right definition makes the property listed with it under `mutants` in `PROJECT.json` fail.

## The runs

| Run | Instance | Question |
|---|---|---|
| `unary` | 3 names, headers of at most 3 attributes, 4 operators | do chains of project, restrict, rename, extend, summarize, order, limit stay sound, with predicates proved elsewhere |
| `nest` | same, headers with a nested header | nest, unnest, modify: validity at depth, round trips, exact acceptance, rows at depth |
| `join` | same, headers that are disjoint, equal, permuted, overlapping after renames | products, set operations, natural, equi and theta joins, and how joins regroup |
| `typing` | 2 names, 5 types, expressions of two levels and some of three | does `infer` decide the rules, and blame the first mistake |
| `sources` | 7 strings as names, 4 types, 10 values up to depth 2, 7 lists of values, 2 columns and 3 rows collected | is a source accepted exactly when it is a relation, and is the first culprit blamed |
| `constraints` | 3 names, 3 headers that type one name in two ways, 8 expressions, 3 constraints collected | do proofs made on one header stay good in the sets built of them |
| `natural`, `nest_order`, `count`, `modify`, `order_keys`, `comparable` | the instances above | six statements of the documentation that TLC refutes |

What they show:

* `HeadersValid`, `SchemasWellFormed` - no reachable header, cached or nested, is
  empty, too long or repeats a name.
* `PredicatesVerified`, `PredicatesClosed` - a stale `BoolExpression` never gets through.
* `CacheCoherent`, `ImplementsAlgebra` - the cached header is the one the algebra
  gives; every step of the builder is a step, or no step, of `AbstractOps`.
* `RowsReadBack` - a row that went up a tree by position, read through the header
  the last operator caches, is the tuple the algebra gives: no column has moved under a name,
  nested ones included, and both sides of a set operation are read alike. It is what refuses a set operation
  over permuted headers, to which the unordered `CacheCoherent` and `ImplementsAlgebra` are blind.
* `UnaryExact`, `BinaryExact` - a constructor fails only when the algebra admits
  nothing, and an attribute it blames is guilty, on every header reached.
* `RoundTrip` - unnest after nest gives the attributes back, rename and its inverse the list.
* `NaturalCanonical` - an inner natural join that was kept coalesces something.
* `JoinsRegroup` - natural joins of three relations can be grouped either way, with the same header
  in the same order, or are refused either way.
* `RevalidationIdle`, `SchemaErrorOrigin` - which constructors can return `OpError::Schema`:
  only those that add attributes overflow, only `unnest` finds a duplicate.
* `WindowsFit` - offset plus count of every limit is a word.
* `InferFollowsRules`, `TypingCarriesOver`, `ErrorIsFirst`, `AcceptedIsClosed` - about `infer`.
* `SourceConforms`, `SourceExact` - the rows of a memory source match its header, and
  a batch is accepted exactly when every row is a tuple over the header in the
  sense of `Denotation`, where a type is a set of values.
* `BlamesFirst` - the path in a `RowMismatch` leads, level by level, to the first place
  that does not fit; `RefusalSticks` - pushing more rows never changes which row is blamed, though the
  bound on their number is crossed on the way.
* `ColumnsSearchable` - the two typings of a literal (`infer_value`, without a type to
  compare with, and `value_matches_type`) agree on scalar columns and only there.
* `BadCharLocated` - the offset in a `BodyChar` error is where the string stops being a name.
* `SetScoped`, `ScopeTravels` - a constraint of a built set names its attribute and no other, is the only one on it,
  and is boolean on every header that types that attribute alike.
* `FreeIsNeeded` - `free_attributes` is exactly what the typing depends on.
* `ScopeExact` - `AttributeConstraint::try_new` accepts exactly the predicates that need their attribute and can be typed without any
  other, decided by typing on other headers and not by `free_attributes`, and each of its three refusals blames what is wrong.

Bounds. `MaxNodes` (4 operators) bounds the exploration; the code has no such limit,
and the builder runs stop there, hence `CHECK_DEADLOCK FALSE` in them only. `MaxSchemaAttributes` is 3
instead of 256 so that headers at the limit are common: one extend, a product of two small headers or an
unnest overflows. Three names are enough for an attribute to be renamed to a free
name, to a taken one and back, and for two headers to be disjoint, to overlap in a
part and to be permutations. Four operators reach every pair of constructors, one above the other, and two
sources under a binary operator with a rename on one side. Two join kinds suffice because the code
distinguishes `Inner` from the rest. `MaxPathSteps` is 2 so that a path of one step,
of two and an empty one occur. `WordSize` is 8 and `Words` holds 3,
the largest offset and count, and the two words above it.

In `sources`, `MaxColumns` (2) and `MaxBatch` (3) bound the collections; `MaxSchemaAttributes`
and `MaxRowsInAst` are 2, so that a row too wide and a batch one too long are among
the inputs. The values are wrong at the surface, inside one level, or inside two, and some at two places, so that
the first must be chosen. In `constraints`, `MaxCollected` (3) exceeds `MaxSchemaAttributes` (2), so that
both lists can be too long and a scope can repeat; the expressions name no
attribute, one and two of them, and an aggregate.

No liveness is claimed and no fairness assumed: constructors are synchronous, they always return, and
nothing obliges the client to make another call.

## What is proved

Every invariant and action property that a passing run checks is also a theorem. The
proofs hold for any names, expressions, values, types, headers, limits, word size and number of operators,
rows or constraints.

### Assumptions

They assume what the modules state as assumptions, which TLC evaluates in the runs:

* the limits are naturals, `MaxSchemaAttributes` is not zero, `Words` are words (`LimitAssumption` and its like);
* `Expr`, `Value` and `ValueType` contain the components of their elements, every element is of a variant the
  enums have, and is a finite tree: `Size`, `ValueWeight` and `TypeWeight`, one more than the sum over
  the components, are naturals and smaller for a component. A Rust value of these types is one, since it owns its boxes;
* what the code holds in a `Vec` is a list (`Listed`, `Listing`, the lists of `BuilderAssumption`);
* the schemas a client holds passed `Schema::try_new` and it holds the headers nested in them, also those in the target of a
  cast (`ClientSchemas`, `HeadersAssumption`, `ConstraintAssumption`); a scalar type is its variant and nothing else (`Plain`);
* there is always a name a header does not have (`FreshName`; a name has at most 64 characters, and
  there are far more of them than the 256 attributes of the longest header); the names of a header of the constraint client are among those its order ranks (`ConstraintAssumption`).

### Recursions

Four recursions are walked by the code: `infer`, the walks for aggregates and free attributes, and
`value_matches_type`; `Denotation` is a fifth, on the side of the specification. A recursive function
of TLA+ is a `CHOOSE`, which says nothing until a function with the equation is known to exist. No induction
principle is cited for this: `WeighedRecursion` (`InferLemmas`) builds, from approximations up to a weight
that agree with each other (`SolutionsAgree`), a function that meets the equation at every element,
given that the right-hand side only looks at lighter elements. `RecursionExists` (`InferLemmas`),
`VerdictsAre` and `DenotationExists` (`SourceProofs`) are its uses. What holds of every
element is then proved by the lightest counterexample (`LightestValue` and its like, from the
well-foundedness of `<` on the naturals): its components are not counterexamples, and one unfolding of the equation contradicts it.
For the prover's sake `value_matches_type` is a function from values to functions from types (`Verdicts`), because
it knows no function of two arguments, and `Dropping` is a recursion where a filter would do.

### The builder

`OpSafetyProofs`:

* `TypeCorrect`: `TypeOK`. Inductive as it stands; one lemma (`CallShape`) about a call and one case per constructor.
* `HeadersAlwaysValid`: `HeadersValid`, relative to `TypeOK`. Each result went through `Schema::try_new`
  (`HeaderOfOk` and one lemma per constructor) or is the header of an operand, where induction is used.
* `PredicatesAlwaysVerified`: `PredicatesVerified`; the heart is `AdmitOk` and `ThetaOk`: what was
  admitted was verified on the header in question.
* `RevalidationAlwaysIdle`: `RevalidationIdle`, which needs `HeadersValid` as its strengthening: a
  projection has the length and the names of its argument (`ProjectIdle`), a renaming or modification keeps the length and distinct names.
* `WindowsAlwaysFit`: `WindowsFit`, because two numbers of at most half the largest word add up to a word (`HalvesFit`).

`CoherenceProofs`, from the inductive invariant `IInv`, which has three parts:

* `TypeOK`, so that a node keeps pointing at operands that never change;
* `Closed(schemas)`: every header the client can hold is a list of columns within the limit and without a repeated name, and
  so is every header nested in one, at any depth. `SchemasWellFormed` alone is not inductive: `unnest` takes a nested
  header out, so the invariant has to reach inside it, and the algebra of lists needs headers to *be* lists;
* `Recomputed`: each node caches what its constructor computes from the stored argument and the headers that its
  operands cache (`MadeFrom`). `CacheCoherent` compares with the algebra, as sets; it loses the order of the columns and with
  it what the next step needs.

`StepAdds` reduces every action to one fact, that it adds nothing or a node made so, and the theorems follow:

* `SchemasAlwaysWellFormed`, `PredicatesAlwaysClosed` (with `AcceptedAreClosed` of the typing), `AlwaysCanonical`;
* `CacheAlwaysCoherent`: `CacheCoherent` for every kind, one lemma per constructor about the function a
  header is (`HeaderLemmas`: `Dropping` restricts it, a concatenation merges it, a splice replaces a point by a function);
* `UnaryAlwaysExact`, `BinaryAlwaysExact`: the same lemmas with their converses - a refusal means that the algebra admits nothing;
* `SchemaErrorsExplained`: `SchemaErrorOrigin`, because a header made of distinct parts has distinct names, so that only its length can fail;
* `AlwaysRoundTrips`: `RoundTrip`; `JoinsAlwaysRegroup`: `JoinsRegroup`, both groupings being the left header, what the
  middle adds to it and what the right adds to both (`Triple`, `FirstJoins`, `LastJoins`), when the three agree pairwise;
* `BuilderImplementsAlgebra`: the refinement. `Init` maps to `Init`, and a step of the builder maps to the step of
  `AbstractOps` that appends the same kind with the same operands and the header as a function, or to a stutter.

### The rows

`RowProofs`, on `CoherenceProofs` and `RowFlow`, proves `RowsAlwaysReadBack`: `RowsReadBack`, from `Recomputed` and
`Closed`. The property is about trees of views of unknown depth, so the argument has three parts:

* *Agreement at every depth.* `Reads(v)` says that `v` is in some set of views each of which reads as its tuple and which contains,
  with each view, the views inside it (`Sustained`). Such a set is exhibited, and no induction over the depth is needed to
  conclude at each level (`ReadsInside`, `ReadsOutside`, `ReadsAllTheWay`). `Right` says of a row, a header and a tuple that
  they have one length and one domain and that every cell is right, in this sense, for the type of its column.
* *One lemma per operator* (`ProjectingRight`, `RenamingRight`, `ExtendingRight`, `AggregatingRight`, `NestingRight`,
  `UnnestingRight`, `ModifyingRight`, `PairingRight`): when a row is right for the operand's header, the row moved by position
  is right for the header the constructor computes and the tuple moved by name. They rest on lemmas about right lists that
  follow the lists of `HeaderLemmas` (`RightConcat`, `RightPart`, `RightOthers`, ...). `OneRowRight` and `TwoRowsRight` join them to what each
  kind caches; a union hands on either side because the two headers are equal as lists.
* *Every operator.* The rows of a tree are a recursive function of the index of the operator; it exists because operands come
  before (`RowsExist`, `AllRowsAre`), and the first operator with a wrong row has operands with right rows
  (`NextRight`, `EveryRowRight`). `EveryRowReads` is stronger than the property: it covers every operator, not only the newest, and any depth.

### The other state machines

`TypingProofs`, about `Typing` (`IInv`: the result held is what `infer` answers for the expression and header held):
`InferIsTheRules`, `TypingsCarryOver`, `ErrorsAreFirst`, `AcceptedAreClosed`, all of its properties.

`SourceProofs`, about `Sources`. `IInv` says that the lists are made of what a client may write, `TypeOK`,
`SourceConforms`, and that the last answer is what the call would answer again (`Answered`), since the properties
compare the answer with the state:

* `SourceTypes`: `TypeOK`, whose heart is that the three lexical rules together leave only identifiers
  (`AttributeNameOk`), and `SourcesConform`: `SourceConforms` (`MemoryOk`);
* `SourcesExact`: `SourceExact`, by `MatchExact`: `value_matches_type` accepts exactly the members of the set a type denotes;
* `BlameIsFirst`: `BlamesFirst`, one lemma about a walk that stops at the first failure (`PlacedFails`) used for rows, cells,
  elements and nested rows;
* `ColumnsAlwaysSearchable`: `ColumnsSearchable`; `BadCharAlwaysLocated`: `BadCharLocated`;
* `RefusalsStick`: the action property `RefusalSticks`, because the first failure of a list
  is the first failure of every extension of it (`RefusalKept`, `FirstHit`).

`ConstraintProofs`, about `Constraints`, from an `IInv` that says what the collected lists, and not only the last set,
contain: `PredicatesStayProved` (`TypeOK`), `SetsStayScoped`, `ScopesTravel`, `FreeAreNeeded`,
`ScopesExact` (`NeededIsFree`: what a predicate names is what its typing needs; `AloneIsEnough`: one name is enough exactly when a
header of that column alone types it; `LeastIsOne`: the foreign attribute is one of them).

### Only model-checked

The six violated statements are counterexamples of TLC. No liveness is claimed, so none is left out. What a proof says of
the code is what its model says: the map in `PROJECT.json` names the lines of each definition, and the runs
show that the hypotheses have instances in which the interesting cases occur.

## Documentation and code

Six statements of the documentation are refuted, each by a run (see `findings` in `PROJECT.json`): natural outer
joins without shared columns are not products (`join.rs:116`); nest does not keep the original order
(`op.rs:679`); COUNT does not look its attribute up (`infer.rs:302`); the sub-operator of a modify is not
checked against the focus (`ARCHITECTURE.md:559`); comparisons are not limited to comparable types (`IDEA.md:334`);
an order keeps keys on attributes its input does not have (`op.rs:476`, against `IDEA.md:811`).

Smaller ones, read off the source and without a run:

* `limits.rs:20` says `MAX_OFFSET` is `i64::MAX / 2`; it is `u64::MAX / 2`, and the sum still fits.
* Order keys are unique by attribute; `IDEA.md:278` and `ARCHITECTURE.md:468` key them on the full `OrderKey`.
* A `Row` has a bounded length and no schema; `IDEA.md:289` constrains it by one at construction.
* `source.rs:25` says rows are not yet checked against the schema; `MemorySource::try_new` does. It
  compares the rows before it counts them, so a batch that is wrong in both ways is reported for a row.
* A name that begins with punctuation is reported as `BodyChar` at offset 0, not as `FirstChar`: only a leading digit gets there.
* A predicate that names other attributes and not its own gets `MissingScope`, where `constraint.rs:65` promises
  `ForeignAttribute` for any that names another.

## Plan

Done: every part with code has a model. In the order of the work: headers, typing, constructors and their
algebra; then windows, rows under the operators, values with their sources and identifiers, constraints; then the theorems above,
which state every property of the passing runs, the rows last.

What the model should gain when the code does:

1. Constraints attached to sources and carried through operators, once the code attaches them.
2. Paths beyond one field, once `modify` and `unnest` walk them.
3. Evaluation against `RowFlow`, once a backend exists.

## Not modelled

* axiom-mem, axiom-pg, axiom-derive and the optimizer: described in the documents, no code.
* `Display`, `as_str`, accessors and trait derivations: they change nothing and compute nothing a property is about.
* `Pattern`: a third length rule on a string, the same as `TableName`'s with another bound.
* `OpaqueId`: cannot be made outside the tests of the crate.
* The rows an outer join pads (`op.rs:896-899`): the crate evaluates nothing and says nothing of the type of a padded column, so
  `RowFlow` follows matched rows only, and `RowsReadBack` says nothing of padded ones.
