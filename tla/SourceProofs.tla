---------------------------- MODULE SourceProofs ----------------------------
(***************************************************************************)
(* Proofs about the leaves of a query, for every alphabet, value, type,    *)
(* header, batch of rows and limit.                                        *)
(***************************************************************************)
EXTENDS SourceSafety, InferLemmas

-----------------------------------------------------------------------------

(***************************************************************************)
(* What the identifier rules let through is an identifier, unchanged.      *)
(***************************************************************************)
LEMMA EachCharOk ==
  ASSUME NEW S, NEW raw \in Seq(S)
  PROVE  EachChar(raw).ok => EachChar(raw) = Ok(raw) /\ raw \in Seq(IdentChar)
<1> DEFINE I == {i \in 1..Len(raw) : raw[i] \notin IdentChar}
           bad == SelectInSeq(raw, LAMBDA c : c \notin IdentChar)
<1>1. bad = IF I # {} THEN Min(I) ELSE 0
  BY DEF SelectInSeq
<1>2. I # {} => bad # 0
  <2> SUFFICES ASSUME I # {} PROVE bad # 0
    OBVIOUS
  <2>1. I \subseteq Nat /\ 0 \notin I
    OBVIOUS
  <2>2. PICK m \in I : \A j \in I : m <= j
    BY <2>1, LeastInSeq
  <2>3. Min(I) \in I
    BY <2>2 DEF Min
  <2> QED
    BY <1>1, <2>1, <2>3
<1>3. EachChar(raw) = IF bad = 0 THEN Ok(raw) ELSE Err([k |-> "BodyChar", offset |-> bad - 1])
  BY DEF EachChar
<1>4. I = {} => raw \in Seq(IdentChar)
  OBVIOUS
<1> HIDE DEF I, bad
<1> QED
  BY <1>2, <1>3, <1>4 DEF Ok, Err

LEMMA AttributeNameOk ==
  ASSUME NEW S, NEW raw \in Seq(S), AttributeNameTryNew(raw).ok
  PROVE  AttributeNameTryNew(raw).val = raw /\ Identifier(raw)
<1>1. LenChars(raw, MaxAttributeNameLen).ok
  BY DEF AttributeNameTryNew, Then
<1>2. LenChars(raw, MaxAttributeNameLen) = Ok(raw) /\ Len(raw) \in 1..MaxAttributeNameLen
  BY <1>1 DEF LenChars, Ok, Err
<1>3. AttributeNameTryNew(raw) = Then(EachChar(raw), FirstChar)
  BY <1>2 DEF AttributeNameTryNew, Then, Ok
<1>4. EachChar(raw).ok
  BY <1>3 DEF Then
<1>5. EachChar(raw) = Ok(raw) /\ raw \in Seq(IdentChar)
  BY <1>4, EachCharOk
<1>6. AttributeNameTryNew(raw) = FirstChar(raw)
  BY <1>3, <1>5 DEF Then, Ok
<1>7. FirstChar(raw).ok => FirstChar(raw).val = raw /\ raw[1] \in Letters
  BY DEF FirstChar, Ok, Err
<1> QED
  BY <1>2, <1>5, <1>6, <1>7 DEF Identifier

-----------------------------------------------------------------------------

(***************************************************************************)
(* The checks of the rows are a list as long as the batch, and each fails  *)
(* exactly when its row does not match.                                    *)
(***************************************************************************)
LEMMA RowChecksAre ==
  ASSUME NEW s, NEW S, NEW rows \in Seq(S)
  PROVE  /\ RowChecks(s, rows) \in Seq({RowChecks(s, rows)[i] : i \in DOMAIN rows})
         /\ DOMAIN RowChecks(s, rows) = DOMAIN rows
         /\ \A i \in DOMAIN rows :
              /\ RowChecks(s, rows)[i] = At("RowMismatch", i, RowMatchesSchema(rows[i], s))
              /\ RowChecks(s, rows)[i].ok <=> RowMatchesSchema(rows[i], s).ok
              /\ ~RowChecks(s, rows)[i].ok => RowChecks(s, rows)[i].err.k = "RowMismatch"
<1>1. DOMAIN RowChecks(s, rows) = 1..Len(rows)
  BY DEF RowChecks
<1>2. \A i \in DOMAIN rows :
        RowChecks(s, rows)[i] = At("RowMismatch", i, RowMatchesSchema(rows[i], s))
  BY DEF RowChecks
<1>3. ASSUME NEW i, NEW result
      PROVE  /\ At("RowMismatch", i, result).ok <=> result.ok
             /\ ~result.ok => At("RowMismatch", i, result).err.k = "RowMismatch"
  BY DEF At, Fits, Ok, Err
<1>4. \A i \in DOMAIN rows :
        /\ RowChecks(s, rows)[i].ok <=> RowMatchesSchema(rows[i], s).ok
        /\ ~RowChecks(s, rows)[i].ok => RowChecks(s, rows)[i].err.k = "RowMismatch"
  BY <1>2, <1>3
<1>5. RowChecks(s, rows) = [i \in 1..Len(rows) |-> RowChecks(s, rows)[i]]
  BY DEF RowChecks
<1>6. RowChecks(s, rows) \in [1..Len(rows) -> {RowChecks(s, rows)[i] : i \in DOMAIN rows}]
  BY <1>5
<1>7. RowChecks(s, rows) \in Seq({RowChecks(s, rows)[i] : i \in DOMAIN rows})
  BY <1>6
<1> QED
  BY <1>1, <1>2, <1>4, <1>7

(***************************************************************************)
(* MemorySource::try_new keeps what it was given, once all rows match and  *)
(* their number is within the bound.                                       *)
(***************************************************************************)
LEMMA MemoryOk ==
  ASSUME NEW s, NEW S, NEW rows \in Seq(S), MemorySourceTryNew(s, rows).ok
  PROVE  /\ MemorySourceTryNew(s, rows).val = Memory(s, rows)
         /\ Len(rows) <= MaxRowsInAst
         /\ \A i \in DOMAIN rows : RowMatchesSchema(rows[i], s).ok
<1> DEFINE checked == Wrap("Rows", RowsTryNew(rows))
<1>1. Collect(RowChecks(s, rows)).ok
  BY DEF MemorySourceTryNew, Then
<1>2. MemorySourceTryNew(s, rows) = IF checked.ok THEN Ok(Memory(s, rows)) ELSE checked
  BY <1>1 DEF MemorySourceTryNew, Then
<1>3. checked.ok => Len(rows) \in 0..MaxRowsInAst
  BY LenItemsOk DEF Wrap, RowsTryNew, Err
<1>4. \A i \in DOMAIN rows : RowChecks(s, rows)[i].ok
  BY <1>1, RowChecksAre, CollectOk
<1> HIDE DEF checked
<1>5. checked.ok
  BY <1>2
<1>6. Len(rows) <= MaxRowsInAst
  BY <1>3, <1>5, ValueAssumption
<1>7. \A i \in DOMAIN rows : RowMatchesSchema(rows[i], s).ok
  BY <1>4, RowChecksAre
<1>8. MemorySourceTryNew(s, rows).val = Memory(s, rows)
  BY <1>2, <1>5 DEF Ok
<1> QED
  BY <1>6, <1>7, <1>8

(***************************************************************************)
(* try_memory fails for the columns, or hands on what MemorySource says.   *)
(***************************************************************************)
LEMMA TryMemoryOfIs ==
  ASSUME NEW attributes, NEW rows
  PROVE  \/ /\ ValidHeader(attributes)
            /\ TryMemoryOf(attributes, rows) = MemorySourceTryNew(attributes, rows)
         \/ /\ ~TryMemoryOf(attributes, rows).ok
            /\ TryMemoryOf(attributes, rows).err.k = "Schema"
<1> DEFINE header == SchemaTryNew(attributes)
<1>1. CASE header.ok
  <2>1. ValidHeader(attributes) /\ header = Ok(attributes)
    BY <1>1, SchemaTryNewOk
  <2> QED
    BY <2>1 DEF TryMemoryOf, Then, Wrap, Ok
<1>2. CASE ~header.ok
  BY <1>2 DEF TryMemoryOf, Then, Wrap, Err
<1> QED
  BY <1>1, <1>2

(***************************************************************************)
(* A refused row stays the first one when rows are appended, and it is     *)
(* looked at before the number of rows is.                                 *)
(***************************************************************************)
LEMMA RefusalKept ==
  ASSUME NEW s, NEW S, NEW rows \in Seq(S), NEW row \in S,
         ~MemorySourceTryNew(s, rows).ok,
         MemorySourceTryNew(s, rows).err.k = "RowMismatch"
  PROVE  MemorySourceTryNew(s, Append(rows, row)) = MemorySourceTryNew(s, rows)
<1> DEFINE longer == Append(rows, row)
           old == RowChecks(s, rows)
           new == RowChecks(s, longer)
           k == SelectInSeq(old, LAMBDA r : ~r.ok)
           T == {old[i] : i \in DOMAIN rows}
           U == {new[i] : i \in DOMAIN longer}
<1>1. ~(\A i \in DOMAIN old : old[i].ok)
  <2> SUFFICES ASSUME \A i \in DOMAIN old : old[i].ok PROVE FALSE
    OBVIOUS
  <2>1. Collect(old).ok
    BY DEF Collect, Ok
  <2>2. MemorySourceTryNew(s, rows).err.k = "Rows"
    BY <2>1 DEF MemorySourceTryNew, Then, Wrap, Ok, Err
  <2> QED
    BY <2>2
<1>2. /\ longer \in Seq(S) /\ DOMAIN rows \subseteq DOMAIN longer
      /\ \A i \in DOMAIN rows : longer[i] = rows[i]
  OBVIOUS
<1> HIDE DEF longer
<1>3. old \in Seq(T) /\ DOMAIN old = DOMAIN rows
  BY RowChecksAre
<1>4. new \in Seq(U) /\ DOMAIN new = DOMAIN longer
  BY <1>2, RowChecksAre
<1>5. ASSUME NEW i \in DOMAIN rows PROVE new[i] = old[i]
  <2>1. old[i] = At("RowMismatch", i, RowMatchesSchema(rows[i], s))
    BY DEF RowChecks
  <2>2. new[i] = At("RowMismatch", i, RowMatchesSchema(longer[i], s))
    BY <1>2 DEF RowChecks
  <2> QED
    BY <1>2, <2>1, <2>2
<1> HIDE DEF old, new, T, U
<1>6. k \in DOMAIN old /\ ~old[k].ok /\ \A j \in 1..(k - 1) : old[j].ok
  BY <1>1, <1>3, FirstFailure
<1>7. k \in DOMAIN new /\ new[k] = old[k]
  BY <1>2, <1>3, <1>4, <1>5, <1>6
<1>8. \A j \in 1..(k - 1) : new[j].ok
  <2>1. \A j \in 1..(k - 1) : j \in DOMAIN rows
    BY <1>3, <1>6
  <2> QED
    BY <1>5, <1>6, <2>1
<1> HIDE DEF k
<1>9. SelectInSeq(new, LAMBDA r : ~r.ok) = k
  BY <1>4, <1>6, <1>7, <1>8, FirstHit
<1>10. Collect(old) = old[k]
  BY <1>1 DEF Collect, k
<1>11. Collect(new) = new[k]
  BY <1>6, <1>7, <1>9 DEF Collect
<1>12. MemorySourceTryNew(s, rows) = old[k]
  BY <1>6, <1>10 DEF MemorySourceTryNew, Then, old
<1>13. MemorySourceTryNew(s, longer) = new[k]
  BY <1>6, <1>7, <1>11 DEF MemorySourceTryNew, Then, new, longer
<1> QED
  BY <1>7, <1>12, <1>13 DEF longer

-----------------------------------------------------------------------------

(***************************************************************************)
(* Of the values that have something in common, one is lightest.           *)
(***************************************************************************)
Lighter(n) == {v \in Value : ValueWeight[v] < n}

LEMMA LightestValue ==
  ASSUME NEW S \in SUBSET Value, S # {}
  PROVE  \E v \in S : \A x \in Components(v) : x \notin S
<1> DEFINE Weights == {ValueWeight[v] : v \in S}
<1>1. Weights \subseteq Nat /\ Weights # {}
  BY ValueAssumption
<1>2. PICK n \in Weights : \A m \in Weights : n <= m
  <2> HIDE DEF Weights
  <2> QED
    BY <1>1, LeastInSeq
<1>3. PICK v \in S : ValueWeight[v] = n
  OBVIOUS
<1>4. ASSUME NEW x \in Components(v), x \in S PROVE FALSE
  <2>1. ValueWeight[x] < ValueWeight[v] /\ ValueWeight[v] \in Nat /\ ValueWeight[x] \in Nat
    BY <1>4, ValueAssumption
  <2>2. n <= ValueWeight[x]
    BY <1>2, <1>4
  <2> QED
    BY <1>3, <2>1, <2>2
<1> QED
  BY <1>4

LEMMA ComponentsBelow ==
  ASSUME NEW v \in Value, NEW x \in Components(v)
  PROVE  /\ x \in Value /\ ValueWeight[x] \in Nat /\ ValueWeight[v] \in Nat
         /\ ValueWeight[x] < ValueWeight[v]
         /\ \A n \in Nat : v \in Lighter(n) => x \in Lighter(n)
         /\ \A n \in Nat : v \in Lighter(n) => x \in Lighter(n - 1)
<1>1. /\ x \in Value /\ ValueWeight[x] \in Nat /\ ValueWeight[v] \in Nat
      /\ ValueWeight[x] < ValueWeight[v]
  BY ValueAssumption
<1> QED
  BY <1>1 DEF Lighter

(***************************************************************************)
(* The verdict on a value depends on those on its components alone, so     *)
(* there is one function that value_matches_type computes.                 *)
(***************************************************************************)
LEMMA ListMembers ==
  ASSUME NEW list PROVE \A i \in DOMAIN list : list[i] \in ToSet(list)
BY DEF ToSet

LEMMA RowFromLocal ==
  ASSUME NEW row, NEW s, NEW f, NEW g, \A x \in ToSet(row) : f[x] = g[x]
  PROVE  RowFrom(f, row, s) = RowFrom(g, row, s)
<1>1. \A p \in Paired(row, s) : f[row[p]] = g[row[p]]
  BY ListMembers DEF Paired
<1> QED
  BY <1>1 DEF RowFrom

LEMMA MatchFromLocal ==
  ASSUME NEW v \in Value, NEW t, NEW f, NEW g, \A x \in Components(v) : f[x] = g[x]
  PROVE  MatchFrom(f, v, t) = MatchFrom(g, v, t)
<1>0. "Optional" \notin ScalarKinds /\ "Array" \notin ScalarKinds /\ "Relation" \notin ScalarKinds
  BY DEF ScalarKinds
<1>1. CASE v.k \in ScalarKinds \/ v.k # t.k
  BY <1>1 DEF MatchFrom
<1>2. CASE v.k = "Optional" /\ v.k = t.k
  <2>1. CASE v.some = <<>>
    BY <1>2, <2>1 DEF MatchFrom
  <2>2. CASE v.some # <<>>
    <3>1. v.some \in Seq(ToSet(v.some)) /\ Components(v) = ToSet(v.some)
      BY <1>0, <1>2, ValueAssumption DEF Constructed, Listing, Components
    <3>2. 1 \in DOMAIN v.some
      BY <2>2, <3>1
    <3>3. f[v.some[1]] = g[v.some[1]]
      BY <3>1, <3>2, ListMembers
    <3> QED
      BY <1>0, <1>2, <2>2, <3>3 DEF MatchFrom
  <2> QED
    BY <2>1, <2>2
<1>3. CASE v.k = "Array" /\ v.k = t.k
  <2>1. Components(v) = ToSet(v.items)
    BY <1>0, <1>3 DEF Components
  <2>2. \A i \in DOMAIN v.items : f[v.items[i]] = g[v.items[i]]
    BY <2>1, ListMembers
  <2> QED
    BY <1>0, <1>3, <2>2 DEF MatchFrom
<1>4. CASE v.k = "Relation" /\ v.k = t.k
  <2>1. Components(v) = UNION {ToSet(row) : row \in ToSet(v.rows)}
    BY <1>0, <1>4 DEF Components
  <2>2. ASSUME NEW i \in DOMAIN v.rows
        PROVE  RowFrom(f, v.rows[i], t.schema) = RowFrom(g, v.rows[i], t.schema)
    <3>1. \A x \in ToSet(v.rows[i]) : f[x] = g[x]
      BY <2>1, ListMembers
    <3> QED
      BY <3>1, RowFromLocal
  <2> QED
    BY <1>0, <1>4, <2>2 DEF MatchFrom
<1> QED
  BY <1>1, <1>2, <1>3, <1>4, ValueAssumption DEF Constructed

MatchesAll(f, v) == [t \in ValueType |-> MatchFrom(f, v, t)]

LEMMA MatchesAllLocal ==
  ASSUME NEW v \in Value, NEW f, NEW g, \A x \in Components(v) : f[x] = g[x]
  PROVE  MatchesAll(f, v) = MatchesAll(g, v)
<1>1. \A t \in ValueType : MatchFrom(f, v, t) = MatchFrom(g, v, t)
  BY MatchFromLocal
<1> QED
  BY <1>1 DEF MatchesAll

DecidesBelow(f, n) == f = [v \in Lighter(n) |-> MatchesAll(f, v)]

LEMMA DecidedOnce ==
  ASSUME NEW n \in Nat, NEW m \in Nat, NEW f, NEW g, DecidesBelow(f, n), DecidesBelow(g, m)
  PROVE  \A v \in Lighter(n) \cap Lighter(m) : f[v] = g[v]
<1> DEFINE Bad == {v \in Lighter(n) \cap Lighter(m) : f[v] # g[v]}
<1> SUFFICES ASSUME Bad # {} PROVE FALSE
  OBVIOUS
<1>1. Bad \in SUBSET Value
  BY DEF Lighter
<1>2. PICK v \in Bad : \A x \in Components(v) : x \notin Bad
  <2> HIDE DEF Bad
  <2> QED
    BY <1>1, LightestValue
<1>3. ASSUME NEW x \in Components(v) PROVE x \in Lighter(n) \cap Lighter(m)
  BY <1>1, ComponentsBelow
<1>4. \A x \in Components(v) : f[x] = g[x]
  BY <1>2, <1>3
<1>5. MatchesAll(f, v) = MatchesAll(g, v)
  BY <1>1, <1>4, MatchesAllLocal
<1>6. f[v] = MatchesAll(f, v) /\ g[v] = MatchesAll(g, v)
  BY DEF DecidesBelow
<1> QED
  BY <1>5, <1>6

LEMMA DecidedSomehow ==
  ASSUME NEW n \in Nat
  PROVE  \E f : DecidesBelow(f, n)
<1> DEFINE Bad == {m \in Nat : ~\E f : DecidesBelow(f, m)}
<1> SUFFICES ASSUME Bad # {} PROVE FALSE
  OBVIOUS
<1>1. PICK m \in Bad : \A j \in Bad : m <= j
  BY LeastInSeq
<1>2. CASE m = 0
  <2> DEFINE f == [v \in {} |-> MatchesAll(<<>>, v)]
  <2>1. Lighter(0) = {}
    BY ValueAssumption DEF Lighter
  <2>2. DecidesBelow(f, 0)
    BY <2>1 DEF DecidesBelow
  <2> QED
    BY <1>2, <2>2
<1>3. CASE m # 0
  <2>1. m - 1 \in Nat /\ ~(m <= m - 1)
    BY <1>3
  <2>2. PICK f : DecidesBelow(f, m - 1)
    BY <1>1, <2>1
  <2> DEFINE g == [v \in Lighter(m) |-> MatchesAll(f, v)]
  <2>3. ASSUME NEW v \in Lighter(m) PROVE MatchesAll(f, v) = MatchesAll(g, v)
    <3>0. v \in Value
      BY DEF Lighter
    <3>1. ASSUME NEW x \in Components(v) PROVE f[x] = g[x]
      <4>1. x \in Lighter(m - 1) /\ x \in Lighter(m)
        BY <3>0, <3>1, ComponentsBelow
      <4>2. f[x] = MatchesAll(f, x)
        BY <2>2, <4>1 DEF DecidesBelow
      <4> QED
        BY <4>1, <4>2
    <3> HIDE DEF g
    <3> QED
      BY <3>0, <3>1, MatchesAllLocal
  <2>4. g = [v \in Lighter(m) |-> MatchesAll(g, v)]
    BY <2>3
  <2> HIDE DEF g
  <2>5. DecidesBelow(g, m)
    BY <2>4 DEF DecidesBelow
  <2> QED
    BY <2>5
<1> QED
  BY <1>2, <1>3

LEMMA VerdictsAre ==
  Verdicts = [v \in Value |-> MatchesAll(Verdicts, v)]
<1> DEFINE F(n) == CHOOSE f : DecidesBelow(f, n)
           G == [v \in Value |-> F(ValueWeight[v] + 1)[v]]
<1>1. ASSUME NEW n \in Nat PROVE DecidesBelow(F(n), n)
  BY DecidedSomehow
<1>2. ASSUME NEW v \in Value
      PROVE  G[v] = MatchesAll(G, v)
  <2> DEFINE n == ValueWeight[v] + 1
  <2>1. n \in Nat /\ v \in Lighter(n)
    BY ValueAssumption DEF Lighter
  <2>2. DecidesBelow(F(n), n)
    BY <1>1, <2>1
  <2>3. G[v] = F(n)[v]
    OBVIOUS
  <2>4. F(n)[v] = MatchesAll(F(n), v)
    <3> HIDE DEF F, n
    <3> QED
      BY <2>1, <2>2 DEF DecidesBelow
  <2>5. ASSUME NEW x \in Components(v) PROVE F(n)[x] = G[x]
    <3> DEFINE m == ValueWeight[x] + 1
    <3>1. x \in Value /\ ValueWeight[x] \in Nat /\ x \in Lighter(n)
      BY <2>1, ComponentsBelow
    <3>2. m \in Nat /\ x \in Lighter(m)
      BY <3>1 DEF Lighter
    <3>3. DecidesBelow(F(m), m)
      BY <1>1, <3>2
    <3>4. G[x] = F(m)[x]
      BY <3>1
    <3> HIDE DEF F, n, m, G
    <3>5. F(n)[x] = F(m)[x]
      BY <2>1, <2>2, <3>1, <3>2, <3>3, DecidedOnce
    <3> QED
      BY <3>4, <3>5
  <2> HIDE DEF F, n, G
  <2>6. MatchesAll(F(n), v) = MatchesAll(G, v)
    BY <2>5, MatchesAllLocal
  <2> QED
    BY <2>3, <2>4, <2>6
<1>3. G = [v \in Value |-> MatchesAll(G, v)]
  <2>1. G = [v \in Value |-> G[v]]
    OBVIOUS
  <2> HIDE DEF G
  <2> QED
    BY <1>2, <2>1
<1> HIDE DEF G
<1>4. \E f : f = [v \in Value |-> MatchesAll(f, v)]
  BY <1>3
<1> QED
  BY <1>4 DEF Verdicts, MatchesAll

LEMMA ValueMatchesTypeIs ==
  ASSUME NEW v \in Value, NEW t \in ValueType
  PROVE  ValueMatchesType(v, t) = MatchFrom(Verdicts, v, t)
BY VerdictsAre DEF ValueMatchesType, MatchesAll

-----------------------------------------------------------------------------

(***************************************************************************)
(* The values of a type, one level at a time.                              *)
(***************************************************************************)
LEMMA MembersFromLocal ==
  ASSUME NEW t \in ValueType, NEW f, NEW g, \A u \in InnerTypes(t) : f[u] = g[u]
  PROVE  MembersFrom(f, t) = MembersFrom(g, t)
<1>0. "Optional" \notin ScalarKinds /\ "Array" \notin ScalarKinds /\ "Relation" \notin ScalarKinds
  BY DEF ScalarKinds
<1>1. t.k \in {"Optional", "Array"} => f[t.of] = g[t.of]
  BY <1>0 DEF InnerTypes
<1>2. t.k = "Relation" => \A row : TupleOver(row, t.schema, f) <=> TupleOver(row, t.schema, g)
  <2> SUFFICES ASSUME t.k = "Relation", NEW row, DOMAIN row = DOMAIN t.schema
               PROVE  TupleOver(row, t.schema, f) <=> TupleOver(row, t.schema, g)
    BY DEF TupleOver
  <2>1. InnerTypes(t) = {t.schema[i].ty : i \in DOMAIN t.schema}
    BY <1>0 DEF InnerTypes
  <2>2. \A p \in DOMAIN row : f[t.schema[p].ty] = g[t.schema[p].ty]
    BY <2>1
  <2> QED
    BY <2>2 DEF TupleOver
<1> QED
  BY <1>1, <1>2 DEF MembersFrom

LEMMA DenotationExists ==
  \E f : f = [t \in ValueType |-> MembersFrom(f, t)]
<1> DEFINE V == SUBSET Value
           w == [t \in ValueType |-> TypeWeight[t]]
           D == [t \in ValueType |-> [f \in [ValueType -> V] |-> MembersFrom(f, t)]]
<1>1. w \in [ValueType -> Nat] /\ \A t \in ValueType : w[t] = TypeWeight[t]
  BY ValueAssumption
<1>2. V # {} /\ D \in [ValueType -> [[ValueType -> V] -> V]]
  BY DEF MembersFrom
<1>3. \A t \in ValueType, f \in [ValueType -> V] : D[t][f] = MembersFrom(f, t)
  OBVIOUS
<1> HIDE DEF V, w, D
<1>4. ASSUME NEW t \in ValueType, NEW f \in [ValueType -> V], NEW g \in [ValueType -> V],
             \A u \in ValueType : w[u] < w[t] => f[u] = g[u]
      PROVE  D[t][f] = D[t][g]
  <2>1. \A u \in InnerTypes(t) : u \in ValueType /\ w[u] < w[t]
    BY <1>1, ValueAssumption
  <2>2. MembersFrom(f, t) = MembersFrom(g, t)
    BY <1>4, <2>1, MembersFromLocal
  <2> QED
    BY <1>3, <2>2
<1>5. LighterOnly(ValueType, w, V, D)
  BY <1>4 DEF LighterOnly
<1>6. Computable(ValueType, V, D)
  <2>1. Recursion(ValueType, w, V, D)
    BY <1>1, <1>2, <1>5 DEF Recursion
  <2> QED
    BY <2>1, WeighedRecursion
<1>7. PICK f \in [ValueType -> V] : \A t \in ValueType : f[t] = D[t][f]
  BY <1>6 DEF Computable
<1>8. f = [t \in ValueType |-> MembersFrom(f, t)]
  BY <1>3, <1>7
<1> QED
  BY <1>8

LEMMA MembersAre ==
  ASSUME NEW v \in Value, NEW t \in ValueType
  PROVE  v \in Denotation[t] <=>
           /\ v.k = t.k
           /\ v.k = "Optional" => ToSet(v.some) \subseteq Denotation[t.of]
           /\ v.k = "Array" => ToSet(v.items) \subseteq Denotation[t.of]
           /\ v.k = "Relation" => \A row \in ToSet(v.rows) : TupleOver(row, t.schema, Denotation)
<1>1. Denotation = [u \in ValueType |-> MembersFrom(Denotation, u)]
  BY DenotationExists DEF Denotation
<1>2. Denotation[t] = MembersFrom(Denotation, t)
  BY <1>1
<1> QED
  BY <1>2 DEF MembersFrom

(***************************************************************************)
(* When a list of verdicts, wrapped with their places, is a success.       *)
(***************************************************************************)
Placed(k, n, results) == [i \in 1..n |-> At(k, i, results[i])]

LEMMA PlacedOk ==
  ASSUME NEW k, NEW n \in Nat, NEW results
  PROVE  Collect(Placed(k, n, results)).ok <=> \A i \in 1..n : results[i].ok
<1> DEFINE checks == Placed(k, n, results)
<1>1. \A i \in 1..n : checks[i].ok <=> results[i].ok
  BY DEF Placed, At, Fits, Ok, Err
<1>2. checks \in Seq({checks[i] : i \in 1..n}) /\ DOMAIN checks = 1..n
  <2>1. checks = [i \in 1..n |-> checks[i]]
    BY DEF Placed
  <2> HIDE DEF checks
  <2>2. checks \in [1..n -> {checks[i] : i \in 1..n}]
    BY <2>1
  <2> QED
    BY <2>1, <2>2, SMTT(60)
<1> HIDE DEF checks
<1> QED
  BY <1>1, <1>2, CollectOk DEF checks

LEMMA SameLength ==
  ASSUME NEW n \in Nat, NEW m \in Nat, 1..n = 1..m
  PROVE  n = m
<1>1. n \in 1..n <=> n \in 1..m
  OBVIOUS
<1>2. m \in 1..n <=> m \in 1..m
  OBVIOUS
<1> QED
  BY <1>1, <1>2

LEMMA RowOk ==
  ASSUME NEW row, Listing(row), NEW s, Listing(s)
  PROVE  RowMatchesSchema(row, s).ok <=>
           /\ DOMAIN row = DOMAIN s
           /\ \A p \in DOMAIN row : ValueMatchesType(row[p], s[p].ty).ok
<1> DEFINE cells == [p \in Paired(row, s) |-> Verdicts[row[p]][s[p].ty]]
<1>1. /\ Len(row) \in Nat /\ Len(s) \in Nat
      /\ DOMAIN row = 1..Len(row) /\ DOMAIN s = 1..Len(s)
  BY DEF Listing
<1>2. RowMatchesSchema(row, s) =
        IF Len(row) # Len(s)
        THEN Err([k |-> "RowWidth", expected |-> Len(s), actual |-> Len(row)])
        ELSE Collect([p \in DOMAIN cells |-> At("RelationField", p, cells[p])])
  BY DEF RowMatchesSchema, RowFrom, RowVerdict, FirstMisfit
<1>3. CASE Len(row) # Len(s)
  <2>1. DOMAIN row # DOMAIN s
    BY <1>1, <1>3, SameLength, ZenonT(60)
  <2> QED
    BY <1>2, <1>3, <2>1 DEF Err
<1>4. CASE Len(row) = Len(s)
  <2>1. Paired(row, s) = 1..Len(row) /\ DOMAIN row = DOMAIN s
    BY <1>1, <1>4 DEF Paired
  <2>2. DOMAIN cells = 1..Len(row)
        /\ \A p \in 1..Len(row) : cells[p] = ValueMatchesType(row[p], s[p].ty)
    BY <2>1 DEF ValueMatchesType
  <2> HIDE DEF cells
  <2>3. RowMatchesSchema(row, s).ok <=> \A p \in 1..Len(row) : cells[p].ok
    <3> DEFINE checks == Placed("RelationField", Len(row), cells)
    <3>1. RowMatchesSchema(row, s) = Collect(checks)
      BY <1>2, <1>4, <2>2 DEF Placed
    <3>2. Collect(checks).ok <=> \A p \in 1..Len(row) : cells[p].ok
      BY <1>1, PlacedOk
    <3> HIDE DEF checks
    <3> QED
      BY <3>1, <3>2
  <2> QED
    BY <1>1, <2>1, <2>2, <2>3
<1> QED
  BY <1>3, <1>4

LEMMA ValueOk ==
  ASSUME NEW v \in Value, NEW t \in ValueType
  PROVE  ValueMatchesType(v, t).ok <=>
           /\ v.k = t.k
           /\ v.k = "Optional" => \A x \in ToSet(v.some) : ValueMatchesType(x, t.of).ok
           /\ v.k = "Array" => \A x \in ToSet(v.items) : ValueMatchesType(x, t.of).ok
           /\ v.k = "Relation" => \A row \in ToSet(v.rows) : RowMatchesSchema(row, t.schema).ok
<1> DEFINE result == MatchFrom(Verdicts, v, t)
<1>0. "Optional" \notin ScalarKinds /\ "Array" \notin ScalarKinds /\ "Relation" \notin ScalarKinds
  BY DEF ScalarKinds
<1>1. ValueMatchesType(v, t) = result
  BY ValueMatchesTypeIs
<1>2. CASE v.k # t.k
  BY <1>1, <1>2 DEF MatchFrom, Mismatch, Err
<1>3. CASE v.k = t.k /\ v.k \in ScalarKinds
  <2>1. result = Fits
    BY <1>0, <1>3 DEF MatchFrom
  <2> QED
    BY <1>0, <1>1, <1>3, <2>1 DEF Fits, Ok
<1>4. CASE v.k = t.k /\ v.k = "Optional"
  <2>1. v.some \in Seq(ToSet(v.some)) /\ Len(v.some) <= 1
    BY <1>0, <1>4, ValueAssumption DEF Constructed, Listing
  <2>2. CASE v.some = <<>>
    <3>1. result = Fits /\ ToSet(v.some) = {}
      BY <1>4, <2>2 DEF MatchFrom, ToSet
    <3> QED
      BY <1>1, <1>4, <3>1 DEF Fits, Ok
  <2>3. CASE v.some # <<>>
    <3>1. result = At("Optional", 1, ValueMatchesType(v.some[1], t.of))
      BY <1>0, <1>4, <2>3 DEF MatchFrom, ValueMatchesType
    <3>2. result.ok <=> ValueMatchesType(v.some[1], t.of).ok
      BY <3>1 DEF At, Fits, Ok, Err
    <3>3. ToSet(v.some) = {v.some[1]}
      <4>1. Len(v.some) \in Nat /\ DOMAIN v.some = 1..Len(v.some) /\ Len(v.some) # 0
        BY <2>1, <2>3
      <4>2. Len(v.some) = 1
        <5> DEFINE n == Len(v.some)
        <5>1. n \in Nat /\ n # 0 /\ n <= 1
          BY <2>1, <4>1
        <5> HIDE DEF n
        <5>2. n = 1
          BY <5>1
        <5> QED
          BY <5>2 DEF n
      <4>3. DOMAIN v.some = {1}
        BY <4>1, <4>2
      <4> QED
        BY <4>3 DEF ToSet
    <3> QED
      BY <1>1, <1>4, <3>2, <3>3
  <2> QED
    BY <2>2, <2>3
<1>5. CASE v.k = t.k /\ v.k = "Array"
  <2> DEFINE results == [i \in DOMAIN v.items |-> ValueMatchesType(v.items[i], t.of)]
             checks == Placed("ArrayElement", Len(v.items), results)
  <2>1. Len(v.items) \in Nat /\ DOMAIN v.items = 1..Len(v.items)
    BY <1>0, <1>5, ValueAssumption DEF Constructed, Listing
  <2>2. result = Collect(checks)
    BY <1>0, <1>5, <2>1 DEF MatchFrom, ValueMatchesType, Placed
  <2>3. \A i \in DOMAIN v.items : results[i] = ValueMatchesType(v.items[i], t.of)
    OBVIOUS
  <2> HIDE DEF results, result
  <2>4. Collect(checks).ok <=> \A i \in 1..Len(v.items) : results[i].ok
    BY <2>1, PlacedOk
  <2> HIDE DEF checks
  <2>5. result.ok <=> \A i \in DOMAIN v.items : ValueMatchesType(v.items[i], t.of).ok
    BY <2>1, <2>2, <2>3, <2>4
  <2> QED
    BY <1>1, <1>5, <2>5 DEF ToSet
<1>6. CASE v.k = t.k /\ v.k = "Relation"
  <2> DEFINE results == [i \in DOMAIN v.rows |-> RowMatchesSchema(v.rows[i], t.schema)]
             checks == Placed("RelationRow", Len(v.rows), results)
  <2>1. Len(v.rows) \in Nat /\ DOMAIN v.rows = 1..Len(v.rows)
    BY <1>0, <1>6, ValueAssumption DEF Constructed, Listing
  <2>2. result = Collect(checks)
    BY <1>0, <1>6, <2>1 DEF MatchFrom, RowMatchesSchema, Placed
  <2>3. \A i \in DOMAIN v.rows : results[i] = RowMatchesSchema(v.rows[i], t.schema)
    OBVIOUS
  <2> HIDE DEF results, result
  <2>4. Collect(checks).ok <=> \A i \in 1..Len(v.rows) : results[i].ok
    BY <2>1, PlacedOk
  <2> HIDE DEF checks
  <2>5. result.ok <=> \A i \in DOMAIN v.rows : RowMatchesSchema(v.rows[i], t.schema).ok
    BY <2>1, <2>2, <2>3, <2>4
  <2> QED
    BY <1>1, <1>6, <2>5 DEF ToSet
<1> QED
  BY <1>2, <1>3, <1>4, <1>5, <1>6, ValueAssumption DEF Constructed

(***************************************************************************)
(* The check accepts the values of the type, and no others; and the same   *)
(* of a row and the tuples over a header.                                  *)
(***************************************************************************)
LEMMA MatchExact ==
  ASSUME NEW w \in Value, NEW u \in ValueType
  PROVE  ValueMatchesType(w, u).ok <=> w \in Denotation[u]
<1> DEFINE Exact(v, t) == ValueMatchesType(v, t).ok <=> v \in Denotation[t]
           Bad == {v \in Value : \E t \in ValueType : ~Exact(v, t)}
<1> SUFFICES ASSUME ~Exact(w, u) PROVE FALSE
  OBVIOUS
<1>0. "Optional" \notin ScalarKinds /\ "Array" \notin ScalarKinds /\ "Relation" \notin ScalarKinds
  BY DEF ScalarKinds
<1>1. PICK v \in Bad : \A x \in Components(v) : x \notin Bad
  <2>1. Bad \in SUBSET Value /\ w \in Bad
    OBVIOUS
  <2> HIDE DEF Bad
  <2> QED
    BY <2>1, LightestValue
<1>2. PICK t \in ValueType : ~Exact(v, t)
  OBVIOUS
<1>3. v \in Value /\ Components(v) \subseteq Value
  BY ValueAssumption
<1>4. \A x \in Components(v), r \in ValueType : Exact(x, r)
  BY <1>1, <1>3
<1> HIDE DEF Exact
<1>5. ASSUME v.k = t.k, v.k = "Optional"
      PROVE  (\A x \in ToSet(v.some) : ValueMatchesType(x, t.of).ok) <=> ToSet(v.some) \subseteq Denotation[t.of]
  <2>1. Components(v) = ToSet(v.some)
    BY <1>0, <1>5 DEF Components
  <2>2. t.of \in ValueType
    BY <1>0, <1>5, ValueAssumption, ZenonT(60) DEF InnerTypes
  <2> QED
    BY <1>4, <2>1, <2>2 DEF Exact
<1>6. ASSUME v.k = t.k, v.k = "Array"
      PROVE  (\A x \in ToSet(v.items) : ValueMatchesType(x, t.of).ok) <=> ToSet(v.items) \subseteq Denotation[t.of]
  <2>1. Components(v) = ToSet(v.items)
    BY <1>0, <1>6 DEF Components
  <2>2. t.of \in ValueType
    BY <1>0, <1>6, ValueAssumption DEF InnerTypes
  <2> QED
    BY <1>4, <2>1, <2>2 DEF Exact
<1>7. ASSUME v.k = t.k, v.k = "Relation", NEW row \in ToSet(v.rows)
      PROVE  RowMatchesSchema(row, t.schema).ok <=> TupleOver(row, t.schema, Denotation)
  <2>1. Components(v) = UNION {ToSet(r) : r \in ToSet(v.rows)}
    BY <1>0, <1>7 DEF Components
  <2>2. Listing(row) /\ Listing(t.schema)
    BY <1>0, <1>3, <1>7, ValueAssumption DEF Constructed
  <2>3. InnerTypes(t) \subseteq ValueType /\ InnerTypes(t) = {t.schema[i].ty : i \in DOMAIN t.schema}
    BY <1>0, <1>7, ValueAssumption DEF InnerTypes
  <2>4. \A p \in DOMAIN row : row[p] \in Components(v)
    BY <1>7, <2>1, ListMembers
  <2>5. ASSUME DOMAIN row = DOMAIN t.schema, NEW p \in DOMAIN row
        PROVE  ValueMatchesType(row[p], t.schema[p].ty).ok <=> row[p] \in Denotation[t.schema[p].ty]
    BY <1>4, <2>3, <2>4, <2>5 DEF Exact
  <2>6. RowMatchesSchema(row, t.schema).ok <=>
          /\ DOMAIN row = DOMAIN t.schema
          /\ \A p \in DOMAIN row : ValueMatchesType(row[p], t.schema[p].ty).ok
    BY <2>2, RowOk
  <2> QED
    BY <2>5, <2>6 DEF TupleOver
<1>8. ValueMatchesType(v, t).ok <=>
        /\ v.k = t.k
        /\ v.k = "Optional" => \A x \in ToSet(v.some) : ValueMatchesType(x, t.of).ok
        /\ v.k = "Array" => \A x \in ToSet(v.items) : ValueMatchesType(x, t.of).ok
        /\ v.k = "Relation" => \A row \in ToSet(v.rows) : RowMatchesSchema(row, t.schema).ok
  BY <1>3, ValueOk
<1>9. v \in Denotation[t] <=>
        /\ v.k = t.k
        /\ v.k = "Optional" => ToSet(v.some) \subseteq Denotation[t.of]
        /\ v.k = "Array" => ToSet(v.items) \subseteq Denotation[t.of]
        /\ v.k = "Relation" => \A row \in ToSet(v.rows) : TupleOver(row, t.schema, Denotation)
  BY <1>3, MembersAre
<1> HIDE DEF Bad
<1>10. Exact(v, t)
  BY <1>5, <1>6, <1>7, <1>8, <1>9 DEF Exact
<1> QED
  BY <1>2, <1>10

LEMMA RowExact ==
  ASSUME NEW row \in Seq(Value), NEW s, Listing(s), \A p \in DOMAIN s : s[p].ty \in ValueType
  PROVE  RowMatchesSchema(row, s).ok <=> Tuple(row, s)
<1>1. Listing(row)
  <2>1. \A p \in 1..Len(row) : row[p] \in ToSet(row)
    BY DEF ToSet
  <2> QED
    BY <2>1 DEF Listing
<1>2. RowMatchesSchema(row, s).ok <=>
        /\ DOMAIN row = DOMAIN s
        /\ \A p \in DOMAIN row : ValueMatchesType(row[p], s[p].ty).ok
  BY <1>1, RowOk
<1>3. ASSUME DOMAIN row = DOMAIN s, NEW p \in DOMAIN row
      PROVE  ValueMatchesType(row[p], s[p].ty).ok <=> row[p] \in Denotation[s[p].ty]
  <2>1. row[p] \in Value
    OBVIOUS
  <2> QED
    BY <1>3, <2>1, MatchExact
<1> QED
  BY <1>2, <1>3 DEF Tuple, TupleOver

-----------------------------------------------------------------------------

(***************************************************************************)
(* The columns, the batch and what a source was built from are lists of    *)
(* what a client may write, which appending keeps, and with it the types   *)
(* and SourceConforms are inductive.                                       *)
(***************************************************************************)
RawColumns == {Column(n, t) : n \in RawNames, t \in ValueType}

Collected ==
  /\ columns \in Seq(RawColumns)
  /\ batch \in Seq(RawRows)
  /\ source.k = "Memory" => source.schema \in Seq(RawColumns) /\ source.rows \in Seq(RawRows)

Sound == Collected /\ TypeOK /\ SourceConforms

LEMMA InitSound == Init => Sound
<1> SUFFICES ASSUME Init PROVE Sound
  OBVIOUS
<1>1. columns = <<>> /\ batch = <<>> /\ source.k = "None"
  BY DEF Init, NoSource
<1> QED
  BY <1>1 DEF Sound, Collected, TypeOK, SourceConforms

LEMMA AddColumnStep ==
  ASSUME Sound, NEW raw \in RawNames, NEW t \in ValueType, AddColumn(raw, t)
  PROVE  Sound'
<1> DEFINE name == AttributeNameTryNew(raw)
<1>1. UNCHANGED <<batch, source>>
  BY DEF AddColumn
<1>2. columns' = IF name.ok THEN Append(columns, Column(name.val, t)) ELSE columns
  BY DEF AddColumn
<1>3. name.ok => name.val = raw /\ Identifier(raw)
  BY SourceAssumption, AttributeNameOk
<1> HIDE DEF name
<1>4. \/ columns' = columns
      \/ Identifier(raw) /\ columns' = Append(columns, Column(raw, t))
  BY <1>2, <1>3
<1>5. Column(raw, t) \in RawColumns /\ columns \in Seq(RawColumns)
  BY DEF Sound, Collected, RawColumns
<1>6. columns' \in Seq(RawColumns)
  BY <1>4, <1>5
<1>7. \A i \in DOMAIN columns' : Identifier(columns'[i].name) /\ columns'[i].ty \in ValueType
  <2>1. CASE columns' = columns
    BY <2>1 DEF Sound, TypeOK
  <2>2. CASE Identifier(raw) /\ columns' = Append(columns, Column(raw, t))
    <3>1. Column(raw, t).name = raw /\ Column(raw, t).ty = t
      BY DEF Column
    <3>2. \A i \in DOMAIN columns' :
            \/ i \in DOMAIN columns /\ columns'[i] = columns[i]
            \/ columns'[i] = Column(raw, t)
      BY <1>5, <2>2
    <3> QED
      BY <2>2, <3>1, <3>2 DEF Sound, TypeOK
  <2> QED
    BY <1>4, <2>1, <2>2
<1> QED
  BY <1>1, <1>6, <1>7 DEF Sound, Collected, TypeOK, SourceConforms

LEMMA PushRowStep ==
  ASSUME Sound, NEW values \in RawRows, PushRow(values)
  PROVE  /\ Sound'
         /\ columns' = columns
         /\ batch' = batch \/ batch' = Append(batch, values)
<1> DEFINE row == RowTryNew(values)
<1>1. UNCHANGED <<columns, source>>
  BY DEF PushRow
<1>2. batch' = IF row.ok THEN Append(batch, row.val) ELSE batch
  BY DEF PushRow
<1>3. row.ok => row.val = values /\ Len(values) \in 1..MaxSchemaAttributes
  BY LenItemsOk DEF RowTryNew, Ok
<1> HIDE DEF row
<1>4. \/ batch' = batch
      \/ Len(values) \in 1..MaxSchemaAttributes /\ batch' = Append(batch, values)
  BY <1>2, <1>3
<1>5. batch \in Seq(RawRows)
  BY DEF Sound, Collected
<1>6. batch' \in Seq(RawRows)
  BY <1>4, <1>5
<1>7. \A i \in DOMAIN batch' : Len(batch'[i]) \in 1..MaxSchemaAttributes
  <2>1. CASE batch' = batch
    BY <2>1 DEF Sound, TypeOK
  <2>2. CASE Len(values) \in 1..MaxSchemaAttributes /\ batch' = Append(batch, values)
    <3>1. \A i \in DOMAIN batch' :
            \/ i \in DOMAIN batch /\ batch'[i] = batch[i]
            \/ batch'[i] = values
      BY <1>5, <2>2
    <3> QED
      BY <2>2, <3>1 DEF Sound, TypeOK
  <2> QED
    BY <1>4, <2>1, <2>2
<1> QED
  BY <1>1, <1>4, <1>6, <1>7 DEF Sound, Collected, TypeOK, SourceConforms

LEMMA BuiltStep ==
  ASSUME Sound, TryMemory \/ \E raw \in RawTables : TryTable(raw)
  PROVE  Sound' /\ UNCHANGED <<columns, batch>>
<1>1. UNCHANGED <<columns, batch>>
  BY DEF TryMemory, TryTable
<1>2. CASE TryMemory
  <2> DEFINE memory == TryMemoryOf(columns, batch)
  <2>1. source' = IF memory.ok THEN memory.val ELSE source
    BY <1>2 DEF TryMemory
  <2>2. ASSUME memory.ok
        PROVE  /\ ValidHeader(columns) /\ memory.val = Memory(columns, batch)
               /\ Len(batch) <= MaxRowsInAst
               /\ \A i \in DOMAIN batch : RowMatchesSchema(batch[i], columns).ok
    <3>1. ValidHeader(columns) /\ memory = MemorySourceTryNew(columns, batch)
      BY <2>2, TryMemoryOfIs
    <3>2. batch \in Seq(RawRows) /\ MemorySourceTryNew(columns, batch).ok
      BY <2>2, <3>1 DEF Sound, Collected
    <3> HIDE DEF memory
    <3>3. /\ MemorySourceTryNew(columns, batch).val = Memory(columns, batch)
          /\ Len(batch) <= MaxRowsInAst
          /\ \A i \in DOMAIN batch : RowMatchesSchema(batch[i], columns).ok
      BY <3>2, MemoryOk
    <3> QED
      BY <3>1, <3>3
  <2> HIDE DEF memory
  <2>3. \/ source' = source
        \/ /\ ValidHeader(columns) /\ source' = Memory(columns, batch)
           /\ Len(batch) <= MaxRowsInAst
           /\ \A i \in DOMAIN batch : RowMatchesSchema(batch[i], columns).ok
    BY <2>1, <2>2
  <2>4. TypeOK'
    BY <1>1, <2>3 DEF Sound, TypeOK, Memory
  <2>5. SourceConforms'
    BY <2>3 DEF Sound, SourceConforms, Memory
  <2>6. Collected'
    BY <1>1, <2>3 DEF Sound, Collected, Memory
  <2> QED
    BY <1>1, <2>4, <2>5, <2>6 DEF Sound
<1>3. ASSUME NEW raw \in RawTables, TryTable(raw) PROVE Sound'
  <2> DEFINE header == Wrap("Schema", SchemaTryNew(columns))
             built == Then(header, LAMBDA s : Ok([k |-> "Table", schema |-> s, name |-> raw]))
             table == Then(TableNameTryNew(raw),
                           LAMBDA n : Then(Wrap("Schema", SchemaTryNew(columns)),
                             LAMBDA s : Ok([k |-> "Table", schema |-> s, name |-> n])))
  <2>1. source' = IF table.ok THEN table.val ELSE source
    BY <1>3 DEF TryTable
  <2>2. table.ok => table = built
    BY DEF Then, TableNameTryNew, LenChars, Ok, Err
  <2>3. built.ok => header.ok
    BY DEF Then
  <2>4. header.ok => ValidHeader(columns) /\ header = Ok(columns)
    BY SchemaTryNewOk DEF Wrap, Ok, Err
  <2>5. header = Ok(columns) => built.val = [k |-> "Table", schema |-> columns, name |-> raw]
    BY DEF Then, Ok
  <2> HIDE DEF header, built, table
  <2>6. \/ source' = source
        \/ /\ ValidHeader(columns)
           /\ source' = [k |-> "Table", schema |-> columns, name |-> raw]
    BY <2>1, <2>2, <2>3, <2>4, <2>5
  <2> QED
    BY <1>1, <2>6 DEF Sound, Collected, TypeOK, SourceConforms
<1> QED
  BY <1>1, <1>2, <1>3

LEMMA NextSound == Sound /\ [Next]_vars => Sound'
<1> SUFFICES ASSUME Sound, [Next]_vars PROVE Sound'
  OBVIOUS
<1>1. CASE UNCHANGED vars
  BY <1>1 DEF Sound, Collected, TypeOK, SourceConforms, vars
<1>2. CASE Next
  BY <1>2, AddColumnStep, PushRowStep, BuiltStep DEF Next
<1> QED
  BY <1>1, <1>2

-----------------------------------------------------------------------------

(***************************************************************************)
(* The answer to the last call stands for as long as it is the last one:   *)
(* it is what the call would answer again.                                 *)
(***************************************************************************)
Told(result) == IF result.ok THEN Fits ELSE result

Answered ==
  /\ outcome.call = "Memory" => outcome.verdict = Told(TryMemoryOf(columns, batch))
  /\ outcome.call = "AttributeName" =>
       outcome.arg \in RawNames /\ outcome.verdict = Told(AttributeNameTryNew(outcome.arg))

IInv == Sound /\ Answered

LEMMA NextAnswered == Answered /\ [Next]_vars => Answered'
<1> SUFFICES ASSUME Answered, [Next]_vars PROVE Answered'
  OBVIOUS
<1>1. CASE UNCHANGED vars
  BY <1>1 DEF Answered, vars
<1>2. CASE \E raw \in RawNames, t \in ValueType : AddColumn(raw, t)
  <2>1. PICK raw \in RawNames :
          outcome' = [call |-> "AttributeName", arg |-> raw,
                      verdict |-> Told(AttributeNameTryNew(raw))]
    BY <1>2 DEF AddColumn, Answer, Told
  <2> QED
    BY <2>1 DEF Answered
<1>3. CASE \E values \in RawRows : PushRow(values)
  <2>1. outcome'.call = "Row"
    BY <1>3 DEF PushRow, Answer
  <2> QED
    BY <2>1 DEF Answered
<1>4. CASE TryMemory
  <2>1. outcome'.call = "Memory" /\ outcome'.verdict = Told(TryMemoryOf(columns, batch))
    BY <1>4 DEF TryMemory, Answer, Told
  <2>2. columns' = columns /\ batch' = batch
    BY <1>4 DEF TryMemory
  <2> QED
    BY <2>1, <2>2 DEF Answered
<1>5. CASE \E raw \in RawTables : TryTable(raw)
  <2>1. outcome'.call = "Table"
    BY <1>5 DEF TryTable, Answer
  <2> QED
    BY <2>1 DEF Answered
<1> QED
  BY <1>1, <1>2, <1>3, <1>4, <1>5 DEF Next

LEMMA InitAnswered == Init => Answered
BY DEF Init, Answered

(***************************************************************************)
(* The lists are lists, the sources conform to their headers, and the last *)
(* answer is still the right one: what every property below rests on.      *)
(***************************************************************************)
THEOREM Invariance == Spec => []IInv
<1>1. Init => IInv
  BY InitSound, InitAnswered DEF IInv
<1>2. IInv /\ [Next]_vars => IInv'
  BY NextSound, NextAnswered DEF IInv
<1> QED
  BY <1>1, <1>2, PTL DEF Spec


(***************************************************************************)
(* Columns keep their identifiers and known types, rows a possible width,  *)
(* and every source that is built has a valid header.                      *)
(***************************************************************************)
THEOREM SourceTypes == Spec => []TypeOK
BY Invariance, PTL DEF IInv, Sound

(***************************************************************************)
(* The rows of a memory source match its own header and are within the     *)
(* bound, whatever is added to the columns and the batch afterwards.       *)
(***************************************************************************)
THEOREM SourcesConform == Spec => []SourceConforms
BY Invariance, PTL DEF IInv, Sound

(***************************************************************************)
(* A batch that is refused for a row stays refused for that row and that   *)
(* reason, however many rows are pushed after it (source.rs:101-107).      *)
(***************************************************************************)
THEOREM RefusalsStick == Spec => RefusalSticks
<1> DEFINE Sticks == /\ RefusedForRow(TryMemoryOf(columns, batch))
                     /\ columns' = columns
                     => TryMemoryOf(columns', batch') = TryMemoryOf(columns, batch)
<1>1. ASSUME IInv, [Next]_vars PROVE [Sticks]_vars
  <2> SUFFICES ASSUME RefusedForRow(TryMemoryOf(columns, batch)), columns' = columns
               PROVE  TryMemoryOf(columns, batch') = TryMemoryOf(columns, batch)
    OBVIOUS
  <2>1. /\ ~TryMemoryOf(columns, batch).ok
        /\ TryMemoryOf(columns, batch).err.k = "RowMismatch"
    BY DEF RefusedForRow
  <2>2. /\ ValidHeader(columns)
        /\ \A rows : TryMemoryOf(columns, rows) = MemorySourceTryNew(columns, rows)
    <3>1. ValidHeader(columns)
      BY <2>1, TryMemoryOfIs
    <3>2. SchemaTryNew(columns) = Ok(columns)
      BY <3>1, SchemaTryNewOk
    <3> QED
      BY <3>1, <3>2 DEF TryMemoryOf, Then, Wrap, Ok
  <2>3. \/ batch' = batch
        \/ \E values \in RawRows : batch' = Append(batch, values)
    <3>1. CASE UNCHANGED vars
      BY <3>1 DEF vars
    <3>2. CASE Next
      <4>1. CASE \E raw \in RawNames, t \in ValueType : AddColumn(raw, t)
        BY <4>1 DEF AddColumn
      <4>2. CASE \E values \in RawRows : PushRow(values)
        BY <1>1, <4>2, PushRowStep DEF IInv
      <4>3. CASE TryMemory \/ \E raw \in RawTables : TryTable(raw)
        BY <1>1, <4>3, BuiltStep DEF IInv
      <4> QED
        BY <3>2, <4>1, <4>2, <4>3 DEF Next
    <3> QED
      BY <1>1, <3>1, <3>2
  <2>4. ASSUME NEW values \in RawRows, batch' = Append(batch, values)
        PROVE  MemorySourceTryNew(columns, batch') = MemorySourceTryNew(columns, batch)
    <3>1. batch \in Seq(RawRows)
      BY <1>1 DEF IInv, Sound, Collected
    <3>2. /\ ~MemorySourceTryNew(columns, batch).ok
          /\ MemorySourceTryNew(columns, batch).err.k = "RowMismatch"
      BY <2>1, <2>2
    <3> QED
      BY <2>4, <3>1, <3>2, RefusalKept
  <2> QED
    BY <2>2, <2>3, <2>4
<1>2. IInv /\ [Next]_vars => [Sticks]_vars
  BY <1>1
<1> QED
  BY <1>2, Invariance, PTL DEF Spec, RefusalSticks

-----------------------------------------------------------------------------

(***************************************************************************)
(* What try_memory accepts and refuses: the header, then the rows, then    *)
(* their number.                                                           *)
(***************************************************************************)
LEMMA MemoryIff ==
  ASSUME NEW s, NEW S, NEW rows \in Seq(S)
  PROVE  MemorySourceTryNew(s, rows).ok <=>
           /\ Len(rows) <= MaxRowsInAst
           /\ \A i \in DOMAIN rows : RowMatchesSchema(rows[i], s).ok
<1> SUFFICES ASSUME Len(rows) <= MaxRowsInAst,
                    \A i \in DOMAIN rows : RowMatchesSchema(rows[i], s).ok
             PROVE  MemorySourceTryNew(s, rows).ok
  BY MemoryOk
<1>1. Collect(RowChecks(s, rows)).ok
  BY RowChecksAre, CollectOk
<1>2. Len(rows) \in 0..MaxRowsInAst
  BY ValueAssumption
<1>3. RowsTryNew(rows).ok
  BY <1>2, LenItemsOk DEF RowsTryNew
<1> QED
  BY <1>1, <1>3 DEF MemorySourceTryNew, Then, Wrap, Ok

LEMMA RawRowExact ==
  ASSUME NEW row \in RawRows, NEW s \in Seq(RawColumns)
  PROVE  RowMatchesSchema(row, s).ok <=> Tuple(row, s)
<1>1. row \in Seq(Value)
  BY SourceAssumption
<1>2. \A p \in 1..Len(s) : s[p] \in ToSet(s)
  BY ListMembers
<1>3. Listing(s)
  BY <1>2 DEF Listing
<1>4. \A p \in DOMAIN s : s[p].ty \in ValueType
  BY DEF RawColumns, Column
<1> QED
  BY <1>1, <1>3, <1>4, RowExact

LEMMA AcceptsExactly == IInv => SourceExact
<1> SUFFICES ASSUME IInv PROVE SourceExact
  OBVIOUS
<1> SUFFICES ASSUME outcome.call = "Memory"
             PROVE  outcome.verdict.ok <=>
                      /\ ValidHeader(columns)
                      /\ Len(batch) <= MaxRowsInAst
                      /\ \A row \in ToSet(batch) : Tuple(row, columns)
  BY DEF SourceExact
<1> DEFINE memory == TryMemoryOf(columns, batch)
<1>1. outcome.verdict = Told(memory)
  BY DEF IInv, Answered
<1>2. outcome.verdict.ok <=> memory.ok
  <2> HIDE DEF memory
  <2> QED
    BY <1>1 DEF Told, Fits, Ok
<1>3. columns \in Seq(RawColumns) /\ batch \in Seq(RawRows)
  BY DEF IInv, Sound, Collected
<1>4. memory.ok <=> ValidHeader(columns) /\ MemorySourceTryNew(columns, batch).ok
  <2>1. ValidHeader(columns) => memory = MemorySourceTryNew(columns, batch)
    BY SchemaTryNewOk DEF TryMemoryOf, Then, Wrap, Ok
  <2>2. memory.ok => ValidHeader(columns)
    BY TryMemoryOfIs
  <2> HIDE DEF memory
  <2> QED
    BY <2>1, <2>2
<1>5. MemorySourceTryNew(columns, batch).ok <=>
        /\ Len(batch) <= MaxRowsInAst
        /\ \A i \in DOMAIN batch : RowMatchesSchema(batch[i], columns).ok
  BY <1>3, MemoryIff
<1>6. \A i \in DOMAIN batch : RowMatchesSchema(batch[i], columns).ok <=> Tuple(batch[i], columns)
  BY <1>3, RawRowExact
<1>7. (\A i \in DOMAIN batch : Tuple(batch[i], columns)) <=> \A row \in ToSet(batch) : Tuple(row, columns)
  BY DEF ToSet
<1> HIDE DEF memory
<1> QED
  BY <1>2, <1>4, <1>5, <1>6, <1>7

(***************************************************************************)
(* try_memory accepts a header and as many tuples over it as are allowed,  *)
(* whatever is nested in them, and nothing else (source.rs:92-108,         *)
(* infer.rs:194-272).                                                      *)
(***************************************************************************)
THEOREM SourcesExact == Spec => []SourceExact
BY AcceptsExactly, Invariance, PTL


-----------------------------------------------------------------------------

(***************************************************************************)
(* A walk that fails hands on the first failure, wrapped with its place.   *)
(***************************************************************************)
FailsAt(k, n, results, at, verdict) ==
  /\ at \in 1..n
  /\ verdict = Err([k |-> k, at |-> at, source |-> results[at].err])
  /\ ~results[at].ok
  /\ \A j \in 1..(at - 1) : results[j].ok

LEMMA PlacedFails ==
  ASSUME NEW k, NEW n \in Nat, NEW results, ~Collect(Placed(k, n, results)).ok
  PROVE  \E at \in 1..n : FailsAt(k, n, results, at, Collect(Placed(k, n, results)))
<1> DEFINE checks == Placed(k, n, results)
           at == SelectInSeq(checks, LAMBDA r : ~r.ok)
<1>1. \A i \in 1..n : checks[i].ok <=> results[i].ok
  BY DEF Placed, At, Fits, Ok, Err
<1>2. checks \in Seq({checks[i] : i \in 1..n}) /\ DOMAIN checks = 1..n
  <2>1. checks = [i \in 1..n |-> checks[i]]
    BY DEF Placed
  <2> HIDE DEF checks
  <2>2. checks \in [1..n -> {checks[i] : i \in 1..n}]
    BY <2>1
  <2> QED
    BY <2>1, <2>2, SMTT(60)
<1>3. ~(\A i \in DOMAIN checks : checks[i].ok) /\ Collect(checks) = checks[at]
  BY DEF Collect, Ok
<1>4. \A i \in 1..n : ~results[i].ok =>
        checks[i] = Err([k |-> k, at |-> i, source |-> results[i].err])
  BY DEF Placed, At
<1> HIDE DEF checks
<1>5. at \in DOMAIN checks /\ ~checks[at].ok /\ \A j \in 1..(at - 1) : checks[j].ok
  BY <1>2, <1>3, FirstFailure
<1> HIDE DEF at
<1>6. at \in 1..n /\ \A j \in 1..(at - 1) : j \in 1..n
  BY <1>2, <1>5
<1>7. ~results[at].ok /\ \A j \in 1..(at - 1) : results[j].ok
  BY <1>1, <1>5, <1>6
<1>8. Collect(checks) = Err([k |-> k, at |-> at, source |-> results[at].err])
  BY <1>3, <1>4, <1>6, <1>7
<1> QED
  BY <1>6, <1>7, <1>8 DEF FailsAt, checks

LEMMA RowBlamed ==
  ASSUME NEW row \in Seq(Value), NEW s, Listing(s), \A p \in DOMAIN s : s[p].ty \in ValueType,
         ~RowMatchesSchema(row, s).ok
  PROVE  BlamesRow(row, s, RowMatchesSchema(row, s).err)
<1> DEFINE cells == [p \in Paired(row, s) |-> ValueMatchesType(row[p], s[p].ty)]
           fits == [p \in DOMAIN row |-> p \in DOMAIN s /\ row[p] \in Denotation[s[p].ty]]
<1>1. Len(row) \in Nat /\ DOMAIN row = 1..Len(row) /\ Len(s) \in Nat /\ DOMAIN s = 1..Len(s)
  BY DEF Listing
<1>2. RowMatchesSchema(row, s) = RowVerdict(row, s, cells)
  BY DEF RowMatchesSchema, RowFrom, ValueMatchesType
<1>3. CASE Len(row) # Len(s)
  <2>1. RowMatchesSchema(row, s).err = [k |-> "RowWidth", expected |-> Len(s), actual |-> Len(row)]
    BY <1>2, <1>3 DEF RowVerdict, Err
  <2> QED
    BY <1>3, <2>1 DEF BlamesRow
<1>4. CASE Len(row) = Len(s)
  <2>1. Paired(row, s) = 1..Len(row) /\ DOMAIN row = DOMAIN s
    BY <1>1, <1>4 DEF Paired
  <2>2. RowMatchesSchema(row, s) = Collect(Placed("RelationField", Len(row), cells))
    BY <1>2, <1>4, <2>1 DEF RowVerdict, FirstMisfit, Placed
  <2>3. \A p \in DOMAIN row : cells[p] = ValueMatchesType(row[p], s[p].ty)
    BY <1>1, <2>1
  <2>4. \A p \in DOMAIN row : fits[p] <=> row[p] \in Denotation[s[p].ty]
    BY <2>1
  <2> HIDE DEF cells
  <2>5. PICK at \in 1..Len(row) :
          FailsAt("RelationField", Len(row), cells, at, RowMatchesSchema(row, s))
    BY <1>1, <2>2, PlacedFails
  <2>6. \A p \in DOMAIN row : ValueMatchesType(row[p], s[p].ty).ok <=> row[p] \in Denotation[s[p].ty]
    <3> SUFFICES ASSUME NEW p \in DOMAIN row
                 PROVE  ValueMatchesType(row[p], s[p].ty).ok <=> row[p] \in Denotation[s[p].ty]
      OBVIOUS
    <3>1. row[p] \in Value /\ s[p].ty \in ValueType
      BY <2>1
    <3> QED
      BY <3>1, MatchExact
  <2>7. RowMatchesSchema(row, s).err =
          [k |-> "RelationField", at |-> at, source |-> ValueMatchesType(row[at], s[at].ty).err]
    BY <1>1, <2>3, <2>5 DEF FailsAt, Err
  <2>8. ~cells[at].ok /\ \A j \in 1..(at - 1) : cells[j].ok
    BY <2>5 DEF FailsAt
  <2>9. \A j \in 1..(at - 1) : j \in DOMAIN row
    BY <1>1
  <2> HIDE DEF fits
  <2>10. FirstOf(at, fits)
    BY <1>1, <2>3, <2>4, <2>6, <2>8, <2>9 DEF FirstOf
  <2> QED
    BY <1>4, <2>7, <2>10 DEF BlamesRow, fits
<1> QED
  BY <1>3, <1>4

(***************************************************************************)
(* The rows of a nested relation are lists of values, and its header lists *)
(* known types.                                                            *)
(***************************************************************************)
LEMMA NestedRow ==
  ASSUME NEW v \in Value, NEW t \in ValueType, v.k = "Relation", t.k = "Relation"
  PROVE  /\ Listing(v.rows) /\ Listing(t.schema)
         /\ \A p \in DOMAIN t.schema : t.schema[p].ty \in ValueType
         /\ \A i \in DOMAIN v.rows : v.rows[i] \in Seq(Value)
<1>0. "Optional" \notin ScalarKinds /\ "Array" \notin ScalarKinds /\ "Relation" \notin ScalarKinds
  BY DEF ScalarKinds
<1>1. Components(v) = UNION {ToSet(row) : row \in ToSet(v.rows)}
  BY <1>0 DEF Components
<1>2. Listing(v.rows) /\ \A row \in ToSet(v.rows) : Listing(row)
  BY <1>0, ValueAssumption DEF Constructed
<1>3. InnerTypes(t) = {t.schema[i].ty : i \in DOMAIN t.schema}
  BY <1>0 DEF InnerTypes
<1>4. \A row \in ToSet(v.rows) : ToSet(row) \subseteq Value
  BY <1>1, ValueAssumption
<1>5. ASSUME NEW i \in DOMAIN v.rows PROVE v.rows[i] \in Seq(Value)
  <2>1. v.rows[i] \in ToSet(v.rows)
    BY ListMembers
  <2>2. v.rows[i] \in Seq(ToSet(v.rows[i])) /\ ToSet(v.rows[i]) \subseteq Value
    BY <1>2, <1>4, <2>1 DEF Listing
  <2> QED
    BY <2>2
<1> QED
  BY <1>2, <1>3, <1>5, ValueAssumption

-----------------------------------------------------------------------------

LEMMA ValueBlamed ==
  ASSUME NEW v \in Value, NEW t \in ValueType, ~ValueMatchesType(v, t).ok
  PROVE  BlamesValue(v, t, ValueMatchesType(v, t).err)
<1> DEFINE result == MatchFrom(Verdicts, v, t)
<1>0. "Optional" \notin ScalarKinds /\ "Array" \notin ScalarKinds /\ "Relation" \notin ScalarKinds
  BY DEF ScalarKinds
<1>1. ValueMatchesType(v, t) = result
  BY ValueMatchesTypeIs
<1>2. CASE v.k # t.k
  <2>1. ValueMatchesType(v, t).err.k = "Mismatch"
    BY <1>1, <1>2 DEF MatchFrom, Mismatch, Err
  <2> QED
    BY <1>2, <2>1 DEF BlamesValue
<1>3. CASE v.k = t.k /\ v.k \in ScalarKinds
  <2>1. result = Fits
    BY <1>0, <1>3 DEF MatchFrom
  <2> QED
    BY <1>1, <2>1 DEF Fits, Ok
<1>4. CASE v.k = t.k /\ v.k = "Optional"
  <2>1. v.some # <<>>
    BY <1>0, <1>1, <1>4 DEF MatchFrom, Fits, Ok
  <2>2. result = At("Optional", 1, ValueMatchesType(v.some[1], t.of))
    BY <1>0, <1>4, <2>1 DEF MatchFrom, ValueMatchesType
  <2>3. result.err = [k |-> "Optional", at |-> 1, source |-> ValueMatchesType(v.some[1], t.of).err]
    BY <1>1, <2>2 DEF At, Fits, Ok, Err
  <2>4. /\ ValueMatchesType(v, t).err.k = "Optional"
        /\ ValueMatchesType(v, t).err.source = ValueMatchesType(v.some[1], t.of).err
    BY <1>1, <2>3
  <2> QED
    BY <2>4 DEF BlamesValue
<1>5. CASE v.k = t.k /\ v.k = "Array"
  <2> DEFINE results == [i \in DOMAIN v.items |-> ValueMatchesType(v.items[i], t.of)]
             fits == [i \in DOMAIN v.items |-> v.items[i] \in Denotation[t.of]]
             n == Len(v.items)
  <2>1. n \in Nat /\ DOMAIN v.items = 1..n
    BY <1>0, <1>5, ValueAssumption DEF Constructed, Listing
  <2>2. result = Collect(Placed("ArrayElement", n, results))
    BY <1>0, <1>5, <2>1 DEF MatchFrom, ValueMatchesType, Placed
  <2>3. \A i \in 1..n : results[i] = ValueMatchesType(v.items[i], t.of)
    BY <2>1
  <2>4. \A i \in 1..n : ValueMatchesType(v.items[i], t.of).ok <=> v.items[i] \in Denotation[t.of]
    <3>1. Components(v) = ToSet(v.items)
      BY <1>0, <1>5 DEF Components
    <3>2. t.of \in ValueType
      BY <1>0, <1>5, ValueAssumption DEF InnerTypes
    <3>3. \A i \in 1..n : v.items[i] \in Value
      BY <2>1, <3>1, ListMembers, ValueAssumption
    <3> QED
      BY <3>2, <3>3, MatchExact
  <2>5. \A i \in 1..n : fits[i] <=> v.items[i] \in Denotation[t.of]
    BY <2>1
  <2> HIDE DEF results, fits, n, result
  <2>6. PICK at \in 1..n : FailsAt("ArrayElement", n, results, at, result)
    BY <1>1, <2>1, <2>2, PlacedFails
  <2>7. result.err = [k |-> "ArrayElement", at |-> at, source |-> ValueMatchesType(v.items[at], t.of).err]
    BY <2>3, <2>6 DEF FailsAt, Err
  <2>8. ~results[at].ok /\ \A j \in 1..(at - 1) : j \in 1..n /\ results[j].ok
    BY <2>1, <2>6 DEF FailsAt
  <2>9. FirstOf(at, fits)
    BY <2>3, <2>4, <2>5, <2>8 DEF FirstOf
  <2>10. /\ ValueMatchesType(v, t).err.k = "ArrayElement"
         /\ ValueMatchesType(v, t).err.at = at
         /\ ValueMatchesType(v, t).err.source = ValueMatchesType(v.items[at], t.of).err
    BY <1>1, <2>7
  <2> QED
    BY <2>9, <2>10 DEF BlamesValue, fits
<1>6. CASE v.k = t.k /\ v.k = "Relation"
  <2> DEFINE results == [i \in DOMAIN v.rows |-> RowMatchesSchema(v.rows[i], t.schema)]
             fits == [i \in DOMAIN v.rows |-> Tuple(v.rows[i], t.schema)]
             n == Len(v.rows)
  <2>0. /\ Listing(v.rows) /\ Listing(t.schema)
        /\ \A p \in DOMAIN t.schema : t.schema[p].ty \in ValueType
        /\ \A i \in DOMAIN v.rows : v.rows[i] \in Seq(Value)
    BY <1>6, NestedRow
  <2>1. n \in Nat /\ DOMAIN v.rows = 1..n
    BY <2>0 DEF Listing
  <2>2. result = Collect(Placed("RelationRow", n, results))
    BY <1>0, <1>6, <2>1 DEF MatchFrom, RowMatchesSchema, Placed
  <2>3. \A i \in 1..n : results[i] = RowMatchesSchema(v.rows[i], t.schema)
    BY <2>1
  <2>4. \A i \in 1..n : RowMatchesSchema(v.rows[i], t.schema).ok <=> Tuple(v.rows[i], t.schema)
    BY <2>0, <2>1, RowExact
  <2>5. \A i \in 1..n : fits[i] <=> Tuple(v.rows[i], t.schema)
    BY <2>1
  <2> HIDE DEF results, fits, n, result
  <2>6. PICK at \in 1..n : FailsAt("RelationRow", n, results, at, result)
    BY <1>1, <2>1, <2>2, PlacedFails
  <2>7. result.err = [k |-> "RelationRow", at |-> at, source |-> RowMatchesSchema(v.rows[at], t.schema).err]
    BY <2>3, <2>6 DEF FailsAt, Err
  <2>8. ~results[at].ok /\ \A j \in 1..(at - 1) : j \in 1..n /\ results[j].ok
    BY <2>1, <2>6 DEF FailsAt
  <2>9. FirstOf(at, fits)
    BY <2>3, <2>4, <2>5, <2>8 DEF FirstOf
  <2>10. /\ ValueMatchesType(v, t).err.k = "RelationRow"
         /\ ValueMatchesType(v, t).err.at = at
         /\ ValueMatchesType(v, t).err.source = RowMatchesSchema(v.rows[at], t.schema).err
    BY <1>1, <2>7
  <2>11. BlamesRow(v.rows[at], t.schema, RowMatchesSchema(v.rows[at], t.schema).err)
    BY <2>0, <2>1, <2>3, <2>8, RowBlamed
  <2> QED
    BY <2>9, <2>10, <2>11 DEF BlamesValue, fits
<1> QED
  BY <1>2, <1>3, <1>4, <1>5, <1>6, ValueAssumption DEF Constructed

LEMMA BatchBlamed ==
  ASSUME NEW s \in Seq(RawColumns), NEW rows \in Seq(RawRows),
         ~MemorySourceTryNew(s, rows).ok, MemorySourceTryNew(s, rows).err.k = "RowMismatch"
  PROVE  LET e == MemorySourceTryNew(s, rows).err
         IN  /\ e.at \in DOMAIN rows
             /\ FirstOf(e.at, [i \in DOMAIN rows |-> Tuple(rows[i], s)])
             /\ BlamesRow(rows[e.at], s, e.source)
<1> DEFINE results == [i \in DOMAIN rows |-> RowMatchesSchema(rows[i], s)]
           fits == [i \in DOMAIN rows |-> Tuple(rows[i], s)]
           n == Len(rows)
           result == MemorySourceTryNew(s, rows)
           checked == Collect(RowChecks(s, rows))
<1>1. n \in Nat /\ DOMAIN rows = 1..n
  OBVIOUS
<1>2. checked = Collect(Placed("RowMismatch", n, results))
  <2>1. RowChecks(s, rows) = Placed("RowMismatch", n, results)
    BY <1>1 DEF RowChecks, Placed
  <2> QED
    BY <2>1
<1>3. ~checked.ok /\ result = checked
  <2>1. checked.ok => result.ok \/ result.err.k = "Rows"
    <3>1. checked.ok => result = Then(Wrap("Rows", RowsTryNew(rows)), LAMBDA r : Ok(Memory(s, rows)))
      BY DEF MemorySourceTryNew, Then
    <3> HIDE DEF checked, result
    <3> QED
      BY <3>1 DEF Then, Wrap, Ok, Err
  <2>2. ~checked.ok => result = checked
    BY DEF MemorySourceTryNew, Then
  <2> HIDE DEF checked, result
  <2> QED
    BY <2>1, <2>2 DEF result
<1>4. \A i \in 1..n : results[i] = RowMatchesSchema(rows[i], s)
  BY <1>1
<1>5. \A i \in 1..n : RowMatchesSchema(rows[i], s).ok <=> Tuple(rows[i], s)
  BY <1>1, RawRowExact
<1>6. \A i \in 1..n : fits[i] <=> Tuple(rows[i], s)
  BY <1>1
<1> HIDE DEF results, fits, n, checked
<1>7. PICK at \in 1..n : FailsAt("RowMismatch", n, results, at, checked)
  BY <1>1, <1>2, <1>3, PlacedFails
<1>8. checked.err = [k |-> "RowMismatch", at |-> at, source |-> RowMatchesSchema(rows[at], s).err]
  BY <1>4, <1>7 DEF FailsAt, Err
<1>9. ~results[at].ok /\ \A j \in 1..(at - 1) : j \in 1..n /\ results[j].ok
  BY <1>1, <1>7 DEF FailsAt
<1>10. FirstOf(at, fits)
  BY <1>4, <1>5, <1>6, <1>9 DEF FirstOf
<1>11. BlamesRow(rows[at], s, RowMatchesSchema(rows[at], s).err)
  <2>1. rows[at] \in Seq(Value) /\ ~RowMatchesSchema(rows[at], s).ok
    BY <1>1, <1>4, <1>9, SourceAssumption
  <2>2. Listing(s)
    <3>1. \A p \in 1..Len(s) : s[p] \in ToSet(s)
      BY ListMembers
    <3> QED
      BY <3>1 DEF Listing
  <2>3. \A p \in DOMAIN s : s[p].ty \in ValueType
    BY DEF RawColumns, Column
  <2> QED
    BY <2>1, <2>2, <2>3, RowBlamed
<1>12. result.err.at = at /\ result.err.source = RowMatchesSchema(rows[at], s).err
  BY <1>3, <1>8
<1> HIDE DEF result
<1>13. /\ result.err.at \in DOMAIN rows
       /\ FirstOf(result.err.at, fits)
       /\ BlamesRow(rows[result.err.at], s, result.err.source)
  BY <1>1, <1>10, <1>11, <1>12
<1> QED
  BY <1>13 DEF result, fits

LEMMA BlamesTheFirst == IInv => BlamesFirst
<1> SUFFICES ASSUME IInv PROVE BlamesFirst
  OBVIOUS
<1> DEFINE e == outcome.verdict.err
<1> SUFFICES ASSUME outcome.call = "Memory", ~outcome.verdict.ok, e.k = "RowMismatch"
             PROVE  /\ FirstOf(e.at, [i \in DOMAIN batch |-> Tuple(batch[i], columns)])
                    /\ BlamesRow(batch[e.at], columns, e.source)
                    /\ \A v \in ToSet(batch[e.at]), t \in ValueType :
                         ~ValueMatchesType(v, t).ok =>
                           BlamesValue(v, t, ValueMatchesType(v, t).err)
  BY DEF BlamesFirst
<1> DEFINE memory == TryMemoryOf(columns, batch)
<1>1. outcome.verdict = memory
  <2>1. outcome.verdict = Told(memory)
    BY DEF IInv, Answered
  <2> HIDE DEF memory
  <2> QED
    BY <2>1 DEF Told, Fits, Ok
<1>2. ValidHeader(columns) /\ memory = MemorySourceTryNew(columns, batch)
  BY <1>1, TryMemoryOfIs
<1>3. columns \in Seq(RawColumns) /\ batch \in Seq(RawRows)
  BY DEF IInv, Sound, Collected
<1> HIDE DEF memory
<1>4. e = MemorySourceTryNew(columns, batch).err
  BY <1>1, <1>2
<1>5. /\ ~MemorySourceTryNew(columns, batch).ok
      /\ MemorySourceTryNew(columns, batch).err.k = "RowMismatch"
  BY <1>1, <1>2, <1>4
<1> HIDE DEF e
<1>6. /\ e.at \in DOMAIN batch
      /\ FirstOf(e.at, [i \in DOMAIN batch |-> Tuple(batch[i], columns)])
      /\ BlamesRow(batch[e.at], columns, e.source)
  BY <1>3, <1>4, <1>5, BatchBlamed
<1>7. batch[e.at] \in Seq(Value)
  BY <1>3, <1>6, SourceAssumption
<1>8. ToSet(batch[e.at]) \subseteq Value
  BY <1>7 DEF ToSet
<1> QED
  BY <1>6, <1>8, ValueBlamed

(***************************************************************************)
(* The path in a refusal leads to the first culprit, at every level of     *)
(* arrays, optional values and nested relations (infer.rs:194-272,         *)
(* source.rs:101-105).                                                     *)
(***************************************************************************)
THEOREM BlameIsFirst == Spec => []BlamesFirst
BY BlamesTheFirst, Invariance, PTL


-----------------------------------------------------------------------------

(***************************************************************************)
(* A list of values of one scalar variant has the type of that variant; a  *)
(* list that has something else than a scalar first has none.              *)
(***************************************************************************)
LEMMA ScalarList ==
  ASSUME NEW t, NEW values, t.k \in ScalarKinds, t = Ty(t.k),
         \A i \in DOMAIN values : values[i].k = t.k
  PROVE  InferInList(t, values).ok
<1>1. \A i \in DOMAIN values : InferValue(values[i]) = Ok(t)
  BY DEF InferValue
<1> QED
  BY <1>1 DEF InferInList, Ok

LEMMA CompoundList ==
  ASSUME NEW t, NEW values, 1 \in DOMAIN values,
         \A i \in DOMAIN values : values[i].k \notin ScalarKinds
  PROVE  ~InferInList(t, values).ok
<1> DEFINE Fails(i) == InferValue(values[i]) # Ok(t)
           first == CHOOSE i \in DOMAIN values : Fails(i) /\ \A j \in 1..(i - 1) : ~Fails(j)
<1>1. \A i \in DOMAIN values : ~InferValue(values[i]).ok
  BY DEF InferValue, Err
<1>2. \A i \in DOMAIN values : Fails(i)
  BY <1>1 DEF Ok
<1>3. 1..(1 - 1) = {}
  OBVIOUS
<1> HIDE DEF Fails
<1>4. first \in DOMAIN values
  BY <1>2, <1>3
<1>5. InferInList(t, values) =
        IF \A i \in DOMAIN values : ~Fails(i) THEN Ok(Ty("Bool"))
        ELSE IF InferValue(values[first]).ok
        THEN Err([k |-> "InListElementMismatch", index |-> first,
                  scrutinee |-> t, got |-> InferValue(values[first]).val])
        ELSE InferValue(values[first])
  BY DEF InferInList, Fails
<1> HIDE DEF first
<1>6. InferInList(t, values) = InferValue(values[first])
  BY <1>1, <1>2, <1>4, <1>5
<1> QED
  BY <1>1, <1>4, <1>6

LEMMA SearchesColumns == IInv => ColumnsSearchable
<1> SUFFICES ASSUME IInv PROVE ColumnsSearchable
  OBVIOUS
<1> DEFINE column(p) == [i \in DOMAIN source.rows |-> source.rows[i][p]]
<1> SUFFICES ASSUME source.k = "Memory", NEW p \in DOMAIN source.schema,
                    InListValuesTryNew(column(p)).ok
             PROVE  InferInList(source.schema[p].ty, column(p)).ok <=>
                      source.schema[p].ty.k \in ScalarKinds
  BY DEF ColumnsSearchable
<1> DEFINE t == source.schema[p].ty
           values == column(p)
           n == Len(source.rows)
<1>1. source.schema \in Seq(RawColumns) /\ source.rows \in Seq(RawRows)
  BY DEF IInv, Sound, Collected
<1>2. t \in ValueType
  BY <1>1 DEF RawColumns, Column
<1>3. n \in Nat /\ DOMAIN source.rows = 1..n
  BY <1>1
<1>4. ASSUME NEW i \in DOMAIN source.rows PROVE source.rows[i][p].k = t.k
  <2> DEFINE row == source.rows[i]
  <2>1. row \in RawRows /\ row \in Seq(Value)
    BY <1>1, SourceAssumption
  <2>2. RowMatchesSchema(row, source.schema).ok
    BY DEF IInv, Sound, SourceConforms
  <2> HIDE DEF row
  <2>3. Tuple(row, source.schema)
    BY <1>1, <2>1, <2>2, RawRowExact
  <2>4. p \in DOMAIN row /\ row[p] \in Denotation[t]
    BY <2>3 DEF Tuple, TupleOver
  <2>5. row[p] \in Value
    BY <2>1, <2>4
  <2> HIDE DEF t
  <2>6. row[p].k = t.k
    BY <1>2, <2>4, <2>5, MembersAre
  <2> QED
    BY <2>6 DEF row
<1>5. DOMAIN values = 1..n /\ Len(values) = n
  BY <1>3
<1>6. \A i \in DOMAIN values : values[i].k = t.k
  BY <1>3, <1>4, <1>5
<1>7. n \in 1..MaxInList
  BY <1>5, LenItemsOk DEF InListValuesTryNew
<1>8. 1 \in DOMAIN values
  BY <1>3, <1>5, <1>7, ValueAssumption
<1> HIDE DEF t, values
<1>9. CASE t.k \in ScalarKinds
  <2>1. t = Ty(t.k)
    BY <1>2, <1>9, ValueAssumption
  <2> QED
    BY <1>6, <1>9, <2>1, ScalarList DEF t, values
<1>10. CASE t.k \notin ScalarKinds
  <2>1. ~InferInList(t, values).ok
    BY <1>6, <1>8, <1>10, CompoundList
  <2> QED
    BY <1>10, <2>1 DEF t, values
<1> QED
  BY <1>9, <1>10

(***************************************************************************)
(* The values of a column of a memory source make an IN list over that     *)
(* column exactly when its type is a scalar one: the two typings of a      *)
(* literal agree (infer.rs:110-124, 194-244 and 274-296).                  *)
(***************************************************************************)
THEOREM ColumnsAlwaysSearchable == Spec => []ColumnsSearchable
BY SearchesColumns, Invariance, PTL


-----------------------------------------------------------------------------

(***************************************************************************)
(* The walk over the characters stops at the first bad one, of which there *)
(* is no other.                                                            *)
(***************************************************************************)
BadAt(raw, k) ==
  /\ k \in 1..Len(raw)
  /\ raw[k] \notin IdentChar
  /\ \A j \in 1..(k - 1) : raw[j] \in IdentChar

BodyChar(k) == Err([k |-> "BodyChar", offset |-> k - 1])

LEMMA EachCharIs ==
  ASSUME NEW S, NEW raw \in Seq(S)
  PROVE  \/ EachChar(raw).ok /\ EachChar(raw) = Ok(raw)
         \/ \E k \in 1..Len(raw) : BadAt(raw, k) /\ EachChar(raw) = BodyChar(k)
<1> DEFINE I == {i \in 1..Len(raw) : raw[i] \notin IdentChar}
           bad == SelectInSeq(raw, LAMBDA c : c \notin IdentChar)
<1>1. bad = IF I # {} THEN Min(I) ELSE 0
  BY DEF SelectInSeq
<1>2. EachChar(raw) = IF bad = 0 THEN Ok(raw) ELSE BodyChar(bad)
  BY DEF EachChar, BodyChar
<1>3. CASE I = {}
  <2> HIDE DEF I, bad
  <2>1. EachChar(raw) = Ok(raw)
    BY <1>1, <1>2, <1>3
  <2> QED
    BY <2>1 DEF Ok
<1>4. CASE I # {}
  <2>1. I \subseteq Nat
    OBVIOUS
  <2>2. PICK m \in I : \A j \in I : m <= j
    BY <1>4, <2>1, LeastInSeq
  <2>3. Min(I) \in I /\ \A j \in I : Min(I) <= j
    BY <2>2 DEF Min
  <2>4. bad \in I /\ \A j \in I : bad <= j
    BY <1>1, <1>4, <2>3
  <2> HIDE DEF bad
  <2>5. bad \in 1..Len(raw) /\ raw[bad] \notin IdentChar
    BY <2>4
  <2>6. ASSUME NEW j \in 1..(bad - 1) PROVE raw[j] \in IdentChar
    <3>1. j \in 1..Len(raw) /\ ~(bad <= j)
      BY <2>5
    <3> QED
      BY <2>4, <3>1
  <2>7. EachChar(raw) = BodyChar(bad)
    BY <1>2, <2>5
  <2> QED
    BY <2>5, <2>6, <2>7 DEF BadAt
<1> QED
  BY <1>3, <1>4

LEMMA EachCharFails ==
  ASSUME NEW S, NEW raw \in Seq(S), NEW k, BadAt(raw, k)
  PROVE  EachChar(raw) = BodyChar(k)
<1>1. k \in 1..Len(raw) /\ Len(raw) \in Nat
  BY DEF BadAt
<1>2. CASE EachChar(raw).ok
  <2>1. raw \in Seq(IdentChar)
    BY <1>2, EachCharOk
  <2> QED
    BY <1>1, <2>1 DEF BadAt
<1>3. ASSUME NEW m \in 1..Len(raw), BadAt(raw, m) PROVE m = k
  <2>1. ~(m \in 1..(k - 1)) /\ ~(k \in 1..(m - 1))
    BY <1>3 DEF BadAt
  <2> QED
    BY <1>1, <2>1
<1> QED
  BY <1>2, <1>3, EachCharIs

(***************************************************************************)
(* The rules in their order: the length, the characters, the first one.    *)
(***************************************************************************)
LEMMA NameIs ==
  ASSUME NEW raw
  PROVE  AttributeNameTryNew(raw) =
           IF Len(raw) \notin 1..MaxAttributeNameLen
           THEN Err([k |-> "Length", actual |-> Len(raw)])
           ELSE IF EachChar(raw).ok THEN FirstChar(EachChar(raw).val) ELSE EachChar(raw)
BY DEF AttributeNameTryNew, LenChars, Then, Ok, Err

LEMMA Prefix ==
  ASSUME NEW S, NEW raw \in Seq(S), NEW n \in 0..Len(raw)
  PROVE  /\ SubSeq(raw, 1, n) \in Seq(S)
         /\ Len(SubSeq(raw, 1, n)) = n
         /\ \A i \in 1..n : SubSeq(raw, 1, n)[i] = raw[i]
OBVIOUS

LEMMA LocatesBadChar == IInv => BadCharLocated
<1> SUFFICES ASSUME IInv PROVE BadCharLocated
  OBVIOUS
<1> DEFINE raw == outcome.arg
           e == outcome.verdict.err
           upTo(n) == AttributeNameTryNew(SubSeq(raw, 1, n))
<1> SUFFICES ASSUME outcome.call = "AttributeName", ~outcome.verdict.ok, e.k = "BodyChar"
             PROVE  /\ ~upTo(e.offset).ok => upTo(e.offset).err.k # "BodyChar"
                    /\ upTo(e.offset + 1) = outcome.verdict
  BY DEF BadCharLocated
<1>1. raw \in RawNames /\ outcome.verdict = Told(AttributeNameTryNew(raw))
  BY DEF IInv, Answered
<1>2. outcome.verdict = AttributeNameTryNew(raw)
  BY <1>1 DEF Told, Fits, Ok
<1>3. raw \in Seq(ToSet(raw))
  BY <1>1, SourceAssumption
<1> HIDE DEF raw, e
<1>4. Len(raw) \in 1..MaxAttributeNameLen
  BY <1>2, NameIs DEF Err, e
<1>5. ~EachChar(raw).ok /\ outcome.verdict = EachChar(raw)
  <2>1. FirstChar(EachChar(raw).val).ok \/ FirstChar(EachChar(raw).val).err.k = "FirstChar"
    BY DEF FirstChar, Ok, Err
  <2> QED
    BY <1>2, <1>4, <2>1, NameIs DEF e
<1>6. PICK k \in 1..Len(raw) : BadAt(raw, k) /\ EachChar(raw) = BodyChar(k)
  BY <1>3, <1>5, EachCharIs
<1>7. e.offset = k - 1 /\ e.offset + 1 = k
  BY <1>5, <1>6 DEF BodyChar, Err, e
<1>8. Len(raw) \in Nat /\ k \in Nat /\ MaxAttributeNameLen \in Nat
  BY <1>3, <1>6, IdentifierAssumption
<1>9. upTo(k) = BodyChar(k)
  <2> DEFINE cut == SubSeq(raw, 1, k)
  <2>1. cut \in Seq(ToSet(raw)) /\ Len(cut) = k /\ \A i \in 1..k : cut[i] = raw[i]
    BY <1>3, <1>8, Prefix
  <2> HIDE DEF cut
  <2>2. BadAt(cut, k)
    BY <1>6, <1>8, <2>1 DEF BadAt
  <2>3. EachChar(cut) = BodyChar(k)
    BY <2>1, <2>2, EachCharFails
  <2>4. ~BodyChar(k).ok
    BY DEF BodyChar, Err
  <2>5. Len(cut) \in 1..MaxAttributeNameLen
    BY <1>4, <1>8, <2>1
  <2>6. AttributeNameTryNew(cut) = BodyChar(k)
    BY <2>3, <2>4, <2>5, NameIs
  <2> QED
    BY <2>6 DEF cut
<1>10. ~upTo(k - 1).ok => upTo(k - 1).err.k # "BodyChar"
  <2> DEFINE cut == SubSeq(raw, 1, k - 1)
  <2>1. cut \in Seq(ToSet(raw)) /\ Len(cut) = k - 1 /\ \A i \in 1..(k - 1) : cut[i] = raw[i]
    BY <1>3, <1>8, Prefix
  <2> HIDE DEF cut
  <2>2. \A i \in 1..Len(cut) : cut[i] \in IdentChar
    BY <1>6, <2>1 DEF BadAt
  <2>3. EachChar(cut).ok
    BY <2>1, <2>2, EachCharIs DEF BadAt
  <2>4. \A r : ~FirstChar(r).ok => FirstChar(r).err.k = "FirstChar"
    BY DEF FirstChar, Ok, Err
  <2>5. \/ AttributeNameTryNew(cut) = Err([k |-> "Length", actual |-> Len(cut)])
        \/ AttributeNameTryNew(cut) = FirstChar(EachChar(cut).val)
    BY <2>3, NameIs
  <2>6. ~AttributeNameTryNew(cut).ok => AttributeNameTryNew(cut).err.k # "BodyChar"
    BY <2>4, <2>5 DEF Err
  <2> QED
    BY <2>6 DEF cut
<1> QED
  BY <1>5, <1>6, <1>7, <1>9, <1>10

(***************************************************************************)
(* The reported offset is where the string stops being a name: the part    *)
(* before it has no bad character, and the part that ends with it already  *)
(* gets the same error (identifier.rs:66-76).                              *)
(***************************************************************************)
THEOREM BadCharAlwaysLocated == Spec => []BadCharLocated
BY LocatesBadChar, Invariance, PTL

============================================================================
