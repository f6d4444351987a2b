---------------------------- MODULE InferLemmas ----------------------------
(***************************************************************************)
(* What the proofs use of results, of checked lists and of recursions over *)
(* finite trees, and what the recursive functions of Infer compute: each   *)
(* meets its defining equation at every expression, however deep.          *)
(***************************************************************************)
EXTENDS Infer, WellFoundedInduction, TLAPS

(***************************************************************************)
(* A non-empty set of naturals has a least element, which SelectInSeq,     *)
(* that is Iterator::position, finds.                                      *)
(***************************************************************************)
LEMMA LeastInSeq ==
  ASSUME NEW S, S \subseteq Nat, S # {}
  PROVE  \E i \in S : \A j \in S : i <= j
<1>1. PICK i \in S : \A j \in S : ~(<<j, i>> \in OpToRel(<, Nat))
  BY NatLessThanWellFounded, WFMin
<1>2. ASSUME NEW j \in S PROVE i <= j
  <2>1. ~(j < i)
    BY <1>1 DEF OpToRel
  <2>2. i \in Nat /\ j \in Nat
    OBVIOUS
  <2> QED
    BY <2>1, <2>2
<1> QED
  BY <1>2

(***************************************************************************)
(* Whatever comes before the first hit is no hit, and there is no other    *)
(* first one.                                                              *)
(***************************************************************************)
LEMMA FirstHit ==
  ASSUME NEW S, NEW results \in Seq(S), NEW k \in DOMAIN results,
         ~results[k].ok, \A j \in 1..(k - 1) : results[j].ok
  PROVE  SelectInSeq(results, LAMBDA r : ~r.ok) = k
<1> DEFINE I == {i \in 1..Len(results) : ~results[i].ok}
<1>1. k \in I /\ I \subseteq Nat
  OBVIOUS
<1>2. \A j \in I : k <= j
  OBVIOUS
<1>3. Min(I) \in I /\ \A j \in I : Min(I) <= j
  BY <1>1, <1>2 DEF Min
<1>4. Min(I) = k
  BY <1>1, <1>2, <1>3
<1>5. SelectInSeq(results, LAMBDA r : ~r.ok) = IF I # {} THEN Min(I) ELSE 0
  BY DEF SelectInSeq
<1> QED
  BY <1>1, <1>4, <1>5

LEMMA FirstFailure ==
  ASSUME NEW S, NEW results \in Seq(S), ~(\A i \in DOMAIN results : results[i].ok)
  PROVE  LET k == SelectInSeq(results, LAMBDA r : ~r.ok)
         IN  /\ k \in DOMAIN results /\ ~results[k].ok
             /\ \A j \in 1..(k - 1) : results[j].ok
<1> DEFINE I == {i \in 1..Len(results) : ~results[i].ok}
<1>1. I # {} /\ I \subseteq Nat /\ I \subseteq DOMAIN results
  OBVIOUS
<1>2. PICK m \in I : \A j \in I : m <= j
  BY <1>1, LeastInSeq
<1>3. Min(I) \in I /\ \A j \in I : Min(I) <= j
  BY <1>2 DEF Min
<1>4. SelectInSeq(results, LAMBDA r : ~r.ok) = IF I # {} THEN Min(I) ELSE 0
  BY DEF SelectInSeq
<1>5. ASSUME NEW j \in 1..(Min(I) - 1) PROVE results[j].ok
  <2>1. Min(I) \in 1..Len(results)
    BY <1>3
  <2>2. j \in 1..Len(results) /\ ~(Min(I) <= j)
    BY <2>1
  <2> QED
    BY <1>3, <2>2
<1>6. Min(I) \in DOMAIN results /\ ~results[Min(I)].ok
  BY <1>1, <1>3
<1>7. SelectInSeq(results, LAMBDA r : ~r.ok) = Min(I)
  BY <1>1, <1>4
<1> HIDE DEF I
<1> QED
  BY <1>5, <1>6, <1>7

(***************************************************************************)
(* A loop that collects succeeds only when every one of its results did.   *)
(***************************************************************************)
LEMMA CollectOk ==
  ASSUME NEW S, NEW results \in Seq(S)
  PROVE  Collect(results).ok <=> \A i \in DOMAIN results : results[i].ok
<1>1. CASE \A i \in DOMAIN results : results[i].ok
  BY <1>1 DEF Collect, Ok
<1>2. CASE ~(\A i \in DOMAIN results : results[i].ok)
  BY <1>2, FirstFailure DEF Collect
<1> QED
  BY <1>1, <1>2

LEMMA LenItemsOk ==
  ASSUME NEW list, NEW lo, NEW hi
  PROVE  /\ LenItems(list, lo, hi).ok <=> Len(list) \in lo..hi
         /\ LenItems(list, lo, hi).ok => LenItems(list, lo, hi) = Ok(list)
BY DEF LenItems, Checked, Distinct, Ok, Err

(***************************************************************************)
(* The check of Schema::try_new, which is all a header is ever asked.      *)
(***************************************************************************)
LEMMA SchemaTryNewOk ==
  ASSUME NEW s
  PROVE  /\ SchemaTryNew(s).ok => ValidHeader(s) /\ SchemaTryNew(s).val = s
         /\ ValidHeader(s) => SchemaTryNew(s) = Ok(s)
<1> DEFINE checked == Checked(s, Names(s), 1, MaxSchemaAttributes)
<1>1. /\ checked.ok => ValidHeader(s) /\ checked = Ok(s)
      /\ ValidHeader(s) => checked = Ok(s)
  BY DEF Checked, ValidHeader, Ok, Err
<1>2. checked.ok => SchemaTryNew(s) = checked
  BY DEF SchemaTryNew
<1>3. ~checked.ok => checked.err.k \in {"LenOutOfRange", "DuplicateKey"}
  BY DEF Checked, Ok, Err
<1>4. ~checked.ok => ~SchemaTryNew(s).ok
  BY <1>3 DEF SchemaTryNew, Err
<1> HIDE DEF checked
<1> QED
  BY <1>1, <1>2, <1>4 DEF Ok

(***************************************************************************)
(* In a header that was checked, find reaches the attribute of that name.  *)
(***************************************************************************)
LEMMA FindByName ==
  ASSUME NEW s, NEW n, ValidHeader(s), Has(s, n)
  PROVE  Position(s, n) \in DOMAIN s /\ Find(s, n).name = n
<1>1. PICK i \in DOMAIN s : s[i].name = n
  BY DEF Has
<1>2. \A j \in DOMAIN s \ {i} : s[j].name # n
  BY <1>1 DEF ValidHeader, Distinct, Names
<1>3. \E p \in DOMAIN s : s[p].name = n /\ \A j \in DOMAIN s \ {p} : s[j].name = n => p < j
  BY <1>1, <1>2
<1> QED
  BY <1>3 DEF Position, Find

-----------------------------------------------------------------------------

(***************************************************************************)
(* A recursion on finite trees whose results stay in a set defines a       *)
(* function into that set.  D says what is made of a tree x and of the     *)
(* results for all trees, of which only those lighter than x matter.       *)
(***************************************************************************)
LighterOnly(B, w, V, D) ==
  \A x \in B, f, g \in [B -> V] :
    (\A y \in B : w[y] < w[x] => f[y] = g[y]) => D[x][f] = D[x][g]

Solutions(B, w, V, D, n) ==
  {f \in [B -> V] : \A x \in B : w[x] < n => f[x] = D[x][f]}

LEMMA SolutionsExist ==
  ASSUME NEW B, NEW w \in [B -> Nat], NEW V, V # {}, NEW D \in [B -> [[B -> V] -> V]],
         LighterOnly(B, w, V, D), NEW n \in Nat
  PROVE  Solutions(B, w, V, D, n) # {}
<1> DEFINE Missing == {k \in Nat : Solutions(B, w, V, D, k) = {}}
<1> SUFFICES ASSUME Missing # {} PROVE FALSE
  OBVIOUS
<1>1. PICK m \in Missing : \A j \in Missing : m <= j
  <2>1. Missing \subseteq Nat
    OBVIOUS
  <2> HIDE DEF Missing
  <2> QED
    BY <2>1, LeastInSeq
<1>2. m \in Nat /\ Solutions(B, w, V, D, m) = {}
  OBVIOUS
<1>3. CASE m = 0
  <2>1. PICK v \in V : TRUE
    OBVIOUS
  <2> DEFINE f == [x \in B |-> v]
  <2>2. f \in [B -> V] /\ \A x \in B : ~(w[x] < 0)
    OBVIOUS
  <2> HIDE DEF f
  <2>3. f \in Solutions(B, w, V, D, 0)
    BY <2>2 DEF Solutions
  <2> QED
    BY <1>2, <1>3, <2>3
<1>4. CASE m # 0
  <2>1. m - 1 \in Nat /\ ~(m <= m - 1)
    BY <1>4
  <2>2. PICK f \in [B -> V] : \A x \in B : w[x] < m - 1 => f[x] = D[x][f]
    <3>1. Solutions(B, w, V, D, m - 1) # {}
      BY <1>1, <2>1
    <3> QED
      BY <3>1 DEF Solutions
  <2> DEFINE g == [x \in B |-> D[x][f]]
  <2>3. g \in [B -> V] /\ \A x \in B : g[x] = D[x][f]
    OBVIOUS
  <2> HIDE DEF g
  <2>4. ASSUME NEW x \in B, w[x] < m PROVE g[x] = D[x][g]
    <3>1. ASSUME NEW y \in B, w[y] < w[x] PROVE f[y] = g[y]
      <4>1. w[y] \in Nat /\ w[x] \in Nat
        OBVIOUS
      <4>2. w[y] < m - 1
        BY <2>4, <3>1, <4>1
      <4> QED
        BY <2>2, <2>3, <4>2
    <3>2. D[x][f] = D[x][g]
      BY <2>2, <2>3, <3>1 DEF LighterOnly
    <3> QED
      BY <2>3, <3>2
  <2>5. g \in Solutions(B, w, V, D, m)
    BY <2>3, <2>4 DEF Solutions
  <2> QED
    BY <1>2, <2>5
<1> QED
  BY <1>3, <1>4

Agreed(B, w, V, D) ==
  \A n, m \in Nat :
    \A f \in Solutions(B, w, V, D, n), g \in Solutions(B, w, V, D, m), x \in B :
      w[x] < n /\ w[x] < m => f[x] = g[x]

LEMMA SolutionsAgree ==
  ASSUME NEW B, NEW w \in [B -> Nat], NEW V, NEW D \in [B -> [[B -> V] -> V]],
         LighterOnly(B, w, V, D)
  PROVE  Agreed(B, w, V, D)
<1> SUFFICES ASSUME NEW n \in Nat, NEW m \in Nat,
                    NEW f \in Solutions(B, w, V, D, n), NEW g \in Solutions(B, w, V, D, m),
                    NEW x \in B, w[x] < n, w[x] < m
             PROVE  f[x] = g[x]
  BY DEF Agreed
<1> DEFINE Bad == {k \in Nat : \E y \in B : w[y] = k /\ k < n /\ k < m /\ f[y] # g[y]}
<1> SUFFICES ASSUME f[x] # g[x] PROVE FALSE
  OBVIOUS
<1>1. w[x] \in Bad
  OBVIOUS
<1>2. PICK k \in Bad : \A j \in Bad : k <= j
  <2>1. Bad \subseteq Nat /\ Bad # {}
    BY <1>1
  <2> HIDE DEF Bad
  <2> QED
    BY <2>1, LeastInSeq
<1>3. PICK y \in B : w[y] = k /\ k < n /\ k < m /\ f[y] # g[y]
  OBVIOUS
<1>4. ASSUME NEW z \in B, w[z] < w[y] PROVE f[z] = g[z]
  <2>1. w[z] \in Nat /\ w[y] \in Nat
    OBVIOUS
  <2>2. w[z] < n /\ w[z] < m /\ ~(k <= w[z])
    BY <1>3, <1>4, <2>1
  <2> QED
    BY <1>2, <2>1, <2>2
<1>5. f \in [B -> V] /\ g \in [B -> V] /\ f[y] = D[y][f] /\ g[y] = D[y][g]
  BY <1>3 DEF Solutions
<1>6. D[y][f] = D[y][g]
  BY <1>4, <1>5 DEF LighterOnly
<1> QED
  BY <1>3, <1>5, <1>6

Recursion(B, w, V, D) ==
  /\ w \in [B -> Nat]
  /\ V # {}
  /\ D \in [B -> [[B -> V] -> V]]
  /\ LighterOnly(B, w, V, D)

Computable(B, V, D) == \E f \in [B -> V] : \A x \in B : f[x] = D[x][f]

LEMMA WeighedRecursion ==
  ASSUME NEW B, NEW w, NEW V, NEW D, Recursion(B, w, V, D)
  PROVE  Computable(B, V, D)
<1> USE DEF Recursion
<1> DEFINE F(n) == CHOOSE f : f \in Solutions(B, w, V, D, n)
           G == [x \in B |-> F(w[x] + 1)[x]]
<1>1. ASSUME NEW n \in Nat PROVE F(n) \in Solutions(B, w, V, D, n)
  <2>1. Solutions(B, w, V, D, n) # {}
    BY SolutionsExist
  <2> QED
    BY <2>1
<1>2. \A x \in B : G[x] = F(w[x] + 1)[x]
  OBVIOUS
<1> HIDE DEF F
<1>0. Agreed(B, w, V, D)
  BY SolutionsAgree
<1>3. ASSUME NEW x \in B, NEW n \in Nat, w[x] < n
      PROVE  F(n) \in [B -> V] /\ F(n)[x] = D[x][F(n)] /\ F(n)[x] = G[x]
  <2>1. w[x] \in Nat /\ w[x] + 1 \in Nat /\ w[x] < w[x] + 1
    OBVIOUS
  <2>2. F(n) \in [B -> V] /\ F(n)[x] = D[x][F(n)]
    BY <1>1, <1>3 DEF Solutions
  <2>3. F(w[x] + 1) \in Solutions(B, w, V, D, w[x] + 1) /\ F(n) \in Solutions(B, w, V, D, n)
    BY <1>1, <2>1
  <2>4. F(n)[x] = F(w[x] + 1)[x]
    <3> DEFINE k == w[x] + 1
               f == F(n)
               g == F(k)
    <3>1. k \in Nat /\ w[x] < k /\ g \in Solutions(B, w, V, D, k) /\ f \in Solutions(B, w, V, D, n)
      BY <2>1, <2>3
    <3> HIDE DEF k, f, g
    <3>2. f[x] = g[x]
      BY <1>0, <1>3, <3>1 DEF Agreed
    <3> QED
      BY <3>2 DEF k, f, g
  <2> QED
    BY <1>2, <2>2, <2>4
<1>4. G \in [B -> V]
  <2>1. \A x \in B : F(w[x] + 1)[x] \in V
    <3> SUFFICES ASSUME NEW x \in B PROVE F(w[x] + 1)[x] \in V
      OBVIOUS
    <3>1. w[x] + 1 \in Nat /\ w[x] < w[x] + 1
      OBVIOUS
    <3>2. F(w[x] + 1) \in [B -> V]
      BY <1>3, <3>1
    <3> QED
      BY <3>2
  <2> QED
    BY <2>1
<1>5. ASSUME NEW x \in B PROVE G[x] = D[x][G]
  <2> DEFINE n == w[x] + 1
  <2>1. n \in Nat /\ w[x] < n /\ w[x] \in Nat
    OBVIOUS
  <2> HIDE DEF n, G
  <2>2. F(n) \in [B -> V] /\ F(n)[x] = D[x][F(n)] /\ F(n)[x] = G[x]
    BY <1>3, <2>1
  <2>3. ASSUME NEW y \in B, w[y] < w[x] PROVE F(n)[y] = G[y]
    <3>1. w[y] \in Nat
      OBVIOUS
    <3>2. w[y] < n
      BY <2>1, <2>3, <3>1
    <3> QED
      BY <1>3, <2>1, <3>2
  <2>4. D[x][F(n)] = D[x][G]
    BY <1>4, <2>2, <2>3 DEF LighterOnly
  <2> QED
    BY <2>2, <2>4
<1> HIDE DEF G
<1> QED
  BY <1>4, <1>5 DEF Computable

-----------------------------------------------------------------------------

(***************************************************************************)
(* An expression is a finite tree: what a recursion does not do on some    *)
(* expression, it does not do on one of least size, and this is where the  *)
(* induction is made.                                                      *)
(***************************************************************************)
Below(n) == {e \in Expr : Size[e] < n}

(***************************************************************************)
(* Of the expressions that have something in common, one is smallest.      *)
(***************************************************************************)
LEMMA SmallestExpr ==
  ASSUME NEW S \in SUBSET Expr, S # {}
  PROVE  \E e \in S : \A x \in Operands(e) : x \notin S
<1> DEFINE Sizes == {Size[e] : e \in S}
<1>1. Sizes \subseteq Nat /\ Sizes # {}
  BY ExprAssumption
<1>2. PICK n \in Sizes : \A m \in Sizes : n <= m
  BY <1>1, LeastInSeq
<1>3. PICK e \in S : Size[e] = n
  OBVIOUS
<1>4. ASSUME NEW x \in Operands(e), x \in S PROVE FALSE
  <2>1. Size[x] < Size[e] /\ Size[e] \in Nat /\ Size[x] \in Nat
    BY <1>4, ExprAssumption
  <2>2. n <= Size[x]
    BY <1>2, <1>4
  <2> QED
    BY <1>3, <2>1, <2>2
<1> QED
  BY <1>4

-----------------------------------------------------------------------------

(***************************************************************************)
(* What is inferred for an expression depends on its operands alone, so    *)
(* there is one function that infer computes.                              *)
(***************************************************************************)
LEMMA InferFromLocal ==
  ASSUME NEW e \in Expr, NEW s, NEW f, NEW g, \A x \in Operands(e) : f[x] = g[x]
  PROVE  InferFrom(f, e, s) = InferFrom(g, e, s)
<1>1. CASE e.k = "BinOp"
  <2>1. Operands(e) = {e.lhs, e.rhs}
    BY <1>1 DEF Operands
  <2> QED
    BY <1>1, <2>1 DEF InferFrom
<1>2. CASE e.k \in {"Attr", "Lit", "Agg"}
  BY <1>2 DEF InferFrom
<1>3. CASE e.k \in {"UnOp", "Like", "InList", "IsNull", "Cast"}
  <2>1. Operands(e) = {e.operand}
    BY <1>3 DEF Operands
  <2> QED
    BY <1>3, <2>1 DEF InferFrom
<1> QED
  BY <1>1, <1>2, <1>3, ExprAssumption DEF KnownVariant

InfersBelow(f, n, s) == f = [e \in Below(n) |-> InferFrom(f, e, s)]

LEMMA InferUnique ==
  ASSUME NEW s, NEW n \in Nat, NEW m \in Nat, NEW f, NEW g,
         InfersBelow(f, n, s), InfersBelow(g, m, s)
  PROVE  \A e \in Below(n) \cap Below(m) : f[e] = g[e]
<1> DEFINE Bad == {e \in Below(n) \cap Below(m) : f[e] # g[e]}
<1> SUFFICES ASSUME Bad # {} PROVE FALSE
  OBVIOUS
<1>1. Bad \in SUBSET Expr
  BY DEF Below
<1> HIDE DEF Bad
<1>2. PICK e \in Bad : \A x \in Operands(e) : x \notin Bad
  BY <1>1, SmallestExpr
<1> USE DEF Bad
<1>3. ASSUME NEW x \in Operands(e) PROVE x \in Below(n) \cap Below(m)
  <2>1. /\ e \in Expr /\ Size[e] < n /\ Size[e] < m
        /\ x \in Expr /\ Size[x] < Size[e]
        /\ Size[x] \in Nat /\ Size[e] \in Nat
    BY ExprAssumption DEF Below
  <2> QED
    BY <2>1 DEF Below
<1>4. \A x \in Operands(e) : f[x] = g[x]
  BY <1>2, <1>3
<1>5. InferFrom(f, e, s) = InferFrom(g, e, s)
  BY <1>4, InferFromLocal DEF Below
<1>6. f[e] = InferFrom(f, e, s) /\ g[e] = InferFrom(g, e, s)
  BY DEF InfersBelow
<1> QED
  BY <1>5, <1>6

LEMMA InferExists ==
  ASSUME NEW s, NEW n \in Nat
  PROVE  \E f : InfersBelow(f, n, s)
<1> DEFINE Bad == {m \in Nat : ~\E f : InfersBelow(f, m, s)}
<1> SUFFICES ASSUME Bad # {} PROVE FALSE
  OBVIOUS
<1>1. PICK m \in Bad : \A j \in Bad : m <= j
  BY LeastInSeq
<1>2. CASE m = 0
  <2> DEFINE f == [e \in {} |-> InferFrom(<<>>, e, s)]
  <2>1. Below(0) = {}
    BY ExprAssumption DEF Below
  <2>2. InfersBelow(f, 0, s)
    BY <2>1 DEF InfersBelow
  <2> QED
    BY <1>2, <2>2
<1>3. CASE m # 0
  <2>1. m - 1 \in Nat /\ ~(m <= m - 1)
    BY <1>3
  <2>2. PICK f : InfersBelow(f, m - 1, s)
    BY <1>1, <2>1
  <2> DEFINE g == [e \in Below(m) |-> InferFrom(f, e, s)]
  <2>3. ASSUME NEW e \in Below(m) PROVE InferFrom(f, e, s) = InferFrom(g, e, s)
    <3>1. ASSUME NEW x \in Operands(e) PROVE f[x] = g[x]
      <4>1. x \in Below(m - 1) /\ x \in Below(m)
        <5>1. /\ e \in Expr /\ Size[e] < m
              /\ x \in Expr /\ Size[x] < Size[e]
              /\ Size[x] \in Nat /\ Size[e] \in Nat
          BY <3>1, ExprAssumption DEF Below
        <5> QED
          BY <5>1 DEF Below
      <4>2. f[x] = InferFrom(f, x, s)
        BY <2>2, <4>1 DEF InfersBelow
      <4> QED
        BY <4>1, <4>2
    <3> HIDE DEF g
    <3> QED
      BY <3>1, InferFromLocal DEF Below
  <2>4. g = [e \in Below(m) |-> InferFrom(g, e, s)]
    BY <2>3
  <2> HIDE DEF g
  <2>5. InfersBelow(g, m, s)
    BY <2>4 DEF InfersBelow
  <2> QED
    BY <2>5
<1> QED
  BY <1>2, <1>3

LEMMA InferAllDef ==
  ASSUME NEW s
  PROVE  InferAll(s) = [e \in Expr |-> InferFrom(InferAll(s), e, s)]
<1> DEFINE F(n) == CHOOSE f : InfersBelow(f, n, s)
           G == [e \in Expr |-> F(Size[e] + 1)[e]]
<1>1. ASSUME NEW n \in Nat PROVE InfersBelow(F(n), n, s)
  BY InferExists
<1>2. ASSUME NEW e \in Expr
      PROVE  G[e] = InferFrom(G, e, s)
  <2> DEFINE n == Size[e] + 1
  <2>1. n \in Nat /\ e \in Below(n)
    BY ExprAssumption DEF Below
  <2>2. InfersBelow(F(n), n, s)
    BY <1>1, <2>1
  <2>3. G[e] = F(n)[e]
    OBVIOUS
  <2>4. F(n)[e] = InferFrom(F(n), e, s)
    <3> HIDE DEF F, n
    <3> QED
      BY <2>1, <2>2 DEF InfersBelow
  <2>5. ASSUME NEW x \in Operands(e) PROVE F(n)[x] = G[x]
    <3> DEFINE m == Size[x] + 1
    <3>1. x \in Expr /\ m \in Nat /\ x \in Below(m) /\ x \in Below(n)
      BY ExprAssumption DEF Below
    <3>2. InfersBelow(F(m), m, s)
      BY <1>1, <3>1
    <3>3. G[x] = F(m)[x]
      BY <3>1
    <3> HIDE DEF F, n, m, G
    <3>4. F(n)[x] = F(m)[x]
      BY <2>1, <2>2, <3>1, <3>2, InferUnique
    <3> QED
      BY <3>3, <3>4
  <2> HIDE DEF F, n, G
  <2>6. InferFrom(F(n), e, s) = InferFrom(G, e, s)
    BY <2>5, InferFromLocal
  <2> QED
    BY <2>3, <2>4, <2>6
<1>3. G = [e \in Expr |-> InferFrom(G, e, s)]
  <2>1. G = [e \in Expr |-> G[e]]
    OBVIOUS
  <2> HIDE DEF G
  <2> QED
    BY <1>2, <2>1
<1> HIDE DEF G
<1>4. \E f : f = [e \in Expr |-> InferFrom(f, e, s)]
  BY <1>3
<1> QED
  BY <1>4 DEF InferAll

(***************************************************************************)
(* infer, one level at a time.                                             *)
(***************************************************************************)
LEMMA InferTyIs ==
  ASSUME NEW s, NEW e \in Expr
  PROVE  /\ e.k = "Attr" => InferTy(e, s) = Lookup(s, e.name)
         /\ e.k = "Lit" => InferTy(e, s) = InferValue(e.v)
         /\ e.k = "Agg" => InferTy(e, s) = AggTy(e.agg, s)
         /\ e.k = "BinOp" => InferTy(e, s) = OfTwo(e.op, InferTy(e.lhs, s), InferTy(e.rhs, s))
         /\ e.k \in {"UnOp", "Like", "InList", "IsNull", "Cast"} =>
              InferTy(e, s) = OfOne(e, InferTy(e.operand, s))
<1>1. InferTy(e, s) = InferFrom(InferAll(s), e, s)
  BY InferAllDef DEF InferTy
<1> QED
  BY <1>1 DEF InferFrom, InferTy

-----------------------------------------------------------------------------

SameBelow(e, f, g) == \A x \in Operands(e) : f[x] = g[x]

OperandsOnly(D, V) ==
  \A e \in Expr, f, g \in [Expr -> V] : SameBelow(e, f, g) => D[e][f] = D[e][g]

Solves(f, D) == \A e \in Expr : f[e] = D[e][f]

(***************************************************************************)
(* A recursion over the operands whose results stay in a set defines a     *)
(* function into that set: D says what is made of an expression and of the *)
(* results for other expressions, of which only its operands matter.       *)
(***************************************************************************)
LEMMA RecursionExists ==
  ASSUME NEW V, V # {}, NEW D \in [Expr -> [[Expr -> V] -> V]], OperandsOnly(D, V)
  PROVE  \E f \in [Expr -> V] : Solves(f, D)
<1> DEFINE w == [e \in Expr |-> Size[e]]
<1>1. w \in [Expr -> Nat] /\ \A e \in Expr : w[e] = Size[e]
  BY ExprAssumption
<1> HIDE DEF w
<1>2. ASSUME NEW e \in Expr, NEW f \in [Expr -> V], NEW g \in [Expr -> V],
             \A x \in Expr : w[x] < w[e] => f[x] = g[x]
      PROVE  D[e][f] = D[e][g]
  <2>1. \A x \in Operands(e) : x \in Expr /\ w[x] < w[e]
    BY <1>1, ExprAssumption
  <2>2. SameBelow(e, f, g)
    BY <1>2, <2>1 DEF SameBelow
  <2> QED
    BY <2>2 DEF OperandsOnly
<1>3. LighterOnly(Expr, w, V, D)
  BY <1>2 DEF LighterOnly
<1>4. Computable(Expr, V, D)
  <2>1. Recursion(Expr, w, V, D)
    BY <1>1, <1>3 DEF Recursion
  <2> QED
    BY <2>1, WeighedRecursion
<1> QED
  BY <1>4 DEF Computable, Solves

(***************************************************************************)
(* The sub-expressions of an expression, one level at a time.              *)
(***************************************************************************)
LEMMA SubExpressionsIs ==
  ASSUME NEW e \in Expr
  PROVE  /\ SubExpressions[e] = {e} \cup UNION {SubExpressions[x] : x \in Operands(e)}
         /\ SubExpressions[e] \subseteq Expr
<1> DEFINE V == SUBSET Expr
           D == [y \in Expr |-> [f \in [Expr -> V] |->
                   {y} \cup UNION {f[x] : x \in Operands(y)}]]
<1>1. D \in [Expr -> [[Expr -> V] -> V]]
  BY ExprAssumption
<1>2. \A y \in Expr, f \in [Expr -> V] : D[y][f] = {y} \cup UNION {f[x] : x \in Operands(y)}
  OBVIOUS
<1>3. V # {}
  OBVIOUS
<1> HIDE DEF V, D
<1>4. OperandsOnly(D, V)
  <2> SUFFICES ASSUME NEW y \in Expr, NEW f \in [Expr -> V], NEW g \in [Expr -> V],
                      SameBelow(y, f, g)
               PROVE  D[y][f] = D[y][g]
    BY DEF OperandsOnly
  <2>1. {f[x] : x \in Operands(y)} = {g[x] : x \in Operands(y)}
    BY DEF SameBelow
  <2> QED
    BY <1>2, <2>1, ZenonT(60)
<1>5. PICK f \in [Expr -> V] : Solves(f, D)
  BY <1>1, <1>3, <1>4, RecursionExists
<1>6. f = [y \in Expr |-> {y} \cup UNION {f[x] : x \in Operands(y)}]
  BY <1>2, <1>5 DEF Solves
<1>7. SubExpressions = [y \in Expr |-> {y} \cup UNION {SubExpressions[x] : x \in Operands(y)}]
  BY <1>6 DEF SubExpressions
<1>8. SubExpressions[e] = {e} \cup UNION {SubExpressions[x] : x \in Operands(e)}
  BY <1>7
<1> DEFINE Bad == {y \in Expr : ~(SubExpressions[y] \subseteq Expr)}
<1>9. Bad = {}
  <2> SUFFICES ASSUME Bad # {} PROVE FALSE
    OBVIOUS
  <2>1. PICK y \in Bad : \A x \in Operands(y) : x \notin Bad
    <3>1. Bad \in SUBSET Expr
      OBVIOUS
    <3> HIDE DEF Bad
    <3> QED
      BY <3>1, SmallestExpr
  <2>2. \A x \in Operands(y) : SubExpressions[x] \subseteq Expr
    BY <2>1, ExprAssumption
  <2>3. SubExpressions[y] = {y} \cup UNION {SubExpressions[x] : x \in Operands(y)}
    BY <1>7
  <2> QED
    BY <2>2, <2>3
<1> QED
  BY <1>8, <1>9

-----------------------------------------------------------------------------

(***************************************************************************)
(* The attributes an expression names and the aggregates it contains are   *)
(* its own and those of its operands.                                      *)
(***************************************************************************)
LEMMA FreeAttributesIs ==
  ASSUME NEW e \in Expr
  PROVE  /\ FreeAttributes(e) = Named(e) \cup UNION {FreeAttributes(x) : x \in Operands(e)}
         /\ \A x \in Operands(e) : x \in Expr /\ FreeAttributes(x) \subseteq FreeAttributes(e)
<1>1. SubExpressions[e] = {e} \cup UNION {SubExpressions[x] : x \in Operands(e)}
  BY SubExpressionsIs
<1>2. FreeAttributes(e) = Named(e) \cup UNION {FreeAttributes(x) : x \in Operands(e)}
  BY <1>1 DEF FreeAttributes
<1> QED
  BY <1>2, ExprAssumption

LEMMA ContainsAggregateIs ==
  ASSUME NEW e \in Expr
  PROVE  ContainsAggregate(e) <=> e.k = "Agg" \/ \E x \in Operands(e) : ContainsAggregate(x)
BY SubExpressionsIs DEF ContainsAggregate

(***************************************************************************)
(* The operands of each variant.                                           *)
(***************************************************************************)
LEMMA OperandsAre ==
  ASSUME NEW e \in Expr
  PROVE  \/ e.k \in {"Attr", "Lit", "Agg"} /\ Operands(e) = {}
         \/ e.k = "BinOp" /\ Operands(e) = {e.lhs, e.rhs}
         \/ e.k \in {"UnOp", "Like", "InList", "IsNull", "Cast"} /\ Operands(e) = {e.operand}
<1>1. CASE e.k = "BinOp"
  BY <1>1 DEF Operands
<1>2. CASE e.k \in {"Attr", "Lit", "Agg"}
  BY <1>2 DEF Operands
<1>3. CASE e.k \in {"UnOp", "Like", "InList", "IsNull", "Cast"}
  BY <1>3 DEF Operands
<1> QED
  BY <1>1, <1>2, <1>3, ExprAssumption DEF KnownVariant

-----------------------------------------------------------------------------

(***************************************************************************)
(* A typing depends on nothing but the attributes the expression names.    *)
(***************************************************************************)
LEMMA SameLookup ==
  ASSUME NEW s, NEW t, NEW n, AgreeOn({n}, s, t)
  PROVE  Lookup(s, n) = Lookup(t, n)
BY DEF AgreeOn, Lookup

LEMMA SameTyping ==
  ASSUME NEW s, NEW t, NEW e \in Expr, AgreeOn(FreeAttributes(e), s, t)
  PROVE  InferTy(e, s) = InferTy(e, t)
<1> DEFINE Bad == {y \in Expr : AgreeOn(FreeAttributes(y), s, t) /\ InferTy(y, s) # InferTy(y, t)}
<1> SUFFICES ASSUME Bad # {} PROVE FALSE
  OBVIOUS
<1>1. PICK y \in Bad : \A x \in Operands(y) : x \notin Bad
  <2>1. Bad \in SUBSET Expr
    OBVIOUS
  <2> HIDE DEF Bad
  <2> QED
    BY <2>1, SmallestExpr
<1>2. y \in Expr /\ AgreeOn(FreeAttributes(y), s, t)
  OBVIOUS
<1>3. \A x \in Operands(y) : InferTy(x, s) = InferTy(x, t)
  <2>1. \A x \in Operands(y) : x \in Expr /\ AgreeOn(FreeAttributes(x), s, t)
    BY <1>2, FreeAttributesIs DEF AgreeOn
  <2> QED
    BY <1>1, <2>1
<1>4. CASE y.k = "Attr"
  <2>1. AgreeOn({y.name}, s, t)
    BY <1>2, <1>4, FreeAttributesIs DEF Named, AgreeOn
  <2> QED
    BY <1>2, <1>4, <2>1, SameLookup, InferTyIs
<1>5. CASE y.k = "Lit"
  BY <1>2, <1>5, InferTyIs
<1>6. CASE y.k = "Agg"
  <2>1. AgreeOn(y.agg.over, s, t)
    BY <1>2, <1>6, FreeAttributesIs DEF Named, AgreeOn
  <2>2. y.agg.f # "Count" => \E n \in Name : y.agg.over = {n}
    BY <1>2, <1>6, ExprAssumption DEF KnownVariant
  <2>3. AggTy(y.agg, s) = AggTy(y.agg, t)
    BY <2>1, <2>2, SameLookup DEF AggTy, AgreeOn
  <2> QED
    BY <1>2, <1>6, <2>3, InferTyIs
<1>7. CASE y.k = "BinOp"
  BY <1>2, <1>3, <1>7, OperandsAre, InferTyIs
<1>8. CASE y.k \in {"UnOp", "Like", "InList", "IsNull", "Cast"}
  BY <1>2, <1>3, <1>8, OperandsAre, InferTyIs
<1> QED
  BY <1>2, <1>4, <1>5, <1>6, <1>7, <1>8, OperandsAre

(***************************************************************************)
(* An accepted expression names attributes of its header only, aggregates  *)
(* apart.                                                                  *)
(***************************************************************************)
LEMMA AcceptedOperands ==
  ASSUME NEW s, NEW e \in Expr, InferTy(e, s).ok
  PROVE  \A x \in Operands(e) : InferTy(x, s).ok
<1>1. CASE e.k = "BinOp"
  BY <1>1, OperandsAre, InferTyIs DEF OfTwo
<1>2. CASE e.k \in {"UnOp", "Like", "InList", "IsNull", "Cast"}
  BY <1>2, OperandsAre, InferTyIs DEF OfOne
<1> QED
  BY <1>1, <1>2, OperandsAre

LEMMA AcceptedCloses ==
  ASSUME NEW s, NEW e \in Expr, InferTy(e, s).ok, ~ContainsAggregate(e)
  PROVE  FreeAttributes(e) \subseteq NamesOf(s)
<1> DEFINE Bad == {y \in Expr : /\ InferTy(y, s).ok /\ ~ContainsAggregate(y)
                                /\ ~(FreeAttributes(y) \subseteq NamesOf(s))}
<1> SUFFICES ASSUME Bad # {} PROVE FALSE
  OBVIOUS
<1>1. PICK y \in Bad : \A x \in Operands(y) : x \notin Bad
  <2>1. Bad \in SUBSET Expr
    OBVIOUS
  <2> HIDE DEF Bad
  <2> QED
    BY <2>1, SmallestExpr
<1>2. y \in Expr /\ InferTy(y, s).ok /\ ~ContainsAggregate(y)
  OBVIOUS
<1>3. \A x \in Operands(y) : FreeAttributes(x) \subseteq NamesOf(s)
  <2>1. \A x \in Operands(y) : x \in Expr /\ InferTy(x, s).ok /\ ~ContainsAggregate(x)
    BY <1>2, AcceptedOperands, ContainsAggregateIs, ExprAssumption
  <2> QED
    BY <1>1, <2>1
<1>4. Named(y) \subseteq NamesOf(s)
  <2>1. y.k # "Agg"
    BY <1>2, ContainsAggregateIs
  <2>2. CASE y.k = "Attr"
    <3>1. Lookup(s, y.name).ok
      BY <1>2, <2>2, InferTyIs
    <3>2. Has(s, y.name)
      BY <3>1 DEF Lookup, UnknownAttribute, Err
    <3> QED
      BY <2>2, <3>2 DEF Named, Has, NamesOf, Names, ToSet
  <2> QED
    BY <2>1, <2>2 DEF Named
<1> QED
  BY <1>2, <1>3, <1>4, FreeAttributesIs

(***************************************************************************)
(* Where a type comes from: a scalar, a column, or the target of a cast.   *)
(***************************************************************************)
CastTargets == {e.to : e \in {x \in Expr : x.k = "Cast"}}

TypesOf(s) == {s[i].ty : i \in DOMAIN s}

LEMMA FoundType ==
  ASSUME NEW s, ValidHeader(s), NEW n, Lookup(s, n).ok
  PROVE  Lookup(s, n).val \in TypesOf(s)
<1>1. Has(s, n)
  BY DEF Lookup, UnknownAttribute, Err
<1>2. Lookup(s, n).val = Find(s, n).ty
  BY <1>1 DEF Lookup, TypeOf, Ok
<1> QED
  BY <1>1, <1>2, FindByName DEF Find, TypesOf

Scalars == {Ty(k) : k \in ScalarKinds}

LEMMA AggTySource ==
  ASSUME NEW s, ValidHeader(s), NEW agg, AggTy(agg, s).ok
  PROVE  /\ AggTy(agg, s).val \in Scalars \cup TypesOf(s)
         /\ ~IsRelationTy(AggTy(agg, s).val)
<1> DEFINE n == CHOOSE m \in agg.over : TRUE
           found == Lookup(s, n)
<1>1. CASE agg.f = "Count"
  BY <1>1 DEF AggTy, Ok, Ty, IsRelationTy, Scalars, ScalarKinds
<1>2. CASE agg.f # "Count"
  <2>1. found.ok /\ AggTy(agg, s) = AggTyOf(agg.f, found.val)
    BY <1>2 DEF AggTy
  <2>2. found.ok => found.val \in TypesOf(s)
    <3> HIDE DEF n
    <3> QED
      BY FoundType
  <2> HIDE DEF found
  <2>3. \A t : AggTyOf(agg.f, t).ok =>
                 /\ AggTyOf(agg.f, t).val = t \/ AggTyOf(agg.f, t).val \in Scalars
                 /\ ~IsRelationTy(AggTyOf(agg.f, t).val)
    BY <1>2 DEF AggTyOf, NotApplicable, Err, Ok, Ty, IsRelationTy, Scalars, ScalarKinds
  <2> QED
    BY <2>1, <2>2, <2>3
<1> QED
  BY <1>1, <1>2

LEMMA TypeSource ==
  ASSUME NEW s, ValidHeader(s), NEW e \in Expr, InferTy(e, s).ok
  PROVE  /\ InferTy(e, s).val \in Scalars \cup TypesOf(s) \cup CastTargets
         /\ IsRelationTy(InferTy(e, s).val) => InferTy(e, s).val \in TypesOf(s) \cup CastTargets
<1> DEFINE Sourced(t) == t \in Scalars \cup TypesOf(s) \cup CastTargets
           Bad == {y \in Expr : InferTy(y, s).ok /\ ~Sourced(InferTy(y, s).val)}
<1>1. Bad = {}
  <2> SUFFICES ASSUME Bad # {} PROVE FALSE
    OBVIOUS
  <2>1. PICK y \in Bad : \A x \in Operands(y) : x \notin Bad
    <3>1. Bad \in SUBSET Expr
      OBVIOUS
    <3> HIDE DEF Bad
    <3> QED
      BY <3>1, SmallestExpr
  <2>2. y \in Expr /\ InferTy(y, s).ok /\ ~Sourced(InferTy(y, s).val)
    OBVIOUS
  <2>3. \A x \in Operands(y) : InferTy(x, s).ok /\ Sourced(InferTy(x, s).val)
    <3>1. \A x \in Operands(y) : x \in Expr /\ InferTy(x, s).ok
      BY <2>2, AcceptedOperands, ExprAssumption
    <3> QED
      BY <2>1, <3>1
  <2> HIDE DEF Bad
  <2>4. Sourced(Ty("Bool"))
    BY DEF Scalars, ScalarKinds
  <2>5. CASE y.k = "Attr"
    BY <2>2, <2>5, InferTyIs, FoundType
  <2>6. CASE y.k = "Lit"
    <3>1. InferTy(y, s) = InferValue(y.v)
      BY <2>2, <2>6, InferTyIs
    <3> QED
      BY <2>2, <3>1 DEF InferValue, Ok, Err, Scalars
  <2>7. CASE y.k = "Agg"
    BY <2>2, <2>7, InferTyIs, AggTySource
  <2>8. CASE y.k = "BinOp"
    <3> DEFINE l == InferTy(y.lhs, s)
               r == InferTy(y.rhs, s)
    <3>1. InferTy(y, s) = InferBinOp(y.op, l.val, r.val)
      BY <2>2, <2>8, InferTyIs DEF OfTwo
    <3>2. Sourced(l.val)
      BY <2>2, <2>3, <2>8, OperandsAre
    <3> HIDE DEF l, r, Sourced
    <3>3. \A lt, rt : Sourced(lt) /\ InferBinOp(y.op, lt, rt).ok => Sourced(InferBinOp(y.op, lt, rt).val)
      BY <2>4 DEF InferBinOp, Demand, TypeMismatch, NotApplicable, Err, Ok
    <3> QED
      BY <2>2, <3>1, <3>2, <3>3
  <2>9. CASE y.k \in {"UnOp", "Like", "InList", "IsNull", "Cast"}
    <3> DEFINE t == InferTy(y.operand, s).val
    <3>1. InferTy(y, s) = InferOver(y, t)
      BY <2>2, <2>9, InferTyIs DEF OfOne
    <3>2. Sourced(t)
      BY <2>2, <2>3, <2>9, OperandsAre
    <3> HIDE DEF t
    <3>3. CASE y.k = "Cast"
      BY <2>2, <3>1, <3>3 DEF InferOver, Ok, CastTargets
    <3> HIDE DEF Sourced
    <3>4. CASE y.k = "UnOp"
      <4>1. y.op \in {"Neg", "Not"} /\ InferTy(y, s) = InferUnOp(y.op, t)
        BY <2>2, <3>1, <3>4, ExprAssumption DEF InferOver, KnownVariant
      <4> QED
        BY <2>2, <2>4, <3>2, <4>1 DEF InferUnOp, Demand, TypeMismatch, NotApplicable, Err, Ok
    <3>5. CASE y.k = "Like"
      BY <2>2, <2>4, <3>1, <3>5 DEF InferOver, TypeMismatch, Err, Ok
    <3>6. CASE y.k = "IsNull"
      BY <2>2, <2>4, <3>1, <3>6 DEF InferOver, Ok
    <3>7. CASE y.k = "InList"
      <4>1. InferTy(y, s) = InferInList(t, y.values)
        BY <3>1, <3>7 DEF InferOver
      <4>2. InferInList(t, y.values).ok => InferInList(t, y.values) = Ok(Ty("Bool"))
        BY DEF InferInList, Err, Ok
      <4> QED
        BY <2>2, <2>4, <4>1, <4>2 DEF Ok
    <3> QED
      BY <2>9, <3>3, <3>4, <3>5, <3>6, <3>7
  <2> QED
    BY <2>2, <2>5, <2>6, <2>7, <2>8, <2>9, OperandsAre
<1>2. Sourced(InferTy(e, s).val)
  BY <1>1
<1>3. \A t \in Scalars : ~IsRelationTy(t)
  BY DEF Scalars, ScalarKinds, Ty, IsRelationTy
<1> QED
  BY <1>2, <1>3

(***************************************************************************)
(* A rejection goes back to one place.                                     *)
(***************************************************************************)
LEMMA CulpritExists ==
  ASSUME NEW s, NEW e \in Expr, ~InferTy(e, s).ok
  PROVE  \E x \in SubExpressions[e] :
           InferTy(x, s) = InferTy(e, s) /\ \A y \in Operands(x) : InferTy(y, s).ok
<1> DEFINE Found(z) == \E x \in SubExpressions[z] :
             InferTy(x, s) = InferTy(z, s) /\ \A y \in Operands(x) : InferTy(y, s).ok
           Bad == {z \in Expr : ~InferTy(z, s).ok /\ ~Found(z)}
<1> SUFFICES ASSUME Bad # {} PROVE FALSE
  OBVIOUS
<1>1. PICK z \in Bad : \A x \in Operands(z) : x \notin Bad
  <2>1. Bad \in SUBSET Expr
    OBVIOUS
  <2> HIDE DEF Bad
  <2> QED
    BY <2>1, SmallestExpr
<1>2. z \in Expr /\ z \in SubExpressions[z] /\ \A x \in Operands(z) : SubExpressions[x] \subseteq SubExpressions[z]
  BY SubExpressionsIs
<1>3. PICK x \in Operands(z) : ~InferTy(x, s).ok /\ InferTy(x, s) = InferTy(z, s)
  <2>1. ~(\A x \in Operands(z) : InferTy(x, s).ok)
    BY <1>2
  <2>2. CASE z.k = "BinOp"
    BY <1>2, <2>1, <2>2, OperandsAre, InferTyIs DEF OfTwo
  <2>3. CASE z.k \in {"UnOp", "Like", "InList", "IsNull", "Cast"}
    BY <1>2, <2>1, <2>3, OperandsAre, InferTyIs DEF OfOne
  <2> QED
    BY <1>2, <2>1, <2>2, <2>3, OperandsAre
<1>4. Found(x)
  BY <1>1, <1>2, <1>3, ExprAssumption
<1> QED
  BY <1>2, <1>3, <1>4
=============================================================================
