---------------------------- MODULE HeaderLemmas ----------------------------
(***************************************************************************)
(* Lemmas about headers as lists of attributes: the names they contain,    *)
(* the functions from names to types they stand for, and what dropping,    *)
(* appending, joining and splicing do to both.                             *)
(***************************************************************************)
EXTENDS Headers, HeaderAlgebra, InferLemmas, SequenceTheorems, FiniteSetTheorems

(***************************************************************************)
(* The loop that keeps some attributes, after the first n of them.         *)
(***************************************************************************)
Keeps(f, s, names, n) ==
  f = [i \in 0..n |->
         IF i = 0 THEN <<>>
         ELSE IF s[i].name \in names THEN f[i - 1] ELSE Append(f[i - 1], s[i])]

LEMMA KeepsExists ==
  ASSUME NEW s, NEW names, NEW n \in Nat
  PROVE  \E f : Keeps(f, s, names, n)
<1> DEFINE Bad == {m \in Nat : ~\E f : Keeps(f, s, names, m)}
<1> SUFFICES ASSUME Bad # {} PROVE FALSE
  OBVIOUS
<1>1. PICK m \in Bad : \A j \in Bad : m <= j
  BY LeastInSeq
<1>2. CASE m = 0
  <2> DEFINE f == [i \in 0..0 |-> <<>>]
  <2>1. f = [i \in 0..0 |->
               IF i = 0 THEN <<>>
               ELSE IF s[i].name \in names THEN f[i - 1] ELSE Append(f[i - 1], s[i])]
    OBVIOUS
  <2> HIDE DEF f
  <2>2. Keeps(f, s, names, 0)
    BY <2>1 DEF Keeps
  <2> QED
    BY <1>2, <2>2
<1>3. CASE m # 0
  <2>1. m - 1 \in Nat /\ ~(m <= m - 1)
    BY <1>3
  <2>2. PICK f : Keeps(f, s, names, m - 1)
    BY <1>1, <2>1
  <2> DEFINE step(i) == IF s[i].name \in names THEN f[i - 1] ELSE Append(f[i - 1], s[i])
             g == [i \in 0..m |-> IF i = 0 THEN <<>> ELSE step(i)]
  <2>3. ASSUME NEW i \in 0..(m - 1) PROVE g[i] = f[i]
    <3>1. f[i] = IF i = 0 THEN <<>> ELSE step(i)
      BY <2>2 DEF Keeps
    <3>2. g[i] = IF i = 0 THEN <<>> ELSE step(i)
      OBVIOUS
    <3> HIDE DEF g, step
    <3> QED
      BY <3>1, <3>2
  <2>4. ASSUME NEW i \in 0..m
        PROVE  g[i] = IF i = 0 THEN <<>>
                      ELSE IF s[i].name \in names THEN g[i - 1] ELSE Append(g[i - 1], s[i])
    <3>1. CASE i = 0
      BY <3>1
    <3>2. CASE i # 0
      <4>1. i - 1 \in 0..(m - 1)
        BY <2>1, <3>2
      <4>2. g[i - 1] = f[i - 1] /\ g[i] = step(i)
        BY <2>3, <3>2, <4>1
      <4> HIDE DEF g
      <4> QED
        BY <3>2, <4>2
    <3> QED
      BY <3>1, <3>2
  <2>5. g = [i \in 0..m |-> g[i]]
    OBVIOUS
  <2> HIDE DEF g
  <2>6. Keeps(g, s, names, m)
    BY <2>4, <2>5 DEF Keeps
  <2> QED
    BY <2>6
<1> QED
  BY <1>2, <1>3

(***************************************************************************)
(* What is kept are the attributes whose name is not dropped, in order.    *)
(***************************************************************************)
KeptOf(s, names, n) == {s[j] : j \in {i \in 1..n : s[i].name \notin names}}

KeptSoFar(S, s, names, n, list) ==
  /\ list \in Seq(S)
  /\ ToSet(list) = KeptOf(s, names, n)
  /\ Len(list) <= n
  /\ (\E i \in 1..n : s[i].name \in names) => Len(list) < n
  /\ Distinct(Names(s)) => Distinct(Names(list))

LEMMA AppendIs ==
  ASSUME NEW S, NEW s \in Seq(S), NEW a \in S
  PROVE  /\ Append(s, a) \in Seq(S)
         /\ DOMAIN Append(s, a) = 1..(Len(s) + 1)
         /\ Len(Append(s, a)) = Len(s) + 1
         /\ \A i \in 1..Len(s) : Append(s, a)[i] = s[i]
         /\ Append(s, a)[Len(s) + 1] = a
         /\ ToSet(Append(s, a)) = ToSet(s) \cup {a}
<1>1. /\ Append(s, a) \in Seq(S)
      /\ DOMAIN Append(s, a) = 1..(Len(s) + 1)
      /\ Len(Append(s, a)) = Len(s) + 1
      /\ \A i \in 1..Len(s) : Append(s, a)[i] = s[i]
      /\ Append(s, a)[Len(s) + 1] = a
  OBVIOUS
<1>2. DOMAIN s = 1..Len(s) /\ Len(s) \in Nat
  OBVIOUS
<1>3. ToSet(Append(s, a)) = ToSet(s) \cup {a}
  <2> DEFINE t == Append(s, a)
  <2> HIDE DEF t
  <2>1. DOMAIN t = 1..(Len(s) + 1) /\ (\A i \in 1..Len(s) : t[i] = s[i]) /\ t[Len(s) + 1] = a
    BY <1>1 DEF t
  <2>2. ToSet(t) = ToSet(s) \cup {a}
    BY <1>2, <2>1 DEF ToSet
  <2> QED
    BY <2>2 DEF t
<1> QED
  BY <1>1, <1>3

LEMMA DistinctAppend ==
  ASSUME NEW S, NEW s \in Seq(S), NEW a \in S
  PROVE  Distinct(Names(Append(s, a))) <=>
           Distinct(Names(s)) /\ \A b \in ToSet(s) : b.name # a.name
<1> DEFINE t == Append(s, a)
<1>1. DOMAIN s = 1..Len(s) /\ Len(s) \in Nat
  OBVIOUS
<1>2. DOMAIN t = 1..(Len(s) + 1) /\ (\A i \in 1..Len(s) : t[i] = s[i]) /\ t[Len(s) + 1] = a
  BY AppendIs
<1> HIDE DEF t
<1>3. Distinct(Names(t)) <=> \A i, j \in 1..(Len(s) + 1) : t[i].name = t[j].name => i = j
  BY <1>2 DEF Distinct, Names
<1>4. Distinct(Names(s)) <=> \A i, j \in 1..Len(s) : s[i].name = s[j].name => i = j
  BY <1>1 DEF Distinct, Names
<1>5. (\A b \in ToSet(s) : b.name # a.name) <=> \A i \in 1..Len(s) : s[i].name # a.name
  BY <1>1 DEF ToSet
<1>6. 1..(Len(s) + 1) = 1..Len(s) \cup {Len(s) + 1} /\ Len(s) + 1 \notin 1..Len(s)
  BY <1>1
<1>7. ASSUME Distinct(Names(t)) PROVE Distinct(Names(s)) /\ \A b \in ToSet(s) : b.name # a.name
  BY <1>2, <1>3, <1>4, <1>5, <1>6, <1>7
<1>8. ASSUME Distinct(Names(s)), \A b \in ToSet(s) : b.name # a.name PROVE Distinct(Names(t))
  BY <1>2, <1>3, <1>4, <1>5, <1>6, <1>8
<1> QED
  BY <1>7, <1>8 DEF t

LEMMA KeptStep ==
  ASSUME NEW S, NEW s \in Seq(S), NEW names, NEW n \in 1..Len(s), NEW list,
         KeptSoFar(S, s, names, n - 1, list)
  PROVE  KeptSoFar(S, s, names, n, IF s[n].name \in names THEN list ELSE Append(list, s[n]))
<1>1. 1..n = 1..(n - 1) \cup {n} /\ n \notin 1..(n - 1) /\ s[n] \in S
  OBVIOUS
<1>2. CASE s[n].name \in names
  <2>1. KeptOf(s, names, n) = KeptOf(s, names, n - 1)
    BY <1>1, <1>2 DEF KeptOf
  <2>2. Len(list) < n
    BY DEF KeptSoFar
  <2> QED
    BY <1>2, <2>1, <2>2 DEF KeptSoFar
<1>3. CASE s[n].name \notin names
  <2> DEFINE more == Append(list, s[n])
  <2>1. KeptOf(s, names, n) = KeptOf(s, names, n - 1) \cup {s[n]}
    BY <1>1, <1>3 DEF KeptOf
  <2>2. more \in Seq(S) /\ Len(more) = Len(list) + 1 /\ ToSet(more) = ToSet(list) \cup {s[n]}
    BY <1>1, AppendIs DEF KeptSoFar
  <2>3. Distinct(Names(s)) => \A b \in KeptOf(s, names, n - 1) : b.name # s[n].name
    BY <1>1 DEF KeptOf, Distinct, Names
  <2>4. Distinct(Names(s)) => Distinct(Names(more))
    BY <1>1, <2>3, DistinctAppend DEF KeptSoFar
  <2>5. Len(more) <= n /\ ((\E i \in 1..n : s[i].name \in names) => Len(more) < n)
    <3>1. Len(list) \in Nat
      BY DEF KeptSoFar
    <3>2. (\E i \in 1..n : s[i].name \in names) => \E i \in 1..(n - 1) : s[i].name \in names
      BY <1>1, <1>3
    <3> QED
      BY <2>2, <3>1, <3>2 DEF KeptSoFar
  <2> HIDE DEF more
  <2>6. KeptSoFar(S, s, names, n, more)
    BY <2>1, <2>2, <2>4, <2>5 DEF KeptSoFar
  <2> QED
    BY <1>3, <2>6 DEF more
<1> QED
  BY <1>2, <1>3

LEMMA DroppingKeeps ==
  ASSUME NEW S, NEW s \in Seq(S), NEW names
  PROVE  KeptSoFar(S, s, names, Len(s), Dropping(s, names))
<1>0. Len(s) \in Nat
  OBVIOUS
<1> DEFINE kept == CHOOSE g : Keeps(g, s, names, Len(s))
           Bad == {n \in 0..Len(s) : ~KeptSoFar(S, s, names, n, kept[n])}
<1>1. \E f : Keeps(f, s, names, Len(s))
  BY <1>0, KeepsExists
<1>2. Keeps(kept, s, names, Len(s))
  BY <1>1
<1>3. Dropping(s, names) = kept[Len(s)]
  BY DEF Dropping, Keeps
<1> HIDE DEF kept
<1>4. ASSUME NEW n \in 0..Len(s)
      PROVE  kept[n] = IF n = 0 THEN <<>>
                       ELSE IF s[n].name \in names THEN kept[n - 1] ELSE Append(kept[n - 1], s[n])
  BY <1>2 DEF Keeps
<1>5. KeptSoFar(S, s, names, 0, kept[0])
  <2>1. ToSet(<<>>) = {} /\ KeptOf(s, names, 0) = {}
    BY DEF ToSet, KeptOf
  <2>2. Distinct(Names(<<>>))
    BY DEF Distinct, Names
  <2>3. kept[0] = <<>>
    BY <1>0, <1>4
  <2> QED
    BY <2>1, <2>2, <2>3 DEF KeptSoFar
<1>6. Bad = {}
  <2> SUFFICES ASSUME Bad # {} PROVE FALSE
    OBVIOUS
  <2>1. PICK n \in Bad : \A m \in Bad : n <= m
    <3>1. Bad \subseteq Nat
      OBVIOUS
    <3> HIDE DEF Bad
    <3> QED
      BY <3>1, LeastInSeq
  <2>2. n \in 1..Len(s) /\ n - 1 \in 0..Len(s) /\ ~(n <= n - 1)
    BY <1>0, <1>5
  <2>3. KeptSoFar(S, s, names, n - 1, kept[n - 1])
    BY <2>1, <2>2
  <2>4. KeptSoFar(S, s, names, n,
                  IF s[n].name \in names THEN kept[n - 1] ELSE Append(kept[n - 1], s[n]))
    BY <2>2, <2>3, KeptStep
  <2>5. KeptSoFar(S, s, names, n, kept[n])
    BY <1>4, <2>2, <2>4
  <2> QED
    BY <2>1, <2>5
<1>7. Len(s) \in 0..Len(s)
  BY <1>0
<1> QED
  BY <1>3, <1>6, <1>7

-----------------------------------------------------------------------------

(***************************************************************************)
(* A header read as a set of attributes.                                   *)
(***************************************************************************)
LEMMA NamesAre ==
  ASSUME NEW s
  PROVE  /\ NamesOf(s) = {a.name : a \in ToSet(s)}
         /\ \A n : Has(s, n) <=> n \in NamesOf(s)
BY DEF NamesOf, Names, ToSet, Has

LEMMA SubSchemasAre ==
  ASSUME NEW s
  PROVE  SubSchemas(s) = {a.ty.schema : a \in {b \in ToSet(s) : IsRelationTy(b.ty)}}
BY DEF SubSchemas, ToSet

LEMMA ListedLen ==
  ASSUME NEW s, Listed(s)
  PROVE  /\ DOMAIN s = 1..Len(s) /\ Len(s) \in Nat
         /\ \A i \in DOMAIN s : s[i] \in ToSet(s)
         /\ NamesOf(s) \subseteq Name
<1>1. s \in Seq(ToSet(s))
  BY DEF Listed
<1>2. DOMAIN s = 1..Len(s) /\ Len(s) \in Nat
  BY <1>1
<1>3. NamesOf(s) \subseteq Name
  BY NamesAre DEF Listed
<1> QED
  BY <1>2, <1>3 DEF ToSet

(***************************************************************************)
(* A list whose attributes come from listed ones, or are columns.          *)
(***************************************************************************)
LEMMA ListedIs ==
  ASSUME NEW S, NEW s \in Seq(S),
         \A a \in ToSet(s) : a.name \in Name /\ a = Column(a.name, a.ty)
  PROVE  Listed(s)
<1>1. DOMAIN s = 1..Len(s) /\ Len(s) \in Nat /\ s = [i \in 1..Len(s) |-> s[i]]
  OBVIOUS
<1>2. \A i \in 1..Len(s) : s[i] \in ToSet(s)
  BY <1>1 DEF ToSet
<1>3. s \in Seq(ToSet(s))
  BY <1>1, <1>2
<1> QED
  BY <1>3 DEF Listed

-----------------------------------------------------------------------------

(***************************************************************************)
(* A header that was checked is a function from names to types.            *)
(***************************************************************************)
LEMMA HeaderFnAt ==
  ASSUME NEW s, ValidHeader(s)
  PROVE  /\ DOMAIN HeaderFn(s) = NamesOf(s)
         /\ NamesOf(s) = {s[i].name : i \in DOMAIN s}
         /\ \A i \in DOMAIN s : HeaderFn(s)[s[i].name] = s[i].ty
<1>1. DOMAIN HeaderFn(s) = NamesOf(s)
  BY DEF HeaderFn
<1>2. NamesOf(s) = {s[i].name : i \in DOMAIN s}
  BY DEF NamesOf, Names, ToSet
<1>3. ASSUME NEW i \in DOMAIN s PROVE HeaderFn(s)[s[i].name] = s[i].ty
  <2>1. Has(s, s[i].name)
    BY DEF Has
  <2>2. Position(s, s[i].name) \in DOMAIN s /\ s[Position(s, s[i].name)].name = s[i].name
    BY <2>1, FindByName DEF Find
  <2>3. Position(s, s[i].name) = i
    BY <2>2 DEF ValidHeader, Distinct, Names
  <2>4. TypeOf(s, s[i].name) = s[i].ty
    BY <2>3 DEF TypeOf, Find
  <2> QED
    BY <1>2, <2>4 DEF HeaderFn
<1> QED
  BY <1>1, <1>2, <1>3

LEMMA HeaderFnOn ==
  ASSUME NEW s, ValidHeader(s)
  PROVE  /\ DOMAIN HeaderFn(s) = {a.name : a \in ToSet(s)}
         /\ \A a \in ToSet(s) : HeaderFn(s)[a.name] = a.ty
<1>1. DOMAIN HeaderFn(s) = {a.name : a \in ToSet(s)}
  BY HeaderFnAt, NamesAre
<1>2. \A i \in DOMAIN s : HeaderFn(s)[s[i].name] = s[i].ty
  BY HeaderFnAt
<1>3. \A a \in ToSet(s) : \E i \in DOMAIN s : a = s[i]
  BY DEF ToSet
<1> QED
  BY <1>1, <1>2, <1>3

LEMMA HeaderFnIs ==
  ASSUME NEW s, ValidHeader(s),
         NEW f, f = [n \in DOMAIN f |-> f[n]],
         DOMAIN f = {a.name : a \in ToSet(s)},
         \A a \in ToSet(s) : f[a.name] = a.ty
  PROVE  HeaderFn(s) = f
<1>1. HeaderFn(s) = [n \in DOMAIN HeaderFn(s) |-> HeaderFn(s)[n]]
  BY DEF HeaderFn
<1>2. DOMAIN HeaderFn(s) = DOMAIN f
  BY HeaderFnOn
<1>3. ASSUME NEW a \in ToSet(s) PROVE HeaderFn(s)[a.name] = f[a.name]
  <2>1. HeaderFn(s)[a.name] = a.ty
    BY HeaderFnOn
  <2>2. f[a.name] = a.ty
    OBVIOUS
  <2> QED
    BY <2>1, <2>2
<1>4. \A n \in DOMAIN f : HeaderFn(s)[n] = f[n]
  BY <1>3
<1> QED
  BY <1>1, <1>2, <1>4

LEMMA HasInDomain ==
  ASSUME NEW s, ValidHeader(s), NEW n
  PROVE  Has(s, n) <=> n \in DOMAIN HeaderFn(s)
BY HeaderFnAt DEF Has

(***************************************************************************)
(* The attribute a name finds.                                             *)
(***************************************************************************)
LEMMA FoundIs ==
  ASSUME NEW s, ValidHeader(s), NEW n, Has(s, n)
  PROVE  /\ Find(s, n) \in ToSet(s)
         /\ Find(s, n).name = n
         /\ Find(s, n).ty = HeaderFn(s)[n]
         /\ TypeOf(s, n) = HeaderFn(s)[n]
<1>1. Position(s, n) \in DOMAIN s /\ Find(s, n).name = n
  BY FindByName
<1>2. Find(s, n) \in ToSet(s)
  BY <1>1 DEF Find, ToSet
<1> QED
  BY <1>1, <1>2, HeaderFnOn DEF TypeOf

(***************************************************************************)
(* A header has as many attributes as names, so it fits when its list is   *)
(* within the limit.                                                       *)
(***************************************************************************)
LEMMA NamesCounted ==
  ASSUME NEW S, NEW s \in Seq(S), Distinct(Names(s))
  PROVE  IsFiniteSet(NamesOf(s)) /\ Cardinality(NamesOf(s)) = Len(s)
<1> DEFINE f == Names(s)
<1>1. DOMAIN s = 1..Len(s) /\ Len(s) \in Nat
  OBVIOUS
<1>2. f = [i \in 1..Len(s) |-> s[i].name]
  BY <1>1 DEF Names
<1>3. NamesOf(s) = {f[i] : i \in 1..Len(s)}
  BY <1>1 DEF NamesOf, ToSet, Names
<1>4. \A i, j \in 1..Len(s) : f[i] = f[j] => i = j
  BY <1>1 DEF Distinct, Names
<1>5. IsFiniteSet(1..Len(s)) /\ Cardinality(1..Len(s)) = Len(s)
  BY <1>1, FS_Interval, SMTT(60)
<1> HIDE DEF f
<1>6. f \in [1..Len(s) -> NamesOf(s)]
  BY <1>2, <1>3
<1>7. f \in Bijection(1..Len(s), NamesOf(s))
  BY <1>3, <1>4, <1>6 DEF Bijection, Injection, Surjection, IsInjective
<1>8. ExistsBijection(1..Len(s), NamesOf(s))
  BY <1>7 DEF ExistsBijection
<1> QED
  BY <1>5, <1>8, FS_Bijection

LEMMA ValidFits ==
  ASSUME NEW S, NEW s \in Seq(S), Distinct(Names(s))
  PROVE  ValidHeader(s) <=> Fits(HeaderFn(s))
BY NamesCounted DEF Fits, ValidHeader, HeaderFn

-----------------------------------------------------------------------------

(***************************************************************************)
(* Two lists one after the other.                                          *)
(***************************************************************************)
LEMMA ConcatIs ==
  ASSUME NEW S, NEW s \in Seq(S), NEW t \in Seq(S)
  PROVE  /\ s \o t \in Seq(S)
         /\ Len(s \o t) = Len(s) + Len(t)
         /\ ToSet(s \o t) = ToSet(s) \cup ToSet(t)
         /\ Distinct(Names(s \o t)) <=>
              /\ Distinct(Names(s))
              /\ Distinct(Names(t))
              /\ \A a \in ToSet(s), b \in ToSet(t) : a.name # b.name
<1> DEFINE u == s \o t
<1>1. /\ Len(s) \in Nat /\ Len(t) \in Nat
      /\ DOMAIN s = 1..Len(s) /\ DOMAIN t = 1..Len(t)
  OBVIOUS
<1>2. /\ u \in Seq(S)
      /\ Len(u) = Len(s) + Len(t)
      /\ DOMAIN u = 1..(Len(s) + Len(t))
      /\ \A i \in 1..(Len(s) + Len(t)) : u[i] = IF i <= Len(s) THEN s[i] ELSE t[i - Len(s)]
  OBVIOUS
<1> HIDE DEF u
<1>3. /\ \A i \in 1..Len(s) : i \in DOMAIN u /\ u[i] = s[i]
      /\ \A i \in 1..Len(t) : Len(s) + i \in DOMAIN u /\ u[Len(s) + i] = t[i]
  <2>1. ASSUME NEW i \in 1..Len(s) PROVE i \in DOMAIN u /\ u[i] = s[i]
    BY <1>1, <1>2
  <2>2. ASSUME NEW i \in 1..Len(t) PROVE Len(s) + i \in DOMAIN u /\ u[Len(s) + i] = t[i]
    <3>1. /\ Len(s) + i \in 1..(Len(s) + Len(t))
          /\ ~(Len(s) + i <= Len(s))
          /\ (Len(s) + i) - Len(s) = i
      BY <1>1
    <3> QED
      BY <1>2, <3>1
  <2> QED
    BY <2>1, <2>2
<1>4. \A i \in DOMAIN u : i \in 1..Len(s) \/ \E j \in 1..Len(t) : i = Len(s) + j
  <2> TAKE i \in DOMAIN u
  <2>1. i <= Len(s) \/ (i - Len(s) \in 1..Len(t) /\ i = Len(s) + (i - Len(s)))
    BY <1>1, <1>2
  <2> QED
    BY <1>1, <1>2, <2>1
<1>5. ToSet(u) = ToSet(s) \cup ToSet(t)
  <2>1. \A x \in ToSet(u) : x \in ToSet(s) \cup ToSet(t)
    BY <1>1, <1>3, <1>4 DEF ToSet
  <2>2. \A x \in ToSet(s) : x \in ToSet(u)
    BY <1>1, <1>3 DEF ToSet
  <2>3. \A x \in ToSet(t) : x \in ToSet(u)
    BY <1>1, <1>3 DEF ToSet
  <2> QED
    BY <2>1, <2>2, <2>3
<1>6. ASSUME Distinct(Names(u))
      PROVE  /\ Distinct(Names(s))
             /\ Distinct(Names(t))
             /\ \A a \in ToSet(s), b \in ToSet(t) : a.name # b.name
  <2>1. \A i, j \in DOMAIN u : u[i].name = u[j].name => i = j
    BY <1>6 DEF Distinct, Names
  <2>2. \A i, j \in 1..Len(s) : s[i].name = s[j].name => i = j
    BY <1>3, <2>1
  <2>3. \A i, j \in 1..Len(t) : t[i].name = t[j].name => i = j
    BY <1>1, <1>3, <2>1
  <2>4. \A i \in 1..Len(s), j \in 1..Len(t) : s[i].name # t[j].name
    BY <1>1, <1>3, <2>1
  <2> QED
    BY <1>1, <2>2, <2>3, <2>4 DEF Distinct, Names, ToSet
<1>7. ASSUME Distinct(Names(s)), Distinct(Names(t)),
             \A a \in ToSet(s), b \in ToSet(t) : a.name # b.name
      PROVE  Distinct(Names(u))
  <2>1. \A i, j \in 1..Len(s) : s[i].name = s[j].name => i = j
    BY <1>1, <1>7 DEF Distinct, Names
  <2>2. \A i, j \in 1..Len(t) : t[i].name = t[j].name => i = j
    BY <1>1, <1>7 DEF Distinct, Names
  <2>3. \A i \in 1..Len(s), j \in 1..Len(t) : s[i].name # t[j].name
    BY <1>1, <1>7 DEF ToSet
  <2>4. ASSUME NEW i \in DOMAIN u, NEW j \in DOMAIN u, u[i].name = u[j].name
        PROVE  i = j
    <3>1. CASE i \in 1..Len(s) /\ j \in 1..Len(s)
      BY <1>3, <2>1, <2>4, <3>1
    <3>2. ASSUME NEW k \in 1..Len(t), i = Len(s) + k, j \in 1..Len(s) PROVE FALSE
      BY <1>3, <2>3, <2>4, <3>2
    <3>3. ASSUME NEW k \in 1..Len(t), j = Len(s) + k, i \in 1..Len(s) PROVE FALSE
      BY <1>3, <2>3, <2>4, <3>3
    <3>4. ASSUME NEW k \in 1..Len(t), i = Len(s) + k, NEW m \in 1..Len(t), j = Len(s) + m
          PROVE  i = j
      BY <1>3, <2>2, <2>4, <3>4
    <3> QED
      BY <1>4, <3>1, <3>2, <3>3, <3>4
  <2> QED
    BY <2>4 DEF Distinct, Names
<1> QED
  BY <1>2, <1>5, <1>6, <1>7 DEF u

LEMMA ConcatDistinct ==
  ASSUME NEW S, NEW s \in Seq(S), NEW t \in Seq(S)
  PROVE  Distinct(Names(s \o t)) <=>
           Distinct(Names(s)) /\ Distinct(Names(t)) /\ NamesOf(s) \cap NamesOf(t) = {}
<1>1. NamesOf(s) \cap NamesOf(t) = {} <=> \A a \in ToSet(s), b \in ToSet(t) : a.name # b.name
  <2>1. NamesOf(s) = {a.name : a \in ToSet(s)} /\ NamesOf(t) = {a.name : a \in ToSet(t)}
    BY NamesAre
  <2>2. ASSUME NamesOf(s) \cap NamesOf(t) = {}, NEW a \in ToSet(s), NEW b \in ToSet(t)
        PROVE  a.name # b.name
    BY <2>1, <2>2
  <2>3. ASSUME NEW n \in NamesOf(s), n \in NamesOf(t)
        PROVE  \E a \in ToSet(s), b \in ToSet(t) : a.name = b.name
    BY <2>1, <2>3
  <2> QED
    BY <2>2, <2>3
<1> QED
  BY <1>1, ConcatIs

(***************************************************************************)
(* What is left after names were dropped, as a set of attributes.          *)
(***************************************************************************)
LEMMA DroppingIs ==
  ASSUME NEW S, NEW s \in Seq(S), NEW names
  PROVE  /\ Dropping(s, names) \in Seq(S)
         /\ ToSet(Dropping(s, names)) = {a \in ToSet(s) : a.name \notin names}
         /\ Len(Dropping(s, names)) <= Len(s)
         /\ NamesOf(s) \cap names # {} => Len(Dropping(s, names)) < Len(s)
         /\ Distinct(Names(s)) => Distinct(Names(Dropping(s, names)))
<1>1. DOMAIN s = 1..Len(s)
  OBVIOUS
<1>2. KeptOf(s, names, Len(s)) = {a \in ToSet(s) : a.name \notin names}
  BY <1>1 DEF KeptOf, ToSet
<1>3. NamesOf(s) \cap names # {} => \E i \in 1..Len(s) : s[i].name \in names
  BY <1>1 DEF NamesOf, Names, ToSet
<1> QED
  BY <1>2, <1>3, DroppingKeeps DEF KeptSoFar

(***************************************************************************)
(* A part of a list, and a list with another one in the place of one of    *)
(* its attributes.                                                         *)
(***************************************************************************)
LEMMA SubSeqIs ==
  ASSUME NEW S, NEW s \in Seq(S), NEW m \in 1..(Len(s) + 1), NEW n \in (m - 1)..Len(s)
  PROVE  /\ SubSeq(s, m, n) \in Seq(S)
         /\ Len(SubSeq(s, m, n)) = n - m + 1
         /\ ToSet(SubSeq(s, m, n)) = {s[i] : i \in m..n}
         /\ Distinct(Names(s)) => Distinct(Names(SubSeq(s, m, n)))
<1> DEFINE u == SubSeq(s, m, n)
<1>1. Len(s) \in Nat /\ DOMAIN s = 1..Len(s) /\ m \in Int /\ n \in Int /\ m <= n + 1
  OBVIOUS
<1>2. /\ u \in Seq(S)
      /\ Len(u) = n - m + 1
      /\ \A i \in 1..(n - m + 1) : u[i] = s[m + i - 1]
  BY <1>1, SubSeqProperties
<1> HIDE DEF u
<1>3. DOMAIN u = 1..(n - m + 1)
  BY <1>2
<1>4. \A i \in DOMAIN u : m + i - 1 \in m..n /\ u[i] = s[m + i - 1]
  BY <1>1, <1>2, <1>3
<1>5. \A j \in m..n : j - m + 1 \in DOMAIN u /\ u[j - m + 1] = s[j]
  BY <1>1, <1>2, <1>3
<1>6. ToSet(u) = {s[i] : i \in m..n}
  <2>1. \A x \in ToSet(u) : x \in {s[i] : i \in m..n}
    BY <1>4 DEF ToSet
  <2>2. \A j \in m..n : s[j] \in ToSet(u)
    BY <1>5 DEF ToSet
  <2> QED
    BY <2>1, <2>2
<1>7. ASSUME Distinct(Names(s)) PROVE Distinct(Names(u))
  <2>1. \A i, j \in DOMAIN s : s[i].name = s[j].name => i = j
    BY <1>7 DEF Distinct, Names
  <2>2. ASSUME NEW i \in DOMAIN u, NEW j \in DOMAIN u, u[i].name = u[j].name
        PROVE  i = j
    <3>1. m + i - 1 \in DOMAIN s /\ m + j - 1 \in DOMAIN s
      BY <1>1, <1>3
    <3>2. m + i - 1 = m + j - 1
      BY <1>4, <2>1, <2>2, <3>1
    <3> QED
      BY <1>1, <1>3, <3>2
  <2> QED
    BY <2>2 DEF Distinct, Names
<1> QED
  BY <1>2, <1>6, <1>7 DEF u

LEMMA SplicingIs ==
  ASSUME NEW S, NEW s \in Seq(S), NEW p \in DOMAIN s, NEW list \in Seq(S)
  PROVE  /\ Splicing(s, p, list) \in Seq(S)
         /\ ToSet(Splicing(s, p, list)) = {s[i] : i \in DOMAIN s \ {p}} \cup ToSet(list)
         /\ Distinct(Names(s)) =>
              (Distinct(Names(Splicing(s, p, list))) <=>
                 /\ Distinct(Names(list))
                 /\ \A i \in DOMAIN s \ {p}, b \in ToSet(list) : s[i].name # b.name)
<1> DEFINE a == SubSeq(s, 1, p - 1)
           b == SubSeq(s, p + 1, Len(s))
<1>1. Len(s) \in Nat /\ DOMAIN s = 1..Len(s) /\ p \in 1..Len(s)
  OBVIOUS
<1>2. /\ 1 \in 1..(Len(s) + 1) /\ p - 1 \in (1 - 1)..Len(s)
      /\ p + 1 \in 1..(Len(s) + 1) /\ Len(s) \in ((p + 1) - 1)..Len(s)
  BY <1>1
<1>3. /\ a \in Seq(S) /\ ToSet(a) = {s[i] : i \in 1..(p - 1)}
      /\ Distinct(Names(s)) => Distinct(Names(a))
  BY ONLY <1>2, s \in Seq(S), SubSeqIs DEF a
<1>4. /\ b \in Seq(S) /\ ToSet(b) = {s[i] : i \in (p + 1)..Len(s)}
      /\ Distinct(Names(s)) => Distinct(Names(b))
  <2> DEFINE m == p + 1
             n == Len(s)
  <2>1. m \in 1..(Len(s) + 1) /\ n \in (m - 1)..Len(s)
    BY <1>2
  <2> HIDE DEF m, n
  <2>2. /\ SubSeq(s, m, n) \in Seq(S)
        /\ ToSet(SubSeq(s, m, n)) = {s[i] : i \in m..n}
        /\ Distinct(Names(s)) => Distinct(Names(SubSeq(s, m, n)))
    BY ONLY <2>1, s \in Seq(S), SubSeqIs
  <2> QED
    BY ONLY <2>2 DEF b, m, n
<1>5. Splicing(s, p, list) = a \o list \o b
  BY DEF Splicing
<1> HIDE DEF a, b
<1>6. /\ a \o list \in Seq(S)
      /\ ToSet(a \o list) = ToSet(a) \cup ToSet(list)
      /\ Distinct(Names(a \o list)) <=>
              /\ Distinct(Names(a))
              /\ Distinct(Names(list))
              /\ \A x \in ToSet(a), y \in ToSet(list) : x.name # y.name
  BY ONLY <1>3, list \in Seq(S), ConcatIs, SMTT(60)
<1>7. /\ a \o list \o b \in Seq(S)
      /\ ToSet(a \o list \o b) = ToSet(a \o list) \cup ToSet(b)
      /\ Distinct(Names(a \o list \o b)) <=>
              /\ Distinct(Names(a \o list))
              /\ Distinct(Names(b))
              /\ \A x \in ToSet(a \o list), y \in ToSet(b) : x.name # y.name
  <2> DEFINE al == a \o list
  <2>1. al \in Seq(S)
    BY <1>6
  <2> HIDE DEF al
  <2>2. /\ al \o b \in Seq(S)
        /\ ToSet(al \o b) = ToSet(al) \cup ToSet(b)
        /\ Distinct(Names(al \o b)) <=>
                /\ Distinct(Names(al))
                /\ Distinct(Names(b))
                /\ \A x \in ToSet(al), y \in ToSet(b) : x.name # y.name
    BY ONLY <1>4, <2>1, ConcatIs
  <2> QED
    BY ONLY <2>2 DEF al
<1>8. DOMAIN s \ {p} = 1..(p - 1) \cup (p + 1)..Len(s)
  BY <1>1
<1>9. {s[i] : i \in DOMAIN s \ {p}} = ToSet(a) \cup ToSet(b)
  BY <1>3, <1>4, <1>8
<1>10. ASSUME Distinct(Names(s)), Distinct(Names(list)),
              \A i \in DOMAIN s \ {p}, y \in ToSet(list) : s[i].name # y.name
       PROVE  Distinct(Names(a \o list \o b))
  <2>1. \A x \in ToSet(a) \cup ToSet(b), y \in ToSet(list) : x.name # y.name
    BY <1>3, <1>4, <1>8, <1>10
  <2>2. \A x \in ToSet(a), y \in ToSet(b) : x.name # y.name
    <3>1. \A i, j \in DOMAIN s : s[i].name = s[j].name => i = j
      BY <1>10 DEF Distinct, Names
    <3>2. \A i \in 1..(p - 1), j \in (p + 1)..Len(s) : s[i].name # s[j].name
      BY <1>1, <3>1
    <3> QED
      BY <1>3, <1>4, <3>2
  <2>3. \A x \in ToSet(a \o list), y \in ToSet(b) : x.name # y.name
    BY <1>6, <2>1, <2>2
  <2> QED
    BY <1>3, <1>4, <1>6, <1>7, <1>10, <2>1, <2>3
<1>11. ASSUME Distinct(Names(a \o list \o b))
       PROVE  /\ Distinct(Names(list))
              /\ \A i \in DOMAIN s \ {p}, y \in ToSet(list) : s[i].name # y.name
  <2>1. /\ Distinct(Names(list))
        /\ \A x \in ToSet(a), y \in ToSet(list) : x.name # y.name
        /\ \A x \in ToSet(list), y \in ToSet(b) : x.name # y.name
    BY <1>6, <1>7, <1>11
  <2>2. \A i \in DOMAIN s \ {p} : s[i] \in ToSet(a) \cup ToSet(b)
    BY <1>9
  <2> QED
    BY <2>1, <2>2
<1> QED
  BY <1>5, <1>6, <1>7, <1>9, <1>10, <1>11

-----------------------------------------------------------------------------

(***************************************************************************)
(* The function that a set of attributes stands for, and the operations of *)
(* the algebra on it.                                                      *)
(***************************************************************************)
Represents(f, A) ==
  /\ f = [n \in DOMAIN f |-> f[n]]
  /\ DOMAIN f = {a.name : a \in A}
  /\ \A a \in A : f[a.name] = a.ty

LEMMA HeaderRepresents ==
  ASSUME NEW s, ValidHeader(s)
  PROVE  Represents(HeaderFn(s), ToSet(s))
<1>1. HeaderFn(s) = [n \in DOMAIN HeaderFn(s) |-> HeaderFn(s)[n]]
  BY DEF HeaderFn
<1> QED
  BY <1>1, HeaderFnOn DEF Represents

LEMMA RepresentsHeader ==
  ASSUME NEW s, ValidHeader(s), NEW f, Represents(f, ToSet(s))
  PROVE  HeaderFn(s) = f
BY HeaderFnIs DEF Represents

LEMMA PlusRepresents ==
  ASSUME NEW f, NEW A, Represents(f, A), NEW n, n \notin DOMAIN f, NEW t
  PROVE  Represents(Plus(f, n, t), A \cup {Column(n, t)})
<1> DEFINE g == Plus(f, n, t)
           c == Column(n, t)
<1>1. /\ g = [m \in DOMAIN g |-> g[m]]
      /\ DOMAIN g = DOMAIN f \cup {n}
      /\ g[n] = t
      /\ \A m \in DOMAIN f : g[m] = f[m]
  BY DEF Plus
<1>2. c.name = n /\ c.ty = t
  BY DEF Column
<1> HIDE DEF g, c
<1>3. DOMAIN g = {a.name : a \in A \cup {c}}
  BY <1>1, <1>2 DEF Represents
<1>4. \A a \in A \cup {c} : g[a.name] = a.ty
  BY <1>1, <1>2 DEF Represents
<1> QED
  BY <1>1, <1>3, <1>4 DEF Represents, g, c

LEMMA MergeRepresents ==
  ASSUME NEW f, NEW A, Represents(f, A), NEW g, NEW B, Represents(g, B)
  PROVE  Represents(Merge(f, g), A \cup {b \in B : b.name \notin DOMAIN f})
<1> DEFINE h == Merge(f, g)
           C == {b \in B : b.name \notin DOMAIN f}
<1>1. /\ h = [m \in DOMAIN h |-> h[m]]
      /\ DOMAIN h = DOMAIN f \cup DOMAIN g
      /\ \A m \in DOMAIN f : h[m] = f[m]
      /\ \A m \in DOMAIN g \ DOMAIN f : h[m] = g[m]
  BY DEF Merge
<1> HIDE DEF h
<1>2. DOMAIN f = {a.name : a \in A} /\ DOMAIN g = {b.name : b \in B}
  BY DEF Represents
<1>3. DOMAIN h = {a.name : a \in A \cup C}
  BY <1>1, <1>2
<1>4. \A a \in A \cup C : h[a.name] = a.ty
  BY <1>1, <1>2 DEF Represents
<1> QED
  BY <1>1, <1>3, <1>4 DEF Represents, h

LEMMA RestrictRepresents ==
  ASSUME NEW f, NEW A, Represents(f, A), NEW names, names \subseteq DOMAIN f
  PROVE  Represents(Restrict(f, names), {a \in A : a.name \in names})
<1> DEFINE g == Restrict(f, names)
           C == {a \in A : a.name \in names}
<1>1. /\ g = [m \in DOMAIN g |-> g[m]]
      /\ DOMAIN g = names
      /\ \A m \in names : g[m] = f[m]
  BY DEF Restrict
<1> HIDE DEF g
<1>2. DOMAIN f = {a.name : a \in A}
  BY DEF Represents
<1>3. DOMAIN g = {a.name : a \in C}
  BY <1>1, <1>2
<1>4. \A a \in C : g[a.name] = a.ty
  BY <1>1 DEF Represents
<1> QED
  BY <1>1, <1>3, <1>4 DEF Represents, g

LEMMA WithoutRepresents ==
  ASSUME NEW f, NEW A, Represents(f, A), NEW names
  PROVE  Represents(Without(f, names), {a \in A : a.name \notin names})
<1> DEFINE kept == DOMAIN f \ names
<1>1. Represents(Restrict(f, kept), {a \in A : a.name \in kept})
  BY RestrictRepresents
<1>2. {a \in A : a.name \in kept} = {a \in A : a.name \notin names}
  BY DEF Represents
<1> QED
  BY <1>1, <1>2 DEF Without

-----------------------------------------------------------------------------

LEMMA HeaderOfOk ==
  ASSUME NEW s
  PROVE  /\ HeaderOf(s).ok => ValidHeader(s) /\ HeaderOf(s).val = s
         /\ ValidHeader(s) => HeaderOf(s) = Ok(s)
<1>1. CASE SchemaTryNew(s).ok
  <2>1. HeaderOf(s) = SchemaTryNew(s)
    BY <1>1 DEF HeaderOf, Wrap
  <2> QED
    BY <2>1, SchemaTryNewOk
<1>2. CASE ~SchemaTryNew(s).ok
  <2>1. ~HeaderOf(s).ok
    BY <1>2 DEF HeaderOf, Wrap, Err
  <2>2. ~ValidHeader(s)
    BY <1>2, SchemaTryNewOk DEF Ok
  <2> QED
    BY <2>1, <2>2
<1> QED
  BY <1>1, <1>2

(***************************************************************************)
(* What Schema::try_new says of a list it refuses.                         *)
(***************************************************************************)
LEMMA HeaderOfErr ==
  ASSUME NEW s, ~ValidHeader(s)
  PROVE  /\ ~HeaderOf(s).ok
         /\ HeaderOf(s).err.k = "Schema"
         /\ HeaderOf(s).err.source.k = IF Len(s) \notin 1..MaxSchemaAttributes
                                       THEN "Cardinality" ELSE "DuplicateAttribute"
<1> DEFINE checked == Checked(s, Names(s), 1, MaxSchemaAttributes)
<1>1. /\ ~checked.ok
      /\ checked.err.k = IF Len(s) \notin 1..MaxSchemaAttributes
                         THEN "LenOutOfRange" ELSE "DuplicateKey"
  BY DEF Checked, ValidHeader, Err
<1>2. SchemaTryNew(s) = CASE checked.ok -> checked
        [] ~checked.ok /\ checked.err.k = "LenOutOfRange" ->
             Err([k |-> "Cardinality", actual |-> checked.err.actual])
        [] ~checked.ok /\ checked.err.k = "DuplicateKey" ->
             Err([k |-> "DuplicateAttribute", index |-> checked.err.index])
  BY DEF SchemaTryNew
<1> HIDE DEF checked
<1>3. /\ ~SchemaTryNew(s).ok
      /\ SchemaTryNew(s).err.k = IF Len(s) \notin 1..MaxSchemaAttributes
                                 THEN "Cardinality" ELSE "DuplicateAttribute"
  BY <1>1, <1>2 DEF Err
<1> QED
  BY <1>3 DEF HeaderOf, Wrap, Err

-----------------------------------------------------------------------------

(***************************************************************************)
(* A loop that looks up names: either all are found, or the error names    *)
(* one that is not there.                                                  *)
(***************************************************************************)
LEMMA CollectAll ==
  ASSUME NEW results, \A i \in DOMAIN results : results[i].ok
  PROVE  Collect(results) = Ok([i \in DOMAIN results |-> results[i].val])
BY DEF Collect

LEMMA CollectFails ==
  ASSUME NEW S, NEW results \in Seq(S), ~(\A i \in DOMAIN results : results[i].ok)
  PROVE  \E k \in DOMAIN results : ~results[k].ok /\ Collect(results) = results[k]
BY FirstFailure DEF Collect

Picked(s, names) == [i \in DOMAIN names |-> Find(s, names[i])]

LEMMA FindAllIs ==
  ASSUME NEW s, NEW N, NEW names \in Seq(N)
  PROVE  /\ ToSet(names) \subseteq NamesOf(s) => FindAll(s, names) = Ok(Picked(s, names))
         /\ ~(ToSet(names) \subseteq NamesOf(s)) =>
              \E n \in ToSet(names) \ NamesOf(s) : FindAll(s, names) = UnknownAttribute(n)
<1> DEFINE found == [i \in DOMAIN names |-> FindAttribute(s, names[i])]
<1>1. ToSet(names) = {names[i] : i \in DOMAIN names} /\ FindAll(s, names) = Collect(found)
  BY DEF ToSet, FindAll
<1>2. \A n : Has(s, n) <=> n \in NamesOf(s)
  BY NamesAre
<1>3. DOMAIN found = DOMAIN names
  OBVIOUS
<1>4. \A i \in DOMAIN names : found[i] = FindAttribute(s, names[i])
  OBVIOUS
<1>5. found \in Seq({FindAttribute(s, names[i]) : i \in DOMAIN names})
  OBVIOUS
<1> HIDE DEF found
<1>6. CASE ToSet(names) \subseteq NamesOf(s)
  <2>1. \A i \in DOMAIN found : found[i] = Ok(Find(s, names[i]))
    BY <1>1, <1>2, <1>3, <1>4, <1>6 DEF FindAttribute
  <2>2. \A i \in DOMAIN found : found[i].ok /\ found[i].val = Find(s, names[i])
    BY <2>1 DEF Ok
  <2>3. [i \in DOMAIN found |-> found[i].val] = Picked(s, names)
    BY <1>3, <2>2 DEF Picked
  <2> QED
    BY <1>1, <1>6, <2>2, <2>3, CollectAll
<1>7. CASE ~(ToSet(names) \subseteq NamesOf(s))
  <2>1. PICK j \in DOMAIN names : names[j] \notin NamesOf(s)
    BY <1>1, <1>7
  <2>2. ~found[j].ok
    <3>1. found[j] = FindAttribute(s, names[j]) /\ ~Has(s, names[j])
      BY <1>2, <1>4, <2>1
    <3>2. found[j] = UnknownAttribute(names[j])
      BY <3>1 DEF FindAttribute
    <3> QED
      BY <3>2 DEF UnknownAttribute, Err
  <2>3. PICK k \in DOMAIN found : ~found[k].ok /\ Collect(found) = found[k]
    BY <1>3, <1>5, <2>1, <2>2, CollectFails
  <2>4. names[k] \in ToSet(names) \ NamesOf(s) /\ found[k] = UnknownAttribute(names[k])
    BY <1>1, <1>2, <1>3, <1>4, <2>3 DEF FindAttribute, Ok
  <2> QED
    BY <1>1, <1>7, <2>3, <2>4
<1> QED
  BY <1>6, <1>7

LEMMA PickedIs ==
  ASSUME NEW s, ValidHeader(s), NEW N, NEW names \in Seq(N), ToSet(names) \subseteq NamesOf(s)
  PROVE  /\ Picked(s, names) \in Seq(ToSet(s))
         /\ Len(Picked(s, names)) = Len(names)
         /\ Names(Picked(s, names)) = names
         /\ ToSet(Picked(s, names)) = {a \in ToSet(s) : a.name \in ToSet(names)}
<1> DEFINE list == Picked(s, names)
<1>1. ToSet(names) = {names[i] : i \in DOMAIN names}
  BY DEF ToSet
<1>2. ASSUME NEW i \in DOMAIN names
      PROVE  Find(s, names[i]) \in ToSet(s) /\ Find(s, names[i]).name = names[i]
  BY <1>1, FoundIs, NamesAre, SMTT(60)
<1>3. DOMAIN list = DOMAIN names /\ \A i \in DOMAIN names : list[i] = Find(s, names[i])
  BY DEF Picked
<1>4. list = [i \in DOMAIN names |-> list[i]]
  BY DEF Picked
<1> HIDE DEF list
<1>5. DOMAIN names = 1..Len(names) /\ Len(names) \in Nat /\ names = [i \in DOMAIN names |-> names[i]]
  OBVIOUS
<1>6. list \in Seq(ToSet(s)) /\ Len(list) = Len(names)
  BY <1>2, <1>3, <1>4, <1>5
<1>7. Names(list) = names
  <2>1. \A i \in DOMAIN names : list[i].name = names[i]
    BY <1>2, <1>3
  <2>2. Names(list) = [i \in DOMAIN names |-> names[i]]
    BY <1>3, <2>1 DEF Names
  <2> QED
    BY <1>5, <2>2
<1>8. ToSet(list) = {a \in ToSet(s) : a.name \in ToSet(names)}
  <2>1. ASSUME NEW a \in ToSet(list) PROVE a \in ToSet(s) /\ a.name \in ToSet(names)
    BY <1>1, <1>2, <1>3, <2>1 DEF ToSet
  <2>2. ASSUME NEW a \in ToSet(s), a.name \in ToSet(names) PROVE a \in ToSet(list)
    <3>1. PICK i \in DOMAIN names : names[i] = a.name
      BY <1>1, <2>2
    <3>2. list[i] \in ToSet(s) /\ list[i].name = a.name
      BY <1>2, <1>3, <3>1
    <3>3. list[i] = a
      BY <3>2 DEF ToSet, ValidHeader, Distinct, Names
    <3> QED
      BY <1>3, <3>3 DEF ToSet
  <2> QED
    BY <2>1, <2>2
<1> QED
  BY <1>6, <1>7, <1>8 DEF list

-----------------------------------------------------------------------------

(***************************************************************************)
(* A header that was checked and is made of columns.                       *)
(***************************************************************************)
Built(s) == ValidHeader(s) /\ Listed(s)

LEMMA BuiltTogether ==
  ASSUME NEW s, Listed(s), NEW t, Listed(t)
  PROVE  s \in Seq(ToSet(s) \cup ToSet(t)) /\ t \in Seq(ToSet(s) \cup ToSet(t))
<1>1. s \in Seq(ToSet(s)) /\ t \in Seq(ToSet(t))
  BY DEF Listed
<1> QED
  BY <1>1

(***************************************************************************)
(* Project: the names it lists, or an unknown one among them.              *)
(***************************************************************************)
LEMMA ProjectIs ==
  ASSUME NEW s, NEW N, NEW attrs \in Seq(N)
  PROVE  /\ ToSet(attrs) \subseteq NamesOf(s) => ProjectHeader(s, attrs) = HeaderOf(Picked(s, attrs))
         /\ ~(ToSet(attrs) \subseteq NamesOf(s)) =>
              \E n \in ToSet(attrs) \ NamesOf(s) : ProjectHeader(s, attrs) = UnknownAttribute(n)
<1>1. CASE ToSet(attrs) \subseteq NamesOf(s)
  BY <1>1, FindAllIs DEF ProjectHeader, Then, Ok
<1>2. CASE ~(ToSet(attrs) \subseteq NamesOf(s))
  <2>1. PICK n \in ToSet(attrs) \ NamesOf(s) : FindAll(s, attrs) = UnknownAttribute(n)
    BY <1>2, FindAllIs
  <2>2. ~UnknownAttribute(n).ok
    BY DEF UnknownAttribute, Err
  <2>3. ProjectHeader(s, attrs) = UnknownAttribute(n)
    BY <2>1, <2>2 DEF ProjectHeader, Then
  <2> QED
    BY <1>2, <2>1, <2>3
<1> QED
  BY <1>1, <1>2

LEMMA PickedValid ==
  ASSUME NEW s, ValidHeader(s), NEW N, NEW attrs \in Seq(N), ToSet(attrs) \subseteq NamesOf(s),
         Len(attrs) \in 1..MaxSchemaAttributes, Distinct(attrs)
  PROVE  /\ ValidHeader(Picked(s, attrs))
         /\ HeaderFn(Picked(s, attrs)) = Restrict(HeaderFn(s), ToSet(attrs))
<1>1. ValidHeader(Picked(s, attrs))
  BY PickedIs DEF ValidHeader
<1>2. ToSet(attrs) \subseteq DOMAIN HeaderFn(s)
  BY DEF HeaderFn
<1>3. Represents(Restrict(HeaderFn(s), ToSet(attrs)), ToSet(Picked(s, attrs)))
  BY <1>2, HeaderRepresents, RestrictRepresents, PickedIs
<1> QED
  BY <1>1, <1>3, RepresentsHeader

-----------------------------------------------------------------------------

(***************************************************************************)
(* A list with one column more.                                            *)
(***************************************************************************)
LEMMA AppendColumn ==
  ASSUME NEW S, NEW s \in Seq(S), NEW c \in S
  PROVE  /\ Append(s, c) \in Seq(S)
         /\ Len(Append(s, c)) = Len(s) + 1
         /\ ToSet(Append(s, c)) = ToSet(s) \cup {c}
         /\ Distinct(Names(Append(s, c))) <=> Distinct(Names(s)) /\ c.name \notin NamesOf(s)
<1>1. Distinct(Names(Append(s, c))) <=>
        Distinct(Names(s)) /\ \A b \in ToSet(s) : b.name # c.name
  BY DistinctAppend
<1>2. (\A b \in ToSet(s) : b.name # c.name) <=> c.name \notin NamesOf(s)
  BY NamesAre
<1> QED
  BY <1>1, <1>2, AppendIs

(***************************************************************************)
(* Extend: a free name, and an expression that has a type on the header.   *)
(***************************************************************************)
ExtendedList(s, n, t) == Append(s, Column(n, t))

Extends(s, n, e) == ~Has(s, n) /\ ~ContainsAggregate(e) /\ InferTy(e, s).ok

LEMMA ExtendIs ==
  ASSUME NEW s, NEW n, NEW e
  PROVE  /\ Extends(s, n, e) =>
              ExtendHeader(s, n, e) = HeaderOf(ExtendedList(s, n, InferTy(e, s).val))
         /\ ~Extends(s, n, e) => ~ExtendHeader(s, n, e).ok /\ ExtendHeader(s, n, e).err.k # "Schema"
<1>1. CASE Has(s, n)
  BY <1>1 DEF Extends, ExtendHeader, AlreadyExists, Err
<1>2. CASE ~Has(s, n) /\ ContainsAggregate(e)
  BY <1>2 DEF Extends, ExtendHeader, Err
<1>3. CASE ~Has(s, n) /\ ~ContainsAggregate(e) /\ InferTy(e, s).ok
  BY <1>3 DEF Extends, ExtendHeader, ExtendedList, Wrap, Then
<1>4. CASE ~Has(s, n) /\ ~ContainsAggregate(e) /\ ~InferTy(e, s).ok
  <2>1. Wrap("Infer", InferTy(e, s)) = Err([k |-> "Infer", source |-> InferTy(e, s).err])
    BY <1>4 DEF Wrap
  <2>2. ExtendHeader(s, n, e) = Wrap("Infer", InferTy(e, s))
    BY <1>4, <2>1 DEF ExtendHeader, Then, Err
  <2> QED
    BY <1>4, <2>1, <2>2 DEF Extends, Err
<1> QED
  BY <1>1, <1>2, <1>3, <1>4

LEMMA ExtendedIs ==
  ASSUME NEW s, Built(s), NEW n, n \notin NamesOf(s), NEW t
  PROVE  /\ ExtendedList(s, n, t) \in Seq(ToSet(s) \cup {Column(n, t)})
         /\ ToSet(ExtendedList(s, n, t)) = ToSet(s) \cup {Column(n, t)}
         /\ Distinct(Names(ExtendedList(s, n, t)))
         /\ ValidHeader(ExtendedList(s, n, t)) <=> Fits(Plus(HeaderFn(s), n, t))
         /\ ValidHeader(ExtendedList(s, n, t)) =>
              HeaderFn(ExtendedList(s, n, t)) = Plus(HeaderFn(s), n, t)
<1> DEFINE more == ExtendedList(s, n, t)
           f == Plus(HeaderFn(s), n, t)
<1>1. s \in Seq(ToSet(s)) /\ ValidHeader(s) /\ Distinct(Names(s))
  BY DEF Built, Listed, ValidHeader
<1>2. /\ more \in Seq(ToSet(s) \cup {Column(n, t)})
      /\ ToSet(more) = ToSet(s) \cup {Column(n, t)}
      /\ Distinct(Names(more))
  <2> DEFINE c == Column(n, t)
  <2>0. c = Column(n, t) /\ c.name = n
    BY DEF Column
  <2>1. more = Append(s, c)
    BY DEF ExtendedList
  <2> HIDE DEF more, f, c
  <2>2. s \in Seq(ToSet(s) \cup {c}) /\ c \in ToSet(s) \cup {c}
    BY <1>1
  <2>3. /\ Append(s, c) \in Seq(ToSet(s) \cup {c})
        /\ ToSet(Append(s, c)) = ToSet(s) \cup {c}
        /\ Distinct(Names(Append(s, c)))
    BY <1>1, <2>0, <2>2, AppendColumn
  <2> QED
    BY <2>0, <2>1, <2>3
<1>3. Represents(f, ToSet(more))
  <2>1. n \notin DOMAIN HeaderFn(s)
    BY DEF HeaderFn
  <2> QED
    BY <1>1, <1>2, <2>1, HeaderRepresents, PlusRepresents
<1>4. DOMAIN f = NamesOf(more)
  BY <1>3, NamesAre DEF Represents
<1> HIDE DEF more, f
<1>5. IsFiniteSet(NamesOf(more)) /\ Cardinality(NamesOf(more)) = Len(more)
  BY <1>2, NamesCounted
<1>6. ValidHeader(more) <=> Fits(f)
  BY <1>2, <1>4, <1>5 DEF Fits, ValidHeader
<1>7. ValidHeader(more) => HeaderFn(more) = f
  BY <1>3, RepresentsHeader
<1> QED
  BY <1>2, <1>6, <1>7 DEF more, f

-----------------------------------------------------------------------------

(***************************************************************************)
(* Nest: names of the header, and a new one that is free of those left.    *)
(***************************************************************************)
NestedList(s, attrs, into) ==
  Append(Dropping(s, ToSet(attrs)), Column(into, RelationTy(Picked(s, attrs))))

LEMMA NestIs ==
  ASSUME NEW s, ValidHeader(s), NEW N, NEW attrs \in Seq(N), NEW into,
         Len(attrs) \in 1..MaxSchemaAttributes, Distinct(attrs)
  PROVE  /\ ToSet(attrs) \subseteq NamesOf(s) /\ into \notin NamesOf(s) \ ToSet(attrs) =>
              NestHeader(s, attrs, into) = HeaderOf(NestedList(s, attrs, into))
         /\ ~(ToSet(attrs) \subseteq NamesOf(s)) =>
              \E n \in ToSet(attrs) \ NamesOf(s) : NestHeader(s, attrs, into) = UnknownAttribute(n)
         /\ ToSet(attrs) \subseteq NamesOf(s) /\ into \in NamesOf(s) \ ToSet(attrs) =>
              NestHeader(s, attrs, into) = AlreadyExists(into)
<1>1. CASE ToSet(attrs) \subseteq NamesOf(s)
  <2>1. ValidHeader(Picked(s, attrs))
    BY <1>1, PickedValid
  <2>2. ProjectHeader(s, attrs) = Ok(Picked(s, attrs))
    BY <1>1, <2>1, ProjectIs, HeaderOfOk
  <2>3. NestHeader(s, attrs, into) = NestRemaining(s, attrs, into, Picked(s, attrs))
    BY <2>2 DEF NestHeader, Then, Ok
  <2>4. Has(s, into) <=> into \in NamesOf(s)
    BY NamesAre
  <2> QED
    BY <1>1, <2>3, <2>4 DEF NestRemaining, NestedList
<1>2. CASE ~(ToSet(attrs) \subseteq NamesOf(s))
  <2>1. PICK n \in ToSet(attrs) \ NamesOf(s) : ProjectHeader(s, attrs) = UnknownAttribute(n)
    BY <1>2, ProjectIs
  <2>2. ~UnknownAttribute(n).ok
    BY DEF UnknownAttribute, Err
  <2>3. NestHeader(s, attrs, into) = UnknownAttribute(n)
    BY <2>1, <2>2 DEF NestHeader, Then
  <2> QED
    BY <1>2, <2>1, <2>3
<1> QED
  BY <1>1, <1>2

LEMMA NestedListIs ==
  ASSUME NEW s, Built(s), NEW N, NEW attrs \in Seq(N), NEW into,
         Len(attrs) \in 1..MaxSchemaAttributes, Distinct(attrs),
         ToSet(attrs) \subseteq NamesOf(s), into \notin NamesOf(s) \ ToSet(attrs)
  PROVE  /\ NestedList(s, attrs, into)
              \in Seq(ToSet(s) \cup {Column(into, RelationTy(Picked(s, attrs)))})
         /\ ToSet(NestedList(s, attrs, into)) =
              {a \in ToSet(s) : a.name \notin ToSet(attrs)}
                \cup {Column(into, RelationTy(Picked(s, attrs)))}
         /\ ValidHeader(NestedList(s, attrs, into))
         /\ HeaderFn(NestedList(s, attrs, into)) =
              Plus(Without(HeaderFn(s), ToSet(attrs)), into, RelationTy(Picked(s, attrs)))
<1> DEFINE kept == Dropping(s, ToSet(attrs))
           ty == RelationTy(Picked(s, attrs))
           list == Append(kept, Column(into, ty))
           f == Without(HeaderFn(s), ToSet(attrs))
<1>1. s \in Seq(ToSet(s)) /\ ValidHeader(s) /\ Distinct(Names(s)) /\ Len(s) \in 1..MaxSchemaAttributes
  BY DEF Built, Listed, ValidHeader
<1>2. NamesOf(s) \cap ToSet(attrs) # {}
  <2>1. 1 \in DOMAIN attrs
    OBVIOUS
  <2>2. attrs[1] \in ToSet(attrs)
    BY <2>1 DEF ToSet
  <2> QED
    BY <2>2
<1>3. /\ kept \in Seq(ToSet(s))
      /\ ToSet(kept) = {a \in ToSet(s) : a.name \notin ToSet(attrs)}
      /\ Len(kept) < Len(s)
      /\ Distinct(Names(kept))
  BY <1>1, <1>2, DroppingIs
<1> HIDE DEF kept, ty
<1>4. into \notin NamesOf(kept)
  BY <1>3, NamesAre
<1>5. /\ list \in Seq(ToSet(s) \cup {Column(into, ty)})
      /\ Len(list) = Len(kept) + 1
      /\ ToSet(list) = ToSet(kept) \cup {Column(into, ty)}
      /\ Distinct(Names(list))
  <2> DEFINE c == Column(into, ty)
  <2>0. c = Column(into, ty) /\ c.name = into
    BY DEF Column
  <2>1. list = Append(kept, c)
    BY DEF ExtendedList
  <2> HIDE DEF list, f, c
  <2>2. kept \in Seq(ToSet(s) \cup {c}) /\ c \in ToSet(s) \cup {c}
    BY <1>3, <1>4
  <2>3. /\ Append(kept, c) \in Seq(ToSet(s) \cup {c})
        /\ Len(Append(kept, c)) = Len(kept) + 1
        /\ ToSet(Append(kept, c)) = ToSet(kept) \cup {c}
        /\ Distinct(Names(Append(kept, c)))
    BY <1>3, <1>4, <2>0, <2>2, AppendColumn
  <2> QED
    BY <2>0, <2>1, <2>3
<1> HIDE DEF list
<1>6. ValidHeader(list)
  <2>1. Len(kept) \in Nat /\ Len(s) \in Nat /\ MaxSchemaAttributes \in Nat
    BY <1>1, <1>3, LimitAssumption
  <2> QED
    BY <1>1, <1>3, <1>5, <2>1 DEF ValidHeader
<1>7. Represents(f, ToSet(kept))
  BY <1>1, <1>3, HeaderRepresents, WithoutRepresents
<1>8. DOMAIN f = NamesOf(kept)
  BY <1>7, NamesAre DEF Represents
<1> HIDE DEF f
<1>9. Represents(Plus(f, into, ty), ToSet(list))
  BY <1>4, <1>5, <1>7, <1>8, PlusRepresents
<1>10. HeaderFn(list) = Plus(f, into, ty)
  BY <1>6, <1>9, RepresentsHeader
<1> QED
  BY <1>3, <1>5, <1>6, <1>10 DEF list, kept, ty, f, NestedList

-----------------------------------------------------------------------------

(***************************************************************************)
(* The nested relation a path reaches.                                     *)
(***************************************************************************)
Reaches(s, path) ==
  /\ IsOneField(path)
  /\ path.steps[1].name \in NamesOf(s)
  /\ IsRelationTy(HeaderFn(s)[path.steps[1].name])

LEMMA NestedAtIs ==
  ASSUME NEW s, ValidHeader(s), NEW path
  PROVE  /\ Reaches(s, path) => NestedAt(s, path) = Ok(path.steps[1].name)
         /\ ~Reaches(s, path) =>
              /\ ~NestedAt(s, path).ok
              /\ NestedAt(s, path).err.k # "Schema"
              /\ NestedAt(s, path).err.k # "AttributeAlreadyExists"
              /\ NestedAt(s, path).err.k = "UnknownAttribute" =>
                   NestedAt(s, path).err.attribute \notin NamesOf(s)
<1> DEFINE n == path.steps[1].name
           at == NestedAt(s, path)
<1>1. Has(s, n) <=> n \in NamesOf(s)
  BY NamesAre
<1>2. CASE ~IsOneField(path)
  BY <1>2 DEF Reaches, NestedAt, Err
<1>3. CASE IsOneField(path) /\ n \notin NamesOf(s)
  <2>1. FindAttribute(s, n) = UnknownAttribute(n) /\ ~UnknownAttribute(n).ok
    BY <1>1, <1>3 DEF FindAttribute, UnknownAttribute, Err
  <2>2. at = UnknownAttribute(n)
    BY <1>3, <2>1 DEF NestedAt, Then
  <2> QED
    BY <1>3, <2>2 DEF Reaches, UnknownAttribute, Err
<1>4. CASE IsOneField(path) /\ n \in NamesOf(s)
  <2>1. Find(s, n).name = n /\ Find(s, n).ty = HeaderFn(s)[n]
    BY <1>1, <1>4, FoundIs
  <2>2. FindAttribute(s, n) = Ok(Find(s, n))
    BY <1>1, <1>4 DEF FindAttribute
  <2>3. at = IF IsRelationTy(Find(s, n).ty) THEN Ok(Find(s, n).name)
             ELSE Err([k |-> "NotARelation", attribute |-> Find(s, n).name])
    BY <1>4, <2>2 DEF NestedAt, Then, Ok
  <2>4. at = IF IsRelationTy(HeaderFn(s)[n]) THEN Ok(n)
             ELSE Err([k |-> "NotARelation", attribute |-> n])
    BY <2>1, <2>3
  <2> QED
    BY <1>4, <2>4 DEF Reaches, Ok, Err
<1> QED
  BY <1>2, <1>3, <1>4

(***************************************************************************)
(* Unnest: the nested attributes in the place of the column.               *)
(***************************************************************************)
Others(s, n) == {a \in ToSet(s) : a.name # n}

UnnestedList(s, n) == Splicing(s, Position(s, n), TypeOf(s, n).schema)

LEMMA UnnestIs ==
  ASSUME NEW s, ValidHeader(s), NEW path
  PROVE  /\ Reaches(s, path) =>
              UnnestHeader(s, path) = HeaderOf(UnnestedList(s, path.steps[1].name))
         /\ ~Reaches(s, path) => UnnestHeader(s, path) = NestedAt(s, path)
BY NestedAtIs DEF UnnestHeader, UnnestedList, Then, Ok

LEMMA UnnestedListIs ==
  ASSUME NEW s, Built(s), NEW n \in NamesOf(s), NEW sub, Built(sub),
         HeaderFn(s)[n].schema = sub
  PROVE  /\ UnnestedList(s, n) \in Seq(ToSet(s) \cup ToSet(sub))
         /\ ToSet(UnnestedList(s, n)) = Others(s, n) \cup ToSet(sub)
         /\ ValidHeader(UnnestedList(s, n)) <=>
              Concatenated(Without(HeaderFn(s), {n}), HeaderFn(sub)) # {}
         /\ ValidHeader(UnnestedList(s, n)) =>
              HeaderFn(UnnestedList(s, n)) \in Concatenated(Without(HeaderFn(s), {n}), HeaderFn(sub))
<1> DEFINE p == Position(s, n)
           list == UnnestedList(s, n)
           f == Without(HeaderFn(s), {n})
           g == HeaderFn(sub)
           S == ToSet(s) \cup ToSet(sub)
           kept == {a \in ToSet(s) : a.name # n}
<1>1. /\ ValidHeader(s) /\ ValidHeader(sub)
      /\ Distinct(Names(s)) /\ Distinct(Names(sub))
      /\ s \in Seq(S) /\ sub \in Seq(S)
  BY BuiltTogether DEF Built, ValidHeader
<1>2. p \in DOMAIN s /\ s[p].name = n /\ TypeOf(s, n).schema = sub
  BY <1>1, FindByName, FoundIs, NamesAre DEF Find
<1>3. list = Splicing(s, p, sub)
  BY <1>2 DEF UnnestedList
<1>4. {s[i] : i \in DOMAIN s \ {p}} = kept
  <2>1. \A i \in DOMAIN s : s[i].name = n => i = p
    BY <1>1, <1>2 DEF Distinct, Names
  <2> QED
    BY <1>2, <2>1 DEF ToSet
<1> HIDE DEF p
<1>5. /\ list \in Seq(S)
      /\ ToSet(list) = kept \cup ToSet(sub)
      /\ (\A i \in DOMAIN s \ {p}, b \in ToSet(sub) : s[i].name # b.name)
           <=> Distinct(Names(list))
  <2> HIDE DEF list, S
  <2> QED
    BY <1>1, <1>2, <1>3, <1>4, SplicingIs
<1>6. Represents(f, kept) /\ Represents(g, ToSet(sub))
  <2>1. {a \in ToSet(s) : a.name \notin {n}} = kept
    OBVIOUS
  <2> QED
    BY <1>1, <2>1, HeaderRepresents, WithoutRepresents
<1>7. DOMAIN f = {a.name : a \in kept} /\ DOMAIN g = {a.name : a \in ToSet(sub)}
  BY <1>6 DEF Represents
<1> HIDE DEF list, f, g
<1>8. ASSUME Disjoint(f, g)
      PROVE  /\ Distinct(Names(list))
             /\ Represents(Merge(f, g), ToSet(list))
             /\ Cardinality(DOMAIN Merge(f, g)) = Len(list)
  <2>1. \A a \in kept, b \in ToSet(sub) : a.name # b.name
    BY <1>7, <1>8 DEF Disjoint
  <2>2. \A i \in DOMAIN s \ {p}, b \in ToSet(sub) : s[i].name # b.name
    BY <1>4, <2>1
  <2>3. {b \in ToSet(sub) : b.name \notin DOMAIN f} = ToSet(sub)
    BY <1>7, <1>8 DEF Disjoint
  <2>4. Represents(Merge(f, g), ToSet(list))
    BY <1>5, <1>6, <2>3, MergeRepresents
  <2>5. DOMAIN Merge(f, g) = NamesOf(list)
    BY <2>4, NamesAre DEF Represents
  <2>6. Distinct(Names(list))
    BY <1>5, <2>2
  <2> QED
    BY <1>5, <2>4, <2>5, <2>6, NamesCounted
<1>9. ASSUME Distinct(Names(list))
      PROVE  Disjoint(f, g)
  <2>1. \A a \in kept, b \in ToSet(sub) : a.name # b.name
    BY <1>4, <1>5, <1>9
  <2>2. ASSUME NEW m \in DOMAIN f, m \in DOMAIN g PROVE FALSE
    BY <1>7, <2>1, <2>2
  <2> QED
    BY <2>2 DEF Disjoint
<1>10. Concatenated(f, g) = IF Disjoint(f, g) /\ Fits(Merge(f, g)) THEN {Merge(f, g)} ELSE {}
  BY DEF Concatenated
<1>11. Disjoint(f, g) => (Fits(Merge(f, g)) <=> ValidHeader(list))
  BY <1>8 DEF Fits, ValidHeader
<1>12. ValidHeader(list) <=> Disjoint(f, g) /\ Fits(Merge(f, g))
  BY <1>9, <1>11 DEF ValidHeader
<1>13. ValidHeader(list) => HeaderFn(list) = Merge(f, g)
  BY <1>8, <1>12, RepresentsHeader
<1> QED
  BY <1>5, <1>10, <1>12, <1>13 DEF list, f, g, Others

-----------------------------------------------------------------------------

LEMMA UnnestedSet ==
  ASSUME NEW s, Built(s), NEW n \in NamesOf(s), NEW sub, Built(sub),
         HeaderFn(s)[n].schema = sub
  PROVE  ToSet(UnnestedList(s, n)) = Others(s, n) \cup ToSet(sub)
BY UnnestedListIs

(***************************************************************************)
(* The attributes of two headers together: those of the left one, and      *)
(* those of the right one it does not have.                                *)
(***************************************************************************)
JoinedList(l, r) == l \o Dropping(r, NamesOf(l))

LEMMA JoinedListIs ==
  ASSUME NEW l, Built(l), NEW r, Built(r)
  PROVE  /\ JoinedList(l, r) \in Seq(ToSet(l) \cup ToSet(r))
         /\ ToSet(JoinedList(l, r)) = ToSet(l) \cup {b \in ToSet(r) : b.name \notin NamesOf(l)}
         /\ Distinct(Names(JoinedList(l, r)))
         /\ Shared(l, r) # {} => Len(JoinedList(l, r)) < Len(l) + Len(r)
         /\ ValidHeader(JoinedList(l, r)) <=> Fits(Merge(HeaderFn(l), HeaderFn(r)))
         /\ ValidHeader(JoinedList(l, r)) =>
              HeaderFn(JoinedList(l, r)) = Merge(HeaderFn(l), HeaderFn(r))
<1> DEFINE kept == Dropping(r, NamesOf(l))
           list == JoinedList(l, r)
           S == ToSet(l) \cup ToSet(r)
           f == Merge(HeaderFn(l), HeaderFn(r))
<1>1. /\ ValidHeader(l) /\ ValidHeader(r)
      /\ Distinct(Names(l)) /\ Distinct(Names(r))
      /\ l \in Seq(S) /\ r \in Seq(S)
      /\ Len(l) \in Nat /\ Len(r) \in Nat
  BY BuiltTogether DEF Built, ValidHeader
<1> HIDE DEF S
<1>2. /\ kept \in Seq(S)
      /\ ToSet(kept) = {b \in ToSet(r) : b.name \notin NamesOf(l)}
      /\ NamesOf(r) \cap NamesOf(l) # {} => Len(kept) < Len(r)
      /\ Distinct(Names(kept))
  BY <1>1, DroppingIs
<1>3. list = l \o kept
  BY DEF JoinedList
<1> HIDE DEF kept, list
<1>4. \A a \in ToSet(l), b \in ToSet(kept) : a.name # b.name
  <2>1. \A a \in ToSet(l) : a.name \in NamesOf(l)
    BY NamesAre
  <2> QED
    BY <1>2, <2>1
<1>5. /\ list \in Seq(S)
      /\ Len(list) = Len(l) + Len(kept)
      /\ ToSet(list) = ToSet(l) \cup ToSet(kept)
      /\ Distinct(Names(list))
  BY <1>1, <1>2, <1>3, <1>4, ConcatIs
<1>6. Shared(l, r) # {} => Len(list) < Len(l) + Len(r)
  <2>1. Len(kept) \in Nat
    BY <1>2
  <2> QED
    BY <1>1, <1>2, <1>5, <2>1 DEF Shared
<1>7. Represents(f, ToSet(list))
  <2>1. DOMAIN HeaderFn(l) = NamesOf(l)
    BY DEF HeaderFn
  <2> QED
    BY <1>1, <1>2, <1>5, <2>1, HeaderRepresents, MergeRepresents
<1>8. DOMAIN f = NamesOf(list)
  BY <1>7, NamesAre DEF Represents
<1> HIDE DEF f
<1>9. Cardinality(NamesOf(list)) = Len(list)
  BY <1>5, NamesCounted
<1>10. ValidHeader(list) <=> Fits(f)
  BY <1>5, <1>8, <1>9 DEF Fits, ValidHeader
<1>11. ValidHeader(list) => HeaderFn(list) = f
  BY <1>7, RepresentsHeader
<1> QED
  BY <1>2, <1>5, <1>6, <1>10, <1>11 DEF list, f, S

(***************************************************************************)
(* With nothing in common the two are one after the other.                 *)
(***************************************************************************)
LEMMA DisjointListIs ==
  ASSUME NEW l, Built(l), NEW r, Built(r), Shared(l, r) = {}
  PROVE  /\ l \o r \in Seq(ToSet(l) \cup ToSet(r))
         /\ ToSet(l \o r) = ToSet(l) \cup ToSet(r)
         /\ Len(l \o r) = Len(l) + Len(r)
         /\ Distinct(Names(l \o r))
         /\ ValidHeader(l \o r) <=> Fits(Merge(HeaderFn(l), HeaderFn(r)))
         /\ ValidHeader(l \o r) => HeaderFn(l \o r) = Merge(HeaderFn(l), HeaderFn(r))
<1> DEFINE list == l \o r
           S == ToSet(l) \cup ToSet(r)
           f == Merge(HeaderFn(l), HeaderFn(r))
<1>1. /\ ValidHeader(l) /\ ValidHeader(r)
      /\ Distinct(Names(l)) /\ Distinct(Names(r))
      /\ l \in Seq(S) /\ r \in Seq(S)
  BY BuiltTogether DEF Built, ValidHeader
<1> HIDE DEF S
<1>2. NamesOf(l) \cap NamesOf(r) = {}
  BY DEF Shared
<1>3. /\ list \in Seq(S)
      /\ Len(list) = Len(l) + Len(r)
      /\ ToSet(list) = ToSet(l) \cup ToSet(r)
      /\ Distinct(Names(list))
  BY <1>1, <1>2, ConcatIs, ConcatDistinct
<1>4. {b \in ToSet(r) : b.name \notin DOMAIN HeaderFn(l)} = ToSet(r)
  <2>1. \A b \in ToSet(r) : b.name \in NamesOf(r)
    BY NamesAre
  <2> QED
    BY <1>2, <2>1 DEF HeaderFn
<1> HIDE DEF list
<1>5. Represents(f, ToSet(list))
  BY <1>1, <1>3, <1>4, HeaderRepresents, MergeRepresents
<1>6. DOMAIN f = NamesOf(list)
  BY <1>5, NamesAre DEF Represents
<1> HIDE DEF f
<1>7. Cardinality(NamesOf(list)) = Len(list)
  BY <1>3, NamesCounted
<1>8. ValidHeader(list) <=> Fits(f)
  BY <1>3, <1>6, <1>7 DEF Fits, ValidHeader
<1>9. ValidHeader(list) => HeaderFn(list) = f
  BY <1>5, RepresentsHeader
<1> QED
  BY <1>3, <1>8, <1>9 DEF list, f, S

LEMMA ConcatDisjointIs ==
  ASSUME NEW l, NEW r
  PROVE  /\ Shared(l, r) = {} => ConcatDisjoint(l, r) = HeaderOf(l \o r)
         /\ Shared(l, r) # {} =>
              ~ConcatDisjoint(l, r).ok /\ ConcatDisjoint(l, r).err.k = "DuplicateAcrossOperands"
<1>1. Shared(l, r) # {} <=> \E i \in DOMAIN r : Has(l, r[i].name)
  <2>1. NamesOf(r) = {r[i].name : i \in DOMAIN r}
    BY DEF NamesOf, Names, ToSet
  <2>2. \A n : Has(l, n) <=> n \in NamesOf(l)
    BY NamesAre
  <2> QED
    BY <2>1, <2>2 DEF Shared
<1>2. CASE Shared(l, r) = {}
  BY <1>1, <1>2 DEF ConcatDisjoint
<1>3. CASE Shared(l, r) # {}
  BY <1>1, <1>3 DEF ConcatDisjoint, Err
<1> QED
  BY <1>2, <1>3

-----------------------------------------------------------------------------

(***************************************************************************)
(* The natural join: the types of the shared attributes are compared, then *)
(* the two headers are put together.                                       *)
(***************************************************************************)
Agreeing(l, r) == \A a \in ToSet(l) : Has(r, a.name) => TypeOf(r, a.name) = a.ty

LEMMA AgreeingIs ==
  ASSUME NEW l, Built(l), NEW r, Built(r)
  PROVE  Agreeing(l, r) <=>
           \A n \in DOMAIN HeaderFn(l) \cap DOMAIN HeaderFn(r) : HeaderFn(l)[n] = HeaderFn(r)[n]
<1> DEFINE f == HeaderFn(l)
           g == HeaderFn(r)
<1>1. ValidHeader(l) /\ ValidHeader(r)
  BY DEF Built
<1>2. DOMAIN f = {a.name : a \in ToSet(l)} /\ \A a \in ToSet(l) : f[a.name] = a.ty
  BY <1>1, HeaderFnOn
<1>3. \A n : Has(r, n) <=> n \in DOMAIN g
  BY <1>1, HasInDomain
<1>4. \A n : Has(r, n) => TypeOf(r, n) = g[n]
  BY <1>1, FoundIs
<1> HIDE DEF f, g
<1>5. ASSUME Agreeing(l, r), NEW n \in DOMAIN f \cap DOMAIN g PROVE f[n] = g[n]
  <2>1. PICK a \in ToSet(l) : a.name = n
    BY <1>2
  <2> QED
    BY <1>2, <1>3, <1>4, <1>5, <2>1 DEF Agreeing
<1>6. ASSUME \A n \in DOMAIN f \cap DOMAIN g : f[n] = g[n] PROVE Agreeing(l, r)
  BY <1>2, <1>3, <1>4, <1>6 DEF Agreeing
<1> QED
  BY <1>5, <1>6 DEF f, g

LEMMA AgreesAll ==
  ASSUME NEW l, Listed(l), NEW r
  PROVE  /\ Agreeing(l, r) => Collect([i \in DOMAIN l |-> Agrees(l[i], r)]) = Ok(l)
         /\ ~Agreeing(l, r) =>
              /\ Collect([i \in DOMAIN l |-> Agrees(l[i], r)]).ok = FALSE
              /\ Collect([i \in DOMAIN l |-> Agrees(l[i], r)]).err.k = "JoinTypeMismatch"
<1> DEFINE verdicts == [i \in DOMAIN l |-> Agrees(l[i], r)]
<1>1. l \in Seq(ToSet(l)) /\ l = [i \in DOMAIN l |-> l[i]] /\ ToSet(l) = {l[i] : i \in DOMAIN l}
  BY DEF Listed, ToSet
<1>2. DOMAIN verdicts = DOMAIN l /\ \A i \in DOMAIN l : verdicts[i] = Agrees(l[i], r)
  OBVIOUS
<1>3. verdicts \in Seq({Agrees(l[i], r) : i \in DOMAIN l})
  BY <1>1
<1> HIDE DEF verdicts
<1>4. CASE Agreeing(l, r)
  <2>1. \A i \in DOMAIN l : verdicts[i] = Ok(l[i])
    BY <1>1, <1>2, <1>4 DEF Agrees, Agreeing
  <2>2. \A i \in DOMAIN verdicts : verdicts[i].ok /\ verdicts[i].val = l[i]
    BY <1>2, <2>1 DEF Ok
  <2>3. [i \in DOMAIN verdicts |-> verdicts[i].val] = l
    BY <1>1, <1>2, <2>2
  <2>4. Collect(verdicts) = Ok(l)
    BY <2>2, <2>3, CollectAll
  <2> QED
    BY <1>4, <2>4 DEF verdicts
<1>5. CASE ~Agreeing(l, r)
  <2>1. PICK j \in DOMAIN l : Has(r, l[j].name) /\ TypeOf(r, l[j].name) # l[j].ty
    BY <1>1, <1>5 DEF Agreeing
  <2>2. ~verdicts[j].ok
    BY <1>2, <2>1 DEF Agrees, Err
  <2>3. PICK k \in DOMAIN verdicts : ~verdicts[k].ok /\ Collect(verdicts) = verdicts[k]
    BY <1>2, <1>3, <2>1, <2>2, CollectFails
  <2>4. verdicts[k].ok = FALSE /\ verdicts[k].err.k = "JoinTypeMismatch"
    BY <1>2, <2>3 DEF Agrees, Ok, Err
  <2> QED
    BY <1>5, <2>3, <2>4 DEF verdicts
<1> QED
  BY <1>4, <1>5

LEMMA NaturalIs ==
  ASSUME NEW l, Listed(l), NEW r, NEW kind, NEW on
  PROVE  /\ Agreeing(l, r) /\ BecomesProduct(l, r, kind, on) =>
              NaturalHeader(l, r, kind, on) = ConcatDisjoint(l, r)
         /\ Agreeing(l, r) /\ ~BecomesProduct(l, r, kind, on) =>
              NaturalHeader(l, r, kind, on) = HeaderOf(JoinedList(l, r))
         /\ ~Agreeing(l, r) =>
              /\ NaturalHeader(l, r, kind, on).ok = FALSE
              /\ NaturalHeader(l, r, kind, on).err.k = "JoinTypeMismatch"
<1> DEFINE verdict == Collect([i \in DOMAIN l |-> Agrees(l[i], r)])
<1>1. NaturalHeader(l, r, kind, on) =
        IF verdict.ok
        THEN IF BecomesProduct(l, r, kind, on) THEN ConcatDisjoint(l, r)
             ELSE HeaderOf(verdict.val \o Dropping(r, NamesOf(l)))
        ELSE verdict
  BY DEF NaturalHeader, Then
<1>2. /\ Agreeing(l, r) => verdict = Ok(l)
      /\ ~Agreeing(l, r) => verdict.ok = FALSE /\ verdict.err.k = "JoinTypeMismatch"
  BY AgreesAll
<1> HIDE DEF verdict
<1> QED
  BY <1>1, <1>2 DEF Ok, JoinedList

(***************************************************************************)
(* The other joins: once their condition is met, the product's header.     *)
(***************************************************************************)
LEMMA EquiPairIs ==
  ASSUME NEW l, NEW r, NEW pair, ~EquiPair(l, r, pair).ok
  PROVE  EquiPair(l, r, pair).err.k \in {"UnknownAttribute", "JoinTypeMismatch"}
<1> DEFINE a == FindAttribute(l, pair.left)
           b == FindAttribute(r, pair.right)
<1>1. /\ ~a.ok => a.err.k = "UnknownAttribute"
      /\ ~b.ok => b.err.k = "UnknownAttribute"
  BY DEF FindAttribute, UnknownAttribute, Ok, Err
<1>2. EquiPair(l, r, pair) =
        IF a.ok THEN IF b.ok THEN IF a.val.ty = b.val.ty THEN Ok(pair)
                                  ELSE Err([k |-> "JoinTypeMismatch", attribute |-> pair.left])
                     ELSE b
        ELSE a
  BY DEF EquiPair, Then
<1> HIDE DEF a, b
<1> QED
  BY <1>1, <1>2 DEF Ok, Err

LEMMA EquiIs ==
  ASSUME NEW l, NEW r, NEW S, NEW pairs \in Seq(S)
  PROVE  \/ EquiHeader(l, r, pairs) = ConcatDisjoint(l, r)
         \/ ~EquiHeader(l, r, pairs).ok /\ EquiHeader(l, r, pairs).err.k # "Schema"
<1> DEFINE checks == [i \in DOMAIN pairs |-> EquiPair(l, r, pairs[i])]
<1>1. EquiHeader(l, r, pairs) =
        IF Collect(checks).ok THEN ConcatDisjoint(l, r) ELSE Collect(checks)
  BY DEF EquiHeader, Then
<1>2. DOMAIN checks = DOMAIN pairs /\ \A i \in DOMAIN pairs : checks[i] = EquiPair(l, r, pairs[i])
  OBVIOUS
<1>3. checks \in Seq({EquiPair(l, r, pairs[i]) : i \in DOMAIN pairs})
  OBVIOUS
<1> HIDE DEF checks
<1>4. ASSUME ~Collect(checks).ok PROVE Collect(checks).err.k # "Schema"
  <2>1. ~(\A i \in DOMAIN checks : checks[i].ok)
    BY <1>3, <1>4, CollectOk
  <2>2. PICK k \in DOMAIN checks : ~checks[k].ok /\ Collect(checks) = checks[k]
    BY <1>3, <2>1, CollectFails
  <2> QED
    BY <1>2, <2>2, EquiPairIs
<1> QED
  BY <1>1, <1>4

-----------------------------------------------------------------------------

(***************************************************************************)
(* Rename, one attribute at a time.                                        *)
(***************************************************************************)
Renames(s, from, to) == from \in NamesOf(s) /\ (to = from \/ to \notin NamesOf(s))

RenamedList(s, from, to) ==
  [i \in DOMAIN s |-> IF s[i].name = from THEN Column(to, s[i].ty) ELSE s[i]]

LEMMA RenameIs ==
  ASSUME NEW s, NEW from, NEW to
  PROVE  /\ Renames(s, from, to) => RenameHeader(s, from, to) = HeaderOf(RenamedList(s, from, to))
         /\ from \notin NamesOf(s) => RenameHeader(s, from, to) = UnknownAttribute(from)
         /\ from \in NamesOf(s) /\ ~Renames(s, from, to) =>
              RenameHeader(s, from, to) = AlreadyExists(to) /\ to \in NamesOf(s)
<1>1. \A n : Has(s, n) <=> n \in NamesOf(s)
  BY NamesAre
<1>2. RenameHeader(s, from, to) =
        IF ~Has(s, from) THEN UnknownAttribute(from)
        ELSE IF from # to /\ Has(s, to) THEN AlreadyExists(to)
        ELSE HeaderOf(RenamedList(s, from, to))
  BY DEF RenameHeader, RenamedList
<1> QED
  BY <1>1, <1>2 DEF Renames

LEMMA RenamedListIs ==
  ASSUME NEW s, Built(s), NEW from, NEW to \in Name, Renames(s, from, to)
  PROVE  /\ Built(RenamedList(s, from, to))
         /\ \A a \in ToSet(RenamedList(s, from, to)) : \E b \in ToSet(s) : a.ty = b.ty
         /\ HeaderFn(RenamedList(s, from, to)) \in Renamed(HeaderFn(s), from, to)
<1> DEFINE list == RenamedList(s, from, to)
           g == HeaderFn(s)
           f == [m \in (DOMAIN g \ {from}) \cup {to} |-> IF m = to THEN g[from] ELSE g[m]]
<1>1. /\ ValidHeader(s) /\ DOMAIN s = 1..Len(s) /\ Len(s) \in Nat
      /\ \A i \in DOMAIN s : s[i] \in ToSet(s)
      /\ \A a \in ToSet(s) : a.name \in Name /\ a = Column(a.name, a.ty)
  BY ListedLen DEF Built, Listed
<1>2. /\ list = [i \in 1..Len(s) |-> list[i]]
      /\ DOMAIN list = DOMAIN s
      /\ \A i \in DOMAIN s : list[i] = IF s[i].name = from THEN Column(to, s[i].ty) ELSE s[i]
  BY <1>1 DEF RenamedList
<1> HIDE DEF list
<1>3. \A i \in DOMAIN s : /\ list[i].name = IF s[i].name = from THEN to ELSE s[i].name
                          /\ list[i].ty = s[i].ty
  <2>1. ASSUME NEW i \in DOMAIN s
        PROVE  /\ list[i].name = IF s[i].name = from THEN to ELSE s[i].name
               /\ list[i].ty = s[i].ty
    <3>1. CASE s[i].name = from
      <4>1. list[i] = Column(to, s[i].ty)
        BY <1>2, <3>1
      <4>2. list[i] = [name |-> to, ty |-> s[i].ty]
        BY <4>1 DEF Column
      <4>3. list[i].name = to /\ list[i].ty = s[i].ty
        BY <4>2
      <4> QED
        BY <4>3, <3>1
    <3>2. CASE s[i].name # from
      <4>1. list[i] = s[i]
        BY <1>2, <3>2
      <4> QED
        BY <4>1, <3>2
    <3> QED
      BY <3>1, <3>2
  <2> QED
    BY <2>1
<1>4. /\ DOMAIN g = {s[i].name : i \in DOMAIN s}
      /\ \A i \in DOMAIN s : g[s[i].name] = s[i].ty
      /\ DOMAIN g = NamesOf(s)
  <2>1. DOMAIN HeaderFn(s) = NamesOf(s) /\ NamesOf(s) = {s[i].name : i \in DOMAIN s}
    BY <1>1, HeaderFnAt
  <2>2. \A i \in DOMAIN s : HeaderFn(s)[s[i].name] = s[i].ty
    BY <1>1, HeaderFnAt
  <2> HIDE DEF f
  <2> QED
    BY <2>1, <2>2
<1>5. Len(list) = Len(s)
  BY <1>1, <1>2
<1>6. Distinct(Names(list))
  <2>1. \A i, j \in DOMAIN s : s[i].name = s[j].name => i = j
    BY <1>1 DEF ValidHeader, Distinct, Names
  <2>2. to = from \/ \A i \in DOMAIN s : s[i].name # to
    BY <1>4 DEF Renames
  <2>3. ASSUME NEW i \in DOMAIN s, NEW j \in DOMAIN s, list[i].name = list[j].name
        PROVE  i = j
    <3>1. CASE s[i].name = from /\ s[j].name = from
      BY <2>1, <3>1
    <3>2. CASE s[i].name = from /\ s[j].name # from
      <4>1. to = s[j].name
        BY <1>3, <2>3, <3>2
      <4> QED
        BY <2>2, <3>2, <4>1
    <3>3. CASE s[i].name # from /\ s[j].name = from
      <4>1. to = s[i].name
        BY <1>3, <2>3, <3>3
      <4> QED
        BY <2>2, <3>3, <4>1
    <3>4. CASE s[i].name # from /\ s[j].name # from
      <4>1. s[i].name = s[j].name
        BY <1>3, <2>3, <3>4
      <4> QED
        BY <2>1, <4>1
    <3> QED
      BY <3>1, <3>2, <3>3, <3>4
  <2>4. \A i, j \in DOMAIN list : list[i].name = list[j].name => i = j
    BY <1>2, <2>3
  <2> QED
    BY <2>4 DEF Distinct, Names
<1>7. ValidHeader(list)
  BY <1>1, <1>5, <1>6 DEF ValidHeader
<1>8. \A i \in DOMAIN list : list[i].name \in Name /\ list[i] = Column(list[i].name, list[i].ty)
  BY <1>1, <1>2, <1>3
<1>9. Listed(list)
  <2>1. \A a \in ToSet(list) : a.name \in Name /\ a = Column(a.name, a.ty)
    BY <1>8 DEF ToSet
  <2>2. list \in Seq({list[i] : i \in 1..Len(s)})
    BY <1>1, <1>2
  <2> QED
    BY <2>1, <2>2, ListedIs
<1>10. \A a \in ToSet(list) : \E b \in ToSet(s) : a.ty = b.ty
  BY <1>1, <1>2, <1>3 DEF ToSet
<1>11. HeaderFn(list) = f
  <2>1. /\ DOMAIN g = {s[i].name : i \in DOMAIN s}
        /\ \A i \in DOMAIN s : g[s[i].name] = s[i].ty
        /\ from \in DOMAIN g /\ (to = from \/ to \notin DOMAIN g)
    BY <1>4 DEF Renames
  <2> HIDE DEF g
  <2>2. /\ f = [n \in DOMAIN f |-> f[n]]
        /\ DOMAIN f = (DOMAIN g \ {from}) \cup {to}
        /\ f[to] = g[from]
        /\ \A n \in DOMAIN g \ {from} : f[n] = g[n]
    BY <2>1
  <2> HIDE DEF f
  <2>3. DOMAIN f = {list[i].name : i \in DOMAIN list}
    <3>1. PICK k \in DOMAIN s : s[k].name = from
      BY <2>1
    <3>2. list[k].name = to
      BY <1>3, <3>1
    <3>3. ASSUME NEW n \in DOMAIN g, n # from
          PROVE  \E i \in DOMAIN list : n = list[i].name
      <4>1. PICK i \in DOMAIN s : s[i].name = n
        BY <2>1
      <4>2. list[i].name = n
        BY <1>3, <3>3, <4>1
      <4> QED
        BY <1>2, <4>2
    <3>4. ASSUME NEW i \in DOMAIN list
          PROVE  list[i].name \in (DOMAIN g \ {from}) \cup {to}
      <4>1. s[i].name \in DOMAIN g
        BY <1>2, <2>1
      <4> QED
        BY <1>2, <1>3, <4>1
    <3>5. DOMAIN f \subseteq {list[i].name : i \in DOMAIN list}
      BY <1>2, <2>2, <3>2, <3>3
    <3>6. {list[i].name : i \in DOMAIN list} \subseteq DOMAIN f
      BY <2>2, <3>4
    <3> QED
      BY <3>5, <3>6
  <2>4. \A i \in DOMAIN list : f[list[i].name] = list[i].ty
    <3>1. ASSUME NEW i \in DOMAIN s PROVE f[list[i].name] = list[i].ty
      <4>1. CASE s[i].name = from
        <5>1. list[i].name = to /\ g[from] = s[i].ty
          BY <1>3, <2>1, <4>1
        <5> QED
          BY <1>3, <2>2, <5>1
      <4>2. CASE s[i].name # from
        <5>1. /\ list[i].name = s[i].name
              /\ s[i].name \in DOMAIN g \ {from}
          BY <1>3, <2>1, <4>2
        <5> QED
          BY <1>3, <2>1, <2>2, <5>1
      <4> QED
        BY <4>1, <4>2
    <3> QED
      BY <1>2, <3>1
  <2>5. DOMAIN f = {a.name : a \in ToSet(list)}
    BY <2>3 DEF ToSet
  <2>6. \A a \in ToSet(list) : f[a.name] = a.ty
    BY <2>4 DEF ToSet
  <2> QED
    BY <1>7, <2>2, <2>5, <2>6, HeaderFnIs
<1>12. HeaderFn(list) \in Renamed(g, from, to)
  <2>1. from \in DOMAIN g /\ (to = from \/ to \notin DOMAIN g)
    BY <1>4 DEF Renames
  <2> QED
    BY <1>11, <2>1 DEF Renamed, When
<1> QED
  BY <1>7, <1>9, <1>10, <1>12 DEF Built, list, g

(***************************************************************************)
(* A renaming and its inverse.                                             *)
(***************************************************************************)
LEMMA RenameUndone ==
  ASSUME NEW s, Built(s), NEW from, NEW to, Renames(s, from, to)
  PROVE  RenamedList(RenamedList(s, from, to), to, from) = s
<1> DEFINE list == RenamedList(s, from, to)
           back == RenamedList(list, to, from)
<1>1. /\ DOMAIN s = 1..Len(s) /\ s = [i \in DOMAIN s |-> s[i]]
      /\ \A i \in DOMAIN s : s[i] = Column(s[i].name, s[i].ty)
      /\ \A i \in DOMAIN s : s[i].name \in NamesOf(s)
  <2>1. s \in Seq(ToSet(s))
    BY DEF Built, Listed
  <2>2. \A i \in DOMAIN s : s[i] \in ToSet(s)
    BY DEF ToSet
  <2> QED
    BY <2>1, <2>2, NamesAre DEF Built, Listed
<1>2. /\ DOMAIN list = DOMAIN s
      /\ \A i \in DOMAIN s : list[i] = IF s[i].name = from THEN Column(to, s[i].ty) ELSE s[i]
  BY DEF RenamedList
<1>3. /\ back = [i \in DOMAIN list |-> back[i]]
      /\ DOMAIN back = DOMAIN list
      /\ \A i \in DOMAIN list :
           back[i] = IF list[i].name = to THEN Column(from, list[i].ty) ELSE list[i]
  BY DEF RenamedList
<1> HIDE DEF list, back
<1>4. ASSUME NEW i \in DOMAIN s PROVE back[i] = s[i]
  <2>1. CASE s[i].name = from
    <3>1. list[i].name = to /\ list[i].ty = s[i].ty
      BY <1>2, <2>1 DEF Column
    <3> QED
      BY <1>1, <1>2, <1>3, <2>1, <3>1
  <2>2. CASE s[i].name # from
    <3>1. list[i] = s[i] /\ s[i].name # to
      BY <1>1, <1>2, <2>2 DEF Renames
    <3> QED
      BY <1>2, <1>3, <3>1
  <2> QED
    BY <2>1, <2>2
<1>5. back = s
  BY <1>1, <1>2, <1>3, <1>4
<1> QED
  BY <1>5 DEF back, list

(***************************************************************************)
(* Modify, which gives one attribute another type.                         *)
(***************************************************************************)
ModifiedList(s, n, sub) ==
  [i \in DOMAIN s |-> IF s[i].name = n THEN Column(n, RelationTy(sub)) ELSE s[i]]

LEMMA ModifyIs ==
  ASSUME NEW s, ValidHeader(s), NEW path, NEW sub
  PROVE  /\ Reaches(s, path) =>
              ModifyHeader(s, path, sub) = HeaderOf(ModifiedList(s, path.steps[1].name, sub))
         /\ ~Reaches(s, path) => ModifyHeader(s, path, sub) = NestedAt(s, path)
BY NestedAtIs DEF ModifyHeader, ModifiedList, Then, Ok

LEMMA ModifiedListIs ==
  ASSUME NEW s, Built(s), NEW n \in NamesOf(s), NEW sub
  PROVE  /\ Built(ModifiedList(s, n, sub))
         /\ \A a \in ToSet(ModifiedList(s, n, sub)) : a \in ToSet(s) \/ a.ty = RelationTy(sub)
         /\ HeaderFn(ModifiedList(s, n, sub)) = [HeaderFn(s) EXCEPT ![n] = RelationTy(sub)]
<1> DEFINE list == ModifiedList(s, n, sub)
           t == RelationTy(sub)
           g == HeaderFn(s)
           f == [g EXCEPT ![n] = t]
<1>1. /\ ValidHeader(s) /\ DOMAIN s = 1..Len(s) /\ Len(s) \in Nat
      /\ \A i \in DOMAIN s : s[i] \in ToSet(s)
      /\ \A a \in ToSet(s) : a.name \in Name /\ a = Column(a.name, a.ty)
      /\ n \in Name
  BY ListedLen DEF Built, Listed
<1>2. /\ list = [i \in 1..Len(s) |-> list[i]]
      /\ DOMAIN list = DOMAIN s
      /\ \A i \in DOMAIN s : list[i] = IF s[i].name = n THEN Column(n, t) ELSE s[i]
  BY <1>1 DEF ModifiedList
<1>3. /\ g = [m \in DOMAIN g |-> g[m]]
      /\ DOMAIN g = {s[i].name : i \in DOMAIN s}
      /\ \A i \in DOMAIN s : g[s[i].name] = s[i].ty
      /\ DOMAIN g = NamesOf(s)
  <2>1. DOMAIN HeaderFn(s) = NamesOf(s) /\ NamesOf(s) = {s[i].name : i \in DOMAIN s}
    BY <1>1, HeaderFnAt
  <2>2. \A i \in DOMAIN s : HeaderFn(s)[s[i].name] = s[i].ty
    BY <1>1, HeaderFnAt
  <2>3. HeaderFn(s) = [m \in DOMAIN HeaderFn(s) |-> HeaderFn(s)[m]]
    BY DEF HeaderFn
  <2> HIDE DEF f
  <2> QED
    BY <2>1, <2>2, <2>3
<1> HIDE DEF list, t, g
<1>4. ASSUME NEW i \in DOMAIN s
      PROVE  /\ list[i].name = s[i].name
             /\ s[i].name = n => list[i] = Column(n, t) /\ list[i].ty = t
             /\ s[i].name # n => list[i] = s[i]
  <2>1. CASE s[i].name = n
    <3>1. list[i] = [name |-> n, ty |-> t] /\ list[i] = Column(n, t)
      BY <1>2, <2>1 DEF Column
    <3> QED
      BY <2>1, <3>1
  <2>2. CASE s[i].name # n
    BY <1>2, <2>2
  <2> QED
    BY <2>1, <2>2
<1>5. Len(list) = Len(s)
  BY <1>1, <1>2
<1>6. Distinct(Names(list))
  <2>1. \A i, j \in DOMAIN s : s[i].name = s[j].name => i = j
    BY <1>1 DEF ValidHeader, Distinct, Names
  <2>2. \A i, j \in DOMAIN list : list[i].name = list[j].name => i = j
    BY <1>2, <1>4, <2>1
  <2> QED
    BY <2>2 DEF Distinct, Names
<1>7. ValidHeader(list)
  BY <1>1, <1>5, <1>6 DEF ValidHeader
<1>8. Listed(list)
  <2>1. ASSUME NEW i \in DOMAIN list
        PROVE  list[i].name \in Name /\ list[i] = Column(list[i].name, list[i].ty)
    <3>1. CASE s[i].name = n
      BY <1>1, <1>2, <1>4, <3>1
    <3>2. CASE s[i].name # n
      BY <1>1, <1>2, <1>4, <3>2
    <3> QED
      BY <3>1, <3>2
  <2>2. \A a \in ToSet(list) : a.name \in Name /\ a = Column(a.name, a.ty)
    BY <2>1 DEF ToSet
  <2>3. list \in Seq({list[i] : i \in 1..Len(s)})
    BY <1>1, <1>2
  <2> QED
    BY <2>2, <2>3, ListedIs
<1>9. \A a \in ToSet(list) : a \in ToSet(s) \/ a.ty = t
  <2>1. \A i \in DOMAIN list : list[i] \in ToSet(s) \/ list[i].ty = t
    BY <1>1, <1>2, <1>4
  <2> QED
    BY <2>1 DEF ToSet
<1>10. HeaderFn(list) = f
  <2>1. f = [m \in DOMAIN f |-> f[m]] /\ DOMAIN f = DOMAIN g
    BY <1>3
  <2>2. n \in DOMAIN g /\ f[n] = t
    BY <1>3
  <2>3. \A m \in DOMAIN g : m # n => f[m] = g[m]
    BY <1>3
  <2> HIDE DEF f
  <2>4. DOMAIN f = {list[i].name : i \in DOMAIN list}
    <3>1. \A i \in DOMAIN s : list[i].name = s[i].name
      BY <1>4
    <3>2. DOMAIN list = DOMAIN s /\ DOMAIN f = {s[i].name : i \in DOMAIN s}
      BY <1>2, <1>3, <2>1
    <3> QED
      BY <3>1, <3>2
  <2>5. ASSUME NEW i \in DOMAIN list PROVE f[list[i].name] = list[i].ty
    <3>1. CASE s[i].name = n
      BY <1>2, <1>4, <2>2, <3>1
    <3>2. CASE s[i].name # n
      <4>1. list[i] = s[i] /\ s[i].name \in DOMAIN g
        BY <1>2, <1>3, <1>4, <3>2
      <4> QED
        BY <1>2, <1>3, <2>3, <3>2, <4>1, SMTT(60)
    <3> QED
      BY <3>1, <3>2
  <2>6. DOMAIN f = {a.name : a \in ToSet(list)}
    BY <2>4 DEF ToSet
  <2>7. \A a \in ToSet(list) : f[a.name] = a.ty
    BY <2>5 DEF ToSet
  <2> QED
    BY <1>7, <2>1, <2>6, <2>7, HeaderFnIs
<1> QED
  BY <1>7, <1>8, <1>9, <1>10 DEF Built, list, t, g

(***************************************************************************)
(* A summary: the keys, then a column for each aggregate.                  *)
(***************************************************************************)
Computed(s, aggs) == [i \in DOMAIN aggs |-> Column(aggs[i].name, AggTy(aggs[i].agg, s).val)]

SummaryList(s, by, aggs) == Picked(s, by) \o Computed(s, aggs)

Summarizing(s, by, aggs) ==
  /\ ToSet(by) \subseteq NamesOf(s)
  /\ \A i \in DOMAIN aggs : aggs[i].name \notin ToSet(by) /\ AggTy(aggs[i].agg, s).ok

SummaryFn(s, by, aggs, g) ==
  /\ Summarizes(HeaderFn(s), ToSet(by), g)
  /\ DOMAIN g = ToSet(by) \cup NamesOf(aggs)
  /\ \A k \in DOMAIN aggs : g[aggs[k].name] = AggTy(aggs[k].agg, s).val

LEMMA SummarizeIs ==
  ASSUME NEW s, NEW N, NEW by \in Seq(N), NEW M, NEW aggs \in Seq(M)
  PROVE  /\ Summarizing(s, by, aggs) => SummarizeHeader(s, by, aggs) = HeaderOf(SummaryList(s, by, aggs))
         /\ ~Summarizing(s, by, aggs) =>
              ~SummarizeHeader(s, by, aggs).ok /\ SummarizeHeader(s, by, aggs).err.k # "Schema"
<1> DEFINE results == [i \in DOMAIN aggs |-> AggColumn(s, by, aggs[i])]
           fine(i) == aggs[i].name \notin ToSet(by) /\ AggTy(aggs[i].agg, s).ok
<1>1. ASSUME NEW i \in DOMAIN aggs
      PROVE  /\ fine(i) => AggColumn(s, by, aggs[i]) = Ok(Column(aggs[i].name, AggTy(aggs[i].agg, s).val))
             /\ ~fine(i) => ~AggColumn(s, by, aggs[i]).ok /\ AggColumn(s, by, aggs[i]).err.k # "Schema"
  BY DEF AggColumn, AlreadyExists, Then, Wrap, Ok, Err
<1>2. CASE ~(ToSet(by) \subseteq NamesOf(s))
  <2>1. PICK n : FindAll(s, by) = UnknownAttribute(n)
    BY <1>2, FindAllIs
  <2>2. ~UnknownAttribute(n).ok /\ UnknownAttribute(n).err.k = "UnknownAttribute"
    BY DEF UnknownAttribute, Err
  <2>3. SummarizeHeader(s, by, aggs) = UnknownAttribute(n)
    BY <2>1, <2>2 DEF SummarizeHeader, Then
  <2> QED
    BY <1>2, <2>2, <2>3 DEF Summarizing
<1>3. CASE ToSet(by) \subseteq NamesOf(s) /\ \A i \in DOMAIN aggs : fine(i)
  <2>1. FindAll(s, by) = Ok(Picked(s, by))
    BY <1>3, FindAllIs
  <2>2. \A i \in DOMAIN aggs : results[i] = Ok(Column(aggs[i].name, AggTy(aggs[i].agg, s).val))
    BY <1>1, <1>3
  <2>3. \A i \in DOMAIN results : results[i].ok
    BY <2>2 DEF Ok
  <2>4. Collect(results) = Ok([i \in DOMAIN results |-> results[i].val])
    <3> HIDE DEF results
    <3> QED
      BY <2>3, CollectAll
  <2>5. [i \in DOMAIN results |-> results[i].val] = Computed(s, aggs)
    BY <2>2 DEF Computed, Ok
  <2>6. AggColumns(s, by, aggs) = Ok(Computed(s, aggs))
    BY <2>4, <2>5 DEF AggColumns
  <2>7. SummarizeHeader(s, by, aggs) = HeaderOf(Picked(s, by) \o Computed(s, aggs))
    BY <2>1, <2>6 DEF SummarizeHeader, Then, Ok
  <2> QED
    BY <1>3, <2>7 DEF Summarizing, SummaryList
<1>4. CASE ToSet(by) \subseteq NamesOf(s) /\ ~(\A i \in DOMAIN aggs : fine(i))
  <2>1. FindAll(s, by) = Ok(Picked(s, by))
    BY <1>4, FindAllIs
  <2>2. DOMAIN results = DOMAIN aggs
    BY ONLY TRUE
  <2>3. results \in Seq({results[i] : i \in 1..Len(aggs)})
    <3>1. DOMAIN aggs = 1..Len(aggs) /\ Len(aggs) \in Nat
      BY ONLY aggs \in Seq(M)
    <3>2. results = [i \in 1..Len(aggs) |-> results[i]]
      BY ONLY <3>1
    <3> HIDE DEF results
    <3> QED
      BY ONLY <3>1, <3>2
  <2>4. \A i \in DOMAIN aggs : results[i] = AggColumn(s, by, aggs[i])
    BY ONLY TRUE
  <2>5. ~(\A i \in DOMAIN results : results[i].ok)
    BY <1>1, <1>4, <2>2, <2>4
  <2>6. \E k \in DOMAIN results : ~results[k].ok /\ Collect(results) = results[k]
    <3> HIDE DEF results
    <3> QED
      BY <2>3, <2>5, CollectFails
  <2>7. PICK k \in DOMAIN aggs : ~AggColumn(s, by, aggs[k]).ok /\ Collect(results) = AggColumn(s, by, aggs[k])
    BY <2>2, <2>4, <2>6
  <2>8. AggColumn(s, by, aggs[k]).err.k # "Schema"
    BY <1>1, <2>7 DEF Ok
  <2>9. AggColumns(s, by, aggs) = AggColumn(s, by, aggs[k])
    BY <2>7 DEF AggColumns
  <2>10. SummarizeHeader(s, by, aggs) = AggColumn(s, by, aggs[k])
    BY <2>1, <2>7, <2>9 DEF SummarizeHeader, Then, Ok
  <2> QED
    BY <1>4, <2>7, <2>8, <2>10 DEF Summarizing
<1> QED
  BY <1>2, <1>3, <1>4

LEMMA SummaryListIs ==
  ASSUME NEW s, Built(s), NEW N, NEW by \in Seq(N), Distinct(by),
         NEW M, NEW aggs \in Seq(M), Distinct(Names(aggs)), Len(aggs) > 0,
         Summarizing(s, by, aggs)
  PROVE  /\ SummaryList(s, by, aggs) \in Seq(ToSet(s) \cup ToSet(Computed(s, aggs)))
         /\ \A a \in ToSet(SummaryList(s, by, aggs)) :
              a \in ToSet(s) \/ a \in ToSet(Computed(s, aggs))
         /\ Distinct(Names(SummaryList(s, by, aggs)))
         /\ ValidHeader(SummaryList(s, by, aggs)) =>
              SummaryFn(s, by, aggs, HeaderFn(SummaryList(s, by, aggs)))
<1> DEFINE keys == Picked(s, by)
           cols == Computed(s, aggs)
           list == keys \o cols
           f == HeaderFn(s)
           g == HeaderFn(list)
           S == ToSet(s) \cup ToSet(cols)
<1>1. /\ ValidHeader(s) /\ ToSet(by) \subseteq NamesOf(s)
      /\ \A i \in DOMAIN aggs : aggs[i].name \notin ToSet(by)
  BY DEF Built, Summarizing
<1>2. /\ keys \in Seq(ToSet(s))
      /\ Names(keys) = by
      /\ ToSet(keys) = {a \in ToSet(s) : a.name \in ToSet(by)}
  BY <1>1, PickedIs
<1>3. /\ DOMAIN cols = DOMAIN aggs
      /\ \A i \in DOMAIN aggs : /\ cols[i].name = aggs[i].name
                                /\ cols[i].ty = AggTy(aggs[i].agg, s).val
  BY DEF Computed, Column
<1>4. cols \in Seq(ToSet(cols))
  <2>1. cols = [i \in 1..Len(aggs) |-> cols[i]] /\ Len(aggs) \in Nat
    BY DEF Computed
  <2>2. \A i \in 1..Len(aggs) : cols[i] \in ToSet(cols)
    BY <1>3 DEF ToSet
  <2> HIDE DEF cols
  <2> QED
    BY <2>1, <2>2
<1>5. Names(cols) = Names(aggs) /\ NamesOf(cols) = NamesOf(aggs)
  <2> HIDE DEF cols
  <2>1. Names(cols) = Names(aggs)
    BY <1>3 DEF Names
  <2> QED
    BY <2>1 DEF NamesOf
<1>6. NamesOf(keys) = ToSet(by)
  BY <1>2 DEF NamesOf
<1>7. NamesOf(aggs) = {aggs[i].name : i \in DOMAIN aggs}
  BY DEF NamesOf, Names, ToSet
<1>8. NamesOf(keys) \cap NamesOf(cols) = {}
  BY <1>1, <1>5, <1>6, <1>7
<1> HIDE DEF keys, cols
<1>9. keys \in Seq(S) /\ cols \in Seq(S)
  BY <1>2, <1>4
<1>10. /\ list \in Seq(S)
       /\ ToSet(list) = ToSet(keys) \cup ToSet(cols)
       /\ Distinct(Names(list))
  <2>1. list \in Seq(S) /\ ToSet(list) = ToSet(keys) \cup ToSet(cols)
    BY <1>9, ConcatIs
  <2>2. Distinct(Names(keys)) /\ Distinct(Names(cols))
    BY <1>2, <1>5
  <2> QED
    BY <1>8, <1>9, <2>1, <2>2, ConcatDistinct
<1> HIDE DEF list
<1>11. ASSUME ValidHeader(list)
       PROVE  SummaryFn(s, by, aggs, g)
  <2>1. Represents(f, ToSet(s)) /\ Represents(g, ToSet(list))
    BY <1>1, <1>11, HeaderRepresents
  <2> HIDE DEF f, g
  <2>2. /\ DOMAIN f = {a.name : a \in ToSet(s)} /\ \A a \in ToSet(s) : f[a.name] = a.ty
        /\ DOMAIN g = {a.name : a \in ToSet(list)} /\ \A a \in ToSet(list) : g[a.name] = a.ty
        /\ DOMAIN f = NamesOf(s)
    BY <2>1, NamesAre DEF Represents
  <2>3. DOMAIN g = NamesOf(keys) \cup NamesOf(cols)
    <3>1. NamesOf(keys) = {a.name : a \in ToSet(keys)} /\ NamesOf(cols) = {a.name : a \in ToSet(cols)}
      BY NamesAre
    <3> QED
      BY <1>10, <2>2, <3>1
  <2>4. \A k \in DOMAIN aggs : g[aggs[k].name] = AggTy(aggs[k].agg, s).val
    <3>1. \A k \in DOMAIN aggs : cols[k] \in ToSet(list)
      BY <1>3, <1>10 DEF ToSet
    <3> QED
      BY <1>3, <2>2, <3>1
  <2>5. ASSUME NEW n \in ToSet(by) PROVE n \in DOMAIN f /\ n \in DOMAIN g /\ g[n] = f[n]
    <3>1. n \in DOMAIN f
      BY <1>1, <2>2
    <3>2. PICK a \in ToSet(s) : a.name = n
      BY <2>2, <3>1
    <3>3. a \in ToSet(list)
      BY <1>2, <1>10, <3>2
    <3> QED
      BY <2>2, <3>1, <3>2, <3>3
  <2>6. Restrict(g, ToSet(by)) = Restrict(f, ToSet(by))
    BY <2>5 DEF Restrict
  <2>7. aggs[1].name \in DOMAIN g \ ToSet(by)
    <3>1. 1 \in DOMAIN aggs
      OBVIOUS
    <3> QED
      BY <1>1, <1>5, <1>7, <2>3, <3>1
  <2>8. Summarizes(f, ToSet(by), g)
    BY <2>5, <2>6, <2>7 DEF Summarizes
  <2> QED
    BY <1>5, <1>6, <2>3, <2>4, <2>8 DEF SummaryFn, f
<1> QED
  BY <1>2, <1>10, <1>11 DEF list, keys, cols, f, g, SummaryList

(***************************************************************************)
(* A header is one of the ways of listing its unordered view.              *)
(***************************************************************************)
LEMMA OrdersOf ==
  ASSUME NEW s, Built(s)
  PROVE  s \in Orders(HeaderFn(s))
<1> DEFINE names == Names(s)
           f == HeaderFn(s)
<1>1. /\ ValidHeader(s) /\ s \in Seq(ToSet(s)) /\ Distinct(names)
      /\ DOMAIN s = 1..Len(s) /\ Len(s) \in Nat /\ s = [i \in DOMAIN s |-> s[i]]
      /\ \A i \in DOMAIN s : s[i] = Column(s[i].name, s[i].ty)
  <2>1. s \in Seq(ToSet(s)) /\ \A i \in DOMAIN s : s[i] \in ToSet(s)
    BY ListedLen DEF Built, Listed
  <2> QED
    BY <2>1 DEF Built, Listed, ValidHeader
<1>2. /\ DOMAIN f = NamesOf(s)
      /\ \A i \in DOMAIN s : f[s[i].name] = s[i].ty
  BY <1>1, HeaderFnAt
<1>3. DOMAIN f = NamesOf(s) /\ Cardinality(DOMAIN f) = Len(s)
  BY <1>1, <1>2, NamesCounted
<1>4. /\ DOMAIN names = 1..Len(s)
      /\ names = [i \in 1..Len(s) |-> names[i]]
      /\ \A i \in 1..Len(s) : names[i] = s[i].name /\ names[i] \in NamesOf(s)
      /\ \A i, j \in 1..Len(s) : i # j => names[i] # names[j]
  BY <1>1 DEF Names, NamesOf, ToSet, Distinct
<1> HIDE DEF names, f
<1>5. names \in SetToSeqs(DOMAIN f)
  <2>1. names \in [1..Len(s) -> DOMAIN f]
    BY <1>3, <1>4
  <2> QED
    BY <1>3, <1>4, <2>1 DEF SetToSeqs
<1>6. s = [i \in DOMAIN names |-> Column(names[i], f[names[i]])]
  BY <1>1, <1>2, <1>4
<1> QED
  BY <1>5, <1>6 DEF Orders, f

(***************************************************************************)
(* A list of attributes picked from a header is listed as it is, and a     *)
(* nest followed by an unnest of the new column gives them back.           *)
(***************************************************************************)
LEMMA PickedBuilt ==
  ASSUME NEW s, Built(s), NEW N, NEW attrs \in Seq(N), ToSet(attrs) \subseteq NamesOf(s),
         Len(attrs) \in 1..MaxSchemaAttributes, Distinct(attrs)
  PROVE  Built(Picked(s, attrs)) /\ ToSet(Picked(s, attrs)) \subseteq ToSet(s)
<1>1. /\ Picked(s, attrs) \in Seq(ToSet(s))
      /\ ToSet(Picked(s, attrs)) \subseteq ToSet(s)
  BY PickedIs DEF Built
<1>2. ValidHeader(Picked(s, attrs))
  BY PickedValid DEF Built
<1>3. \A a \in ToSet(Picked(s, attrs)) : a.name \in Name /\ a = Column(a.name, a.ty)
  BY <1>1 DEF Built, Listed
<1>4. Listed(Picked(s, attrs))
  BY <1>1, <1>3, ListedIs
<1> QED
  BY <1>1, <1>2, <1>4 DEF Built

LEMMA NestUndone ==
  ASSUME NEW s, Built(s), NEW N, NEW attrs \in Seq(N), NEW into \in Name,
         Len(attrs) \in 1..MaxSchemaAttributes, Distinct(attrs),
         ToSet(attrs) \subseteq NamesOf(s), into \notin NamesOf(s) \ ToSet(attrs)
  PROVE  /\ Built(NestedList(s, attrs, into))
         /\ into \in NamesOf(NestedList(s, attrs, into))
         /\ ToSet(UnnestedList(NestedList(s, attrs, into), into)) = ToSet(s)
<1> DEFINE nested == NestedList(s, attrs, into)
           sub == Picked(s, attrs)
           c == Column(into, RelationTy(sub))
<1>1. c.name = into /\ c.ty.schema = sub /\ c = Column(c.name, c.ty)
  BY DEF Column, RelationTy
<1>2. /\ nested \in Seq(ToSet(s) \cup {c})
      /\ ToSet(nested) = {a \in ToSet(s) : a.name \notin ToSet(attrs)} \cup {c}
      /\ ValidHeader(nested)
  BY NestedListIs
<1>3. Built(sub) /\ ToSet(sub) = {a \in ToSet(s) : a.name \in ToSet(attrs)}
  BY PickedBuilt, PickedIs DEF Built
<1> HIDE DEF nested, sub, c
<1>4. Built(nested)
  <2>1. \A a \in ToSet(nested) : a.name \in Name /\ a = Column(a.name, a.ty)
    BY <1>1, <1>2 DEF Built, Listed
  <2> QED
    BY <1>2, <2>1, ListedIs DEF Built
<1>5. into \in NamesOf(nested) /\ HeaderFn(nested)[into].schema = sub
  <2>1. c \in ToSet(nested)
    BY <1>2
  <2>2. HeaderFn(nested)[c.name] = c.ty
    BY <1>2, <2>1, HeaderFnOn
  <2> QED
    BY <1>1, <2>1, <2>2, NamesAre
<1>6. ToSet(UnnestedList(nested, into)) = Others(nested, into) \cup ToSet(sub)
  BY ONLY <1>3, <1>4, <1>5, UnnestedSet
<1>7. ASSUME NEW a \in ToSet(s), a.name \notin ToSet(attrs) PROVE a.name # into
  BY <1>7, NamesAre
<1>8. ToSet(UnnestedList(nested, into)) = ToSet(s)
  BY <1>1, <1>2, <1>3, <1>6, <1>7 DEF Others
<1> QED
  BY <1>4, <1>5, <1>8 DEF nested

-----------------------------------------------------------------------------

(***************************************************************************)
(* Dropping goes through a list one attribute after the other: the loop    *)
(* over a list that begins with another one begins with its loop.          *)
(***************************************************************************)
LEMMA KeepsAgree ==
  ASSUME NEW s, NEW t, NEW names, NEW n \in Nat, NEW m \in Nat, n <= m,
         \A i \in 1..n : t[i] = s[i],
         NEW f, Keeps(f, s, names, n), NEW g, Keeps(g, t, names, m)
  PROVE  f[n] = g[n]
<1> DEFINE Bad == {k \in 0..n : f[k] # g[k]}
<1> SUFFICES ASSUME Bad # {} PROVE FALSE
  <2>1. n \in 0..n
    OBVIOUS
  <2> QED
    BY <2>1
<1>1. PICK k \in Bad : \A j \in Bad : k <= j
  <2>1. Bad \subseteq Nat
    OBVIOUS
  <2> HIDE DEF Bad
  <2> QED
    BY <2>1, LeastInSeq
<1>2. k \in 0..n /\ k \in 0..m
  OBVIOUS
<1>3. f[k] = IF k = 0 THEN <<>>
             ELSE IF s[k].name \in names THEN f[k - 1] ELSE Append(f[k - 1], s[k])
  BY <1>2 DEF Keeps
<1>4. g[k] = IF k = 0 THEN <<>>
             ELSE IF t[k].name \in names THEN g[k - 1] ELSE Append(g[k - 1], t[k])
  BY <1>2 DEF Keeps
<1>5. CASE k = 0
  BY <1>3, <1>4, <1>5
<1>6. CASE k # 0
  <2>1. k - 1 \in 0..n /\ ~(k <= k - 1) /\ k \in 1..n
    BY <1>2, <1>6
  <2>2. f[k - 1] = g[k - 1]
    BY <1>1, <2>1
  <2>3. t[k] = s[k]
    BY <2>1
  <2> QED
    BY <1>3, <1>4, <1>6, <2>2, <2>3
<1> QED
  BY <1>5, <1>6

LEMMA DroppingLoop ==
  ASSUME NEW S, NEW s \in Seq(S), NEW names
  PROVE  \E f : Keeps(f, s, names, Len(s)) /\ Dropping(s, names) = f[Len(s)]
<1> DEFINE kept == CHOOSE g : Keeps(g, s, names, Len(s))
<1>0. Len(s) \in Nat
  OBVIOUS
<1>1. \E f : Keeps(f, s, names, Len(s))
  BY <1>0, KeepsExists
<1>2. Keeps(kept, s, names, Len(s))
  BY <1>1
<1>3. Dropping(s, names) = kept[Len(s)]
  BY DEF Dropping, Keeps
<1> HIDE DEF kept
<1> QED
  BY <1>2, <1>3

LEMMA DroppingNone ==
  ASSUME NEW names PROVE Dropping(<<>>, names) = <<>>
<1>1. PICK f : Keeps(f, <<>>, names, Len(<<>>)) /\ Dropping(<<>>, names) = f[Len(<<>>)]
  <2>1. <<>> \in Seq({})
    OBVIOUS
  <2> QED
    BY <2>1, DroppingLoop
<1>2. Len(<<>>) = 0 /\ 0 \in 0..0
  OBVIOUS
<1>3. f[0] = <<>>
  BY <1>1, <1>2 DEF Keeps
<1> QED
  BY <1>1, <1>2, <1>3

LEMMA DroppingLast ==
  ASSUME NEW S, NEW s \in Seq(S), NEW a \in S, NEW names
  PROVE  Dropping(Append(s, a), names) =
           IF a.name \in names THEN Dropping(s, names) ELSE Append(Dropping(s, names), a)
<1> DEFINE t == Append(s, a)
           n == Len(s)
<1>1. /\ t \in Seq(S) /\ Len(t) = n + 1 /\ n \in Nat
      /\ \A i \in 1..n : t[i] = s[i]
      /\ t[n + 1] = a
  BY AppendIs
<1> HIDE DEF t
<1>2. PICK f : Keeps(f, s, names, n) /\ Dropping(s, names) = f[n]
  BY DroppingLoop
<1>3. PICK g : Keeps(g, t, names, n + 1) /\ Dropping(t, names) = g[n + 1]
  BY <1>1, DroppingLoop
<1>4. f[n] = g[n]
  <2>1. n + 1 \in Nat /\ n <= n + 1
    BY <1>1
  <2> HIDE DEF n
  <2> QED
    BY <1>1, <1>2, <1>3, <2>1, KeepsAgree
<1>5. n + 1 \in 0..(n + 1) /\ n + 1 # 0 /\ (n + 1) - 1 = n
  BY <1>1
<1>6. g[n + 1] = IF t[n + 1].name \in names THEN g[n] ELSE Append(g[n], t[n + 1])
  BY <1>3, <1>5 DEF Keeps
<1> QED
  BY <1>1, <1>2, <1>3, <1>4, <1>6 DEF t

(***************************************************************************)
(* A shortest list among some: all shorter ones are not among them.        *)
(***************************************************************************)
LEMMA Shortest ==
  ASSUME NEW S, NEW B, B \subseteq Seq(S), B # {}
  PROVE  \E u \in B : u = <<>> \/ \E v \in Seq(S) \ B, a \in S : u = Append(v, a)
<1> DEFINE lengths == {Len(u) : u \in B}
<1>1. lengths \subseteq Nat /\ lengths # {}
  <2>1. \A u \in B : Len(u) \in Nat
    OBVIOUS
  <2> QED
    BY <2>1
<1>2. PICK n \in lengths : \A j \in lengths : n <= j
  <2> HIDE DEF lengths
  <2> QED
    BY <1>1, LeastInSeq
<1>3. PICK u \in B : n = Len(u)
  OBVIOUS
<1>4. \A v \in B : Len(u) <= Len(v)
  BY <1>2, <1>3
<1>5. CASE u # <<>>
  <2>1. PICK v \in Seq(S), a \in S : u = Append(v, a)
    BY <1>5, SequenceEmptyOrAppend
  <2>2. Len(u) = Len(v) + 1 /\ Len(v) \in Nat
    BY <2>1, AppendProperties
  <2>3. v \notin B
    BY <1>4, <2>2
  <2> QED
    BY <2>1, <2>3
<1> QED
  BY <1>5

(***************************************************************************)
(* Dropping from two lists one after the other, twice, and nothing.        *)
(***************************************************************************)
LEMMA ConcatAppend ==
  ASSUME NEW S, NEW s \in Seq(S), NEW t \in Seq(S), NEW a \in S
  PROVE  s \o t \in Seq(S) /\ s \o Append(t, a) = Append(s \o t, a)
<1>1. s \o t \in Seq(S) /\ Append(t, a) \in Seq(S) /\ s \o Append(t, a) \in Seq(S)
  BY ConcatProperties, AppendProperties
<1>2. Append(s \o t, a) \in Seq(S)
  BY <1>1, AppendProperties
<1> QED
  BY <1>1, <1>2

LEMMA DroppingConcat ==
  ASSUME NEW S, NEW s \in Seq(S), NEW t \in Seq(S), NEW names
  PROVE  Dropping(s \o t, names) = Dropping(s, names) \o Dropping(t, names)
<1> DEFINE P(u) == Dropping(s \o u, names) = Dropping(s, names) \o Dropping(u, names)
           Bad == {u \in Seq(S) : ~P(u)}
<1> SUFFICES ASSUME ~P(t) PROVE FALSE
  OBVIOUS
<1>0. Dropping(s, names) \in Seq(S)
  BY DroppingIs
<1>1. PICK u \in Bad : u = <<>> \/ \E v \in Seq(S) \ Bad, a \in S : u = Append(v, a)
  <2>1. Bad \subseteq Seq(S) /\ Bad # {}
    OBVIOUS
  <2> HIDE DEF Bad
  <2> QED
    BY <2>1, Shortest
<1>2. CASE u = <<>>
  <2>1. s \o u = s /\ Dropping(s, names) \o <<>> = Dropping(s, names)
    BY <1>0, <1>2, ConcatEmptySeq
  <2>2. Dropping(u, names) = <<>>
    BY <1>2, DroppingNone
  <2> QED
    BY <1>1, <2>1, <2>2
<1>3. CASE u # <<>>
  <2>1. PICK v \in Seq(S) \ Bad, a \in S : u = Append(v, a)
    BY <1>1, <1>3
  <2>4. P(v)
    OBVIOUS
  <2>5. s \o v \in Seq(S) /\ s \o u = Append(s \o v, a)
    BY <2>1, ConcatAppend, SMTT(60)
  <2>6. Dropping(v, names) \in Seq(S)
    BY DroppingIs
  <2>7. Dropping(s \o u, names) =
          IF a.name \in names THEN Dropping(s \o v, names) ELSE Append(Dropping(s \o v, names), a)
    <3> DEFINE w == s \o v
    <3>1. w \in Seq(S) /\ s \o u = Append(w, a)
      BY <2>5
    <3> HIDE DEF w
    <3>2. Dropping(Append(w, a), names) =
            IF a.name \in names THEN Dropping(w, names) ELSE Append(Dropping(w, names), a)
      BY <3>1, DroppingLast
    <3>3. Dropping(s \o u, names) =
            IF a.name \in names THEN Dropping(w, names) ELSE Append(Dropping(w, names), a)
      BY <3>1, <3>2
    <3> QED
      BY <3>3 DEF w
  <2>8. Dropping(u, names) =
          IF a.name \in names THEN Dropping(v, names) ELSE Append(Dropping(v, names), a)
    BY <2>1, DroppingLast
  <2>9. CASE a.name \in names
    BY <1>1, <2>4, <2>7, <2>8, <2>9
  <2>10. CASE a.name \notin names
    <3> DEFINE d == Dropping(s, names)
               e == Dropping(v, names)
    <3>00. d \in Seq(S) /\ e \in Seq(S) /\ a \in S
      BY <1>0, <2>6
    <3>0. Dropping(s \o v, names) = d \o e
      BY <2>4
    <3>1. Dropping(s \o u, names) = Append(d \o e, a) /\ Dropping(u, names) = Append(e, a)
      BY <2>7, <2>8, <2>10, <3>0
    <3>2. Dropping(s \o u, names) # d \o Append(e, a)
      BY <1>1, <3>1
    <3> HIDE DEF d, e
    <3>3. d \o Append(e, a) = Append(d \o e, a)
      BY ONLY <3>00, ConcatAppend, SMTT(60)
    <3> QED
      BY <3>1, <3>2, <3>3
  <2> QED
    BY <2>9, <2>10
<1> QED
  BY <1>2, <1>3

LEMMA DroppingTwice ==
  ASSUME NEW S, NEW s \in Seq(S), NEW some, NEW others
  PROVE  Dropping(Dropping(s, some), others) = Dropping(s, some \cup others)
<1> DEFINE P(u) == Dropping(Dropping(u, some), others) = Dropping(u, some \cup others)
           Bad == {u \in Seq(S) : ~P(u)}
<1> SUFFICES ASSUME ~P(s) PROVE FALSE
  OBVIOUS
<1>1. PICK u \in Bad : u = <<>> \/ \E v \in Seq(S) \ Bad, a \in S : u = Append(v, a)
  <2>1. Bad \subseteq Seq(S) /\ Bad # {}
    OBVIOUS
  <2> HIDE DEF Bad
  <2> QED
    BY <2>1, Shortest
<1>2. CASE u = <<>>
  BY <1>1, <1>2, DroppingNone
<1>3. CASE u # <<>>
  <2>1. PICK v \in Seq(S) \ Bad, a \in S : u = Append(v, a)
    BY <1>1, <1>3
  <2>4. P(v)
    OBVIOUS
  <2>5. Dropping(v, some) \in Seq(S)
    BY DroppingIs
  <2>6. Dropping(u, some) = IF a.name \in some THEN Dropping(v, some) ELSE Append(Dropping(v, some), a)
    BY <2>1, DroppingLast
  <2>7. Dropping(u, some \cup others) =
          IF a.name \in some \cup others THEN Dropping(v, some \cup others)
          ELSE Append(Dropping(v, some \cup others), a)
    BY <2>1, DroppingLast
  <2>8. Dropping(Append(Dropping(v, some), a), others) =
          IF a.name \in others THEN Dropping(Dropping(v, some), others)
          ELSE Append(Dropping(Dropping(v, some), others), a)
    BY <2>5, DroppingLast
  <2> QED
    BY <1>1, <2>4, <2>6, <2>7, <2>8
<1> QED
  BY <1>2, <1>3

LEMMA DroppingNothing ==
  ASSUME NEW S, NEW s \in Seq(S), NEW names, NamesOf(s) \cap names = {}
  PROVE  Dropping(s, names) = s
<1> DEFINE P(u) == NamesOf(u) \cap names = {} => Dropping(u, names) = u
           Bad == {u \in Seq(S) : ~P(u)}
<1> SUFFICES ASSUME ~P(s) PROVE FALSE
  OBVIOUS
<1>1. PICK u \in Bad : u = <<>> \/ \E v \in Seq(S) \ Bad, a \in S : u = Append(v, a)
  <2>1. Bad \subseteq Seq(S) /\ s \in Bad
    OBVIOUS
  <2> HIDE DEF Bad
  <2> QED
    BY <2>1, Shortest
<1>2. CASE u = <<>>
  BY <1>1, <1>2, DroppingNone
<1>3. CASE u # <<>>
  <2>1. PICK v \in Seq(S) \ Bad, a \in S : u = Append(v, a)
    BY <1>1, <1>3
  <2>4. P(v)
    OBVIOUS
  <2>5. NamesOf(v) \subseteq NamesOf(u) /\ a.name \in NamesOf(u)
    <3>1. ToSet(u) = ToSet(v) \cup {a}
      BY <2>1, AppendIs
    <3> QED
      BY <3>1, NamesAre
  <2>6. Dropping(u, names) = IF a.name \in names THEN Dropping(v, names) ELSE Append(Dropping(v, names), a)
    BY <2>1, DroppingLast
  <2> QED
    BY <1>1, <2>1, <2>4, <2>5, <2>6
<1> QED
  BY <1>2, <1>3

-----------------------------------------------------------------------------

(***************************************************************************)
(* Two headers join when their shared attributes have the same types and   *)
(* the attributes of both fit in one header.                               *)
(***************************************************************************)
Joins(l, r) == Agreeing(l, r) /\ ValidHeader(JoinedList(l, r))

LEMMA RefusedHeader ==
  ASSUME NEW s, ~ValidHeader(s)
  PROVE  HeaderOf(s).ok = FALSE
<1>1. ~HeaderOf(s).ok
  BY HeaderOfErr
<1>2. CASE SchemaTryNew(s).ok
  BY <1>1, <1>2 DEF HeaderOf, Wrap
<1>3. CASE ~SchemaTryNew(s).ok
  BY <1>3 DEF HeaderOf, Wrap, Err
<1> QED
  BY <1>2, <1>3

LEMMA InnerNaturalIs ==
  ASSUME NEW l, Built(l), NEW r, Built(r)
  PROVE  /\ Joins(l, r) => JoinHeader(l, r, "Inner", [k |-> "Natural"]) = Ok(JoinedList(l, r))
         /\ ~Joins(l, r) => JoinHeader(l, r, "Inner", [k |-> "Natural"]).ok = FALSE
<1> DEFINE on == [k |-> "Natural"]
           header == NaturalHeader(l, r, "Inner", on)
<1>1. Listed(l) /\ JoinHeader(l, r, "Inner", on) = header
  BY DEF Built, JoinHeader
<1>2. ASSUME Agreeing(l, r) PROVE header = HeaderOf(JoinedList(l, r))
  <2>1. CASE BecomesProduct(l, r, "Inner", on)
    <3>1. Shared(l, r) = {}
      BY <2>1 DEF BecomesProduct
    <3>2. header = HeaderOf(l \o r)
      <4>1. header = ConcatDisjoint(l, r)
        BY <1>1, <1>2, <2>1, NaturalIs
      <4>2. ConcatDisjoint(l, r) = HeaderOf(l \o r)
        BY <3>1, ConcatDisjointIs
      <4> HIDE DEF header
      <4> QED
        BY <4>1, <4>2
    <3>3. r \in Seq(ToSet(r)) /\ NamesOf(r) \cap NamesOf(l) = {}
      BY <3>1 DEF Built, Listed, Shared
    <3>4. Dropping(r, NamesOf(l)) = r
      BY <3>3, DroppingNothing
    <3> QED
      BY <3>2, <3>4 DEF JoinedList
  <2>2. CASE ~BecomesProduct(l, r, "Inner", on)
    BY <1>1, <1>2, <2>2, NaturalIs
  <2> QED
    BY <2>1, <2>2
<1>3. ~Agreeing(l, r) => header.ok = FALSE
  BY <1>1, NaturalIs
<1> HIDE DEF header, on
<1>4. Joins(l, r) => header = Ok(JoinedList(l, r))
  BY <1>2, HeaderOfOk DEF Joins
<1>5. ~Joins(l, r) => header.ok = FALSE
  <2>1. ~ValidHeader(JoinedList(l, r)) => HeaderOf(JoinedList(l, r)).ok = FALSE
    BY RefusedHeader
  <2> QED
    BY <1>2, <1>3, <2>1 DEF Joins
<1> QED
  BY <1>1, <1>4, <1>5 DEF on

LEMMA JoinedBuilt ==
  ASSUME NEW l, Built(l), NEW r, Built(r), ValidHeader(JoinedList(l, r))
  PROVE  /\ Built(JoinedList(l, r))
         /\ HeaderFn(JoinedList(l, r)) = Merge(HeaderFn(l), HeaderFn(r))
         /\ NamesOf(JoinedList(l, r)) = NamesOf(l) \cup NamesOf(r)
<1> DEFINE list == JoinedList(l, r)
<1>1. /\ list \in Seq(ToSet(l) \cup ToSet(r))
      /\ ToSet(list) = ToSet(l) \cup {b \in ToSet(r) : b.name \notin NamesOf(l)}
      /\ HeaderFn(list) = Merge(HeaderFn(l), HeaderFn(r))
  BY JoinedListIs
<1>2. /\ \A a \in ToSet(l) : a.name \in Name /\ a = Column(a.name, a.ty)
      /\ \A a \in ToSet(r) : a.name \in Name /\ a = Column(a.name, a.ty)
  BY DEF Built, Listed
<1>3. NamesOf(list) = NamesOf(l) \cup NamesOf(r)
  <2>1. DOMAIN HeaderFn(list) = NamesOf(list) /\ DOMAIN HeaderFn(l) = NamesOf(l)
        /\ DOMAIN HeaderFn(r) = NamesOf(r)
    BY DEF HeaderFn
  <2>2. DOMAIN Merge(HeaderFn(l), HeaderFn(r)) = DOMAIN HeaderFn(l) \cup DOMAIN HeaderFn(r)
    BY DEF Merge
  <2> QED
    BY <1>1, <2>1, <2>2
<1>4. list \in Seq(ToSet(list))
  <2>1. \A i \in 1..Len(list) : list[i] \in ToSet(list)
    BY <1>1 DEF ToSet
  <2> HIDE DEF list
  <2> QED
    BY <1>1, <2>1
<1> HIDE DEF list
<1>5. Listed(list)
  BY <1>1, <1>2, <1>4 DEF Listed
<1> QED
  BY <1>1, <1>3, <1>5 DEF Built, list

(***************************************************************************)
(* Three headers: which lists the two orders make, when the types agree,   *)
(* and when everything fits.                                               *)
(***************************************************************************)
Adding(l, r, names) == l \o Dropping(r, names)

LEMMA AddingRegroups ==
  ASSUME NEW S, NEW l, l \in Seq(S), NEW m, m \in Seq(S), NEW r, r \in Seq(S), NEW some, NEW others
  PROVE  Adding(Adding(l, m, some), r, some \cup others) = Adding(l, Adding(m, r, others), some)
<1> DEFINE d == Dropping(m, some)
           e == Dropping(r, others)
           h == Dropping(e, some)
<1>1. d \in Seq(S) /\ e \in Seq(S)
  BY DroppingIs
<1>2. h \in Seq(S)
  <2> HIDE DEF e
  <2> QED
    BY <1>1, DroppingIs
<1>3. Dropping(m \o e, some) = d \o h
  <2> HIDE DEF e
  <2> QED
    BY ONLY <1>1, m \in Seq(S), DroppingConcat DEF d, h
<1>4. h = Dropping(r, some \cup others)
  <2>1. Dropping(Dropping(r, others), some) = Dropping(r, others \cup some)
    BY ONLY r \in Seq(S), DroppingTwice
  <2>2. others \cup some = some \cup others
    OBVIOUS
  <2> QED
    BY <2>1, <2>2
<1> HIDE DEF d, e, h
<1>5. (l \o d) \o h = l \o (d \o h)
  BY ONLY l \in Seq(S), <1>1, <1>2, ConcatAssociative, SMTT(60)
<1> QED
  BY <1>3, <1>4, <1>5 DEF d, e, Adding

LEMMA JoinedRegroups ==
  ASSUME NEW l, Built(l), NEW m, Built(m), NEW r, Built(r), ValidHeader(JoinedList(l, m))
  PROVE  JoinedList(JoinedList(l, m), r) = JoinedList(l, JoinedList(m, r))
<1> DEFINE S == (ToSet(l) \cup ToSet(m)) \cup ToSet(r)
<1>1. l \in Seq(S) /\ m \in Seq(S) /\ r \in Seq(S)
  <2>1. l \in Seq(ToSet(l)) /\ m \in Seq(ToSet(m)) /\ r \in Seq(ToSet(r))
    BY DEF Built, Listed
  <2> QED
    BY <2>1
<1> HIDE DEF S
<1>2. NamesOf(JoinedList(l, m)) = NamesOf(l) \cup NamesOf(m)
  BY JoinedBuilt
<1>3. Adding(Adding(l, m, NamesOf(l)), r, NamesOf(l) \cup NamesOf(m)) =
        Adding(l, Adding(m, r, NamesOf(m)), NamesOf(l))
  BY <1>1, AddingRegroups
<1>4. \A s, t : JoinedList(s, t) = Adding(s, t, NamesOf(s))
  BY DEF JoinedList, Adding
<1> QED
  BY <1>2, <1>3, <1>4

Consistent(f, g) == \A n \in DOMAIN f \cap DOMAIN g : f[n] = g[n]

LEMMA ConsistentThrice ==
  ASSUME NEW f, NEW g, NEW h
  PROVE  /\ Consistent(f, g) /\ Consistent(Merge(f, g), h) <=>
              Consistent(f, g) /\ Consistent(f, h) /\ Consistent(g, h)
         /\ Consistent(g, h) /\ Consistent(f, Merge(g, h)) <=>
              Consistent(f, g) /\ Consistent(f, h) /\ Consistent(g, h)
<1>1. /\ DOMAIN Merge(f, g) = DOMAIN f \cup DOMAIN g
      /\ \A n \in DOMAIN f \cup DOMAIN g : Merge(f, g)[n] = IF n \in DOMAIN f THEN f[n] ELSE g[n]
  BY DEF Merge
<1>2. /\ DOMAIN Merge(g, h) = DOMAIN g \cup DOMAIN h
      /\ \A n \in DOMAIN g \cup DOMAIN h : Merge(g, h)[n] = IF n \in DOMAIN g THEN g[n] ELSE h[n]
  BY DEF Merge
<1>3. ASSUME Consistent(f, g), Consistent(Merge(f, g), h)
      PROVE  Consistent(f, h) /\ Consistent(g, h)
  BY <1>1, <1>3 DEF Consistent
<1>4. ASSUME Consistent(f, g), Consistent(f, h), Consistent(g, h)
      PROVE  Consistent(Merge(f, g), h) /\ Consistent(f, Merge(g, h))
  BY <1>1, <1>2, <1>4 DEF Consistent
<1>5. ASSUME Consistent(g, h), Consistent(f, Merge(g, h))
      PROVE  Consistent(f, g) /\ Consistent(f, h)
  BY <1>2, <1>5 DEF Consistent
<1> QED
  BY <1>3, <1>4, <1>5

LEMMA FitsPart ==
  ASSUME NEW f, NEW g, DOMAIN f \subseteq DOMAIN g, DOMAIN f # {}, IsFiniteSet(DOMAIN g), Fits(g)
  PROVE  Fits(f)
<1>1. IsFiniteSet(DOMAIN f) /\ Cardinality(DOMAIN f) <= Cardinality(DOMAIN g)
  BY FS_Subset
<1>2. Cardinality(DOMAIN f) \in Nat /\ Cardinality(DOMAIN f) # 0
  BY <1>1, FS_CardinalityType, FS_EmptySet
<1> QED
  BY <1>1, <1>2, LimitAssumption DEF Fits

LEMMA BuiltFinite ==
  ASSUME NEW s, Built(s)
  PROVE  DOMAIN HeaderFn(s) # {} /\ IsFiniteSet(DOMAIN HeaderFn(s))
<1>1. s \in Seq(ToSet(s)) /\ Len(s) \in 1..MaxSchemaAttributes /\ Distinct(Names(s))
  BY DEF Built, Listed, ValidHeader
<1>2. IsFiniteSet(NamesOf(s)) /\ Cardinality(NamesOf(s)) = Len(s)
  BY <1>1, NamesCounted
<1>3. NamesOf(s) # {}
  <2>1. 1 \in DOMAIN s
    BY <1>1, LimitAssumption
  <2> QED
    BY <2>1 DEF NamesOf, ToSet, Names
<1> QED
  BY <1>2, <1>3 DEF HeaderFn

LEMMA JoinsAre ==
  ASSUME NEW l, Built(l), NEW r, Built(r)
  PROVE  Joins(l, r) <=>
           Consistent(HeaderFn(l), HeaderFn(r)) /\ Fits(Merge(HeaderFn(l), HeaderFn(r)))
BY AgreeingIs, JoinedListIs DEF Joins, Consistent

(***************************************************************************)
(* All three can be joined.                                                *)
(***************************************************************************)
Triple(f, g, h) ==
  /\ Consistent(f, g) /\ Consistent(f, h) /\ Consistent(g, h)
  /\ Fits(Merge(Merge(f, g), h))

LEMMA FirstJoins ==
  ASSUME NEW l, Built(l), NEW m, Built(m), NEW r, Built(r)
  PROVE  Joins(l, m) /\ Joins(JoinedList(l, m), r) <=>
           Triple(HeaderFn(l), HeaderFn(m), HeaderFn(r))
<1> DEFINE f == HeaderFn(l)
           g == HeaderFn(m)
           h == HeaderFn(r)
<1>1. DOMAIN f # {} /\ IsFiniteSet(DOMAIN f) /\ IsFiniteSet(DOMAIN g) /\ IsFiniteSet(DOMAIN h)
  BY BuiltFinite
<1>2. Joins(l, m) <=> Consistent(f, g) /\ Fits(Merge(f, g))
  BY JoinsAre
<1>3. ASSUME Joins(l, m)
      PROVE  Joins(JoinedList(l, m), r) <=>
               Consistent(Merge(f, g), h) /\ Fits(Merge(Merge(f, g), h))
  <2> DEFINE list == JoinedList(l, m)
  <2>1. Built(list) /\ HeaderFn(list) = Merge(f, g)
    BY <1>3, JoinedBuilt DEF Joins
  <2> HIDE DEF list
  <2>2. Joins(list, r) <=>
          Consistent(HeaderFn(list), HeaderFn(r)) /\ Fits(Merge(HeaderFn(list), HeaderFn(r)))
    BY ONLY <2>1, Built(r), JoinsAre
  <2> QED
    BY <2>1, <2>2 DEF list
<1> HIDE DEF f, g, h
<1>4. Fits(Merge(Merge(f, g), h)) => Fits(Merge(f, g))
  <2>1. /\ DOMAIN Merge(f, g) = DOMAIN f \cup DOMAIN g
        /\ DOMAIN Merge(Merge(f, g), h) = DOMAIN f \cup DOMAIN g \cup DOMAIN h
    BY DEF Merge
  <2>2. IsFiniteSet(DOMAIN Merge(Merge(f, g), h))
    <3>1. IsFiniteSet(DOMAIN f \cup DOMAIN g)
      BY <1>1, FS_Union
    <3> QED
      BY <1>1, <2>1, <3>1, FS_Union, ZenonT(60)
  <2>3. DOMAIN Merge(f, g) \subseteq DOMAIN Merge(Merge(f, g), h) /\ DOMAIN Merge(f, g) # {}
    BY <1>1, <2>1
  <2> QED
    BY <2>2, <2>3, FitsPart
<1>5. Joins(l, m) /\ Joins(JoinedList(l, m), r) <=> Triple(f, g, h)
  BY <1>2, <1>3, <1>4, ConsistentThrice DEF Triple
<1> QED
  BY <1>5 DEF f, g, h

LEMMA LastJoins ==
  ASSUME NEW l, Built(l), NEW m, Built(m), NEW r, Built(r)
  PROVE  Joins(m, r) /\ Joins(l, JoinedList(m, r)) <=>
           Triple(HeaderFn(l), HeaderFn(m), HeaderFn(r))
<1> DEFINE f == HeaderFn(l)
           g == HeaderFn(m)
           h == HeaderFn(r)
<1>1. DOMAIN g # {} /\ IsFiniteSet(DOMAIN f) /\ IsFiniteSet(DOMAIN g) /\ IsFiniteSet(DOMAIN h)
  BY BuiltFinite
<1>2. Joins(m, r) <=> Consistent(g, h) /\ Fits(Merge(g, h))
  BY JoinsAre
<1>3. ASSUME Joins(m, r)
      PROVE  Joins(l, JoinedList(m, r)) <=>
               Consistent(f, Merge(g, h)) /\ Fits(Merge(f, Merge(g, h)))
  <2> DEFINE list == JoinedList(m, r)
  <2>1. Built(list) /\ HeaderFn(list) = Merge(g, h)
    BY <1>3, JoinedBuilt DEF Joins
  <2> HIDE DEF list
  <2>2. Joins(l, list) <=>
          Consistent(HeaderFn(l), HeaderFn(list)) /\ Fits(Merge(HeaderFn(l), HeaderFn(list)))
    BY ONLY <2>1, Built(l), JoinsAre
  <2> QED
    BY <2>1, <2>2 DEF list
<1> HIDE DEF f, g, h
<1>4. DOMAIN Merge(f, Merge(g, h)) = DOMAIN Merge(Merge(f, g), h)
  BY DEF Merge
<1>5. Fits(Merge(f, Merge(g, h))) <=> Fits(Merge(Merge(f, g), h))
  BY <1>4 DEF Fits
<1>6. Fits(Merge(f, Merge(g, h))) => Fits(Merge(g, h))
  <2>1. /\ DOMAIN Merge(g, h) = DOMAIN g \cup DOMAIN h
        /\ DOMAIN Merge(f, Merge(g, h)) = DOMAIN f \cup (DOMAIN g \cup DOMAIN h)
    BY DEF Merge
  <2>2. IsFiniteSet(DOMAIN Merge(f, Merge(g, h)))
    <3>1. IsFiniteSet(DOMAIN g \cup DOMAIN h)
      BY <1>1, FS_Union
    <3> QED
      BY <1>1, <2>1, <3>1, FS_Union, ZenonT(60)
  <2>3. DOMAIN Merge(g, h) \subseteq DOMAIN Merge(f, Merge(g, h)) /\ DOMAIN Merge(g, h) # {}
    BY <1>1, <2>1
  <2> QED
    BY <2>2, <2>3, FitsPart
<1>7. Joins(m, r) /\ Joins(l, JoinedList(m, r)) <=> Triple(f, g, h)
  BY <1>2, <1>3, <1>5, <1>6, ConsistentThrice DEF Triple
<1> QED
  BY <1>7 DEF f, g, h
=============================================================================
