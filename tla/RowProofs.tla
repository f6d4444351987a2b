----------------------------- MODULE RowProofs -----------------------------
(***************************************************************************)
(* A row read by position, through the header an operator caches, is the   *)
(* tuple the algebra gives by name: for any operators, headers, names and  *)
(* limits, at any depth of nesting.                                        *)
(*                                                                         *)
(* Values nest rows, and rows are lists of values: how deep is not known   *)
(* beforehand.  So a view reads well when it belongs to a set of views     *)
(* that each agree with their own header and whose inner views belong to   *)
(* the set again, and the proofs open one level at a time.                 *)
(***************************************************************************)
EXTENDS CoherenceProofs, RowFlow

-----------------------------------------------------------------------------

IsList(row) == \E S : row \in Seq(S)

Agreeable(v) ==
  /\ ReadsAs(v)
  /\ IsList(v.row)
  /\ \A p \in DOMAIN v.header : v.row[p].k \in {"Whole", "Rows"}

Sustained(R) == \A v \in R : Agreeable(v) /\ InnerViews(v) \subseteq R

Reads(v) == \E R : v \in R /\ Sustained(R)

(***************************************************************************)
(* One level: a view reads well when it agrees with its header and the     *)
(* views inside it read well.                                              *)
(***************************************************************************)
LEMMA ReadsInside ==
  ASSUME NEW v, Reads(v)
  PROVE  Agreeable(v) /\ \A u \in InnerViews(v) : Reads(u)
<1>1. PICK R : v \in R /\ Sustained(R)
  BY DEF Reads
<1>2. Agreeable(v) /\ InnerViews(v) \subseteq R
  BY <1>1 DEF Sustained
<1>3. ASSUME NEW u \in InnerViews(v) PROVE Reads(u)
  BY <1>1, <1>2 DEF Reads
<1> QED
  BY <1>2, <1>3

LEMMA ReadsOutside ==
  ASSUME NEW v, Agreeable(v), \A u \in InnerViews(v) : Reads(u)
  PROVE  Reads(v)
<1> DEFINE Around(u) == CHOOSE R : u \in R /\ Sustained(R)
           All == {v} \cup UNION {Around(u) : u \in InnerViews(v)}
<1>1. ASSUME NEW u \in InnerViews(v) PROVE u \in Around(u) /\ Sustained(Around(u))
  <2>1. \E R : u \in R /\ Sustained(R)
    BY DEF Reads
  <2> QED
    BY <2>1
<1> HIDE DEF Around
<1>2. InnerViews(v) \subseteq All
  BY <1>1
<1>3. ASSUME NEW w \in All PROVE Agreeable(w) /\ InnerViews(w) \subseteq All
  <2>1. CASE w = v
    BY <1>2, <2>1
  <2>2. ASSUME NEW u \in InnerViews(v), w \in Around(u)
        PROVE  Agreeable(w) /\ InnerViews(w) \subseteq All
    <3>1. Agreeable(w) /\ InnerViews(w) \subseteq Around(u)
      BY <1>1, <2>2 DEF Sustained
    <3> QED
      BY <3>1
  <2> QED
    BY <1>3, <2>1, <2>2
<1>4. v \in All
  OBVIOUS
<1> HIDE DEF All
<1>5. Sustained(All)
  BY <1>3 DEF Sustained
<1> QED
  BY <1>4, <1>5 DEF Reads

-----------------------------------------------------------------------------

(***************************************************************************)
(* The levels of a view, as a function on 0..n: there is one for every n.  *)
(***************************************************************************)
LevelsTo(level, v, n) ==
  level = [m \in 0..n |-> IF m = 0 THEN {v} ELSE UNION {InnerViews(u) : u \in level[m - 1]}]

LEMMA LevelsExist ==
  ASSUME NEW v, NEW n \in Nat
  PROVE  \E level : LevelsTo(level, v, n)
<1> DEFINE Bad == {m \in Nat : ~\E level : LevelsTo(level, v, m)}
<1> SUFFICES ASSUME Bad # {} PROVE FALSE
  OBVIOUS
<1>1. PICK m \in Bad : \A j \in Bad : m <= j
  BY LeastInSeq
<1>2. CASE m = 0
  <2> DEFINE f == [i \in 0..0 |-> {v}]
  <2>1. f = [i \in 0..0 |-> IF i = 0 THEN {v} ELSE UNION {InnerViews(u) : u \in f[i - 1]}]
    OBVIOUS
  <2> HIDE DEF f
  <2>2. LevelsTo(f, v, 0)
    BY <2>1 DEF LevelsTo
  <2> QED
    BY <1>2, <2>2
<1>3. CASE m # 0
  <2>1. m - 1 \in Nat /\ ~(m <= m - 1)
    BY <1>3
  <2>2. PICK f : LevelsTo(f, v, m - 1)
    BY <1>1, <2>1
  <2> DEFINE inside(i) == UNION {InnerViews(u) : u \in f[i - 1]}
             g == [i \in 0..m |-> IF i = 0 THEN {v} ELSE inside(i)]
  <2>3. ASSUME NEW i \in 0..(m - 1) PROVE g[i] = f[i]
    <3>1. f[i] = IF i = 0 THEN {v} ELSE inside(i)
      BY <2>2 DEF LevelsTo
    <3>2. g[i] = IF i = 0 THEN {v} ELSE inside(i)
      OBVIOUS
    <3> HIDE DEF g, inside
    <3> QED
      BY <3>1, <3>2
  <2>4. ASSUME NEW i \in 0..m
        PROVE  g[i] = IF i = 0 THEN {v} ELSE UNION {InnerViews(u) : u \in g[i - 1]}
    <3>1. CASE i = 0
      BY <3>1
    <3>2. CASE i # 0
      <4>1. i - 1 \in 0..(m - 1)
        BY <2>1, <3>2
      <4>2. g[i - 1] = f[i - 1] /\ g[i] = inside(i)
        BY <2>3, <3>2, <4>1
      <4> HIDE DEF g
      <4> QED
        BY <3>2, <4>2
    <3> QED
      BY <3>1, <3>2
  <2>5. g = [i \in 0..m |-> g[i]]
    OBVIOUS
  <2> HIDE DEF g
  <2>6. LevelsTo(g, v, m)
    BY <2>4, <2>5 DEF LevelsTo
  <2> QED
    BY <2>6
<1> QED
  BY <1>2, <1>3

(***************************************************************************)
(* A view that reads well reads back, level by level.                      *)
(***************************************************************************)
LEMMA ReadsAllTheWay ==
  ASSUME NEW v, Reads(v), Len(ops) \in Nat
  PROVE  ReadsBack(v)
<1> DEFINE level == Levels(v)
<1>1. PICK R : v \in R /\ Sustained(R)
  BY DEF Reads
<1>2. LevelsTo(level, v, Len(ops))
  <2>1. \E f : LevelsTo(f, v, Len(ops))
    BY LevelsExist
  <2> QED
    BY <2>1 DEF Levels, LevelsTo
<1> HIDE DEF level
<1>3. /\ level[0] = {v}
      /\ \A n \in 0..Len(ops) : n # 0 => level[n] = UNION {InnerViews(u) : u \in level[n - 1]}
  BY <1>2 DEF LevelsTo
<1> DEFINE Bad == {n \in 0..Len(ops) : ~(level[n] \subseteq R)}
<1>4. Bad = {}
  <2> SUFFICES ASSUME Bad # {} PROVE FALSE
    OBVIOUS
  <2>1. Bad \subseteq Nat
    OBVIOUS
  <2>2. PICK n \in Bad : \A j \in Bad : n <= j
    BY <2>1, LeastInSeq
  <2>3. n # 0
    BY <1>1, <1>3
  <2>4. n - 1 \in 0..Len(ops) /\ n - 1 \notin Bad
    BY <2>2, <2>3
  <2>5. level[n - 1] \subseteq R
    BY <2>4
  <2>6. \A u \in R : InnerViews(u) \subseteq R
    BY <1>1 DEF Sustained
  <2>7. level[n] = UNION {InnerViews(u) : u \in level[n - 1]}
    BY <1>3, <2>3
  <2>8. level[n] \subseteq R
    BY <2>5, <2>6, <2>7
  <2> QED
    BY <2>8
<1>5. ASSUME NEW n \in 0..Len(ops), NEW u \in level[n] PROVE ReadsAs(u)
  <2>1. u \in R
    BY <1>4
  <2> QED
    BY <1>1, <2>1 DEF Sustained, Agreeable
<1> QED
  BY <1>5 DEF ReadsBack, level

-----------------------------------------------------------------------------

(***************************************************************************)
(* A cell c of a row is right for a column when the tuple has the same     *)
(* value d under the name of the column, and the rows inside, if any, read *)
(* well.  A list of cells is right for a list of columns when each is.     *)
(***************************************************************************)
RightCell(c, d, t) ==
  /\ c.k \in {"Whole", "Rows"}
  /\ SameValue(c, d, t)
  /\ c.k = "Rows" => Reads(View(c.row, t.schema, d.row))

Right(c, column, tuple) == RightCell(c, tuple[column.name], column.ty)

RightList(row, list, tuple) ==
  /\ IsList(row)
  /\ Len(row) = Len(list)
  /\ \A p \in DOMAIN list : Right(row[p], list[p], tuple)

RightRow(row, s, tuple) == RightList(row, s, tuple) /\ DOMAIN tuple = NamesOf(s)

LEMMA ViewFields ==
  ASSUME NEW row, NEW s, NEW tuple
  PROVE  /\ View(row, s, tuple).row = row
         /\ View(row, s, tuple).header = s
         /\ View(row, s, tuple).tuple = tuple
BY DEF View

LEMMA RightReads ==
  ASSUME NEW row, NEW s, NEW tuple, RightRow(row, s, tuple)
  PROVE  Reads(View(row, s, tuple))
<1> DEFINE v == View(row, s, tuple)
<1>1. v.row = row /\ v.header = s /\ v.tuple = tuple
  BY ViewFields
<1> HIDE DEF v
<1>2. IsList(row) /\ Len(row) = Len(s) /\ DOMAIN tuple = NamesOf(s)
  BY DEF RightRow, RightList
<1>3. \A p \in DOMAIN s : RightCell(row[p], tuple[s[p].name], s[p].ty)
  BY DEF RightRow, RightList, Right
<1>4. Agreeable(v)
  BY <1>1, <1>2, <1>3 DEF Agreeable, ReadsAs, RightCell
<1>5. ASSUME NEW u \in InnerViews(v) PROVE Reads(u)
  <2>1. PICK p \in DOMAIN s :
          row[p].k = "Rows" /\ u = View(row[p].row, s[p].ty.schema, tuple[s[p].name].row)
    BY <1>1 DEF InnerViews
  <2> QED
    BY <1>3, <2>1 DEF RightCell
<1>6. Reads(v)
  BY <1>4, <1>5, ReadsOutside
<1> QED
  BY <1>6 DEF v

LEMMA ReadsRight ==
  ASSUME NEW row, NEW s, NEW tuple, Reads(View(row, s, tuple))
  PROVE  RightRow(row, s, tuple)
<1> DEFINE v == View(row, s, tuple)
<1>1. v.row = row /\ v.header = s /\ v.tuple = tuple
  BY ViewFields
<1>2. Agreeable(v) /\ \A u \in InnerViews(v) : Reads(u)
  BY ReadsInside
<1> HIDE DEF v
<1>3. ReadsAs(v) /\ IsList(row) /\ \A p \in DOMAIN s : row[p].k \in {"Whole", "Rows"}
  BY <1>1, <1>2 DEF Agreeable
<1>4. /\ Len(row) = Len(s) /\ DOMAIN tuple = NamesOf(s)
      /\ \A p \in DOMAIN s : SameValue(row[p], tuple[s[p].name], s[p].ty)
  BY <1>1, <1>3 DEF ReadsAs
<1>5. ASSUME NEW p \in DOMAIN s, row[p].k = "Rows"
      PROVE  Reads(View(row[p].row, s[p].ty.schema, tuple[s[p].name].row))
  <2>1. View(row[p].row, s[p].ty.schema, tuple[s[p].name].row) \in InnerViews(v)
    BY <1>1, <1>5 DEF InnerViews
  <2> QED
    BY <1>2, <2>1
<1>6. \A p \in DOMAIN s : Right(row[p], s[p], tuple)
  BY <1>3, <1>4, <1>5 DEF Right, RightCell
<1> QED
  BY <1>3, <1>4, <1>6 DEF RightRow, RightList

-----------------------------------------------------------------------------

(***************************************************************************)
(* Lists of cells that are right: for another tuple with the same values   *)
(* under the names of the columns, one after the other, with one more, and *)
(* in part.                                                                *)
(***************************************************************************)
LEMMA RightElsewhere ==
  ASSUME NEW row, NEW list, NEW f, NEW g, RightList(row, list, f),
         \A p \in DOMAIN list : g[list[p].name] = f[list[p].name]
  PROVE  RightList(row, list, g)
BY DEF RightList, Right

LEMMA ListsTogether ==
  ASSUME NEW row, IsList(row), NEW more, IsList(more)
  PROVE  \E S : row \in Seq(S) /\ more \in Seq(S)
<1>1. PICK S : row \in Seq(S)
  BY DEF IsList
<1>2. PICK T : more \in Seq(T)
  BY DEF IsList
<1>3. row \in Seq(S \cup T) /\ more \in Seq(S \cup T)
  BY <1>1, <1>2
<1> QED
  BY <1>3

LEMMA RightConcat ==
  ASSUME NEW row, NEW list, NEW more, NEW columns, NEW f,
         RightList(row, list, f), RightList(more, columns, f),
         NEW S, list \in Seq(S), columns \in Seq(S)
  PROVE  RightList(row \o more, list \o columns, f)
<1>0. IsList(row) /\ IsList(more) /\ Len(row) = Len(list) /\ Len(more) = Len(columns)
  BY DEF RightList
<1>1. PICK T : row \in Seq(T) /\ more \in Seq(T)
  BY <1>0, ListsTogether
<1>2. /\ row \o more \in Seq(T)
      /\ Len(row \o more) = Len(list \o columns)
      /\ DOMAIN (list \o columns) = 1..(Len(list) + Len(columns))
      /\ Len(list) \in Nat /\ Len(columns) \in Nat
  BY <1>0, <1>1, SMTT(60)
<1>3. ASSUME NEW p \in 1..(Len(list) + Len(columns))
      PROVE  Right((row \o more)[p], (list \o columns)[p], f)
  <2>1. CASE p <= Len(list)
    <3>1. (row \o more)[p] = row[p] /\ (list \o columns)[p] = list[p] /\ p \in DOMAIN list
      BY <1>0, <1>1, <1>2, <2>1
    <3> QED
      BY <3>1 DEF RightList
  <2>2. CASE ~(p <= Len(list))
    <3> DEFINE q == p - Len(list)
    <3>1. (row \o more)[p] = more[q] /\ (list \o columns)[p] = columns[q] /\ q \in DOMAIN columns
      BY <1>0, <1>1, <1>2, <2>2
    <3> QED
      BY <3>1 DEF RightList
  <2> QED
    BY <2>1, <2>2
<1>4. IsList(row \o more)
  BY <1>2 DEF IsList
<1> QED
  BY <1>2, <1>3, <1>4 DEF RightList

LEMMA RightAppend ==
  ASSUME NEW row, NEW list, NEW f, RightList(row, list, f), NEW S, list \in Seq(S),
         NEW c, NEW column \in S, Right(c, column, f)
  PROVE  RightList(Append(row, c), Append(list, column), f)
<1>1. IsList(row) /\ Len(row) = Len(list)
  BY DEF RightList
<1>2. PICK T : row \in Seq(T)
  BY <1>1 DEF IsList
<1>3. row \in Seq(T \cup {c}) /\ c \in T \cup {c}
  BY <1>2
<1> DEFINE n == Len(list) + 1
<1>4. /\ Append(row, c) \in Seq(T \cup {c})
      /\ Len(Append(row, c)) = n
      /\ \A i \in 1..Len(list) : Append(row, c)[i] = row[i]
      /\ Append(row, c)[n] = c
  BY <1>1, <1>3, AppendIs
<1>5. /\ DOMAIN Append(list, column) = 1..n /\ Len(Append(list, column)) = n
      /\ \A i \in 1..Len(list) : Append(list, column)[i] = list[i]
      /\ Append(list, column)[n] = column
      /\ DOMAIN list = 1..Len(list) /\ Len(list) \in Nat
  BY AppendIs
<1>6. ASSUME NEW p \in 1..n PROVE Right(Append(row, c)[p], Append(list, column)[p], f)
  <2>1. CASE p = n
    BY <1>4, <1>5, <2>1
  <2>2. CASE p # n
    <3>1. p \in 1..Len(list)
      BY <1>5, <2>2
    <3> QED
      BY <1>4, <1>5, <3>1 DEF RightList
  <2> QED
    BY <2>1, <2>2
<1>7. IsList(Append(row, c))
  BY <1>4 DEF IsList
<1> QED
  BY <1>4, <1>5, <1>6, <1>7 DEF RightList

LEMMA PartIs ==
  ASSUME NEW S, NEW s \in Seq(S), NEW m \in 1..(Len(s) + 1), NEW n \in (m - 1)..Len(s)
  PROVE  /\ SubSeq(s, m, n) \in Seq(S)
         /\ Len(SubSeq(s, m, n)) = n - m + 1
         /\ \A i \in 1..(n - m + 1) : SubSeq(s, m, n)[i] = s[m + i - 1]
<1>1. Len(s) \in Nat /\ DOMAIN s = 1..Len(s) /\ m \in Int /\ n \in Int /\ m <= n + 1
  OBVIOUS
<1>2. \A i \in m..n : s[i] \in S
  BY <1>1
<1> QED
  BY <1>1, <1>2, SubSeqProperties

LEMMA RightPart ==
  ASSUME NEW row, NEW list, NEW f, RightList(row, list, f), NEW S, list \in Seq(S),
         NEW m \in 1..(Len(list) + 1), NEW n \in (m - 1)..Len(list)
  PROVE  RightList(SubSeq(row, m, n), SubSeq(list, m, n), f)
<1>1. IsList(row) /\ Len(row) = Len(list)
  BY DEF RightList
<1>2. PICK T : row \in Seq(T)
  BY <1>1 DEF IsList
<1>3. Len(list) \in Nat /\ DOMAIN list = 1..Len(list) /\ m \in Int /\ n \in Int /\ m <= n + 1
  OBVIOUS
<1>4. /\ SubSeq(row, m, n) \in Seq(T)
      /\ Len(SubSeq(row, m, n)) = n - m + 1
      /\ \A i \in 1..(n - m + 1) : SubSeq(row, m, n)[i] = row[m + i - 1]
  BY <1>1, <1>2, <1>3, SubSeqProperties
<1>5. /\ SubSeq(list, m, n) \in Seq(S)
      /\ Len(SubSeq(list, m, n)) = n - m + 1
      /\ \A i \in 1..(n - m + 1) : SubSeq(list, m, n)[i] = list[m + i - 1]
  BY <1>3, SubSeqProperties
<1>6. DOMAIN SubSeq(list, m, n) = 1..(n - m + 1)
  BY <1>5
<1>7. ASSUME NEW i \in 1..(n - m + 1)
      PROVE  Right(SubSeq(row, m, n)[i], SubSeq(list, m, n)[i], f)
  <2>1. m + i - 1 \in DOMAIN list
    BY <1>3
  <2>2. Right(row[m + i - 1], list[m + i - 1], f)
    BY <2>1 DEF RightList
  <2> QED
    BY <1>4, <1>5, <2>2
<1>8. IsList(SubSeq(row, m, n))
  BY <1>4 DEF IsList
<1> QED
  BY <1>4, <1>5, <1>6, <1>7, <1>8 DEF RightList

(***************************************************************************)
(* The cells at some names are right for the columns found under them, and *)
(* those at all other names for what is left of the header.                *)
(***************************************************************************)
LEMMA PositionIs ==
  ASSUME NEW s, Built(s), NEW p \in DOMAIN s
  PROVE  Position(s, s[p].name) = p
<1>1. \A j \in DOMAIN s : s[j].name = s[p].name => j = p
  BY DEF Built, ValidHeader, Distinct, Names
<1> QED
  BY <1>1 DEF Position

LEMMA RightPicked ==
  ASSUME NEW row, NEW s, Built(s), NEW f, RightList(row, s, f),
         NEW N, NEW names \in Seq(N), ToSet(names) \subseteq NamesOf(s)
  PROVE  RightList(ValuesAt(row, s, names), Picked(s, names), f)
<1>1. DOMAIN names = 1..Len(names) /\ Len(names) \in Nat
  OBVIOUS
<1>2. ASSUME NEW k \in DOMAIN names PROVE Position(s, names[k]) \in DOMAIN s
  <2>1. names[k] \in NamesOf(s)
    BY DEF ToSet
  <2>2. PICK p \in DOMAIN s : names[k] = s[p].name
    BY <2>1 DEF NamesOf, Names, ToSet
  <2> QED
    BY <2>2, PositionIs
<1> DEFINE values == ValuesAt(row, s, names)
           list == Picked(s, names)
<1>3. /\ DOMAIN list = DOMAIN names /\ Len(list) = Len(names)
      /\ \A k \in DOMAIN names : list[k] = s[Position(s, names[k])]
  BY <1>1 DEF Picked, Find
<1>4. /\ Len(values) = Len(names)
      /\ \A k \in DOMAIN names : values[k] = row[Position(s, names[k])]
  BY <1>1 DEF ValuesAt
<1>5. values \in Seq({values[k] : k \in DOMAIN names})
  BY <1>1 DEF ValuesAt
<1> HIDE DEF values, list
<1>6. \A k \in DOMAIN list : Right(values[k], list[k], f)
  BY <1>2, <1>3, <1>4 DEF RightList
<1>7. RightList(values, list, f)
  BY <1>3, <1>4, <1>5, <1>6 DEF RightList, IsList
<1> QED
  BY <1>7 DEF values, list

LEMMA PickedAll ==
  ASSUME NEW s, Built(s), NEW S, NEW list \in Seq(S), ToSet(list) \subseteq ToSet(s)
  PROVE  /\ Picked(s, Names(list)) = list
         /\ Names(list) \in Seq(NamesOf(s)) /\ ToSet(Names(list)) \subseteq NamesOf(s)
<1>1. list = [k \in DOMAIN list |-> list[k]] /\ DOMAIN list = 1..Len(list) /\ Len(list) \in Nat
  OBVIOUS
<1>2. ASSUME NEW k \in DOMAIN list
      PROVE  Find(s, list[k].name) = list[k] /\ list[k].name \in NamesOf(s)
  <2>1. list[k] \in ToSet(s)
    BY DEF ToSet
  <2>2. PICK p \in DOMAIN s : list[k] = s[p]
    BY <2>1 DEF ToSet
  <2>3. list[k].name \in NamesOf(s)
    BY <2>1, NamesAre
  <2> QED
    BY <2>2, <2>3, PositionIs DEF Find
<1>3. Picked(s, Names(list)) = [k \in DOMAIN list |-> Find(s, list[k].name)]
  BY DEF Picked, Names
<1>4. Picked(s, Names(list)) = list
  BY <1>1, <1>2, <1>3
<1>5. Names(list) \in Seq(NamesOf(s)) /\ ToSet(Names(list)) \subseteq NamesOf(s)
  BY <1>1, <1>2 DEF Names, ToSet
<1> QED
  BY <1>4, <1>5

LEMMA RightOthers ==
  ASSUME NEW row, NEW s, Built(s), NEW f, RightList(row, s, f), NEW names
  PROVE  RightList(OtherValues(row, s, names), Dropping(s, names), f)
<1> DEFINE list == Dropping(s, names)
<1>1. list \in Seq(ToSet(s)) /\ ToSet(list) \subseteq ToSet(s)
  BY DroppingIs DEF Built, Listed
<1>2. OtherValues(row, s, names) = ValuesAt(row, s, Names(list))
  BY DEF OtherValues
<1> HIDE DEF list
<1>3. /\ Picked(s, Names(list)) = list
      /\ Names(list) \in Seq(NamesOf(s)) /\ ToSet(Names(list)) \subseteq NamesOf(s)
  BY <1>1, PickedAll
<1>4. RightList(ValuesAt(row, s, Names(list)), Picked(s, Names(list)), f)
  BY <1>3, RightPicked
<1> QED
  BY <1>2, <1>3, <1>4 DEF list

-----------------------------------------------------------------------------

(***************************************************************************)
(* The operators, one by one: from a row that is right for the header of   *)
(* the operand to one that is right for the header the operator caches.    *)
(***************************************************************************)
LEMMA ProjectingRight ==
  ASSUME NEW s, Built(s), NEW x, RightRow(x.row, s, x.tuple),
         NEW N, NEW attrs \in Seq(N), ToSet(attrs) \subseteq NamesOf(s)
  PROVE  /\ Projecting(x, s, attrs).row = ValuesAt(x.row, s, attrs)
         /\ Projecting(x, s, attrs).tuple = Restrict(x.tuple, ToSet(attrs))
         /\ RightRow(ValuesAt(x.row, s, attrs), Picked(s, attrs), Restrict(x.tuple, ToSet(attrs)))
<1> DEFINE list == Picked(s, attrs)
           values == ValuesAt(x.row, s, attrs)
           g == Restrict(x.tuple, ToSet(attrs))
<1>1. RightList(values, list, x.tuple)
  BY RightPicked DEF RightRow
<1>2. Names(list) = attrs
  BY PickedIs DEF Built
<1>3. Projecting(x, s, attrs).row = values /\ Projecting(x, s, attrs).tuple = g
  BY DEF Projecting, Both
<1>4. DOMAIN g = ToSet(attrs) /\ \A n \in ToSet(attrs) : g[n] = x.tuple[n]
  BY DEF Restrict
<1> HIDE DEF list, values, g
<1>5. NamesOf(list) = ToSet(attrs) /\ \A p \in DOMAIN list : list[p].name \in ToSet(attrs)
  BY <1>2 DEF NamesOf, Names, ToSet
<1>6. RightList(values, list, g)
  BY <1>1, <1>4, <1>5, RightElsewhere
<1>7. RightRow(values, list, g)
  BY <1>4, <1>5, <1>6 DEF RightRow
<1> QED
  BY <1>3, <1>7 DEF list, values, g

LEMMA RenamingRight ==
  ASSUME NEW s, Built(s), NEW x, RightRow(x.row, s, x.tuple),
         NEW from, NEW to \in Name, Renames(s, from, to)
  PROVE  RightRow(Renaming(x, from, to).row, RenamedList(s, from, to), Renaming(x, from, to).tuple)
<1> DEFINE h == RenamedList(s, from, to)
           g == Plus(Without(x.tuple, {from}), to, x.tuple[from])
<1>1. Renaming(x, from, to).row = x.row /\ Renaming(x, from, to).tuple = g
  BY DEF Renaming, Both
<1>2. DOMAIN x.tuple = NamesOf(s)
  BY DEF RightRow
<1>3. /\ DOMAIN g = (NamesOf(s) \ {from}) \cup {to}
      /\ g[to] = x.tuple[from]
      /\ \A n \in NamesOf(s) \ {from} : n # to => g[n] = x.tuple[n]
  BY <1>2 DEF Plus, Without, Restrict
<1>4. HeaderFn(h) \in Renamed(HeaderFn(s), from, to) /\ DOMAIN HeaderFn(h) = NamesOf(h)
  BY RenamedListIs DEF HeaderFn
<1>5. NamesOf(h) = (NamesOf(s) \ {from}) \cup {to}
  BY <1>4 DEF Renamed, When, HeaderFn
<1>6. /\ DOMAIN h = DOMAIN s /\ Len(h) = Len(s)
      /\ \A p \in DOMAIN s : h[p] = IF s[p].name = from THEN Column(to, s[p].ty) ELSE s[p]
  BY ListedLen DEF RenamedList, Built
<1> HIDE DEF h, g
<1>7. ASSUME NEW p \in DOMAIN s PROVE Right(x.row[p], h[p], g)
  <2>1. Right(x.row[p], s[p], x.tuple)
    BY DEF RightRow, RightList
  <2>2. CASE s[p].name = from
    <3>1. h[p].name = to /\ h[p].ty = s[p].ty
      BY <1>6, <2>2 DEF Column
    <3> QED
      BY <1>3, <2>1, <2>2, <3>1 DEF Right
  <2>3. CASE s[p].name # from
    <3>1. h[p] = s[p]
      BY <1>6, <2>3
    <3>2. s[p].name \in NamesOf(s)
      BY DEF NamesOf, Names, ToSet
    <3>3. s[p].name # to
      BY <2>3, <3>2 DEF Renames
    <3>4. g[s[p].name] = x.tuple[s[p].name]
      BY <1>3, <2>3, <3>2, <3>3
    <3> QED
      BY <2>1, <3>1, <3>4 DEF Right
  <2> QED
    BY <2>2, <2>3
<1>8. RightRow(x.row, h, g)
  BY <1>3, <1>5, <1>6, <1>7 DEF RightRow, RightList
<1> QED
  BY <1>1, <1>8 DEF h, g

(***************************************************************************)
(* A value of its own is right for a column of its type that has it.       *)
(***************************************************************************)
LEMMA WholeRight ==
  ASSUME NEW tag, NEW t
  PROVE  /\ RightCell(Whole(tag, t), Whole(tag, t), t)
         /\ Whole(tag, t).k = "Whole" /\ Whole(tag, t).tag = tag /\ Whole(tag, t).ty = t
BY DEF RightCell, SameValue, Whole

LEMMA RowsRight ==
  ASSUME NEW tag, NEW row, NEW s, NEW tuple, RightRow(row, s, tuple)
  PROVE  RightCell(Rows(tag, row), Rows(tag, tuple), RelationTy(s))
<1>1. Reads(View(row, s, tuple))
  BY RightReads
<1>2. /\ Rows(tag, row).k = "Rows" /\ Rows(tag, row).tag = tag /\ Rows(tag, row).row = row
      /\ Rows(tag, tuple).k = "Rows" /\ Rows(tag, tuple).tag = tag /\ Rows(tag, tuple).row = tuple
      /\ RelationTy(s).schema = s /\ IsRelationTy(RelationTy(s))
  BY DEF Rows, RelationTy, IsRelationTy
<1> QED
  BY <1>1, <1>2 DEF RightCell, SameValue

(***************************************************************************)
(* One more column, with a value under a new name.                         *)
(***************************************************************************)
LEMMA OneMoreRight ==
  ASSUME NEW row, NEW list, NEW f, RightList(row, list, f), NEW S, list \in Seq(S),
         NEW g, \A p \in DOMAIN list : list[p].name \in DOMAIN g,
         NEW n, \A p \in DOMAIN list : list[p].name # n,
         \A p \in DOMAIN list : g[list[p].name] = f[list[p].name],
         NEW t, NEW c, NEW d, RightCell(c, d, t)
  PROVE  RightList(Append(row, c), Append(list, Column(n, t)), Plus(g, n, d))
<1> DEFINE more == Plus(g, n, d)
           column == Column(n, t)
<1>1. more[n] = d /\ \A m \in DOMAIN g : m # n => more[m] = g[m]
  BY DEF Plus
<1>2. column.name = n /\ column.ty = t
  BY DEF Column
<1> HIDE DEF more, column
<1>3. RightList(row, list, more)
  BY <1>1, RightElsewhere
<1>4. Right(c, column, more)
  BY <1>1, <1>2 DEF Right
<1>5. list \in Seq(S \cup {column}) /\ column \in S \cup {column}
  OBVIOUS
<1>6. RightList(Append(row, c), Append(list, column), more)
  BY ONLY <1>3, <1>4, <1>5, RightAppend
<1> QED
  BY <1>6 DEF more, column

LEMMA ColumnNames ==
  ASSUME NEW s, NEW p \in DOMAIN s
  PROVE  s[p] \in ToSet(s) /\ s[p].name \in NamesOf(s)
BY DEF NamesOf, Names, ToSet

LEMMA NamesTogether ==
  ASSUME NEW h, NEW s, NEW A, ToSet(h) = ToSet(s) \cup A
  PROVE  NamesOf(h) = NamesOf(s) \cup {a.name : a \in A}
<1>1. NamesOf(h) = {a.name : a \in ToSet(h)} /\ NamesOf(s) = {a.name : a \in ToSet(s)}
  BY NamesAre
<1> QED
  BY <1>1

LEMMA ExtendingRight ==
  ASSUME NEW s, Built(s), NEW x, RightRow(x.row, s, x.tuple), NEW n, n \notin NamesOf(s),
         NEW tag, NEW t
  PROVE  RightRow(Extending(x, n, Whole(tag, t)).row, ExtendedList(s, n, t),
                  Extending(x, n, Whole(tag, t)).tuple)
<1> DEFINE c == Whole(tag, t)
           g == Plus(x.tuple, n, c)
           h == Append(s, Column(n, t))
<1>1. Extending(x, n, c).row = Append(x.row, c) /\ Extending(x, n, c).tuple = g
  BY DEF Extending, Both
<1>2. DOMAIN x.tuple = NamesOf(s) /\ RightList(x.row, s, x.tuple)
  BY DEF RightRow
<1>3. RightCell(c, c, t)
  BY WholeRight
<1> HIDE DEF c
<1>4. s \in Seq(ToSet(s))
  BY DEF Built, Listed
<1>5. \A p \in DOMAIN s : s[p].name \in DOMAIN x.tuple /\ s[p].name # n
  BY <1>2, ColumnNames
<1>6. RightList(Append(x.row, c), h, g)
  BY ONLY <1>2, <1>3, <1>4, <1>5, OneMoreRight
<1>7. NamesOf(h) = NamesOf(s) \cup {n}
  <2>1. ToSet(h) = ToSet(s) \cup {Column(n, t)} /\ Column(n, t).name = n
    BY ExtendedIs DEF ExtendedList, Column
  <2> QED
    BY <2>1, NamesTogether DEF h
<1>8. DOMAIN g = NamesOf(h)
  BY <1>2, <1>7 DEF Plus
<1> QED
  BY <1>1, <1>6, <1>8 DEF RightRow, ExtendedList, c

(***************************************************************************)
(* The aggregates of a summary, one after the other after the keys.        *)
(***************************************************************************)
LEMMA AggregatingRight ==
  ASSUME NEW s, Built(s), NEW x, RightRow(x.row, s, x.tuple),
         NEW N, NEW by \in Seq(N), NEW M, NEW aggs \in Seq(M), Distinct(Names(aggs)),
         Summarizing(s, by, aggs), NEW i
  PROVE  RightRow(Aggregating(x, s, by, aggs, i).row, SummaryList(s, by, aggs),
                  Aggregating(x, s, by, aggs, i).tuple)
<1> DEFINE value(k) == Whole(<<i, k>>, AggTy(aggs[k].agg, s).val)
           made == [k \in DOMAIN aggs |-> value(k)]
           keys == ValuesAt(x.row, s, by)
           f == Restrict(x.tuple, ToSet(by))
           d == [n \in NamesOf(aggs) |-> value(Position(aggs, n))]
           g == Merge(f, d)
           left == Picked(s, by)
           right == Computed(s, aggs)
<1>1. /\ Aggregating(x, s, by, aggs, i).row = keys \o made
      /\ Aggregating(x, s, by, aggs, i).tuple = g
  BY DEF Aggregating, Both
<1>2. ToSet(by) \subseteq NamesOf(s) /\ \A k \in DOMAIN aggs : aggs[k].name \notin ToSet(by)
  BY DEF Summarizing
<1>3. RightRow(keys, left, f)
  BY <1>2, ProjectingRight
<1>4. left \in Seq(ToSet(s)) /\ Names(left) = by
  BY <1>2, PickedIs DEF Built
<1>5. DOMAIN aggs = 1..Len(aggs) /\ Len(aggs) \in Nat
  OBVIOUS
<1>6. /\ DOMAIN right = DOMAIN aggs /\ Len(right) = Len(aggs)
      /\ right \in Seq({right[k] : k \in DOMAIN aggs})
      /\ \A k \in DOMAIN aggs : right[k].name = aggs[k].name /\ right[k].ty = AggTy(aggs[k].agg, s).val
  BY <1>5 DEF Computed, Column
<1>7. /\ made \in Seq({made[k] : k \in DOMAIN aggs}) /\ Len(made) = Len(aggs)
      /\ \A k \in DOMAIN aggs : made[k] = value(k)
  <2> HIDE DEF value
  <2>1. made = [k \in DOMAIN aggs |-> made[k]] /\ \A k \in DOMAIN aggs : made[k] = value(k)
    OBVIOUS
  <2> HIDE DEF made
  <2>2. made \in Seq({made[k] : k \in DOMAIN aggs}) /\ Len(made) = Len(aggs)
    BY <1>5, <2>1
  <2> QED
    BY <2>1, <2>2
<1>8. DOMAIN f = ToSet(by) /\ DOMAIN d = NamesOf(aggs)
  BY DEF Restrict
<1>9. ASSUME NEW k \in DOMAIN aggs
      PROVE  aggs[k].name \in NamesOf(aggs) /\ d[aggs[k].name] = value(k)
  <2>1. aggs[k].name \in NamesOf(aggs)
    BY ColumnNames
  <2>2. \A j \in DOMAIN aggs : aggs[j].name = aggs[k].name => j = k
    BY DEF Distinct, Names
  <2>3. Position(aggs, aggs[k].name) = k
    BY <2>2 DEF Position
  <2> QED
    BY <2>1, <2>3
<1>10. \A k \in DOMAIN aggs : RightCell(value(k), value(k), AggTy(aggs[k].agg, s).val)
  BY WholeRight
<1> HIDE DEF value, made, keys, f, d, left, right
<1>11. /\ DOMAIN g = ToSet(by) \cup NamesOf(aggs)
       /\ \A n \in ToSet(by) : g[n] = f[n]
       /\ \A n \in NamesOf(aggs) : n \notin ToSet(by) => g[n] = d[n]
  BY <1>8 DEF Merge
<1>12. NamesOf(left) = ToSet(by)
  BY <1>4 DEF NamesOf
<1> HIDE DEF g
<1>13. RightList(keys, left, g)
  <2>1. \A p \in DOMAIN left : g[left[p].name] = f[left[p].name]
    BY <1>11, <1>12, ColumnNames
  <2> QED
    BY <1>3, <2>1, RightElsewhere DEF RightRow
<1>14. RightList(made, right, g)
  <2>1. ASSUME NEW k \in DOMAIN aggs PROVE Right(made[k], right[k], g)
    <3>1. g[aggs[k].name] = value(k)
      BY <1>2, <1>9, <1>11
    <3>2. RightCell(value(k), value(k), AggTy(aggs[k].agg, s).val)
      BY <1>10
    <3> QED
      BY <1>6, <1>7, <3>1, <3>2 DEF Right
  <2>2. IsList(made)
    BY <1>7 DEF IsList
  <2> QED
    BY <1>6, <1>7, <2>1, <2>2 DEF RightList
<1> DEFINE S == ToSet(s) \cup {right[k] : k \in DOMAIN aggs}
<1>15. left \in Seq(S) /\ right \in Seq(S)
  BY <1>4, <1>6
<1> HIDE DEF S
<1>16. RightList(keys \o made, left \o right, g)
  BY ONLY <1>13, <1>14, <1>15, RightConcat
<1>17. NamesOf(left \o right) = ToSet(by) \cup NamesOf(aggs)
  <2>1. ToSet(left \o right) = ToSet(left) \cup ToSet(right)
    BY <1>15, ConcatIs
  <2>2. NamesOf(left \o right) = NamesOf(left) \cup {a.name : a \in ToSet(right)}
    BY ONLY <2>1, NamesTogether
  <2>3. NamesOf(right) = NamesOf(aggs)
    BY <1>6 DEF NamesOf, Names, ToSet
  <2> QED
    BY <1>12, <2>2, <2>3, NamesAre
<1>18. RightRow(keys \o made, left \o right, g)
  BY <1>11, <1>16, <1>17 DEF RightRow
<1> QED
  BY <1>1, <1>18 DEF SummaryList, left, right

(***************************************************************************)
(* A nest: what is left, and then the rows of what was taken out.          *)
(***************************************************************************)
LEMMA NestingRight ==
  ASSUME NEW s, Built(s), NEW x, RightRow(x.row, s, x.tuple),
         NEW N, NEW attrs \in Seq(N), ToSet(attrs) \subseteq NamesOf(s),
         NEW into, into \notin NamesOf(s) \ ToSet(attrs), NEW tag
  PROVE  RightRow(Nesting(x, s, attrs, into, tag).row, NestedList(s, attrs, into),
                  Nesting(x, s, attrs, into, tag).tuple)
<1> DEFINE values == ValuesAt(x.row, s, attrs)
           others == OtherValues(x.row, s, ToSet(attrs))
           list == Dropping(s, ToSet(attrs))
           sub == Picked(s, attrs)
           part == Restrict(x.tuple, ToSet(attrs))
           f == Without(x.tuple, ToSet(attrs))
           c == Rows(tag, values)
           d == Rows(tag, part)
           g == Plus(f, into, d)
           h == Append(list, Column(into, RelationTy(sub)))
<1>1. /\ Nesting(x, s, attrs, into, tag).row = Append(others, c)
      /\ Nesting(x, s, attrs, into, tag).tuple = g
  BY DEF Nesting, Both
<1>2. RightRow(values, sub, part)
  BY ProjectingRight
<1>3. RightList(others, list, x.tuple)
  BY RightOthers DEF RightRow
<1>4. DOMAIN x.tuple = NamesOf(s)
  BY DEF RightRow
<1>5. DOMAIN f = NamesOf(s) \ ToSet(attrs) /\ \A n \in DOMAIN f : f[n] = x.tuple[n]
  BY <1>4 DEF Without, Restrict
<1>6. list \in Seq(ToSet(s)) /\ ToSet(list) = {a \in ToSet(s) : a.name \notin ToSet(attrs)}
  BY DroppingIs DEF Built, Listed
<1> HIDE DEF values, others, list, sub, part, f
<1>7. RightCell(c, d, RelationTy(sub))
  BY <1>2, RowsRight
<1>8. NamesOf(list) = NamesOf(s) \ ToSet(attrs)
  <2>1. NamesOf(list) = {a.name : a \in ToSet(list)} /\ NamesOf(s) = {a.name : a \in ToSet(s)}
    BY NamesAre
  <2> QED
    BY <1>6, <2>1
<1>9. \A p \in DOMAIN list :
        /\ list[p].name \in DOMAIN f /\ list[p].name # into
        /\ f[list[p].name] = x.tuple[list[p].name]
  BY <1>5, <1>8, ColumnNames
<1> HIDE DEF c, d
<1>10. RightList(Append(others, c), h, g)
  BY ONLY <1>3, <1>6, <1>7, <1>9, OneMoreRight
<1>11. NamesOf(h) = NamesOf(list) \cup {into}
  <2> DEFINE column == Column(into, RelationTy(sub))
  <2>1. column.name = into
    BY DEF Column
  <2> HIDE DEF column
  <2>2. list \in Seq(ToSet(s) \cup {column}) /\ column \in ToSet(s) \cup {column}
    BY <1>6
  <2>3. ToSet(Append(list, column)) = ToSet(list) \cup {column}
    BY <2>2, AppendIs
  <2> QED
    BY <2>1, <2>3, NamesTogether DEF column
<1>12. DOMAIN g = NamesOf(h)
  BY <1>5, <1>8, <1>11 DEF Plus
<1>13. RightRow(Append(others, c), h, g)
  BY <1>10, <1>12 DEF RightRow
<1> QED
  BY <1>1, <1>13 DEF NestedList, list, sub

(***************************************************************************)
(* An unnest opens the value of a nested relation in its place.            *)
(***************************************************************************)
LEMMA OpenRight ==
  ASSUME NEW c, NEW d, NEW t, RightCell(c, d, t), Built(t.schema)
  PROVE  RightRow(RowIn(c), t.schema, TupleIn(d))
<1> DEFINE h == t.schema
<1>1. c.k = d.k /\ c.tag = d.tag /\ c.k \in {"Whole", "Rows"}
  BY DEF RightCell, SameValue
<1>2. CASE c.k = "Rows"
  <2>1. RowIn(c) = c.row /\ TupleIn(d) = d.row
    BY <1>1, <1>2 DEF RowIn, TupleIn
  <2>2. Reads(View(c.row, h, d.row))
    BY <1>2 DEF RightCell
  <2> QED
    BY <2>1, <2>2, ReadsRight
<1>3. CASE c.k = "Whole"
  <2>1. c.ty = t /\ d.ty = t
    BY <1>3 DEF RightCell, SameValue
  <2> DEFINE value(p) == Whole(Append(c.tag, p), h[p].ty)
             row == [p \in DOMAIN h |-> value(p)]
             tuple == [n \in NamesOf(h) |-> Whole(Append(c.tag, Position(h, n)), TypeOf(h, n))]
  <2>2. RowIn(c) = row /\ TupleIn(d) = tuple
    BY <1>1, <1>3, <2>1 DEF RowIn, TupleIn
  <2>3. DOMAIN h = 1..Len(h) /\ Len(h) \in Nat
    BY ListedLen DEF Built
  <2>4. ASSUME NEW p \in DOMAIN h PROVE tuple[h[p].name] = value(p)
    <3>1. Position(h, h[p].name) = p
      BY PositionIs
    <3>2. TypeOf(h, h[p].name) = h[p].ty
      BY <3>1 DEF TypeOf, Find
    <3> QED
      BY <3>1, <3>2, ColumnNames
  <2>5. \A p \in DOMAIN h : RightCell(value(p), value(p), h[p].ty)
    BY WholeRight
  <2>6. DOMAIN tuple = NamesOf(h)
    OBVIOUS
  <2> HIDE DEF value, tuple, h
  <2>7. row = [p \in DOMAIN h |-> row[p]] /\ \A p \in DOMAIN h : row[p] = value(p)
    OBVIOUS
  <2> HIDE DEF row
  <2>8. row \in Seq({row[p] : p \in DOMAIN h}) /\ Len(row) = Len(h)
    BY <2>3, <2>7
  <2>9. \A p \in DOMAIN h : Right(row[p], h[p], tuple)
    BY <2>4, <2>5, <2>7 DEF Right
  <2>10. RightRow(row, h, tuple)
    BY <2>6, <2>8, <2>9 DEF RightRow, RightList, IsList
  <2> QED
    BY <2>2, <2>10 DEF h
<1> QED
  BY <1>1, <1>2, <1>3

LEMMA UnnestingRight ==
  ASSUME NEW s, Built(s), NEW x, RightRow(x.row, s, x.tuple), NEW n \in NamesOf(s),
         Built(TypeOf(s, n).schema), ValidHeader(UnnestedList(s, n))
  PROVE  RightRow(Unnesting(x, s, n).row, UnnestedList(s, n), Unnesting(x, s, n).tuple)
<1> DEFINE sub == TypeOf(s, n).schema
           p == Position(s, n)
           inner == RowIn(x.row[p])
           e == TupleIn(x.tuple[n])
           f == Without(x.tuple, {n})
           g == Merge(f, e)
           left == SubSeq(s, 1, p - 1)
           right == SubSeq(s, p + 1, Len(s))
           before == SubSeq(x.row, 1, p - 1)
           after == SubSeq(x.row, p + 1, Len(s))
           h == UnnestedList(s, n)
<1>1. p \in DOMAIN s /\ s[p].name = n /\ s[p].ty = TypeOf(s, n)
  <2>1. PICK q \in DOMAIN s : s[q].name = n
    BY DEF NamesOf, Names, ToSet
  <2>2. p = q
    BY <2>1, PositionIs
  <2> QED
    BY <2>1, <2>2 DEF TypeOf, Find
<1>2. DOMAIN x.tuple = NamesOf(s) /\ RightList(x.row, s, x.tuple) /\ Len(x.row) = Len(s)
  BY DEF RightRow, RightList
<1>3. Unnesting(x, s, n).row = before \o inner \o after /\ Unnesting(x, s, n).tuple = g
  BY <1>2 DEF Unnesting, Both
<1>4. h = left \o sub \o right
  BY DEF UnnestedList, Splicing
<1>5. RightRow(inner, sub, e)
  <2>1. Right(x.row[p], s[p], x.tuple)
    BY <1>1, <1>2 DEF RightList
  <2>2. RightCell(x.row[p], x.tuple[n], TypeOf(s, n))
    BY <1>1, <2>1 DEF Right
  <2> QED
    BY <2>2, OpenRight
<1> DEFINE S == ToSet(s) \cup ToSet(sub)
<1>6. s \in Seq(S) /\ sub \in Seq(S)
  BY BuiltTogether DEF Built
<1>7. ASSUME NEW i \in DOMAIN s, i # p
      PROVE  s[i].name # n /\ s[i].name \notin NamesOf(sub)
  <2>1. s[i].name # n
    BY <1>1, <1>7 DEF Built, ValidHeader, Distinct, Names
  <2>2. Distinct(Names(s)) /\ Distinct(Names(Splicing(s, p, sub)))
    BY DEF Built, ValidHeader, UnnestedList
  <2>3. \A b \in ToSet(sub) : s[i].name # b.name
    BY <1>1, <1>6, <1>7, <2>2, SplicingIs
  <2> QED
    BY <2>1, <2>3, NamesAre
<1>8. NamesOf(h) = (NamesOf(s) \ {n}) \cup NamesOf(sub)
  <2>1. TypeOf(s, n) = HeaderFn(s)[n]
    BY FoundIs, NamesAre DEF Built
  <2>2. ToSet(h) = Others(s, n) \cup ToSet(sub)
    BY <2>1, UnnestedSet
  <2>3. /\ NamesOf(h) = {a.name : a \in ToSet(h)} /\ NamesOf(s) = {a.name : a \in ToSet(s)}
        /\ NamesOf(sub) = {a.name : a \in ToSet(sub)}
    BY NamesAre
  <2> HIDE DEF h, sub
  <2> QED
    BY <2>2, <2>3 DEF Others
<1>9. DOMAIN f = NamesOf(s) \ {n} /\ \A m \in DOMAIN f : f[m] = x.tuple[m]
  BY <1>2 DEF Without, Restrict
<1>10. DOMAIN e = NamesOf(sub)
  BY <1>5 DEF RightRow
<1>11. p \in 1..Len(s) /\ Len(s) \in Nat /\ DOMAIN s = 1..Len(s)
  BY <1>1, <1>6
<1> HIDE DEF sub, p, inner, e, f, h, S
<1>12. /\ DOMAIN g = NamesOf(h)
       /\ \A i \in DOMAIN s \ {p} : g[s[i].name] = x.tuple[s[i].name]
       /\ \A m \in NamesOf(sub) : m \notin NamesOf(s) \ {n} => g[m] = e[m]
  <2>1. \A i \in DOMAIN s \ {p} : s[i].name \in DOMAIN f
    BY <1>7, <1>9, ColumnNames
  <2> QED
    BY <1>8, <1>9, <1>10, <2>1 DEF Merge
<1> HIDE DEF g
<1>13. RightList(before, left, g)
  <2>1. 1 \in 1..(Len(s) + 1) /\ p - 1 \in (1 - 1)..Len(s) /\ 1 \in Int /\ p - 1 \in Int
    BY <1>11
  <2>2. RightList(before, left, x.tuple)
    BY <1>2, <1>6, <2>1, RightPart
  <2>3. left \in Seq(S) /\ Len(left) = p - 1 /\ \A i \in 1..(p - 1) : left[i] = s[i]
    BY <1>6, <1>11
  <2>4. \A i \in DOMAIN left : left[i] = s[i] /\ i \in DOMAIN s \ {p}
    BY <1>11, <2>3
  <2> HIDE DEF left, before
  <2>5. \A i \in DOMAIN left : g[left[i].name] = x.tuple[left[i].name]
    BY <1>12, <2>4
  <2> QED
    BY <2>2, <2>5, RightElsewhere
<1>14. RightList(after, right, g)
  <2>1. p + 1 \in 1..(Len(s) + 1) /\ Len(s) \in ((p + 1) - 1)..Len(s)
    BY <1>11
  <2>2. RightList(after, right, x.tuple)
    BY <1>2, <1>6, <2>1, RightPart
  <2>3. right \in Seq(S) /\ Len(right) = Len(s) - p /\ \A i \in 1..(Len(s) - p) : right[i] = s[p + i]
    <3> DEFINE m == p + 1
    <3>1. m \in 1..(Len(s) + 1) /\ Len(s) \in (m - 1)..Len(s)
      BY <2>1
    <3>2. /\ Len(s) - m + 1 = Len(s) - p
          /\ \A i \in 1..(Len(s) - p) : m + i - 1 = p + i
      BY <1>11
    <3>3. right = SubSeq(s, m, Len(s))
      OBVIOUS
    <3> HIDE DEF m, right
    <3>4. /\ right \in Seq(S) /\ Len(right) = Len(s) - m + 1
          /\ \A i \in 1..(Len(s) - m + 1) : right[i] = s[m + i - 1]
      BY ONLY <1>6, <3>1, <3>3, PartIs
    <3> QED
      BY <3>2, <3>4
  <2>4. \A i \in DOMAIN right : right[i] = s[p + i] /\ p + i \in DOMAIN s \ {p}
    BY <1>11, <2>3
  <2> HIDE DEF right, after
  <2>5. \A i \in DOMAIN right : g[right[i].name] = x.tuple[right[i].name]
    BY <1>12, <2>4
  <2> QED
    BY <2>2, <2>5, RightElsewhere
<1>15. RightList(inner, sub, g)
  <2>1. ASSUME NEW q \in DOMAIN sub PROVE g[sub[q].name] = e[sub[q].name]
    <3>1. sub[q].name \in NamesOf(sub)
      BY ColumnNames
    <3>2. sub[q].name \notin NamesOf(s) \ {n}
      <4> SUFFICES ASSUME sub[q].name \in NamesOf(s) \ {n} PROVE FALSE
        OBVIOUS
      <4>1. PICK i \in DOMAIN s : s[i].name = sub[q].name
        BY DEF NamesOf, Names, ToSet
      <4> QED
        BY <1>1, <1>7, <3>1, <4>1
    <3> QED
      BY <1>12, <3>1, <3>2
  <2> QED
    BY <1>5, <2>1, RightElsewhere DEF RightRow
<1>16. left \in Seq(S) /\ right \in Seq(S) /\ left \o sub \in Seq(S)
  BY <1>6, <1>11
<1> HIDE DEF left, right, before, after
<1>17. RightList(before \o inner, left \o sub, g)
  BY ONLY <1>6, <1>13, <1>15, <1>16, RightConcat
<1>18. RightList(before \o inner \o after, left \o sub \o right, g)
  BY ONLY <1>14, <1>16, <1>17, RightConcat
<1>19. RightRow(before \o inner \o after, h, g)
  BY <1>4, <1>12, <1>18 DEF RightRow
<1> QED
  BY <1>3, <1>19 DEF h

(***************************************************************************)
(* A modify puts the rows of the other operand in the place of the value.  *)
(***************************************************************************)
LEMMA ModifyingRight ==
  ASSUME NEW s, Built(s), NEW x, RightRow(x.row, s, x.tuple), NEW n \in NamesOf(s),
         NEW sub, NEW y, RightRow(y.row, sub, y.tuple), NEW tag
  PROVE  RightRow(Modifying(x, s, n, y, tag).row, ModifiedList(s, n, sub),
                  Modifying(x, s, n, y, tag).tuple)
<1> DEFINE p == Position(s, n)
           c == Rows(tag, y.row)
           d == Rows(tag, y.tuple)
           row == [x.row EXCEPT ![p] = c]
           g == [x.tuple EXCEPT ![n] = d]
           t == RelationTy(sub)
           h == ModifiedList(s, n, sub)
<1>1. Modifying(x, s, n, y, tag).row = row /\ Modifying(x, s, n, y, tag).tuple = g
  BY DEF Modifying, Both
<1>2. p \in DOMAIN s /\ s[p].name = n /\ \A q \in DOMAIN s : s[q].name = n => q = p
  <2>1. PICK q \in DOMAIN s : s[q].name = n
    BY DEF NamesOf, Names, ToSet
  <2>2. p = q
    BY <2>1, PositionIs
  <2>3. \A r \in DOMAIN s : s[r].name = n => r = p
    BY PositionIs
  <2> QED
    BY <2>1, <2>2, <2>3
<1>3. DOMAIN x.tuple = NamesOf(s) /\ RightList(x.row, s, x.tuple)
  BY DEF RightRow
<1>4. RightCell(c, d, t)
  BY RowsRight
<1>5. DOMAIN s = 1..Len(s) /\ Len(s) \in Nat
  BY ListedLen DEF Built
<1>6. /\ DOMAIN h = DOMAIN s /\ Len(h) = Len(s)
      /\ h[p].name = n /\ h[p].ty = t
      /\ \A q \in DOMAIN s : q # p => h[q] = s[q]
      /\ \A q \in DOMAIN s : h[q].name = s[q].name
  BY <1>2, <1>5 DEF ModifiedList, Column
<1>7. NamesOf(h) = NamesOf(s)
  BY <1>6 DEF NamesOf, Names
<1> HIDE DEF p, c, d, t, h
<1>8. g[n] = d /\ DOMAIN g = NamesOf(s) /\ \A m \in NamesOf(s) : m # n => g[m] = x.tuple[m]
  BY <1>3
<1>9. PICK T : x.row \in Seq(T)
  BY <1>3 DEF RightList, IsList
<1>10. Len(x.row) = Len(s)
  BY <1>3 DEF RightList
<1>11. row \in Seq(T \cup {c}) /\ Len(row) = Len(s) /\ row[p] = c
       /\ \A q \in DOMAIN s : q # p => row[q] = x.row[q]
  <2>1. x.row \in [1..Len(s) -> T \cup {c}]
    BY <1>5, <1>9, <1>10
  <2>2. row \in [1..Len(s) -> T \cup {c}]
    BY <2>1
  <2>3. row[p] = c /\ \A q \in DOMAIN s : q # p => row[q] = x.row[q]
    BY <1>2, <1>5, <2>1
  <2> HIDE DEF row
  <2>4. row \in Seq(T \cup {c}) /\ Len(row) = Len(s)
    BY <1>5, <2>2
  <2> QED
    BY <2>3, <2>4
<1> HIDE DEF row, g
<1>12. ASSUME NEW q \in DOMAIN s PROVE Right(row[q], h[q], g)
  <2>1. CASE q = p
    BY <1>4, <1>6, <1>8, <1>11, <2>1 DEF Right
  <2>2. CASE q # p
    <3>1. row[q] = x.row[q] /\ h[q] = s[q] /\ s[q].name # n /\ s[q].name \in NamesOf(s)
      BY <1>2, <1>6, <1>11, <2>2, ColumnNames
    <3>2. g[s[q].name] = x.tuple[s[q].name]
      BY <1>8, <3>1
    <3>3. Right(x.row[q], s[q], x.tuple)
      BY <1>3 DEF RightList
    <3> QED
      BY <3>1, <3>2, <3>3 DEF Right
  <2> QED
    BY <2>1, <2>2
<1>13. RightRow(row, h, g)
  BY <1>6, <1>7, <1>8, <1>11, <1>12 DEF RightRow, RightList, IsList
<1> QED
  BY <1>1, <1>13 DEF h

(***************************************************************************)
(* A row of a product or a join: what is dropped from the right side is    *)
(* what the left side has.                                                 *)
(***************************************************************************)
LEMMA PairingRight ==
  ASSUME NEW l, Built(l), NEW r, Built(r), NEW x, RightRow(x.row, l, x.tuple),
         NEW y, RightRow(y.row, r, y.tuple),
         NEW names, NamesOf(r) \cap names = NamesOf(r) \cap NamesOf(l)
  PROVE  RightRow(Pairing(x, y, r, names).row, l \o Dropping(r, names), Pairing(x, y, r, names).tuple)
<1> DEFINE others == OtherValues(y.row, r, names)
           rest == Dropping(r, names)
           g == Merge(x.tuple, y.tuple)
<1>1. Pairing(x, y, r, names).row = x.row \o others /\ Pairing(x, y, r, names).tuple = g
  BY DEF Pairing, Both
<1>2. /\ DOMAIN x.tuple = NamesOf(l) /\ RightList(x.row, l, x.tuple)
      /\ DOMAIN y.tuple = NamesOf(r) /\ RightList(y.row, r, y.tuple)
  BY DEF RightRow
<1>3. /\ DOMAIN g = NamesOf(l) \cup NamesOf(r)
      /\ \A n \in NamesOf(l) : g[n] = x.tuple[n]
      /\ \A n \in NamesOf(r) : n \notin NamesOf(l) => g[n] = y.tuple[n]
  BY <1>2 DEF Merge
<1>4. RightList(others, rest, y.tuple)
  BY <1>2, RightOthers
<1> DEFINE S == ToSet(l) \cup ToSet(r)
<1>5. l \in Seq(S) /\ r \in Seq(S)
  BY BuiltTogether DEF Built
<1> HIDE DEF S
<1>6. rest \in Seq(S) /\ ToSet(rest) = {a \in ToSet(r) : a.name \notin names}
  BY <1>5, DroppingIs
<1> HIDE DEF g, rest, others
<1>7. NamesOf(rest) = NamesOf(r) \ names
  <2>1. NamesOf(rest) = {a.name : a \in ToSet(rest)} /\ NamesOf(r) = {a.name : a \in ToSet(r)}
    BY NamesAre
  <2> QED
    BY <1>6, <2>1
<1>8. RightList(x.row, l, g)
  <2>1. \A p \in DOMAIN l : g[l[p].name] = x.tuple[l[p].name]
    BY <1>3, ColumnNames
  <2> QED
    BY <1>2, <2>1, RightElsewhere
<1>9. RightList(others, rest, g)
  <2>1. ASSUME NEW p \in DOMAIN rest PROVE g[rest[p].name] = y.tuple[rest[p].name]
    <3>1. rest[p].name \in NamesOf(r) \ names
      BY <1>7, ColumnNames
    <3> QED
      BY <1>3, <3>1
  <2> QED
    BY <1>4, <2>1, RightElsewhere
<1>10. RightList(x.row \o others, l \o rest, g)
  BY ONLY <1>5, <1>6, <1>8, <1>9, RightConcat
<1>11. NamesOf(l \o rest) = NamesOf(l) \cup NamesOf(r)
  <2>1. ToSet(l \o rest) = ToSet(l) \cup ToSet(rest)
    BY <1>5, <1>6, ConcatIs
  <2>2. NamesOf(l \o rest) = NamesOf(l) \cup {a.name : a \in ToSet(rest)}
    BY ONLY <2>1, NamesTogether
  <2>3. NamesOf(l \o rest) = NamesOf(l) \cup (NamesOf(r) \ names)
    BY <1>7, <2>2, NamesAre
  <2> QED
    BY <2>3
<1>12. RightRow(x.row \o others, l \o rest, g)
  BY <1>3, <1>10, <1>11 DEF RightRow
<1> QED
  BY <1>1, <1>12 DEF rest

-----------------------------------------------------------------------------

(***************************************************************************)
(* The rows of one operator, from those of its operands.                   *)
(***************************************************************************)
RowOf(i, x) == RightRow(x.row, Schema(i), x.tuple)

LEMMA SourceRight ==
  ASSUME IInv, NEW i \in DOMAIN ops, NEW x \in SourceRows(i)
  PROVE  RowOf(i, x)
<1> DEFINE t == RelationTy(Schema(i))
           table == Whole(<<i>>, t)
<1>1. x.row = RowIn(table) /\ x.tuple = TupleIn(table)
  BY DEF SourceRows, Both
<1>2. Built(Schema(i))
  BY DEF IInv, TypeOK, Closed, Schema
<1>3. t.schema = Schema(i)
  BY DEF RelationTy
<1>4. RightCell(table, table, t)
  BY WholeRight
<1> HIDE DEF t, table
<1>5. RightRow(RowIn(table), t.schema, TupleIn(table))
  BY <1>2, <1>3, <1>4, OpenRight
<1> QED
  BY <1>1, <1>3, <1>5 DEF RowOf

LEMMA OneRowRight ==
  ASSUME IInv, NEW i \in DOMAIN ops, ops[i].kind \in UnaryKinds,
         NEW x, RightRow(x.row, Input(i, 1), x.tuple)
  PROVE  RowOf(i, OneRow(i, x))
<1> DEFINE s == Input(i, 1)
           h == Schema(i)
           kind == ops[i].kind
           arg == ops[i].arg
           y == OneRow(i, x)
<1>1. MadeOne(kind, arg, s, h) /\ s \in schemas /\ Closed(schemas)
  BY OneOf DEF IInv
<1>2. Built(s)
  BY <1>1 DEF Closed
<1>3. y = CASE kind \in {"Restrict", "Order", "Limit"} -> x
            [] kind = "Project" -> Projecting(x, s, arg.attrs)
            [] kind = "Rename" -> Renaming(x, arg.from, arg.to)
            [] kind = "Extend" -> Extending(x, arg.name, Whole(<<i>>, InferTy(arg.expr, s).val))
            [] kind = "Summarize" -> Aggregating(x, s, arg.by, arg.aggs, i)
            [] kind = "Nest" -> Nesting(x, s, arg.attrs, arg.into, <<i>>)
            [] kind = "Unnest" -> Unnesting(x, s, arg.path.steps[1].name)
  BY DEF OneRow
<1>4. RightRow(x.row, s, x.tuple)
  OBVIOUS
<1> HIDE DEF s, h, kind, arg, y
<1> SUFFICES RightRow(y.row, h, y.tuple)
  BY DEF RowOf, h, y
<1>5. CASE /\ kind = "Project" /\ arg.attrs \in AttributeSets
           /\ Gives(ProjectHeader(s, arg.attrs), h)
  <2>1. ToSet(arg.attrs) \subseteq NamesOf(s) /\ h = Picked(s, arg.attrs)
    BY <1>1, <1>5, ProjectSafe
  <2>2. arg.attrs \in Seq(Name)
    BY <1>5, AttributesAre
  <2>3. y = Projecting(x, s, arg.attrs)
    BY <1>3, <1>5
  <2> QED
    BY <1>2, <1>4, <2>1, <2>2, <2>3, ProjectingRight
<1>6. CASE kind = "Restrict" /\ Gives(RestrictHeader(s, arg.predicate), h)
  <2>1. h = s
    BY <1>1, <1>6, RestrictSafe
  <2>2. y = x
    BY <1>3, <1>6
  <2> QED
    BY <1>4, <2>1, <2>2
<1>7. CASE /\ kind = "Rename" /\ arg.from \in Name /\ arg.to \in Name
           /\ Gives(RenameHeader(s, arg.from, arg.to), h)
  <2>1. Renames(s, arg.from, arg.to) /\ h = RenamedList(s, arg.from, arg.to)
    BY <1>1, <1>7, RenameSafe
  <2>2. y = Renaming(x, arg.from, arg.to)
    BY <1>3, <1>7
  <2> QED
    BY <1>2, <1>4, <1>7, <2>1, <2>2, RenamingRight
<1>8. CASE /\ kind = "Extend" /\ arg.name \in Name /\ arg.expr \in Expr
           /\ Gives(ExtendHeader(s, arg.name, arg.expr), h)
  <2>1. Extends(s, arg.name, arg.expr) /\ h = ExtendedList(s, arg.name, InferTy(arg.expr, s).val)
    BY <1>1, <1>8, ExtendSafe
  <2>2. arg.name \notin NamesOf(s)
    BY <2>1, NamesAre DEF Extends
  <2>3. y = Extending(x, arg.name, Whole(<<i>>, InferTy(arg.expr, s).val))
    BY <1>3, <1>8
  <2> QED
    BY <1>2, <1>4, <2>1, <2>2, <2>3, ExtendingRight
<1>9. CASE /\ kind = "Summarize" /\ arg.by \in GroupingSets /\ arg.aggs \in NamedAggSets
           /\ Gives(SummarizeHeader(s, arg.by, arg.aggs), h)
  <2>1. Summarizing(s, arg.by, arg.aggs) /\ h = SummaryList(s, arg.by, arg.aggs)
    BY <1>1, <1>9, SummarizeSafe
  <2>2. arg.by \in Seq(Name) /\ arg.aggs \in Seq(ToSet(arg.aggs)) /\ Distinct(Names(arg.aggs))
    BY <1>9, KeysAre, AggsAre
  <2>3. y = Aggregating(x, s, arg.by, arg.aggs, i)
    BY <1>3, <1>9
  <2> QED
    BY <1>2, <1>4, <2>1, <2>2, <2>3, AggregatingRight
<1>10. CASE kind \in {"Order", "Limit"} /\ h = s
  <2>1. y = x
    BY <1>3, <1>10
  <2> QED
    BY <1>4, <1>10, <2>1
<1>11. CASE kind = "Unnest" /\ Gives(UnnestHeader(s, arg.path), h)
  <2> DEFINE n == arg.path.steps[1].name
  <2>1. Reaches(s, arg.path) /\ h = UnnestedList(s, n) /\ Safe(schemas, h)
    BY <1>1, <1>11, UnnestSafe
  <2>2. n \in NamesOf(s) /\ Built(HeaderFn(s)[n].schema)
    BY <1>1, <2>1, ReachedIs
  <2>3. y = Unnesting(x, s, n)
    BY <1>3, <1>11
  <2> HIDE DEF n
  <2>4. TypeOf(s, n) = HeaderFn(s)[n]
    BY <1>2, <2>2, FoundIs, NamesAre DEF Built
  <2>5. ValidHeader(UnnestedList(s, n))
    BY <2>1 DEF Safe, Built
  <2> QED
    BY <1>2, <1>4, <2>1, <2>2, <2>3, <2>4, <2>5, UnnestingRight
<1>12. CASE /\ kind = "Nest" /\ arg.attrs \in AttributeSets /\ arg.into \in Name
            /\ Gives(NestHeader(s, arg.attrs, arg.into), h)
  <2>1. /\ ToSet(arg.attrs) \subseteq NamesOf(s)
        /\ arg.into \notin NamesOf(s) \ ToSet(arg.attrs)
        /\ h = NestedList(s, arg.attrs, arg.into)
    BY <1>1, <1>12, NestSafe
  <2>2. arg.attrs \in Seq(Name)
    BY <1>12, AttributesAre
  <2>3. y = Nesting(x, s, arg.attrs, arg.into, <<i>>)
    BY <1>3, <1>12
  <2> QED
    BY <1>2, <1>4, <2>1, <2>2, <2>3, NestingRight
<1> QED
  BY <1>1, <1>5, <1>6, <1>7, <1>8, <1>9, <1>10, <1>11, <1>12 DEF MadeOne

LEMMA TwoRowsRight ==
  ASSUME IInv, NEW i \in DOMAIN ops, ops[i].kind \in BinaryKinds,
         NEW x, RightRow(x.row, Input(i, 1), x.tuple),
         NEW y, RightRow(y.row, Input(i, 2), y.tuple),
         NEW z \in TwoRows(i, x, y)
  PROVE  RowOf(i, z)
<1> DEFINE l == Input(i, 1)
           r == Input(i, 2)
           h == Schema(i)
           kind == ops[i].kind
           arg == ops[i].arg
<1>1. MadeTwo(kind, arg, l, r, h) /\ l \in schemas /\ r \in schemas /\ Closed(schemas)
  BY TwoOf DEF IInv
<1>2. Built(l) /\ Built(r)
  BY <1>1 DEF Closed
<1>3. z \in CASE kind \in {"Union", "Intersect"} -> {x, y}
              [] kind = "Difference" -> {x}
              [] kind = "Modify" -> {Modifying(x, l, arg.path.steps[1].name, y, <<i>>)}
              [] kind = "Product" -> {Pairing(x, y, r, {})}
              [] kind = "Join" ->
                   {Pairing(x, y, r, IF arg.on.k = "Natural" THEN NamesOf(l) ELSE {})}
  BY DEF TwoRows
<1>4. RightRow(x.row, l, x.tuple) /\ RightRow(y.row, r, y.tuple)
  OBVIOUS
<1> HIDE DEF l, r, h, kind, arg
<1> SUFFICES RightRow(z.row, h, z.tuple)
  BY DEF RowOf, h
<1>5. CASE kind = "Modify" /\ Gives(ModifyHeader(l, arg.path, r), h)
  <2> DEFINE n == arg.path.steps[1].name
  <2>1. Reaches(l, arg.path) /\ h = ModifiedList(l, n, r)
    BY <1>1, <1>5, ModifySafe
  <2>2. n \in NamesOf(l)
    BY <2>1 DEF Reaches
  <2>3. z = Modifying(x, l, n, y, <<i>>)
    BY <1>3, <1>5
  <2> HIDE DEF n
  <2> QED
    BY <1>2, <1>4, <2>1, <2>2, <2>3, ModifyingRight
<1>6. CASE kind \in {"Union", "Intersect", "Difference"} /\ Gives(SetOpHeader(l, r), h)
  <2>1. h = l /\ h = r
    BY <1>6 DEF Gives, SetOpHeader, Ok, Err
  <2>2. z = x \/ z = y
    BY <1>3, <1>6
  <2> QED
    BY <1>4, <2>1, <2>2
<1>7. ASSUME Shared(l, r) = {}, h = l \o r, z = Pairing(x, y, r, {})
      PROVE  RightRow(z.row, h, z.tuple)
  <2>1. NamesOf(r) \cap {} = NamesOf(r) \cap NamesOf(l)
    BY <1>7 DEF Shared
  <2>2. Dropping(r, {}) = r
    BY <1>2, DroppingNothing DEF Built, Listed
  <2>3. RightRow(z.row, l \o Dropping(r, {}), z.tuple)
    BY <1>2, <1>4, <1>7, <2>1, PairingRight
  <2> QED
    BY <1>7, <2>2, <2>3
<1>8. CASE kind = "Product" /\ Gives(ConcatDisjoint(l, r), h)
  <2>1. Shared(l, r) = {} /\ h = l \o r
    BY <1>1, <1>8, ConcatSafe
  <2>2. z = Pairing(x, y, r, {})
    BY <1>3, <1>8
  <2> QED
    BY <1>7, <2>1, <2>2
<1>9. CASE /\ kind = "Join" /\ KnownOn(arg.on)
           /\ ~BecomesProduct(l, r, arg.kind, arg.on)
           /\ Gives(JoinHeader(l, r, arg.kind, arg.on), h)
  <2>1. /\ arg.on.k = "Natural" => Agreeing(l, r) /\ h = JoinedList(l, r)
        /\ arg.on.k # "Natural" => Shared(l, r) = {} /\ h = l \o r
    BY <1>1, <1>9, JoinSafe
  <2>2. z = Pairing(x, y, r, IF arg.on.k = "Natural" THEN NamesOf(l) ELSE {})
    BY <1>3, <1>9
  <2>3. CASE arg.on.k = "Natural"
    <3>1. z = Pairing(x, y, r, NamesOf(l)) /\ h = l \o Dropping(r, NamesOf(l))
      BY <2>1, <2>2, <2>3 DEF JoinedList
    <3> QED
      BY <1>2, <1>4, <3>1, PairingRight
  <2>4. CASE arg.on.k # "Natural"
    BY <1>7, <2>1, <2>2, <2>4
  <2> QED
    BY <2>3, <2>4
<1> QED
  BY <1>1, <1>5, <1>6, <1>8, <1>9 DEF MadeTwo

-----------------------------------------------------------------------------

(***************************************************************************)
(* An operator takes its rows from operators built before it: the rows of  *)
(* the first n of them are a function, and there is one for every n.       *)
(***************************************************************************)
RowsTo(rows, n) == rows = [i \in 1..n |-> RowsFrom(rows, i)]

LEMMA OperandsBefore ==
  ASSUME TypeOK, NEW i \in DOMAIN ops
  PROVE  /\ i \in 1..Len(ops) /\ Len(ops) \in Nat
         /\ Len(ops[i].inputs) = Arity(ops[i].kind)
         /\ Arity(ops[i].kind) \in {0, 1, 2}
         /\ Arity(ops[i].kind) \in {1, 2} => ops[i].inputs[1] \in 1..(i - 1)
         /\ Arity(ops[i].kind) = 2 => ops[i].inputs[2] \in 1..(i - 1)
<1>1. i \in 1..Len(ops) /\ Len(ops) \in Nat
  BY DEF TypeOK
<1>2. /\ DOMAIN ops[i].inputs = 1..Arity(ops[i].kind)
      /\ \A k \in DOMAIN ops[i].inputs : ops[i].inputs[k] \in 1..(i - 1)
  BY DEF TypeOK
<1>3. Arity(ops[i].kind) \in {0, 1, 2}
  BY DEF Arity
<1> QED
  BY <1>1, <1>2, <1>3

LEMMA RowsFromBefore ==
  ASSUME TypeOK, NEW i \in DOMAIN ops, NEW f, NEW g, \A j \in 1..(i - 1) : f[j] = g[j]
  PROVE  RowsFrom(f, i) = RowsFrom(g, i)
<1> DEFINE inputs == ops[i].inputs
<1>1. /\ Len(inputs) \in {0, 1, 2}
      /\ Len(inputs) \in {1, 2} => f[inputs[1]] = g[inputs[1]]
      /\ Len(inputs) = 2 => f[inputs[2]] = g[inputs[2]]
  BY OperandsBefore
<1> HIDE DEF inputs
<1>2. CASE Len(inputs) = 0
  BY <1>2 DEF RowsFrom, inputs
<1>3. CASE Len(inputs) = 1
  <2> DEFINE Made(P) == {OneRow(i, x) : x \in P}
  <2>1. \A rows : RowsFrom(rows, i) = Made(rows[inputs[1]])
    BY <1>3 DEF RowsFrom, inputs
  <2> HIDE DEF Made
  <2>2. f[inputs[1]] = g[inputs[1]]
    BY <1>1, <1>3
  <2> QED
    BY <2>1, <2>2
<1>4. CASE Len(inputs) = 2
  <2> DEFINE Met(P, Q) == UNION {TwoRows(i, x, y) : x \in P, y \in Q}
  <2>1. \A rows : RowsFrom(rows, i) = Met(rows[inputs[1]], rows[inputs[2]])
    BY <1>4 DEF RowsFrom, inputs
  <2> HIDE DEF Met
  <2>2. f[inputs[1]] = g[inputs[1]] /\ f[inputs[2]] = g[inputs[2]]
    BY <1>1, <1>4
  <2> QED
    BY <2>1, <2>2
<1> QED
  BY <1>1, <1>2, <1>3, <1>4

LEMMA RowsExist ==
  ASSUME TypeOK, NEW n \in 0..Len(ops)
  PROVE  \E rows : RowsTo(rows, n)
<1> DEFINE Bad == {m \in 0..Len(ops) : ~\E rows : RowsTo(rows, m)}
<1> SUFFICES ASSUME Bad # {} PROVE FALSE
  OBVIOUS
<1>0. Len(ops) \in Nat /\ DOMAIN ops = 1..Len(ops)
  BY DEF TypeOK
<1>1. PICK m \in Bad : \A j \in Bad : m <= j
  <2>1. Bad \subseteq Nat
    BY <1>0
  <2> QED
    BY <2>1, LeastInSeq
<1>2. CASE m = 0
  <2> DEFINE f == [i \in 1..0 |-> {}]
  <2>1. f = [i \in 1..0 |-> RowsFrom(f, i)]
    OBVIOUS
  <2> HIDE DEF f
  <2>2. RowsTo(f, 0)
    BY <2>1 DEF RowsTo
  <2> QED
    BY <1>2, <2>2
<1>3. CASE m # 0
  <2>1. m - 1 \in 0..Len(ops) /\ ~(m <= m - 1) /\ m \in DOMAIN ops
    BY <1>0, <1>3
  <2>2. PICK f : RowsTo(f, m - 1)
    BY <1>1, <2>1
  <2> DEFINE g == [i \in 1..m |-> RowsFrom(f, i)]
  <2>3. ASSUME NEW i \in 1..(m - 1) PROVE g[i] = f[i]
    <3>1. f[i] = RowsFrom(f, i)
      BY <2>2 DEF RowsTo
    <3>2. i \in 1..m
      BY <1>0, <2>1
    <3>3. g[i] = RowsFrom(f, i)
      BY <3>2
    <3> HIDE DEF g
    <3> QED
      BY <3>1, <3>3
  <2>4. ASSUME NEW i \in 1..m PROVE g[i] = RowsFrom(g, i)
    <3>1. g[i] = RowsFrom(f, i)
      OBVIOUS
    <3>2. i \in DOMAIN ops
      BY <1>0, <2>1
    <3>3. \A j \in 1..(i - 1) : f[j] = g[j]
      <4>1. \A j \in 1..(i - 1) : j \in 1..(m - 1)
        BY <1>0, <2>1
      <4> HIDE DEF g
      <4> QED
        BY <2>3, <4>1
    <3> HIDE DEF g
    <3>4. RowsFrom(f, i) = RowsFrom(g, i)
      BY ONLY TypeOK, <3>2, <3>3, RowsFromBefore
    <3> QED
      BY <3>1, <3>4
  <2>5. g = [i \in 1..m |-> g[i]]
    OBVIOUS
  <2> HIDE DEF g
  <2>6. RowsTo(g, m)
    BY <2>4, <2>5 DEF RowsTo
  <2> QED
    BY <2>6
<1> QED
  BY <1>2, <1>3

LEMMA AllRowsAre ==
  ASSUME TypeOK, NEW i \in DOMAIN ops
  PROVE  AllRows[i] = RowsFrom(AllRows, i)
<1> DEFINE rows == AllRows
<1>1. DOMAIN ops = 1..Len(ops) /\ Len(ops) \in Nat
  BY DEF TypeOK
<1>2. \E f : RowsTo(f, Len(ops))
  BY <1>1, RowsExist
<1>3. AllRows = CHOOSE f : f = [j \in DOMAIN ops |-> RowsFrom(f, j)]
  BY DEF AllRows
<1>4. RowsTo(rows, Len(ops))
  BY <1>1, <1>2, <1>3 DEF RowsTo
<1> HIDE DEF rows
<1>5. rows[i] = RowsFrom(rows, i)
  BY <1>1, <1>4 DEF RowsTo
<1> QED
  BY <1>5 DEF rows

(***************************************************************************)
(* Every row of every operator is right for the header the operator        *)
(* caches: the first one with a wrong row would have made it from rows     *)
(* that are right.                                                         *)
(***************************************************************************)
AllRight(i) == \A x \in AllRows[i] : RowOf(i, x)

LEMMA NextRight ==
  ASSUME IInv, NEW i \in DOMAIN ops, \A j \in 1..(i - 1) : AllRight(j)
  PROVE  AllRight(i)
<1> DEFINE inputs == ops[i].inputs
           kind == ops[i].kind
<1>0. TypeOK
  BY DEF IInv
<1>1. /\ Len(inputs) = Arity(kind)
      /\ Arity(kind) \in {1, 2} => inputs[1] \in 1..(i - 1)
      /\ Arity(kind) = 2 => inputs[2] \in 1..(i - 1)
  BY <1>0, OperandsBefore
<1>2. AllRows[i] = RowsFrom(AllRows, i)
  BY <1>0, AllRowsAre
<1>3. kind \in {"Source"} \cup UnaryKinds \cup BinaryKinds
  BY <1>0 DEF TypeOK
<1>4. CASE kind = "Source"
  <2>1. Len(inputs) = 0
    BY <1>1, <1>4 DEF Arity, UnaryKinds, BinaryKinds
  <2>2. AllRows[i] = SourceRows(i)
    BY <1>2, <2>1 DEF RowsFrom
  <2> QED
    BY <2>2, SourceRight DEF AllRight
<1>5. CASE kind \in UnaryKinds
  <2>1. Len(inputs) = 1 /\ inputs[1] \in 1..(i - 1)
    BY <1>1, <1>5 DEF Arity
  <2>2. AllRows[i] = {OneRow(i, x) : x \in AllRows[inputs[1]]}
    BY <1>2, <2>1 DEF RowsFrom
  <2>3. ASSUME NEW x \in AllRows[inputs[1]] PROVE RowOf(i, OneRow(i, x))
    <3>1. RowOf(inputs[1], x)
      BY <2>1 DEF AllRight
    <3>2. RightRow(x.row, Input(i, 1), x.tuple)
      BY <3>1 DEF RowOf, Input
    <3> QED
      BY <1>5, <3>2, OneRowRight
  <2> QED
    BY <2>2, <2>3 DEF AllRight
<1>6. CASE kind \in BinaryKinds
  <2>1. Len(inputs) = 2 /\ inputs[1] \in 1..(i - 1) /\ inputs[2] \in 1..(i - 1)
    BY <1>1, <1>6 DEF Arity, UnaryKinds, BinaryKinds
  <2>2. AllRows[i] = UNION {TwoRows(i, x, y) : x \in AllRows[inputs[1]], y \in AllRows[inputs[2]]}
    BY <1>2, <2>1 DEF RowsFrom
  <2>3. ASSUME NEW x \in AllRows[inputs[1]], NEW y \in AllRows[inputs[2]], NEW z \in TwoRows(i, x, y)
        PROVE  RowOf(i, z)
    <3>1. RowOf(inputs[1], x) /\ RowOf(inputs[2], y)
      BY <2>1 DEF AllRight
    <3>2. RightRow(x.row, Input(i, 1), x.tuple) /\ RightRow(y.row, Input(i, 2), y.tuple)
      BY <3>1 DEF RowOf, Input
    <3> QED
      BY <1>6, <2>3, <3>2, TwoRowsRight
  <2> QED
    BY <2>2, <2>3 DEF AllRight
<1> QED
  BY <1>3, <1>4, <1>5, <1>6

LEMMA EveryRowRight ==
  ASSUME IInv, NEW i \in DOMAIN ops
  PROVE  AllRight(i)
<1> DEFINE Bad == {j \in DOMAIN ops : ~AllRight(j)}
<1> SUFFICES ASSUME Bad # {} PROVE FALSE
  OBVIOUS
<1>1. DOMAIN ops = 1..Len(ops) /\ Len(ops) \in Nat
  BY DEF IInv, TypeOK
<1>2. Bad \subseteq Nat
  BY <1>1
<1>3. PICK m \in Bad : \A j \in Bad : m <= j
  BY <1>2, LeastInSeq
<1>4. ASSUME NEW j \in 1..(m - 1) PROVE AllRight(j)
  <2>1. j \in DOMAIN ops /\ ~(m <= j)
    BY <1>1
  <2> QED
    BY <1>3, <2>1
<1>5. AllRight(m)
  BY <1>4, NextRight
<1> QED
  BY <1>5

LEMMA EveryRowReads ==
  ASSUME IInv, NEW i \in DOMAIN ops, NEW x \in AllRows[i]
  PROVE  ReadsBack(View(x.row, Schema(i), x.tuple))
<1>1. RowOf(i, x)
  BY EveryRowRight DEF AllRight
<1>2. Reads(View(x.row, Schema(i), x.tuple))
  BY <1>1, RightReads DEF RowOf
<1>3. Len(ops) \in Nat
  BY DEF IInv, TypeOK
<1> QED
  BY <1>2, <1>3, ReadsAllTheWay

LEMMA RowsRead == IInv => RowsReadBack
<1> SUFFICES ASSUME IInv, ops # <<>>, NEW x \in AllRows[Len(ops)]
             PROVE  ReadsBack(View(x.row, Schema(Len(ops)), x.tuple))
  BY DEF RowsReadBack
<1>1. DOMAIN ops = 1..Len(ops) /\ Len(ops) \in Nat /\ ops = [i \in 1..Len(ops) |-> ops[i]]
  BY DEF IInv, TypeOK
<1>2. Len(ops) \in DOMAIN ops
  BY <1>1
<1> QED
  BY <1>2, EveryRowReads

(***************************************************************************)
(* Rows carry no names (row.rs:1-4): read by position through the header   *)
(* it caches, a row of the newest operator, and so of every operator once  *)
(* built, is the tuple the algebra gives by name, value for value and at   *)
(* any depth of nesting, whatever it passed through (op.rs:349-983).       *)
(***************************************************************************)
THEOREM RowsAlwaysReadBack == Spec => []RowsReadBack
  BY RowsRead, Invariance, PTL
============================================================================
