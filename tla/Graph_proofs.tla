---------------------------- MODULE Graph_proofs ----------------------------
(***************************************************************************)
(* Proofs about the two graphs of the main view, for any number of         *)
(* commits, of parents and of colours: the new graph keeps a lane for      *)
(* every commit that is awaited and for no other (it implements            *)
(* GraphLanes), its columns have no hole, its table of colours is exact,   *)
(* and the lanes that it does not move are drawn without a gap; the old    *)
(* graph awaits no other commit and loses one only under a merge.          *)
(*                                                                         *)
(* The loops of the code over columns, parents and colours are recursive   *)
(* functions of the model.  What they compute is proved from the columns   *)
(* or the rounds at which a claim would fail first.                        *)
(***************************************************************************)
EXTENDS Graph, Rounds_proofs, FiniteSetTheorems

\* What the rows are made of.
Ids == 0 .. WorkTree
Columns == [id : Ids, boundary : BOOLEAN]
LaneColumns == [id : Ids, shiftLeft : BOOLEAN]

LEMMA IdsAreNaturals == WorkTree \in Nat \ {0} /\ NoId \in Ids /\ Ids \subseteq Nat
BY CommitsAssumption DEF WorkTree, Ids, NoId
-----------------------------------------------------------------------------
(***************************************************************************)
(* Recursive functions over columns.                                       *)
(***************************************************************************)
\* Least finds it.
LEMMA LeastIsLeast ==
  ASSUME NEW S, S \subseteq Nat, S # {}
  PROVE  /\ Least(S) \in S
         /\ \A k \in S : Least(S) <= k
BY LeastNatural DEF Least

\* f takes, from the right, the value of the next column on skip and a
\* column's own value elsewhere.
Chain(f, n, skip, own) == f = [i \in 1 .. n |-> IF i \in skip THEN f[i + 1] ELSE own[i]]
HasChain(n, skip, own) == \E f : Chain(f, n, skip, own)
Lands(f, n, skip, own) ==
  \A i \in 1 .. n : \E j \in i .. n : j \notin skip /\ f[i] = own[j] /\ \A k \in i .. j - 1 : k \in skip

\* Columns from the right: a function that takes the value of the next
\* column on skip, and a column's own value elsewhere.  It exists, and a
\* column takes the own value of the first column from there on that is not
\* skipped.
LEMMA ChainExists ==
  ASSUME NEW n \in Nat, NEW skip, skip \subseteq 1 .. n, n \notin skip, NEW own
  PROVE  HasChain(n, skip, own)
<1> DEFINE Stops(i) == {j \in i .. n : j \notin skip}
           f == [i \in 1 .. n |-> own[Least(Stops(i))]]
<1>1. ASSUME NEW i \in 1 .. n
      PROVE  /\ Least(Stops(i)) \in Stops(i)
             /\ \A k \in Stops(i) : Least(Stops(i)) <= k
  <2>1. n \in Stops(i) /\ Stops(i) \subseteq Nat
    OBVIOUS
  <2>2. QED
    BY <2>1, LeastIsLeast
<1>2. ASSUME NEW i \in 1 .. n, i \in skip
      PROVE  Stops(i) = Stops(i + 1) /\ i + 1 \in 1 .. n
  BY <1>2
<1>3. ASSUME NEW i \in 1 .. n, i \notin skip
      PROVE  Least(Stops(i)) = i
  <2>1. i \in Stops(i)
    BY <1>3
  <2> HIDE DEF Stops
  <2>2. Least(Stops(i)) <= i
    BY <1>1, <2>1
  <2>3. Least(Stops(i)) \in i .. n
    BY <1>1 DEF Stops
  <2>4. QED
    BY <2>2, <2>3
<1> HIDE DEF Stops
<1>4. ASSUME NEW i \in 1 .. n
      PROVE  f[i] = IF i \in skip THEN f[i + 1] ELSE own[i]
  BY <1>2, <1>3
<1>5. Chain(f, n, skip, own)
  BY <1>4 DEF Chain
<1>6. QED
  BY <1>5 DEF HasChain

LEMMA ChainFromRight ==
  ASSUME NEW n \in Nat, NEW skip, skip \subseteq 1 .. n, n \notin skip, NEW own,
         NEW f, Chain(f, n, skip, own)
  PROVE  Lands(f, n, skip, own)
<1> USE DEF Chain
<1> DEFINE Land(i) == \E j \in i .. n :
                         j \notin skip /\ f[i] = own[j] /\ \A k \in i .. j - 1 : k \in skip
           Bad == {i \in 1 .. n : ~Land(i)}
<1>1. SUFFICES ASSUME Bad # {} PROVE FALSE
  BY DEF Lands
<1>2. PICK i \in Bad : \A k \in Bad : k <= i
  <2>1. Bad \subseteq 0 .. n
    OBVIOUS
  <2> HIDE DEF Bad
  <2>2. QED
    BY <1>1, <2>1, GreatestNatural
<1>3. i \in skip /\ i + 1 \in 1 .. n
  <2>1. i \notin skip => Land(i)
    OBVIOUS
  <2>2. QED
    BY <2>1
<1>4. Land(i + 1)
  <2>1. i + 1 \notin Bad
    BY <1>2, <1>3
  <2>2. QED
    BY <2>1, <1>3
<1>5. PICK j \in i + 1 .. n : j \notin skip /\ f[i + 1] = own[j] /\ \A k \in i + 1 .. j - 1 : k \in skip
  BY <1>4
<1>6. f[i] = own[j] /\ j \in i .. n /\ \A k \in i .. j - 1 : k \in skip
  BY <1>3, <1>5
<1>7. QED
  BY <1>2, <1>5, <1>6
-----------------------------------------------------------------------------
(***************************************************************************)
(* The rows: what each operator on columns does to the ids.                *)
(***************************************************************************)
LEMMA PaddedRow ==
  ASSUME NEW T, NEW r \in Seq(T), NEW n \in Nat, n >= Len(r), NEW column \in T
  PROVE  /\ Padded(r, n, column) \in Seq(T)
         /\ Len(Padded(r, n, column)) = n
         /\ \A i \in 1 .. n : Padded(r, n, column)[i] = IF i <= Len(r) THEN r[i] ELSE column
<1>1. \A i \in 1 .. n : (IF i <= Len(r) THEN r[i] ELSE column) \in T
  OBVIOUS
<1>2. QED
  BY <1>1 DEF Padded

\* Padding adds the id of the column, if anything.
LEMMA PaddedIds ==
  ASSUME NEW r \in Seq(Columns), NEW n \in Nat, n >= Len(r), NEW column \in Columns
  PROVE  IdsOf(Padded(r, n, column)) = IdsOf(r) \cup (IF n > Len(r) THEN {column.id} \ {NoId} ELSE {})
<1> DEFINE p == Padded(r, n, column)
<1>1. /\ p \in Seq(Columns) /\ Len(p) = n
      /\ \A i \in 1 .. n : p[i] = IF i <= Len(r) THEN r[i] ELSE column
  BY PaddedRow
<1> HIDE DEF p
<1>2. \A i \in 1 .. Len(r) : i \in 1 .. n /\ p[i].id = r[i].id
  BY <1>1
<1>3. \A i \in 1 .. n : i \notin 1 .. Len(r) => p[i].id = column.id /\ n > Len(r)
  BY <1>1
<1>4. n > Len(r) => n \in 1 .. n /\ p[n].id = column.id
  BY <1>1
<1>5. DOMAIN p = 1 .. n /\ DOMAIN r = 1 .. Len(r)
  BY <1>1
<1>6. IdsOf(p) = IdsOf(r) \cup (IF n > Len(r) THEN {column.id} \ {NoId} ELSE {})
  BY <1>2, <1>3, <1>4, <1>5 DEF IdsOf
<1>7. QED
  BY <1>6 DEF p

\* Where graph_find_column_by_id looks: a column that has the id, or else a
\* free one, or else one more at the end.
LEMMA FoundColumn ==
  ASSUME NEW r \in Seq(Columns), NEW id \in Ids
  PROVE  /\ FindColumn(r, id) \in 1 .. Len(r) + 1
         /\ FindColumn(r, id) <= Len(r) => r[FindColumn(r, id)].id \in {id, NoId}
         /\ \A i \in 1 .. Len(r) : r[i].id = id => FindColumn(r, id) <= i /\ r[FindColumn(r, id)].id = id
<1> DEFINE found == {i \in DOMAIN r : r[i].id = id}
           other == Free(r) \cup {Len(r) + 1}
<1>1. found \subseteq 1 .. Len(r) /\ other \subseteq 1 .. Len(r) + 1 /\ other # {}
  BY DEF Free
<1>2. \A i \in other : i <= Len(r) => r[i].id = NoId
  BY DEF Free
<1>3. \A i \in found : r[i].id = id
  OBVIOUS
<1>4. \A i \in 1 .. Len(r) : r[i].id = id => i \in found
  OBVIOUS
<1>5. FindColumn(r, id) = IF found # {} THEN Least(found) ELSE Least(other)
  BY DEF FindColumn
<1> HIDE DEF found, other
<1>6. CASE found # {}
  <2>1. found \subseteq Nat
    BY <1>1
  <2>2. Least(found) \in found /\ \A k \in found : Least(found) <= k
    BY <1>6, <2>1, LeastIsLeast
  <2>3. PICK k : k = FindColumn(r, id)
    OBVIOUS
  <2>4. k \in found /\ \A i \in found : k <= i
    BY <1>5, <1>6, <2>2, <2>3
  <2>5. k \in 1 .. Len(r) /\ r[k].id = id
    BY <1>1, <1>3, <2>4
  <2>6. \A i \in 1 .. Len(r) : r[i].id = id => k <= i
    BY <1>4, <2>4
  <2>7. k \in 1 .. Len(r) + 1
    BY <2>5
  <2>8. QED
    BY <2>3, <2>5, <2>6, <2>7
<1>7. CASE found = {}
  <2>1. other \subseteq Nat
    BY <1>1
  <2>2. Least(other) \in other /\ \A k \in other : Least(other) <= k
    BY <1>1, <2>1, LeastIsLeast
  <2>3. QED
    BY <1>1, <1>2, <1>4, <1>5, <1>7, <2>2
<1>8. QED
  BY <1>6, <1>7

\* graph_generate_next_row: the columns of the commit become free.
LEMMA ClearedIds ==
  ASSUME NEW r \in Seq(Columns), NEW c \in Ids
  PROVE  /\ ClearCommit(r, c) \in Seq(Columns)
         /\ Len(ClearCommit(r, c)) = Len(r)
         /\ IdsOf(ClearCommit(r, c)) = IdsOf(r) \ {c}
<1> DEFINE q == ClearCommit(r, c)
<1>1. ASSUME NEW i \in 1 .. Len(r)
      PROVE  r[i] \in Columns /\ [r[i] EXCEPT !.id = NoId] \in Columns
  <2>1. r[i] \in Columns
    OBVIOUS
  <2>2. \A x \in Columns : [x EXCEPT !.id = NoId] \in Columns
    BY IdsAreNaturals DEF Columns
  <2>3. QED
    BY <2>1, <2>2
<1>2. /\ q \in Seq(Columns) /\ Len(q) = Len(r)
      /\ \A i \in 1 .. Len(r) : q[i] = IF r[i].id = c THEN [r[i] EXCEPT !.id = NoId] ELSE r[i]
  <2>1. q = [i \in 1 .. Len(r) |-> IF r[i].id = c THEN [r[i] EXCEPT !.id = NoId] ELSE r[i]]
    BY DEF ClearCommit
  <2> HIDE DEF q
  <2>2. q \in [1 .. Len(r) -> Columns]
    BY <1>1, <2>1
  <2>3. q \in Seq(Columns) /\ Len(q) = Len(r)
    BY <2>2
  <2>4. QED
    BY <2>1, <2>3
<1>3. \A i \in 1 .. Len(r) : q[i].id = IF r[i].id = c THEN NoId ELSE r[i].id
  BY <1>1, <1>2 DEF Columns
<1>4. DOMAIN q = 1 .. Len(r) /\ DOMAIN r = 1 .. Len(r)
  BY <1>2
<1> HIDE DEF q
<1>5. IdsOf(q) = IdsOf(r) \ {c}
  BY <1>3, <1>4 DEF IdsOf
<1>6. QED
  BY <1>2, <1>5 DEF q
-----------------------------------------------------------------------------
(***************************************************************************)
(* graph_insert_parents: a round for each parent.                          *)
(***************************************************************************)
\* One round: the parent takes the first free column, or one more at the end.
InsertParent(before, p, boundary) ==
  LET match == FindColumn(before, NoId)
  IN Padded([i \in DOMAIN before |-> IF i = match THEN Column(p, boundary) ELSE before[i]],
            IF match > Len(before) THEN match ELSE Len(before),
            Column(p, boundary))

LEMMA InsertedParent ==
  ASSUME NEW r \in Seq(Columns), NEW p \in Ids \ {NoId}, NEW boundary \in BOOLEAN
  PROVE  /\ InsertParent(r, p, boundary) \in Seq(Columns)
         /\ Len(InsertParent(r, p, boundary)) >= Len(r)
         /\ IdsOf(InsertParent(r, p, boundary)) = IdsOf(r) \cup {p}
<1> DEFINE column == Column(p, boundary)
           match == FindColumn(r, NoId)
           q == [i \in DOMAIN r |-> IF i = match THEN column ELSE r[i]]
           n == IF match > Len(r) THEN match ELSE Len(r)
<1>1. column \in Columns /\ column.id = p
  BY DEF Column, Columns
<1>2. match \in 1 .. Len(r) + 1 /\ (match <= Len(r) => r[match].id = NoId)
  BY FoundColumn, IdsAreNaturals
<1>3. InsertParent(r, p, boundary) = Padded(q, n, column)
  BY DEF InsertParent
<1> HIDE DEF column, match
<1>4. q \in Seq(Columns) /\ Len(q) = Len(r)
      /\ \A i \in 1 .. Len(r) : q[i] = IF i = match THEN column ELSE r[i]
  <2>1. q = [i \in 1 .. Len(r) |-> IF i = match THEN column ELSE r[i]]
    OBVIOUS
  <2> HIDE DEF q
  <2>2. q \in [1 .. Len(r) -> Columns]
    BY <1>1, <2>1
  <2>3. q \in Seq(Columns) /\ Len(q) = Len(r)
    BY <2>2
  <2>4. QED
    BY <2>1, <2>3
<1>5. n \in Nat /\ n >= Len(q) /\ n >= Len(r) /\ (n > Len(q) <=> match > Len(r))
  BY <1>2, <1>4
<1> HIDE DEF q, n
<1>6. Padded(q, n, column) \in Seq(Columns) /\ Len(Padded(q, n, column)) = n
  BY <1>1, <1>4, <1>5, PaddedRow
<1>7. IdsOf(Padded(q, n, column)) = IdsOf(q) \cup (IF n > Len(q) THEN {p} ELSE {})
  <2>1. IdsOf(Padded(q, n, column)) = IdsOf(q) \cup (IF n > Len(q) THEN {column.id} \ {NoId} ELSE {})
    BY <1>1, <1>4, <1>5, PaddedIds
  <2>2. {column.id} \ {NoId} = {p}
    BY <1>1
  <2>3. QED
    BY <2>1, <2>2
<1>8. IdsOf(q) = IdsOf(r) \cup (IF match <= Len(r) THEN {p} ELSE {})
  <2>1. DOMAIN q = 1 .. Len(r) /\ DOMAIN r = 1 .. Len(r)
    BY <1>4
  <2>2. \A i \in 1 .. Len(r) : q[i].id = IF i = match THEN p ELSE r[i].id
    BY <1>1, <1>4
  <2>3. match <= Len(r) => match \in 1 .. Len(r) /\ r[match].id = NoId
    BY <1>2
  <2>4. p # NoId
    OBVIOUS
  <2>5. CASE match <= Len(r)
    BY <2>1, <2>2, <2>3, <2>4, <2>5 DEF IdsOf
  <2>6. CASE ~(match <= Len(r))
    <3>1. \A i \in 1 .. Len(r) : q[i].id = r[i].id
      BY <1>2, <2>2, <2>6
    <3>2. QED
      BY <2>1, <2>6, <3>1 DEF IdsOf
  <2>7. QED
    BY <2>5, <2>6
<1>9. (match <= Len(r)) <=> ~(n > Len(q))
  BY <1>2, <1>5
<1>10. QED
  BY <1>3, <1>5, <1>6, <1>7, <1>8, <1>9

\* The rounds of graph_insert_parents, written out.
LEMMA RoundsOfInsertParents ==
  ASSUME NEW r \in Seq(Columns), NEW ps \in Seq(Ids \ {NoId}), NEW boundary \in BOOLEAN
  PROVE  \E f : /\ f = [n \in 0 .. Len(ps) |-> IF n = 0 THEN r ELSE InsertParent(f[n - 1], ps[n], boundary)]
                /\ InsertParents(r, ps, boundary) = f[Len(ps)]
<1> DEFINE Course(f) == f = [n \in 0 .. Len(ps) |-> IF n = 0 THEN r ELSE InsertParent(f[n - 1], ps[n], boundary)]
           step == [x \in Seq(Columns) \X (1 .. Len(ps)) |-> InsertParent(x[1], ps[x[2]], boundary)]
           chosen == CHOOSE after : Course(after)
<1>1. InsertParents(r, ps, boundary) = chosen[Len(ps)]
  BY Zenon DEF InsertParents, InsertParent
<1>2. step \in [Seq(Columns) \X (1 .. Len(ps)) -> Seq(Columns)]
  <2>1. ASSUME NEW x \in Seq(Columns) \X (1 .. Len(ps)) PROVE InsertParent(x[1], ps[x[2]], boundary) \in Seq(Columns)
    <3>1. x[1] \in Seq(Columns) /\ ps[x[2]] \in Ids \ {NoId}
      OBVIOUS
    <3>2. QED
      BY <3>1, InsertedParent
  <2>2. QED
    BY <2>1
<1>3. \A q \in Seq(Columns), n \in 1 .. Len(ps) : step[<<q, n>>] = InsertParent(q, ps[n], boundary)
  OBVIOUS
<1> HIDE DEF step
<1>4. PICK f \in [0 .. Len(ps) -> Seq(Columns)] :
         f[0] = r /\ \A i \in 1 .. Len(ps) : f[i] = step[<<f[i - 1], i>>]
  <2>1. PICK n \in Nat : n = Len(ps)
    OBVIOUS
  <2>2. PICK T : T = Seq(Columns)
    OBVIOUS
  <2>3. PICK s : s = step
    OBVIOUS
  <2>4. s \in [T \X (1 .. n) -> T] /\ r \in T
    BY <1>2, <2>1, <2>2, <2>3
  <2>5. HasRounds(n, T, r, s)
    BY <2>4, RoundsExist
  <2>6. QED
    BY <2>1, <2>2, <2>3, <2>5 DEF HasRounds, Rounds
<1>5. \A i \in 1 .. Len(ps) : f[i] = InsertParent(f[i - 1], ps[i], boundary)
  <2>1. ASSUME NEW i \in 1 .. Len(ps) PROVE f[i - 1] \in Seq(Columns)
    <3>1. i - 1 \in 0 .. Len(ps)
      OBVIOUS
    <3>2. QED
      BY <1>4, <3>1
  <2>2. QED
    BY <1>3, <1>4, <2>1
<1>6. Course(f)
  <2>1. \A i \in 0 .. Len(ps) : f[i] = IF i = 0 THEN r ELSE InsertParent(f[i - 1], ps[i], boundary)
    BY <1>4, <1>5
  <2>2. QED
    BY <1>4, <2>1
<1>7. Course(chosen)
  <2> HIDE DEF Course
  <2>1. QED
    BY <1>6
<1>8. QED
  BY <1>1, <1>7

\* graph_insert_parents adds the parents and nothing else.
LEMMA InsertParentsIds ==
  ASSUME NEW r \in Seq(Columns), NEW ps \in Seq(Ids \ {NoId}), NEW boundary \in BOOLEAN
  PROVE  /\ InsertParents(r, ps, boundary) \in Seq(Columns)
         /\ Len(InsertParents(r, ps, boundary)) >= Len(r)
         /\ IdsOf(InsertParents(r, ps, boundary)) = IdsOf(r) \cup Range(ps)
<1>1. PICK f : /\ f = [n \in 0 .. Len(ps) |-> IF n = 0 THEN r ELSE InsertParent(f[n - 1], ps[n], boundary)]
               /\ InsertParents(r, ps, boundary) = f[Len(ps)]
  BY RoundsOfInsertParents
<1> DEFINE Done(n) == /\ f[n] \in Seq(Columns) /\ Len(f[n]) >= Len(r)
                      /\ IdsOf(f[n]) = IdsOf(r) \cup {ps[j] : j \in 1 .. n}
           S == {n \in 0 .. Len(ps) : Done(n)}
<1>2. 0 \in S
  <2>1. f[0] = r
    BY <1>1
  <2>2. QED
    BY <2>1
<1>3. ASSUME NEW n \in 1 .. Len(ps), n - 1 \in S PROVE n \in S
  <2>1. f[n] = InsertParent(f[n - 1], ps[n], boundary)
    BY <1>1
  <2>2. Done(n - 1)
    BY <1>3
  <2>3. PICK before : before = f[n - 1]
    OBVIOUS
  <2>4. before \in Seq(Columns) /\ Len(before) >= Len(r) /\ IdsOf(before) = IdsOf(r) \cup {ps[j] : j \in 1 .. n - 1}
    BY <2>2, <2>3
  <2>5. PICK p \in Ids \ {NoId} : p = ps[n]
    OBVIOUS
  <2>6. /\ InsertParent(before, p, boundary) \in Seq(Columns)
        /\ Len(InsertParent(before, p, boundary)) >= Len(before)
        /\ IdsOf(InsertParent(before, p, boundary)) = IdsOf(before) \cup {p}
    BY <2>4, InsertedParent
  <2>7. {ps[j] : j \in 1 .. n} = {ps[j] : j \in 1 .. n - 1} \cup {p}
    <3>1. \A j : j \in 1 .. n <=> j \in 1 .. n - 1 \/ j = n
      OBVIOUS
    <3>2. QED
      BY <2>5, <3>1, Zenon
  <2>8. f[n] \in Seq(Columns) /\ Len(f[n]) >= Len(r)
    BY <2>1, <2>3, <2>4, <2>5, <2>6
  <2>9. IdsOf(f[n]) = IdsOf(r) \cup {ps[j] : j \in 1 .. n}
    BY <2>1, <2>3, <2>4, <2>5, <2>6, <2>7
  <2>10. QED
    BY <2>8, <2>9
<1>4. Len(ps) \in S
  <2> HIDE DEF S
  <2>1. PICK n \in Nat : n = Len(ps)
    OBVIOUS
  <2>2. \A k \in 0 .. n : k \in S
    BY <1>2, <1>3, <2>1, EveryRound
  <2>3. QED
    BY <2>1, <2>2
<1>5. Range(ps) = {ps[j] : j \in 1 .. Len(ps)}
  BY DEF Range
<1>6. QED
  BY <1>1, <1>4, <1>5
-----------------------------------------------------------------------------
(***************************************************************************)
(* graph_remove_collapsed_columns and graph_fill_empty_columns.            *)
(***************************************************************************)
\* The columns that graph_fill_empty_columns skips.
Holes(next) == {i \in 1 .. Len(next) : next[i].id = NoId /\ i < Len(next)}

LEMMA ChainOfFillEmpty ==
  ASSUME NEW next \in Seq(Columns)
  PROVE  \E f : /\ Lands(f, Len(next), Holes(next), next)
                /\ FillEmpty(next) = [i \in DOMAIN next |-> f[i]]
<1> DEFINE Course(f) == f = [i \in 1 .. Len(next) |->
                               IF next[i].id = NoId /\ i < Len(next) THEN f[i + 1] ELSE next[i]]
           chosen == CHOOSE after : Course(after)
<1>1. FillEmpty(next) = [i \in DOMAIN next |-> chosen[i]]
  BY Zenon DEF FillEmpty
<1>2. PICK n \in Nat : n = Len(next)
  OBVIOUS
<1>3. PICK skip : skip = Holes(next)
  OBVIOUS
<1>4. skip \subseteq 1 .. n /\ n \notin skip
  BY <1>2, <1>3 DEF Holes
<1>5. ASSUME NEW f PROVE Chain(f, n, skip, next) <=> Course(f)
  <2>1. \A i \in 1 .. n : i \in skip <=> next[i].id = NoId /\ i < Len(next)
    BY <1>2, <1>3 DEF Holes
  <2>2. [i \in 1 .. n |-> IF i \in skip THEN f[i + 1] ELSE next[i]]
          = [i \in 1 .. Len(next) |-> IF next[i].id = NoId /\ i < Len(next) THEN f[i + 1] ELSE next[i]]
    BY <1>2, <2>1
  <2>3. QED
    BY <2>2 DEF Chain
<1>6. PICK g : Chain(g, n, skip, next)
  BY <1>4, ChainExists DEF HasChain
<1>7. Course(chosen)
  <2>1. Course(g)
    BY <1>5, <1>6
  <2> HIDE DEF Course
  <2>2. QED
    BY <2>1
<1> HIDE DEF Course
<1>8. PICK f : f = chosen
  OBVIOUS
<1>9. Chain(f, n, skip, next)
  BY <1>5, <1>7, <1>8
<1>10. Lands(f, n, skip, next)
  BY <1>4, <1>9, ChainFromRight
<1>11. QED
  BY <1>1, <1>2, <1>3, <1>8, <1>10

\* graph_fill_empty_columns keeps the commits, and pushes the free columns
\* to the right end.
LEMMA FilledRow ==
  ASSUME NEW next \in Seq(Columns)
  PROVE  /\ FillEmpty(next) \in Seq(Columns)
         /\ Len(FillEmpty(next)) = Len(next)
         /\ IdsOf(FillEmpty(next)) = IdsOf(next)
         /\ \A i \in 1 .. Len(next) :
               FillEmpty(next)[i].id = NoId => \A j \in i .. Len(next) : FillEmpty(next)[j].id = NoId
<1>1. PICK f : /\ Lands(f, Len(next), Holes(next), next)
               /\ FillEmpty(next) = [i \in DOMAIN next |-> f[i]]
  BY ChainOfFillEmpty
<1>2. PICK q : q = FillEmpty(next)
  OBVIOUS
<1>3. PICK n \in Nat : n = Len(next)
  OBVIOUS
<1>4. \A i \in 1 .. n : \E j \in i .. n :
         j \notin Holes(next) /\ f[i] = next[j] /\ \A k \in i .. j - 1 : k \in Holes(next)
  BY <1>1, <1>3 DEF Lands
<1>5. \A i \in 1 .. n : f[i] \in Columns
  BY <1>3, <1>4
<1>6. q \in Seq(Columns) /\ Len(q) = n /\ \A i \in 1 .. n : q[i] = f[i]
  <2>1. q = [i \in 1 .. n |-> f[i]]
    BY <1>1, <1>2, <1>3
  <2>2. q \in [1 .. n -> Columns]
    BY <1>5, <2>1
  <2>3. QED
    BY <2>1, <2>2
<1>7. DOMAIN q = 1 .. n /\ DOMAIN next = 1 .. n
  BY <1>3, <1>6
<1>8. IdsOf(q) = IdsOf(next)
  <2>1. ASSUME NEW i \in 1 .. n
        PROVE  \E j \in 1 .. n : q[i] = next[j]
    <3>1. PICK j \in i .. n : f[i] = next[j]
      BY <1>4
    <3>2. j \in 1 .. n /\ q[i] = next[j]
      BY <1>6, <3>1
    <3>3. QED
      BY <3>2
  <2>2. ASSUME NEW i \in 1 .. n, next[i].id # NoId PROVE q[i] = next[i]
    <3>1. PICK j \in i .. n : f[i] = next[j] /\ \A k \in i .. j - 1 : k \in Holes(next)
      BY <1>4
    <3>2. i \notin Holes(next)
      BY <2>2 DEF Holes
    <3>3. j = i
      BY <3>1, <3>2
    <3>4. QED
      BY <1>6, <3>1, <3>3
  <2>3. IdsOf(q) \subseteq IdsOf(next)
    BY <1>7, <2>1 DEF IdsOf
  <2>4. ASSUME NEW i \in 1 .. n, next[i].id # NoId PROVE next[i].id \in IdsOf(q)
    <3>1. q[i].id = next[i].id
      BY <2>2, <2>4
    <3>2. QED
      BY <1>7, <2>4, <3>1 DEF IdsOf
  <2>5. IdsOf(next) \subseteq IdsOf(q)
    BY <1>7, <2>4 DEF IdsOf
  <2>6. QED
    BY <2>3, <2>5
<1>9. ASSUME NEW i \in 1 .. n, q[i].id = NoId, NEW j \in i .. n
      PROVE  q[j].id = NoId
  <2>1. PICK k \in i .. n : k \notin Holes(next) /\ f[i] = next[k] /\ \A l \in i .. k - 1 : l \in Holes(next)
    BY <1>4
  <2>2. next[k].id = NoId
    BY <1>6, <1>9, <2>1
  <2>3. k = n
    BY <1>3, <2>1, <2>2 DEF Holes
  <2>4. PICK l \in j .. n : l \notin Holes(next) /\ f[j] = next[l]
    BY <1>4
  <2>5. l = n
    BY <2>1, <2>3, <2>4
  <2>6. QED
    BY <1>6, <2>2, <2>3, <2>4, <2>5
<1>10. QED
  BY <1>2, <1>3, <1>6, <1>8, <1>9
\* The columns that graph_remove_collapsed_columns takes out.
Collapsing(next, prev, position, ps) ==
  {i \in 1 .. Len(next) : Collapses(i, next, prev, position, ps)}
WithEnd(next) == [i \in 1 .. Len(next) + 1 |-> IF i > Len(next) THEN Column(NoId, FALSE) ELSE next[i]]

LEMMA ChainOfRemoveCollapsed ==
  ASSUME NEW next \in Seq(Columns), NEW prev, NEW position, NEW ps
  PROVE  \E f : /\ Lands(f, Len(next) + 1, Collapsing(next, prev, position, ps), WithEnd(next))
                /\ RemoveCollapsed(next, prev, position, ps) = [i \in DOMAIN next |-> f[i]]
<1> DEFINE Course(f) == f = [i \in 1 .. Len(next) + 1 |->
                               IF i > Len(next) THEN Column(NoId, FALSE)
                               ELSE IF Collapses(i, next, prev, position, ps) THEN f[i + 1] ELSE next[i]]
           chosen == CHOOSE after : Course(after)
<1>1. RemoveCollapsed(next, prev, position, ps) = [i \in DOMAIN next |-> chosen[i]]
  BY Zenon DEF RemoveCollapsed
<1>2. PICK n \in Nat : n = Len(next) + 1
  OBVIOUS
<1>3. PICK skip : skip = Collapsing(next, prev, position, ps)
  OBVIOUS
<1>4. PICK own : own = WithEnd(next)
  OBVIOUS
<1>5. skip \subseteq 1 .. n /\ n \notin skip
  BY <1>2, <1>3 DEF Collapsing
<1>6. ASSUME NEW f PROVE Chain(f, n, skip, own) <=> Course(f)
  <2>1. \A i \in 1 .. n : i \in skip <=> ~(i > Len(next)) /\ Collapses(i, next, prev, position, ps)
    BY <1>2, <1>3 DEF Collapsing
  <2>2. \A i \in 1 .. n : own[i] = IF i > Len(next) THEN Column(NoId, FALSE) ELSE next[i]
    BY <1>2, <1>4 DEF WithEnd
  <2>3. [i \in 1 .. n |-> IF i \in skip THEN f[i + 1] ELSE own[i]]
          = [i \in 1 .. Len(next) + 1 |->
               IF i > Len(next) THEN Column(NoId, FALSE)
               ELSE IF Collapses(i, next, prev, position, ps) THEN f[i + 1] ELSE next[i]]
    BY <1>2, <2>1, <2>2
  <2>4. QED
    BY <2>3 DEF Chain
<1>7. PICK g : Chain(g, n, skip, own)
  BY <1>5, ChainExists DEF HasChain
<1>8. Course(chosen)
  <2>1. Course(g)
    BY <1>6, <1>7
  <2> HIDE DEF Course
  <2>2. QED
    BY <2>1
<1> HIDE DEF Course
<1>9. PICK f : f = chosen
  OBVIOUS
<1>10. Chain(f, n, skip, own)
  BY <1>6, <1>8, <1>9
<1>11. Lands(f, n, skip, own)
  BY <1>5, <1>10, ChainFromRight
<1>12. QED
  BY <1>1, <1>2, <1>3, <1>4, <1>9, <1>11

\* graph_remove_collapsed_columns takes no commit out: the first column that
\* waits for it never collapses.
LEMMA CollapsedRow ==
  ASSUME NEW next \in Seq(Columns), NEW prev, NEW position, NEW ps
  PROVE  /\ RemoveCollapsed(next, prev, position, ps) \in Seq(Columns)
         /\ Len(RemoveCollapsed(next, prev, position, ps)) = Len(next)
         /\ IdsOf(RemoveCollapsed(next, prev, position, ps)) = IdsOf(next)
<1>1. PICK f : /\ Lands(f, Len(next) + 1, Collapsing(next, prev, position, ps), WithEnd(next))
               /\ RemoveCollapsed(next, prev, position, ps) = [i \in DOMAIN next |-> f[i]]
  BY ChainOfRemoveCollapsed
<1>2. PICK q : q = RemoveCollapsed(next, prev, position, ps)
  OBVIOUS
<1>3. PICK n \in Nat : n = Len(next)
  OBVIOUS
<1>4. PICK own : own = WithEnd(next)
  OBVIOUS
<1>5. PICK skip : skip = Collapsing(next, prev, position, ps)
  OBVIOUS
<1>6. \A i \in 1 .. n + 1 : \E j \in i .. n + 1 :
         j \notin skip /\ f[i] = own[j] /\ \A k \in i .. j - 1 : k \in skip
  BY <1>1, <1>3, <1>4, <1>5 DEF Lands
<1>7. /\ \A i \in 1 .. n : own[i] = next[i]
      /\ own[n + 1] = Column(NoId, FALSE)
      /\ own[n + 1] \in Columns /\ own[n + 1].id = NoId
  BY <1>3, <1>4, IdsAreNaturals DEF WithEnd, Column, Columns
<1>8. \A i \in 1 .. n + 1 : own[i] \in Columns
  <2>1. \A i \in 1 .. n : next[i] \in Columns
    BY <1>3
  <2>2. \A i \in 1 .. n + 1 : i \in 1 .. n \/ i = n + 1
    OBVIOUS
  <2>3. QED
    BY <1>7, <2>1, <2>2
<1>9. \A i \in 1 .. n : f[i] \in Columns
  BY <1>6, <1>8
<1>10. q \in Seq(Columns) /\ Len(q) = n /\ \A i \in 1 .. n : q[i] = f[i]
  <2>1. q = [i \in 1 .. n |-> f[i]]
    BY <1>1, <1>2, <1>3
  <2>2. q \in [1 .. n -> Columns]
    BY <1>9, <2>1
  <2>3. QED
    BY <2>1, <2>2
<1>11. DOMAIN q = 1 .. n /\ DOMAIN next = 1 .. n
  BY <1>3, <1>10
<1>12. IdsOf(q) \subseteq IdsOf(next)
  <2>1. ASSUME NEW i \in 1 .. n, q[i].id # NoId
        PROVE  \E j \in 1 .. n : q[i].id = next[j].id
    <3>1. PICK j \in i .. n + 1 : f[i] = own[j]
      BY <1>6
    <3>2. j # n + 1
      BY <1>7, <1>10, <2>1, <3>1
    <3>3. j \in 1 .. n
      BY <3>2
    <3>4. QED
      BY <1>7, <1>10, <3>1, <3>3
  <2>2. QED
    BY <1>11, <2>1 DEF IdsOf
<1>13. IdsOf(next) \subseteq IdsOf(q)
  <2>1. ASSUME NEW i \in 1 .. n, next[i].id # NoId
        PROVE  next[i].id \in IdsOf(q)
    <3> DEFINE same == {j \in 1 .. n : next[j].id = next[i].id}
    <3>1. PICK m \in same : \A j \in same : m <= j
      <4>1. same \subseteq Nat /\ i \in same
        OBVIOUS
      <4> HIDE DEF same
      <4>2. QED
        BY <4>1, LeastNatural
    <3>2. m \notin skip
      <4>1. ASSUME m \in skip PROVE FALSE
        <5>1. m > 1 /\ next[m].id = next[m - 1].id
          BY <4>1, <1>5 DEF Collapsing, Collapses
        <5>2. m - 1 \in same /\ m - 1 < m
          BY <5>1
        <5>3. QED
          BY <3>1, <5>2
      <4>2. QED
        BY <4>1
    <3>3. PICK j \in m .. n + 1 : f[m] = own[j] /\ \A k \in m .. j - 1 : k \in skip
      BY <1>6
    <3>4. j = m
      BY <3>2, <3>3
    <3>5. q[m].id = next[i].id
      BY <1>7, <1>10, <3>3, <3>4
    <3>6. QED
      BY <1>11, <2>1, <3>5 DEF IdsOf
  <2>2. QED
    BY <1>11, <2>1 DEF IdsOf
<1>14. QED
  BY <1>2, <1>3, <1>10, <1>12, <1>13
-----------------------------------------------------------------------------
(***************************************************************************)
(* The row that a commit leaves.                                           *)
(***************************************************************************)
NoHoles(r) == \A i \in 1 .. Len(r) : r[i].id = NoId => \A j \in i .. Len(r) : r[j].id = NoId

\* graph_generate_next_row: the commit is no longer awaited, its parents are.
LEMMA NextRowIds ==
  ASSUME NEW r \in Seq(Columns), NEW prev, NEW c \in Ids \ {NoId}, NEW position,
         NEW ps \in Seq(Ids \ {NoId}), NEW boundary \in BOOLEAN
  PROVE  /\ NextRow(r, prev, c, position, ps, boundary) \in Seq(Columns)
         /\ Len(NextRow(r, prev, c, position, ps, boundary)) >= Len(r)
         /\ IdsOf(NextRow(r, prev, c, position, ps, boundary)) = (IdsOf(r) \ {c}) \cup Range(ps)
         /\ NoHoles(NextRow(r, prev, c, position, ps, boundary))
<1>1. PICK cleared : cleared = ClearCommit(r, c)
  OBVIOUS
<1>2. PICK inserted : inserted = InsertParents(cleared, ps, boundary)
  OBVIOUS
<1>3. PICK p : p = Padded(prev, Len(inserted), NoLane)
  OBVIOUS
<1>4. PICK collapsed : collapsed = RemoveCollapsed(inserted, p, position, ps)
  OBVIOUS
<1>5. PICK next : next = FillEmpty(collapsed)
  OBVIOUS
<1>6. next = NextRow(r, prev, c, position, ps, boundary)
  BY <1>1, <1>2, <1>3, <1>4, <1>5 DEF NextRow
<1>7. cleared \in Seq(Columns) /\ Len(cleared) = Len(r) /\ IdsOf(cleared) = IdsOf(r) \ {c}
  BY <1>1, ClearedIds
<1>8. /\ inserted \in Seq(Columns) /\ Len(inserted) >= Len(cleared)
      /\ IdsOf(inserted) = IdsOf(cleared) \cup Range(ps)
  BY <1>2, <1>7, InsertParentsIds
<1>9. collapsed \in Seq(Columns) /\ Len(collapsed) = Len(inserted) /\ IdsOf(collapsed) = IdsOf(inserted)
  BY <1>4, <1>8, CollapsedRow
<1>10. /\ next \in Seq(Columns) /\ Len(next) = Len(collapsed) /\ IdsOf(next) = IdsOf(collapsed)
       /\ NoHoles(next)
  BY <1>5, <1>9, FilledRow DEF NoHoles
<1>11. Len(next) >= Len(r)
  BY <1>7, <1>8, <1>9, <1>10
<1>12. QED
  BY <1>6, <1>7, <1>8, <1>9, <1>10, <1>11

\* graph_collapse: no commit is cut off, and at least one column stays.
LEMMA WidthKeepsIds ==
  ASSUME NEW T, NEW r \in Seq(T), Len(r) >= 1
  PROVE  /\ Width(r) \in 1 .. Len(r)
         /\ Width(r) = 1 \/ r[Width(r)].id # NoId
         /\ \A i \in Width(r) + 1 .. Len(r) : r[i].id = NoId
         /\ IdsOf(SubSeq(r, 1, Width(r))) = IdsOf(r)
<1>1. PICK n \in Nat : n = Len(r)
  OBVIOUS
<1> DEFINE Fits(w) == /\ w = 1 \/ r[w].id # NoId
                      /\ \A i \in w + 1 .. Len(r) : r[i].id = NoId
<1>2. \E w \in 1 .. n : Fits(w)
  <2> DEFINE taken == {1} \cup {i \in 1 .. n : r[i].id # NoId}
  <2>1. taken \subseteq 0 .. n /\ taken # {}
    BY <1>1
  <2>2. PICK w \in taken : \A k \in taken : k <= w
    <3> HIDE DEF taken
    <3>1. QED
      BY <2>1, GreatestNatural
  <2>3. w \in 1 .. n
    BY <1>1
  <2>4. ASSUME NEW i \in w + 1 .. n PROVE r[i].id = NoId
    <3>1. i \in 1 .. n /\ ~(i <= w)
      BY <2>3
    <3>2. i \notin taken
      <4> HIDE DEF taken
      <4>1. QED
        BY <2>2, <3>1
    <3>3. QED
      BY <3>1, <3>2
  <2>5. QED
    BY <1>1, <2>3, <2>4
<1>3. PICK w : w = Width(r)
  OBVIOUS
<1>4. w \in 1 .. n /\ Fits(w)
  BY <1>1, <1>2, <1>3 DEF Width
<1>5. PICK q : q = SubSeq(r, 1, w)
  OBVIOUS
<1>6. /\ q \in Seq(T) /\ Len(q) = w
      /\ \A i \in 1 .. w : q[i] = r[i]
  BY <1>1, <1>4, <1>5
<1>7. DOMAIN q = 1 .. w /\ DOMAIN r = 1 .. n
  BY <1>1, <1>6
<1>8. IdsOf(q) = IdsOf(r)
  <2>1. \A i \in 1 .. w : i \in 1 .. n /\ q[i].id = r[i].id
    BY <1>4, <1>6
  <2>2. IdsOf(q) \subseteq IdsOf(r)
    BY <1>7, <2>1 DEF IdsOf
  <2>3. ASSUME NEW i \in 1 .. n, r[i].id # NoId PROVE i \in 1 .. w /\ q[i].id = r[i].id
    <3>1. i \notin w + 1 .. n
      BY <1>1, <1>4, <2>3
    <3>2. i \in 1 .. w
      BY <1>4, <3>1
    <3>3. QED
      BY <1>6, <3>2
  <2>4. IdsOf(r) \subseteq IdsOf(q)
    BY <1>7, <2>3 DEF IdsOf
  <2>5. QED
    BY <2>2, <2>4
<1>9. QED
  BY <1>1, <1>3, <1>4, <1>5, <1>8
-----------------------------------------------------------------------------
(***************************************************************************)
(* The new graph.                                                          *)
(***************************************************************************)
Parents == Seq(Ids \ {NoId})

\* The inductive invariant: the types of GraphV2, with rows that are
\* sequences of columns, and no free column but in a row of one.
RowsOK ==
  /\ listed \in 0 .. NCommits /\ head \in 0 .. NCommits
  /\ commit \in Ids /\ parents \in Parents
  /\ row \in Seq(Columns) /\ \A i \in 1 .. Len(row) : row[i].id = NoId => Len(row) = 1
  /\ prevRow \in Seq(LaneColumns) /\ Len(prevRow) = Len(row)
  /\ prevPosition \in Nat \ {0}

\* What Drawing makes of the row.
Drawn(d, c, ps) ==
  /\ d.commit = c /\ d.parents = ps /\ d.position \in Nat \ {0}
  /\ d.row \in Seq(Columns) /\ d.next \in Seq(Columns)
  /\ Len(d.row) = Len(d.next) /\ Len(d.next) >= 1
  /\ IdsOf(d.row) = IdsOf(row)
  /\ IdsOf(d.next) = (IdsOf(row) \ {c}) \cup Range(ps)
  /\ NoHoles(d.next)

LEMMA DrawingIsDrawn ==
  ASSUME RowsOK, NEW c \in Ids \ {NoId}, NEW ps \in Parents, NEW boundary \in BOOLEAN
  PROVE  Drawn(Drawing(c, ps, boundary), c, ps)
<1>1. PICK position \in Nat \ {0} : position = FindColumn(row, c)
  BY FoundColumn DEF RowsOK
<1> DEFINE wanted == position + (IF ps = <<>> THEN 1 ELSE Len(ps)) - 1
           width == IF wanted > Len(row) THEN wanted ELSE Len(row)
           free == Column(NoId, boundary)
<1>2. width \in Nat /\ width >= 1 /\ width >= Len(row)
  <2>1. Len(row) \in Nat /\ Len(ps) \in Nat /\ (ps # <<>> => Len(ps) >= 1)
    BY DEF RowsOK, Parents
  <2>2. wanted \in Nat /\ wanted >= 1
    BY <2>1
  <2> HIDE DEF wanted
  <2>3. QED
    BY <2>1, <2>2
<1>3. PICK n \in Nat : n = width
  BY <1>2
<1>4. PICK column \in Columns : column = free /\ column.id = NoId
  <2>1. free \in Columns /\ free.id = NoId
    BY IdsAreNaturals DEF Column, Columns
  <2> HIDE DEF free
  <2>2. QED
    BY <2>1
<1>5. PICK expanded : expanded = Padded(row, n, column)
  OBVIOUS
<1>6. PICK next : next = NextRow(expanded, prevRow, c, position, ps, boundary)
  OBVIOUS
<1>7. PICK drawn : drawn = Padded(expanded, Len(next), column)
  OBVIOUS
<1>8. PICK d : d = Drawing(c, ps, boundary)
  OBVIOUS
<1>9. /\ d.commit = c /\ d.parents = ps /\ d.position = position
      /\ d.row = drawn /\ d.next = next
  BY <1>1, <1>3, <1>4, <1>5, <1>6, <1>7, <1>8 DEF Drawing
<1> HIDE DEF width, wanted, free
<1>10. row \in Seq(Columns)
  BY DEF RowsOK
<1>11. expanded \in Seq(Columns) /\ Len(expanded) = n /\ n >= 1 /\ IdsOf(expanded) = IdsOf(row)
  <2>1. n >= Len(row) /\ n >= 1
    BY <1>2, <1>3
  <2>2. expanded \in Seq(Columns) /\ Len(expanded) = n
    BY <1>5, <1>10, <2>1, PaddedRow
  <2>3. IdsOf(expanded) = IdsOf(row) \cup (IF n > Len(row) THEN {column.id} \ {NoId} ELSE {})
    BY <1>5, <1>10, <2>1, PaddedIds
  <2>4. QED
    BY <1>4, <2>1, <2>2, <2>3
<1>12. /\ next \in Seq(Columns) /\ Len(next) >= n /\ NoHoles(next)
       /\ IdsOf(next) = (IdsOf(row) \ {c}) \cup Range(ps)
  <2>1. ps \in Seq(Ids \ {NoId})
    BY DEF Parents
  <2>2. QED
    BY <1>6, <1>11, <2>1, NextRowIds
<1>13. drawn \in Seq(Columns) /\ Len(drawn) = Len(next) /\ IdsOf(drawn) = IdsOf(row)
  <2>1. PICK m \in Nat : m = Len(next)
    BY <1>12
  <2>2. m >= Len(expanded)
    BY <1>11, <1>12, <2>1
  <2>3. drawn \in Seq(Columns) /\ Len(drawn) = m
    BY <1>7, <1>11, <2>1, <2>2, PaddedRow
  <2>4. IdsOf(drawn) = IdsOf(expanded) \cup (IF m > Len(expanded) THEN {column.id} \ {NoId} ELSE {})
    BY <1>7, <1>11, <2>1, <2>2, PaddedIds
  <2>5. QED
    BY <1>4, <1>11, <2>1, <2>3, <2>4
<1>14. Drawn(d, c, ps)
  BY <1>9, <1>11, <1>12, <1>13 DEF Drawn
<1>15. QED
  BY <1>8, <1>14

\* The row above: as long as the row, and made of lanes.
LEMMA AboveRow ==
  ASSUME NEW d, NEW c, NEW ps, Drawn(d, c, ps)
  PROVE  Above(d) \in Seq(LaneColumns) /\ Len(Above(d)) = Len(d.next)
<1>1. PICK n \in Nat : n = Len(d.next) /\ n = Len(d.row)
  BY DEF Drawn
<1>2. \A i \in 1 .. n : d.row[i].id \in Ids /\ d.next[i].id \in Ids
  <2>1. \A i \in 1 .. n : d.row[i] \in Columns /\ d.next[i] \in Columns
    BY <1>1 DEF Drawn
  <2>2. QED
    BY <2>1 DEF Columns
<1>3. \A i \in 1 .. n : ShiftLeft(d, i) \in BOOLEAN
  BY DEF ShiftLeft
<1>4. PICK q : q = Above(d)
  OBVIOUS
<1>5. DOMAIN d.row = 1 .. n
  BY <1>1 DEF Drawn
<1>6. q = [i \in 1 .. n |->
              IF d.row[i].id = NoId \/ (i = d.position /\ d.parents # <<>>)
              THEN [id |-> d.next[i].id, shiftLeft |-> FALSE]
              ELSE [id |-> d.row[i].id, shiftLeft |-> ShiftLeft(d, i)]]
  BY <1>4, <1>5 DEF Above
<1>7. q \in [1 .. n -> LaneColumns]
  BY <1>2, <1>3, <1>6 DEF LaneColumns
<1>8. QED
  BY <1>1, <1>4, <1>7
\* Every step draws one commit, in the new graph and in the old one.
Draws(c, ps, boundary) == Draw(Drawing(c, ps, boundary)) /\ Old!Draw(c, ps, boundary)

LEMMA ParentsAreParents ==
  ASSUME NEW c \in Commits, NEW ps \in ParentsOf(c)
  PROVE  ps \in Parents
<1>1. PICK n \in 0 .. MaxParents : ps \in Injection(1 .. n, c + 1 .. NCommits)
  BY DEF ParentsOf
<1>2. ps \in [1 .. n -> c + 1 .. NCommits]
  BY <1>1 DEF Injection
<1>3. n \in Nat
  OBVIOUS
<1>4. c + 1 .. NCommits \subseteq Ids \ {NoId}
  BY CommitsAssumption DEF Commits, Ids, NoId, WorkTree
<1>5. ps \in [1 .. n -> Ids \ {NoId}]
  BY <1>2, <1>4
<1>6. QED
  BY <1>3, <1>5 DEF Parents

LEMMA StepDraws ==
  ASSUME GraphNext
  PROVE  /\ \E c \in Ids \ {NoId}, ps \in Parents, boundary \in BOOLEAN : Draws(c, ps, boundary)
         /\ listed' \in 0 .. NCommits \/ listed' = listed
         /\ head' \in 0 .. NCommits \/ head' = head
<1>1. ASSUME NEW c \in Commits, NEW boundary \in BOOLEAN, NEW ps \in ParentsOf(c),
             GraphCommit(c, ps, boundary)
      PROVE  /\ c \in Ids \ {NoId} /\ ps \in Parents /\ Draws(c, ps, boundary)
             /\ listed' \in 0 .. NCommits /\ head' = head
  <2>1. c \in Ids \ {NoId} /\ c \in 0 .. NCommits
    BY CommitsAssumption DEF Commits, Ids, NoId, WorkTree
  <2>2. ps \in Parents
    BY ParentsAreParents
  <2>3. QED
    BY <1>1, <2>1, <2>2 DEF GraphCommit, Commit, Draws
<1>2. ASSUME NEW h \in Commits, NEW last \in BOOLEAN, GraphChange(h, last)
      PROVE  /\ WorkTree \in Ids \ {NoId} /\ ChangeParents(h, last) \in Parents
             /\ Draws(WorkTree, ChangeParents(h, last), FALSE)
             /\ listed' = listed /\ head' \in 0 .. NCommits
  <2>1. /\ h \in Ids \ {NoId} /\ h \in 0 .. NCommits
        /\ WorkTree \in Ids \ {NoId}
    BY CommitsAssumption DEF Commits, Ids, NoId, WorkTree
  <2>2. <<h>> \in Parents /\ <<WorkTree>> \in Parents
    BY <2>1 DEF Parents
  <2>3. ChangeParents(h, last) \in Parents
    BY <2>2 DEF ChangeParents
  <2>4. QED
    BY <1>2, <2>1, <2>3 DEF GraphChange, Change, Draws
<1>3. CASE \E c \in Commits, boundary \in BOOLEAN : \E ps \in ParentsOf(c) : GraphCommit(c, ps, boundary)
  BY <1>1, <1>3
<1>4. CASE \E h \in Commits, last \in BOOLEAN : GraphChange(h, last)
  BY <1>2, <1>4
<1>5. QED
  BY <1>3, <1>4 DEF GraphNext

\* What a step leaves of the new graph.
LEMMA DrawLeaves ==
  ASSUME RowsOK, NEW c \in Ids \ {NoId}, NEW ps \in Parents, NEW boundary \in BOOLEAN,
         NEW d, d = Drawing(c, ps, boundary), Draw(d)
  PROVE  /\ commit' = c /\ parents' = ps
         /\ IdsOf(row') = (IdsOf(row) \ {c}) \cup Range(ps)
         /\ row' \in Seq(Columns) /\ \A i \in 1 .. Len(row') : row'[i].id = NoId => Len(row') = 1
         /\ prevRow' \in Seq(LaneColumns) /\ Len(prevRow') = Len(row')
         /\ prevPosition' \in Nat \ {0}
<1>1. Drawn(d, c, ps)
  BY DrawingIsDrawn
<1>2. PICK next : next = d.next
  OBVIOUS
<1>3. PICK w : w = Width(next)
  OBVIOUS
<1>4. PICK above : above = Above(d)
  OBVIOUS
<1>5. next \in Seq(Columns) /\ Len(next) >= 1 /\ NoHoles(next)
  BY <1>1, <1>2 DEF Drawn
<1>6. w \in 1 .. Len(next) /\ (w = 1 \/ next[w].id # NoId) /\ IdsOf(SubSeq(next, 1, w)) = IdsOf(next)
  BY <1>3, <1>5, WidthKeepsIds
<1>7. above \in Seq(LaneColumns) /\ Len(above) = Len(next)
  BY <1>1, <1>2, <1>4, AboveRow
<1>8. PICK r : r = SubSeq(next, 1, w)
  OBVIOUS
<1>9. PICK p : p = SubSeq(above, 1, w)
  OBVIOUS
<1>10. r \in Seq(Columns) /\ Len(r) = w /\ \A i \in 1 .. w : r[i] = next[i]
  BY <1>5, <1>6, <1>8
<1>11. p \in Seq(LaneColumns) /\ Len(p) = w
  BY <1>6, <1>7, <1>9
<1>12. /\ commit' = d.commit /\ parents' = d.parents /\ prevPosition' = d.position
       /\ row' = r /\ prevRow' = p
  BY <1>2, <1>3, <1>4, <1>8, <1>9 DEF Draw
<1>13. ASSUME NEW i \in 1 .. w, r[i].id = NoId PROVE w = 1
  <2>1. i \in 1 .. Len(next) /\ next[i].id = NoId /\ w \in i .. Len(next)
    BY <1>6, <1>10, <1>13
  <2>2. next[w].id = NoId
    BY <1>5, <2>1 DEF NoHoles
  <2>3. QED
    BY <1>6, <2>2
<1>14. IdsOf(r) = (IdsOf(row) \ {c}) \cup Range(ps)
  BY <1>1, <1>2, <1>6, <1>8 DEF Drawn
<1>15. d.commit = c /\ d.parents = ps /\ d.position \in Nat \ {0}
  BY <1>1 DEF Drawn
<1>16. QED
  BY <1>10, <1>11, <1>12, <1>13, <1>14, <1>15
\* The rows are right at the start, and stay so.
LEMMA RowsInitially == GraphInit => RowsOK
<1> SUFFICES ASSUME GraphInit PROVE RowsOK
  OBVIOUS
<1>1. 0 \in 0 .. NCommits /\ 0 \in Ids
  BY CommitsAssumption DEF Ids, WorkTree
<1>2. <<>> \in Seq(Columns) /\ <<>> \in Seq(LaneColumns) /\ <<>> \in Parents /\ Len(<<>>) = 0
  BY DEF Parents
<1>3. QED
  BY <1>1, <1>2 DEF GraphInit, Init, NoId, RowsOK

LEMMA RowsStep == RowsOK /\ [GraphNext]_<<vars, oldRow, oldCanvas>> => RowsOK'
<1> SUFFICES ASSUME RowsOK, [GraphNext]_<<vars, oldRow, oldCanvas>>
             PROVE  RowsOK'
  OBVIOUS
<1>1. CASE GraphNext
  <2>1. PICK c \in Ids \ {NoId}, ps \in Parents, boundary \in BOOLEAN : Draws(c, ps, boundary)
    BY <1>1, StepDraws
  <2>2. PICK d : d = Drawing(c, ps, boundary)
    OBVIOUS
  <2>3. Draw(d)
    BY <2>1, <2>2 DEF Draws
  <2>4. /\ commit' = c /\ parents' = ps
        /\ row' \in Seq(Columns) /\ \A i \in 1 .. Len(row') : row'[i].id = NoId => Len(row') = 1
        /\ prevRow' \in Seq(LaneColumns) /\ Len(prevRow') = Len(row')
        /\ prevPosition' \in Nat \ {0}
    BY <2>2, <2>3, DrawLeaves
  <2>5. listed' \in 0 .. NCommits /\ head' \in 0 .. NCommits
    BY <1>1, StepDraws DEF RowsOK
  <2>6. c \in Ids
    OBVIOUS
  <2>7. QED
    BY <2>4, <2>5, <2>6 DEF RowsOK
<1>2. CASE UNCHANGED <<vars, oldRow, oldCanvas>>
  BY <1>2 DEF vars, RowsOK
<1>3. QED
  BY <1>1, <1>2

\* Types, and no hole between the columns: graph_fill_empty_columns pushes
\* the free ones to the right end and graph_collapse cuts them off, and
\* prev_row is cut like row, so that neither is read past its end.
LEMMA RowsAreTyped == RowsOK => TypeOK
<1> SUFFICES ASSUME RowsOK PROVE TypeOK
  OBVIOUS
<1>1. DOMAIN row = 1 .. Len(row) /\ DOMAIN prevRow = 1 .. Len(prevRow)
  BY DEF RowsOK
<1>2. \A i \in 1 .. Len(row) : row[i].id \in Ids /\ row[i].boundary \in BOOLEAN
  <2>1. \A i \in 1 .. Len(row) : row[i] \in Columns
    BY DEF RowsOK
  <2>2. QED
    BY <2>1 DEF Columns
<1>3. \A i \in 1 .. Len(prevRow) : prevRow[i].id \in Ids /\ prevRow[i].shiftLeft \in BOOLEAN
  <2>1. \A i \in 1 .. Len(prevRow) : prevRow[i] \in LaneColumns
    BY DEF RowsOK
  <2>2. QED
    BY <2>1 DEF LaneColumns
<1>4. Range(parents) \subseteq 1 .. WorkTree
  <2>1. \A i \in DOMAIN parents : parents[i] \in Ids \ {NoId}
    BY DEF RowsOK, Parents
  <2>2. Ids \ {NoId} \subseteq 1 .. WorkTree
    BY DEF Ids, NoId
  <2>3. QED
    BY <2>1, <2>2 DEF Range
<1>5. QED
  BY <1>1, <1>2, <1>3, <1>4 DEF RowsOK, TypeOK, Ids

\* For any history: the columns wait for commits without a hole.
THEOREM RowsWithoutHoles == GraphSpec => []TypeOK
<1>1. GraphSpec => []RowsOK
  BY RowsInitially, RowsStep, PTL DEF GraphSpec
<1>2. QED
  BY <1>1, RowsAreTyped, PTL

\* graph_render_parents implements GraphLanes: after every commit the columns
\* are those that were awaited, without the commit and with its parents,
\* whatever was inserted, moved, collapsed and cut off in between.
LEMMA LanesStep ==
  RowsOK /\ [GraphNext]_<<vars, oldRow, oldCanvas>> => [Lanes!Listed]_(Lanes!lanesVars)
<1> SUFFICES ASSUME RowsOK, [GraphNext]_<<vars, oldRow, oldCanvas>>
             PROVE  [Lanes!Listed]_(Lanes!lanesVars)
  OBVIOUS
<1>1. CASE GraphNext
  <2>1. PICK c \in Ids \ {NoId}, ps \in Parents, boundary \in BOOLEAN : Draws(c, ps, boundary)
    BY <1>1, StepDraws
  <2>2. PICK d : d = Drawing(c, ps, boundary)
    OBVIOUS
  <2>3. Draw(d)
    BY <2>1, <2>2 DEF Draws
  <2>4. commit' = c /\ parents' = ps /\ IdsOf(row') = (IdsOf(row) \ {c}) \cup Range(ps)
    BY <2>2, <2>3, DrawLeaves
  <2>5. IdsOf(row') = (IdsOf(row) \ {commit'}) \cup Range(parents')
    BY <2>4
  <2>6. QED
    BY <2>5 DEF Lanes!Listed, IdsOf, Range, Lanes!Range
<1>2. CASE UNCHANGED <<vars, oldRow, oldCanvas>>
  BY <1>2 DEF vars, Lanes!lanesVars, IdsOf
<1>3. QED
  BY <1>1, <1>2

LEMMA LanesInitially == GraphInit => Lanes!LanesInit
<1> SUFFICES ASSUME GraphInit PROVE Lanes!LanesInit
  OBVIOUS
<1>1. row = <<>> /\ parents = <<>>
  BY DEF GraphInit, Init
<1>2. IdsOf(row) = {}
  BY <1>1 DEF IdsOf
<1>3. QED
  BY <1>1, <1>2 DEF Lanes!LanesInit

THEOREM GraphKeepsItsLanes == GraphSpec => ImplementsLanes
<1>1. GraphSpec => []RowsOK
  BY RowsInitially, RowsStep, PTL DEF GraphSpec
<1>2. QED
  BY <1>1, LanesInitially, LanesStep, PTL DEF GraphSpec, ImplementsLanes, Lanes!LanesSpec
-----------------------------------------------------------------------------
(***************************************************************************)
(* The colours.                                                            *)
(***************************************************************************)
Colours == 1 .. NColors
With(t, k) == {id \in DOMAIN t.of : t.of[id] = k}

\* The tables of colours that only know of the ids of X, and whose counts are
\* exact.
Tables(X) ==
  {t \in [of : UNION {[S -> Colours] : S \in SUBSET X}, count : [Colours -> Nat]] :
     \A k \in Colours : t.count[k] = Cardinality(With(t, k))}

LEMMA TableParts ==
  ASSUME NEW X, NEW t
  PROVE  t \in Tables(X) <=>
           /\ t = [of |-> t.of, count |-> t.count]
           /\ t.count \in [Colours -> Nat]
           /\ DOMAIN t.of \subseteq X /\ t.of \in [DOMAIN t.of -> Colours]
           /\ \A k \in Colours : t.count[k] = Cardinality(With(t, k))
<1> DEFINE R == [of : UNION {[S -> Colours] : S \in SUBSET X}, count : [Colours -> Nat]]
<1>1. t \in R <=> /\ t = [of |-> t.of, count |-> t.count]
                  /\ t.of \in UNION {[S -> Colours] : S \in SUBSET X}
                  /\ t.count \in [Colours -> Nat]
  OBVIOUS
<1>2. t.of \in UNION {[S -> Colours] : S \in SUBSET X}
        <=> DOMAIN t.of \subseteq X /\ t.of \in [DOMAIN t.of -> Colours]
  OBVIOUS
<1>3. QED
  BY <1>1, <1>2 DEF Tables

\* get_color finds a colour that is used least.
LEMMA LeastUsedIsColour ==
  ASSUME NEW count \in [Colours -> Nat]
  PROVE  LeastUsed(count) \in Colours
<1> DEFINE used == {count[k] : k \in Colours}
           least == {k \in DOMAIN count : \A l \in DOMAIN count : count[k] <= count[l]}
<1>1. 1 \in Colours
  BY ColorsAssumption DEF Colours
<1>2. used \subseteq Nat /\ used # {}
  BY <1>1
<1>3. PICK m \in used : \A u \in used : m <= u
  <2> HIDE DEF used
  <2>1. QED
    BY <1>2, LeastNatural
<1>4. PICK k \in Colours : m = count[k]
  OBVIOUS
<1>5. k \in least
  BY <1>3, <1>4
<1>6. least \subseteq Nat /\ least \subseteq Colours
  BY DEF Colours
<1>7. LeastUsed(count) = Least(least)
  BY DEF LeastUsed
<1> HIDE DEF least
<1>8. QED
  BY <1>5, <1>6, <1>7, LeastIsLeast

\* get_color: an id that had no colour is counted with the one it is given.
LEMMA GetColorTable ==
  ASSUME NEW X, IsFiniteSet(X), NEW t \in Tables(X), NEW id \in X
  PROVE  GetColor(t, id) \in Tables(X)
<1>1. CASE id \in DOMAIN t.of
  BY <1>1 DEF GetColor
<1>2. CASE id \notin DOMAIN t.of
  <2>1. /\ t.count \in [Colours -> Nat]
        /\ DOMAIN t.of \subseteq X /\ t.of \in [DOMAIN t.of -> Colours]
        /\ \A k \in Colours : t.count[k] = Cardinality(With(t, k))
    BY TableParts
  <2>2. PICK k0 \in Colours : k0 = LeastUsed(t.count)
    BY <2>1, LeastUsedIsColour
  <2>3. PICK u : u = GetColor(t, id)
    OBVIOUS
  <2>4. u = [of    |-> [j \in DOMAIN t.of \cup {id} |-> IF j = id THEN k0 ELSE t.of[j]],
             count |-> [t.count EXCEPT ![k0] = @ + 1]]
    BY <1>2, <2>2, <2>3 DEF GetColor
  <2>5. /\ u = [of |-> u.of, count |-> u.count]
        /\ u.of = [j \in DOMAIN t.of \cup {id} |-> IF j = id THEN k0 ELSE t.of[j]]
        /\ u.count = [t.count EXCEPT ![k0] = @ + 1]
    BY <2>4
  <2>6. DOMAIN u.of = DOMAIN t.of \cup {id} /\ u.of \in [DOMAIN u.of -> Colours]
    BY <2>1, <2>5
  <2>7. u.count \in [Colours -> Nat]
        /\ \A k \in Colours : u.count[k] = IF k = k0 THEN t.count[k] + 1 ELSE t.count[k]
    BY <2>1, <2>5
  <2>8. ASSUME NEW k \in Colours PROVE u.count[k] = Cardinality(With(u, k))
    <3>1. PICK old : old = With(t, k)
      OBVIOUS
    <3>2. IsFiniteSet(old) /\ id \notin old
      <4>1. old \subseteq X
        BY <2>1, <3>1 DEF With
      <4>2. IsFiniteSet(old)
        BY <4>1, FS_Subset
      <4>3. QED
        BY <1>2, <3>1, <4>2 DEF With
    <3>3. CASE k = k0
      <4>1. With(u, k) = old \cup {id}
        BY <2>5, <3>1, <3>3 DEF With
      <4>2. Cardinality(old \cup {id}) = Cardinality(old) + 1
        BY <3>2, FS_AddElement
      <4>3. QED
        BY <2>1, <2>7, <3>1, <3>3, <4>1, <4>2
    <3>4. CASE k # k0
      <4>1. With(u, k) = old
        BY <1>2, <2>5, <3>1, <3>4 DEF With
      <4>2. QED
        BY <2>1, <2>7, <3>1, <3>4, <4>1
    <3>5. QED
      BY <3>3, <3>4
  <2>9. DOMAIN u.of \subseteq X
    BY <2>1, <2>6
  <2>10. u \in Tables(X)
    BY <2>5, <2>6, <2>7, <2>8, <2>9, TableParts
  <2>11. QED
    BY <2>3, <2>10
<1>3. QED
  BY <1>1, <1>2

\* colors_remove_id: the colour is no longer counted for the id.
LEMMA RemoveColorTable ==
  ASSUME NEW X, IsFiniteSet(X), NEW t \in Tables(X), NEW id
  PROVE  RemoveColor(t, id) \in Tables(X \ {id})
<1>1. /\ t = [of |-> t.of, count |-> t.count]
      /\ t.count \in [Colours -> Nat]
      /\ DOMAIN t.of \subseteq X /\ t.of \in [DOMAIN t.of -> Colours]
      /\ \A k \in Colours : t.count[k] = Cardinality(With(t, k))
  BY TableParts
<1>2. CASE id \notin DOMAIN t.of
  <2>1. DOMAIN t.of \subseteq X \ {id}
    BY <1>1, <1>2
  <2>2. PICK Y : Y = X \ {id}
    OBVIOUS
  <2>3. t \in Tables(Y)
    BY <1>1, <2>1, <2>2, TableParts
  <2>4. QED
    BY <1>2, <2>2, <2>3 DEF RemoveColor
<1>3. CASE id \in DOMAIN t.of
  <2>1. PICK k0 \in Colours : k0 = t.of[id]
    BY <1>1, <1>3
  <2>2. PICK u : u = RemoveColor(t, id)
    OBVIOUS
  <2>3. u = [of |-> [j \in DOMAIN t.of \ {id} |-> t.of[j]], count |-> [t.count EXCEPT ![k0] = @ - 1]]
    BY <1>3, <2>1, <2>2 DEF RemoveColor, Restrict
  <2>4. /\ u = [of |-> u.of, count |-> u.count]
        /\ u.of = [j \in DOMAIN t.of \ {id} |-> t.of[j]]
        /\ u.count = [t.count EXCEPT ![k0] = @ - 1]
    BY <2>3
  <2>5. DOMAIN u.of = DOMAIN t.of \ {id} /\ u.of \in [DOMAIN u.of -> Colours]
    BY <1>1, <2>4
  <2>6. \A k \in Colours : u.count[k] = IF k = k0 THEN t.count[k] - 1 ELSE t.count[k]
    BY <1>1, <2>4
  <2>7. ASSUME NEW k \in Colours
        PROVE  u.count[k] = Cardinality(With(u, k)) /\ u.count[k] \in Nat
    <3>1. PICK old : old = With(t, k)
      OBVIOUS
    <3>2. IsFiniteSet(old)
      <4>1. old \subseteq X
        BY <1>1, <3>1 DEF With
      <4>2. QED
        BY <4>1, FS_Subset
    <3>3. CASE k = k0
      <4>1. id \in old
        BY <1>3, <2>1, <3>1, <3>3 DEF With
      <4>2. With(u, k) = old \ {id}
        BY <2>4, <3>1 DEF With
      <4>3. IsFiniteSet(old \ {id}) /\ Cardinality(old \ {id}) = Cardinality(old) - 1
        BY <3>2, <4>1, FS_RemoveElement
      <4>4. Cardinality(old \ {id}) \in Nat
        BY <4>3, FS_CardinalityType
      <4>5. QED
        BY <1>1, <2>6, <3>1, <3>3, <4>2, <4>3, <4>4
    <3>4. CASE k # k0
      <4>1. With(u, k) = old
        BY <2>1, <2>4, <3>1, <3>4 DEF With
      <4>2. QED
        BY <1>1, <2>6, <3>1, <3>4, <4>1
    <3>5. QED
      BY <3>3, <3>4
  <2>8. u.count \in [Colours -> Nat]
    <3>1. DOMAIN u.count = Colours /\ u.count = [k \in Colours |-> u.count[k]]
      BY <1>1, <2>4
    <3>2. QED
      BY <2>7, <3>1
  <2>9. DOMAIN u.of \subseteq X \ {id}
    BY <1>1, <2>5
  <2>10. PICK Y : Y = X \ {id}
    OBVIOUS
  <2>11. u \in Tables(Y)
    BY <2>4, <2>5, <2>7, <2>8, <2>9, <2>10, TableParts
  <2>12. QED
    BY <2>2, <2>10, <2>11
<1>4. QED
  BY <1>2, <1>3
\* The id that graph_generate_symbols asks the colour of column i for.
IdAt(d, i) == IF d.row[i].id # NoId THEN d.row[i].id ELSE d.next[i].id

\* Drawing a row gives colours to the ids of its columns, and takes that of
\* the commit away.
LEMMA ColoredTable ==
  ASSUME NEW X, IsFiniteSet(X), NEW d, d.row \in Seq(Columns),
         \A i \in 1 .. Len(d.row) : IdAt(d, i) \in X,
         [of |-> colorOf, count |-> colorCount] \in Tables(X)
  PROVE  Colored(d) \in Tables(X \ {d.commit})
<1>1. PICK n \in Nat : n = Len(d.row)
  OBVIOUS
<1>2. PICK T : T = Tables(X)
  OBVIOUS
<1>3. PICK first \in T : first = [of |-> colorOf, count |-> colorCount]
  BY <1>2
<1> DEFINE Course(f) == f = [i \in 0 .. Len(d.row) |->
                               IF i = 0 THEN [of |-> colorOf, count |-> colorCount]
                               ELSE GetColor(f[i - 1], IF d.row[i].id # NoId THEN d.row[i].id ELSE d.next[i].id)]
           chosen == CHOOSE after : Course(after)
<1>4. Colored(d) = RemoveColor(chosen[Len(d.row)], d.commit)
  BY Zenon DEF Colored
<1>5. PICK step : step = [x \in T \X (1 .. n) |-> GetColor(x[1], IdAt(d, x[2]))]
  OBVIOUS
<1>6. step \in [T \X (1 .. n) -> T]
  <2>1. ASSUME NEW x \in T \X (1 .. n) PROVE GetColor(x[1], IdAt(d, x[2])) \in T
    <3>1. PICK t \in T, i \in 1 .. n : t = x[1] /\ i = x[2]
      OBVIOUS
    <3>2. PICK id \in X : id = IdAt(d, i)
      BY <1>1
    <3>3. GetColor(t, id) \in T
      BY <1>2, GetColorTable
    <3>4. QED
      BY <3>1, <3>2, <3>3
  <2>2. QED
    BY <1>5, <2>1
<1>7. \A t \in T, i \in 1 .. n : step[<<t, i>>] = GetColor(t, IdAt(d, i))
  BY <1>5
<1>8. PICK f \in [0 .. n -> T] : Rounds(f, n, first, step)
  <2>1. HasRounds(n, T, first, step)
    BY <1>6, RoundsExist
  <2>2. QED
    BY <2>1 DEF HasRounds
<1>9. \A i \in 1 .. n : f[i] = GetColor(f[i - 1], IdAt(d, i))
  <2>1. ASSUME NEW i \in 1 .. n PROVE f[i] = GetColor(f[i - 1], IdAt(d, i))
    <3>1. i - 1 \in 0 .. n
      OBVIOUS
    <3>2. f[i - 1] \in T
      BY <3>1
    <3>3. QED
      BY <1>7, <1>8, <3>2 DEF Rounds
  <2>2. QED
    BY <2>1
<1>10. Course(f)
  <2>1. \A i \in 0 .. n : f[i] = IF i = 0 THEN [of |-> colorOf, count |-> colorCount]
                                 ELSE GetColor(f[i - 1], IF d.row[i].id # NoId THEN d.row[i].id ELSE d.next[i].id)
    BY <1>3, <1>8, <1>9 DEF Rounds, IdAt
  <2>2. QED
    BY <1>1, <2>1
<1>11. Course(chosen)
  <2> HIDE DEF Course
  <2>1. QED
    BY <1>10
<1>12. PICK g : g = chosen
  OBVIOUS
<1>13. /\ g[0] = first
       /\ \A i \in 1 .. n : g[i] = GetColor(g[i - 1], IdAt(d, i))
  <2>1. Course(g)
    BY <1>11, <1>12
  <2> HIDE DEF chosen
  <2>2. \A i \in 0 .. n : g[i] = IF i = 0 THEN [of |-> colorOf, count |-> colorCount]
                                 ELSE GetColor(g[i - 1], IF d.row[i].id # NoId THEN d.row[i].id ELSE d.next[i].id)
    BY <1>1, <2>1
  <2>3. g[0] = first
    BY <1>3, <2>2
  <2>4. ASSUME NEW i \in 1 .. n PROVE g[i] = GetColor(g[i - 1], IdAt(d, i))
    <3>1. i \in 0 .. n /\ i # 0
      OBVIOUS
    <3>2. QED
      BY <2>2, <3>1 DEF IdAt
  <2>5. QED
    BY <2>3, <2>4
<1> HIDE DEF Course, chosen
<1>14. g[n] \in T
  <2> DEFINE S == {i \in 0 .. n : g[i] \in T}
  <2>1. 0 \in S
    BY <1>13
  <2>2. ASSUME NEW i \in 1 .. n, i - 1 \in S PROVE i \in S
    <3>1. PICK t \in T : t = g[i - 1]
      BY <2>2
    <3>2. PICK id \in X : id = IdAt(d, i)
      BY <1>1
    <3>3. GetColor(t, id) \in T
      BY <1>2, GetColorTable
    <3>4. QED
      BY <1>13, <3>1, <3>2, <3>3
  <2> HIDE DEF S
  <2>3. \A k \in 0 .. n : k \in S
    BY <2>1, <2>2, EveryRound
  <2>4. n \in S
    BY <2>3
  <2>5. QED
    BY <2>4 DEF S
<1>15. PICK last \in Tables(X) : last = g[n]
  BY <1>2, <1>14
<1>16. PICK c : c = d.commit
  OBVIOUS
<1>17. RemoveColor(last, c) \in Tables(X \ {c})
  BY RemoveColorTable
<1>18. QED
  BY <1>1, <1>4, <1>12, <1>15, <1>16, <1>17

\* The table of colours knows no other ids than those of the columns.
ColorsOK == [of |-> colorOf, count |-> colorCount] \in Tables(IdsOf(row) \cup {NoId})

LEMMA IdsOfRow ==
  ASSUME NEW r \in Seq(Columns)
  PROVE  IdsOf(r) \subseteq Ids /\ \A i \in 1 .. Len(r) : r[i].id \in IdsOf(r) \cup {NoId}
<1>1. \A i \in 1 .. Len(r) : r[i] \in Columns
  OBVIOUS
<1>2. QED
  BY <1>1 DEF IdsOf, Columns

LEMMA TablesGrow ==
  ASSUME NEW X, NEW Y, X \subseteq Y, NEW t \in Tables(X)
  PROVE  t \in Tables(Y)
BY TableParts

LEMMA ColorsStep == RowsOK /\ ColorsOK /\ [GraphNext]_<<vars, oldRow, oldCanvas>> => ColorsOK'
<1> SUFFICES ASSUME RowsOK, ColorsOK, [GraphNext]_<<vars, oldRow, oldCanvas>>
             PROVE  ColorsOK'
  OBVIOUS
<1>1. CASE GraphNext
  <2>1. PICK c \in Ids \ {NoId}, ps \in Parents, boundary \in BOOLEAN : Draws(c, ps, boundary)
    BY <1>1, StepDraws
  <2>2. PICK d : d = Drawing(c, ps, boundary)
    OBVIOUS
  <2>3. Draw(d)
    BY <2>1, <2>2 DEF Draws
  <2>4. Drawn(d, c, ps)
    BY <2>2, DrawingIsDrawn
  <2>5. PICK above : above = IdsOf(row)
    OBVIOUS
  <2>6. PICK below : below = IdsOf(d.next)
    OBVIOUS
  <2>7. PICK X : X = above \cup below \cup {NoId}
    OBVIOUS
  <2>8. above \subseteq Ids /\ below \subseteq Ids
    BY <2>4, <2>5, <2>6, IdsOfRow DEF RowsOK, Drawn
  <2>9. IsFiniteSet(X)
    <3>1. IsFiniteSet(Ids)
      BY IdsAreNaturals, FS_Interval DEF Ids
    <3>2. X \subseteq Ids
      BY <2>7, <2>8, IdsAreNaturals
    <3>3. QED
      BY <3>1, <3>2, FS_Subset
  <2>10. \A i \in 1 .. Len(d.row) : IdAt(d, i) \in X
    <3>1. \A i \in 1 .. Len(d.row) : d.row[i].id \in above \cup {NoId}
      BY <2>4, <2>5, IdsOfRow DEF Drawn
    <3>2. \A i \in 1 .. Len(d.row) : d.next[i].id \in below \cup {NoId}
      BY <2>4, <2>6, IdsOfRow DEF Drawn
    <3>3. QED
      BY <2>7, <3>1, <3>2 DEF IdAt
  <2>11. [of |-> colorOf, count |-> colorCount] \in Tables(X)
    <3>1. PICK t : t = [of |-> colorOf, count |-> colorCount]
      OBVIOUS
    <3>2. PICK Y : Y = above \cup {NoId}
      OBVIOUS
    <3>3. t \in Tables(Y) /\ Y \subseteq X
      BY <2>5, <2>7, <3>1, <3>2 DEF ColorsOK
    <3>4. t \in Tables(X)
      BY <3>3, TablesGrow
    <3>5. QED
      BY <3>1, <3>4
  <2>12. Colored(d) \in Tables(X \ {c})
    <3>1. d.row \in Seq(Columns) /\ d.commit = c
      BY <2>4 DEF Drawn
    <3>2. QED
      BY <2>9, <2>10, <2>11, <3>1, ColoredTable
  <2>13. PICK t : t = Colored(d)
    OBVIOUS
  <2>14. PICK Y : Y = X \ {c}
    OBVIOUS
  <2>15. t \in Tables(Y)
    BY <2>12, <2>13, <2>14
  <2>16. t = [of |-> t.of, count |-> t.count]
    BY <2>15, TableParts
  <2>17. colorOf' = t.of /\ colorCount' = t.count
    BY <2>3, <2>13 DEF Draw
  <2>18. below = (above \ {c}) \cup Range(ps)
    BY <2>4, <2>5, <2>6 DEF Drawn
  <2>19. PICK Z : Z = below \cup {NoId}
    OBVIOUS
  <2>20. Y \subseteq Z
    BY <2>7, <2>14, <2>18, <2>19
  <2>21. t \in Tables(Z)
    BY <2>15, <2>20, TablesGrow
  <2>22. IdsOf(row') = below
    BY <2>2, <2>3, <2>5, <2>18, DrawLeaves
  <2>23. IdsOf(row)' = IdsOf(row')
    BY DEF IdsOf
  <2>24. [of |-> colorOf', count |-> colorCount'] = t
    BY <2>16, <2>17
  <2>25. QED
    BY <2>19, <2>21, <2>22, <2>23, <2>24 DEF ColorsOK
<1>2. CASE UNCHANGED <<vars, oldRow, oldCanvas>>
  <2>1. IdsOf(row)' = IdsOf(row) /\ colorOf' = colorOf /\ colorCount' = colorCount
    BY <1>2 DEF vars, IdsOf
  <2>2. QED
    BY <2>1 DEF ColorsOK
<1>3. QED
  BY <1>1, <1>2
LEMMA ColorsInitially == GraphInit => ColorsOK
<1> SUFFICES ASSUME GraphInit PROVE ColorsOK
  OBVIOUS
<1>1. PICK X : X = IdsOf(row) \cup {NoId}
  OBVIOUS
<1>2. PICK t : t = [of |-> colorOf, count |-> colorCount]
  OBVIOUS
<1>3. t = [of |-> t.of, count |-> t.count] /\ t.of = colorOf /\ t.count = colorCount
  BY <1>2
<1>4. colorOf = [id \in {} |-> 1] /\ colorCount = [k \in 1 .. NColors |-> 0]
  BY DEF GraphInit, Init
<1>5. DOMAIN t.of = {} /\ t.of \in [DOMAIN t.of -> Colours] /\ t.count \in [Colours -> Nat]
  BY <1>3, <1>4 DEF Colours
<1>6. ASSUME NEW k \in Colours PROVE t.count[k] = Cardinality(With(t, k))
  <2>1. With(t, k) = {}
    BY <1>5 DEF With
  <2>2. t.count[k] = 0
    BY <1>3, <1>4 DEF Colours
  <2>3. QED
    BY <2>1, <2>2, FS_EmptySet
<1>7. t \in Tables(X)
  BY <1>3, <1>5, <1>6, TableParts
<1>8. QED
  BY <1>1, <1>2, <1>7 DEF ColorsOK

LEMMA ColorsAreExact == ColorsOK => ColorsOfLanes
<1> SUFFICES ASSUME ColorsOK PROVE ColorsOfLanes
  OBVIOUS
<1>1. PICK X : X = IdsOf(row) \cup {NoId}
  OBVIOUS
<1>2. PICK t : t = [of |-> colorOf, count |-> colorCount]
  OBVIOUS
<1>3. t \in Tables(X) /\ t.of = colorOf /\ t.count = colorCount
  BY <1>1, <1>2 DEF ColorsOK
<1>4. /\ t.count \in [Colours -> Nat] /\ DOMAIN t.of \subseteq X
      /\ \A k \in Colours : t.count[k] = Cardinality(With(t, k))
  BY <1>3, TableParts
<1>5. DOMAIN colorCount = Colours
  BY <1>3, <1>4
<1>6. \A k \in Colours : With(t, k) = {id \in DOMAIN colorOf : colorOf[id] = k}
  BY <1>3 DEF With
<1>7. QED
  BY <1>1, <1>3, <1>4, <1>5, <1>6 DEF ColorsOfLanes

\* graph-v2's table of colours, for any history: the counts from which
\* get_color picks are those of the table, which holds no commit but those
\* that have a column.
THEOREM ColorsAreOfLanes == GraphSpec => []ColorsOfLanes
<1>1. GraphInit => RowsOK /\ ColorsOK
  BY RowsInitially, ColorsInitially
<1>2. RowsOK /\ ColorsOK /\ [GraphNext]_<<vars, oldRow, oldCanvas>> => RowsOK' /\ ColorsOK'
  BY RowsStep, ColorsStep
<1>3. GraphSpec => [](RowsOK /\ ColorsOK)
  BY <1>1, <1>2, PTL DEF GraphSpec
<1>4. QED
  BY <1>3, ColorsAreExact, PTL
-----------------------------------------------------------------------------
(***************************************************************************)
(* The glyphs of the new graph.                                            *)
(***************************************************************************)
\* The symbols that are drawn with a line to the row below.
LEMMA GlyphWithLine ==
  ASSUME NEW s,
         \/ s.commit
         \/ VerticalBar(s)
         \/ /\ ~TurnLeft(s) /\ ~MultiBranch(s) /\ ~HorizontalBar(s)
            /\ TurnDown(s) \/ Merges(s) \/ MultiMerge(s)
  PROVE  Glyph(s) \in Down \cup Dots
<1> DEFINE q == Questions(s)
           true == {i \in 1 .. 17 : q[i][2]}
<1>1. DOMAIN q = 1 .. 17
  BY DEF Questions
<1>2. /\ q[4][2] <=> s.commit
      /\ q[8][2] <=> VerticalBar(s)
      /\ q[9][2] <=> TurnLeft(s)
      /\ q[10][2] <=> MultiBranch(s)
      /\ q[11][2] <=> HorizontalBar(s)
      /\ q[14][2] <=> TurnDown(s)
      /\ q[15][2] <=> Merges(s)
      /\ q[16][2] <=> MultiMerge(s)
  BY DEF Questions
<1>3. \A i \in 1 .. 17 : i \notin {9, 10, 11, 17} => q[i][1] \in Down \cup Dots
  BY DEF Questions, Down, Dots
<1>4. Glyph(s) = q[Least(true)][1]
  BY <1>1 DEF Glyph
<1> HIDE DEF q
<1>5. true \subseteq Nat
  OBVIOUS
<1>6. \/ 4 \in true
      \/ 8 \in true
      \/ {9, 10, 11} \cap true = {} /\ {14, 15, 16} \cap true # {}
  BY <1>2
<1> HIDE DEF true
<1>7. Least(true) \in true /\ \A k \in true : Least(true) <= k
  <2>1. true # {}
    BY <1>6
  <2>2. QED
    BY <1>5, <2>1, LeastIsLeast
<1>8. true \subseteq 1 .. 17
  BY DEF true
<1>9. Least(true) \in 1 .. 17 /\ Least(true) \notin {9, 10, 11, 17}
  <2>1. PICK m \in 1 .. 17 : m = Least(true) /\ m \in true /\ \A k \in true : m <= k
    BY <1>7, <1>8
  <2>2. CASE 4 \in true
    BY <2>1, <2>2
  <2>3. CASE 8 \in true
    BY <2>1, <2>3
  <2>4. CASE {9, 10, 11} \cap true = {} /\ {14, 15, 16} \cap true # {}
    <3>1. m \notin {9, 10, 11}
      BY <2>1, <2>4
    <3>2. m <= 16
      BY <2>1, <2>4
    <3>3. QED
      BY <2>1, <3>1, <3>2
  <2>5. QED
    BY <1>6, <2>2, <2>3, <2>4
<1>10. QED
  BY <1>3, <1>4, <1>9

\* The commit itself is a dot.
LEMMA CommitHasLine ==
  ASSUME NEW d
  PROVE  Glyph(Symbol(d, d.position)) \in Down \cup Dots
<1>1. Symbol(d, d.position).commit
  BY DEF Symbol
<1>2. QED
  BY <1>1, GlyphWithLine
-----------------------------------------------------------------------------
(* The columns of a row and those of the next one.                         *)

\* graph_fill_empty_columns leaves a column that waits for a commit.
LEMMA FilledColumn ==
  ASSUME NEW next \in Seq(Columns), NEW i \in 1 .. Len(next), next[i].id # NoId
  PROVE  FillEmpty(next)[i] = next[i]
<1>1. PICK f : /\ Lands(f, Len(next), Holes(next), next)
               /\ FillEmpty(next) = [k \in DOMAIN next |-> f[k]]
  BY ChainOfFillEmpty
<1>2. PICK j \in i .. Len(next) : f[i] = next[j] /\ \A k \in i .. j - 1 : k \in Holes(next)
  BY <1>1 DEF Lands
<1>3. i \notin Holes(next)
  BY DEF Holes
<1>4. j = i
  <2>1. i \notin i .. j - 1
    BY <1>2, <1>3
  <2>2. QED
    BY <2>1
<1>5. FillEmpty(next)[i] = f[i]
  BY <1>1
<1>6. QED
  BY <1>2, <1>4, <1>5

\* graph_remove_collapsed_columns leaves a column that does not collapse.
LEMMA UncollapsedColumn ==
  ASSUME NEW next \in Seq(Columns), NEW prev, NEW position, NEW ps,
         NEW i \in 1 .. Len(next), ~Collapses(i, next, prev, position, ps)
  PROVE  RemoveCollapsed(next, prev, position, ps)[i] = next[i]
<1>1. PICK f : /\ Lands(f, Len(next) + 1, Collapsing(next, prev, position, ps), WithEnd(next))
               /\ RemoveCollapsed(next, prev, position, ps) = [k \in DOMAIN next |-> f[k]]
  BY ChainOfRemoveCollapsed
<1>2. PICK skip : skip = Collapsing(next, prev, position, ps)
  OBVIOUS
<1>3. i \notin skip
  BY <1>2 DEF Collapsing
<1>4. i \in 1 .. Len(next) + 1
  OBVIOUS
<1>5. PICK j \in i .. Len(next) + 1 : f[i] = WithEnd(next)[j] /\ \A k \in i .. j - 1 : k \in skip
  BY <1>1, <1>2, <1>4 DEF Lands
<1>6. j = i
  <2>1. i \notin i .. j - 1
    BY <1>3, <1>5
  <2>2. QED
    BY <2>1
<1>7. RemoveCollapsed(next, prev, position, ps)[i] = f[i]
  BY <1>1
<1>8. WithEnd(next)[i] = next[i]
  <2>1. ~(i > Len(next)) /\ i \in 1 .. Len(next) + 1
    OBVIOUS
  <2>2. WithEnd(next)[i] = IF i > Len(next) THEN Column(NoId, FALSE) ELSE next[i]
    BY <2>1 DEF WithEnd
  <2>3. QED
    BY <2>1, <2>2
<1>9. QED
  BY <1>5, <1>6, <1>7, <1>8

LEMMA ClearedColumn ==
  ASSUME NEW r \in Seq(Columns), NEW c \in Ids, NEW i \in 1 .. Len(r)
  PROVE  ClearCommit(r, c)[i].id = IF r[i].id = c THEN NoId ELSE r[i].id
<1>1. ClearCommit(r, c)[i] = IF r[i].id = c THEN [r[i] EXCEPT !.id = NoId] ELSE r[i]
  BY DEF ClearCommit
<1>2. r[i] \in Columns
  OBVIOUS
<1>3. [r[i] EXCEPT !.id = NoId].id = NoId
  BY <1>2 DEF Columns
<1>4. QED
  BY <1>1, <1>3

\* The free column for a new commit is the first one.
LEMMA FoundFree ==
  ASSUME NEW r \in Seq(Columns), NEW id \in Ids, \A i \in 1 .. Len(r) : r[i].id # id \/ id = NoId
  PROVE  \A i \in 1 .. Len(r) : r[i].id = NoId => FindColumn(r, id) <= i
<1> SUFFICES ASSUME NEW i \in 1 .. Len(r), r[i].id = NoId
             PROVE  FindColumn(r, id) <= i
  OBVIOUS
<1>1. CASE id = NoId
  BY <1>1, FoundColumn
<1>2. CASE id # NoId
  <2> DEFINE S == Free(r) \cup {Len(r) + 1}
  <2>1. {k \in DOMAIN r : r[k].id = id} = {}
    BY <1>2
  <2>2. FindColumn(r, id) = Least(S)
    BY <2>1 DEF FindColumn
  <2>3. i \in S /\ S \subseteq Nat
    BY DEF Free
  <2> HIDE DEF S
  <2>4. QED
    BY <2>2, <2>3, LeastIsLeast
<1>3. QED
  BY <1>1, <1>2

\* One round of graph_insert_parents, by columns.
Inserts(q, r, match, p) ==
  /\ match \in 1 .. Len(q)
  /\ Len(q) = IF match > Len(r) THEN Len(r) + 1 ELSE Len(r)
  /\ match > Len(r) => match = Len(r) + 1
  /\ \A i \in 1 .. Len(q) : q[i].id = IF i = match THEN p ELSE r[i].id

LEMMA InsertedColumn ==
  ASSUME NEW r \in Seq(Columns), NEW p \in Ids \ {NoId}, NEW boundary \in BOOLEAN,
         NEW match, match = FindColumn(r, NoId), NEW q, q = InsertParent(r, p, boundary)
  PROVE  Inserts(q, r, match, p)
<1> DEFINE column == Column(p, boundary)
           s == [i \in DOMAIN r |-> IF i = match THEN column ELSE r[i]]
           n == IF match > Len(r) THEN match ELSE Len(r)
<1>1. column \in Columns /\ column.id = p
  BY DEF Column, Columns
<1>2. match \in 1 .. Len(r) + 1
  BY FoundColumn, IdsAreNaturals
<1>3. q = Padded(s, n, column)
  BY DEF InsertParent
<1> HIDE DEF column
<1>4. s \in Seq(Columns) /\ Len(s) = Len(r)
      /\ \A i \in 1 .. Len(r) : s[i] = IF i = match THEN column ELSE r[i]
  <2>1. s = [i \in 1 .. Len(r) |-> IF i = match THEN column ELSE r[i]]
    OBVIOUS
  <2> HIDE DEF s
  <2>2. s \in [1 .. Len(r) -> Columns]
    BY <1>1, <2>1
  <2>3. s \in Seq(Columns) /\ Len(s) = Len(r)
    BY <2>2
  <2>4. QED
    BY <2>1, <2>3
<1>5. n \in Nat /\ n >= Len(s) /\ n = IF match > Len(r) THEN Len(r) + 1 ELSE Len(r)
  BY <1>2, <1>4
<1> HIDE DEF s, n
<1>6. Len(q) = n /\ \A i \in 1 .. n : q[i] = IF i <= Len(s) THEN s[i] ELSE column
  <2>1. s \in Seq(Columns) /\ n \in Nat /\ n >= Len(s) /\ column \in Columns
    BY <1>1, <1>4, <1>5
  <2>2. PICK t \in Seq(Columns), m \in Nat, x \in Columns :
          t = s /\ m = n /\ x = column /\ m >= Len(t) /\ q = Padded(t, m, x)
    BY <1>3, <2>1
  <2>3. Len(q) = m /\ \A i \in 1 .. m : q[i] = IF i <= Len(t) THEN t[i] ELSE x
    <3>1. t \in Seq(Columns) /\ m \in Nat /\ m >= Len(t) /\ x \in Columns
      BY <2>2
    <3>2. /\ Padded(t, m, x) \in Seq(Columns)
          /\ Len(Padded(t, m, x)) = m
          /\ \A i \in 1 .. m : Padded(t, m, x)[i] = IF i <= Len(t) THEN t[i] ELSE x
      BY ONLY <3>1, PaddedRow
    <3>3. QED
      BY <2>2, <3>2
  <2>4. QED
    BY <2>2, <2>3
<1>7. ASSUME NEW i \in 1 .. n PROVE q[i].id = IF i = match THEN p ELSE r[i].id
  <2>1. CASE i <= Len(r)
    <3>1. i \in 1 .. Len(r)
      BY <2>1, <1>5
    <3>2. q[i] = IF i = match THEN column ELSE r[i]
      BY <1>4, <1>6, <2>1, <3>1
    <3>3. QED
      BY <1>1, <3>2
  <2>2. CASE ~(i <= Len(r))
    <3>1. q[i] = column /\ i = match
      BY <1>2, <1>4, <1>5, <1>6, <2>2
    <3>2. QED
      BY <1>1, <3>1
  <2>3. QED
    BY <2>1, <2>2
<1>8. QED
  BY <1>2, <1>5, <1>6, <1>7 DEF Inserts

\* graph_insert_parents leaves the columns that wait for a commit, gives the
\* first free one to the first parent, and has no column of another commit.
LEMMA InsertedColumns ==
  ASSUME NEW r \in Seq(Columns), NEW ps \in Seq(Ids \ {NoId}), NEW boundary \in BOOLEAN,
         NEW q, q = InsertParents(r, ps, boundary)
  PROVE  /\ q \in Seq(Columns) /\ Len(q) >= Len(r)
         /\ \A i \in 1 .. Len(r) : r[i].id # NoId => q[i].id = r[i].id
         /\ \A i \in 1 .. Len(q) : (i <= Len(r) /\ q[i].id = r[i].id) \/ q[i].id \in Range(ps)
         /\ ps # <<>> => FindColumn(r, NoId) <= Len(q) /\ q[FindColumn(r, NoId)].id = ps[1]
<1>1. PICK f : /\ f = [n \in 0 .. Len(ps) |-> IF n = 0 THEN r ELSE InsertParent(f[n - 1], ps[n], boundary)]
               /\ q = f[Len(ps)]
  BY RoundsOfInsertParents
<1>2. PICK first \in 1 .. Len(r) + 1 : /\ first = FindColumn(r, NoId)
                                       /\ first <= Len(r) => r[first].id = NoId
  BY FoundColumn, IdsAreNaturals
<1> DEFINE Done(x, n) == /\ x \in Seq(Columns) /\ Len(x) >= Len(r)
                         /\ \A i \in 1 .. Len(r) : r[i].id # NoId => x[i].id = r[i].id
                         /\ \A i \in 1 .. Len(x) : (i <= Len(r) /\ x[i].id = r[i].id) \/ x[i].id \in Range(ps)
                         /\ n = 0 => x = r
                         /\ n # 0 => first <= Len(x) /\ x[first].id = ps[1]
           S == {n \in 0 .. Len(ps) : Done(f[n], n)}
<1>3. 0 \in S
  <2>1. f[0] = r
    BY <1>1
  <2>2. Done(r, 0)
    OBVIOUS
  <2> HIDE DEF Done
  <2>3. QED
    BY <2>1, <2>2
<1>4. ASSUME NEW n \in 1 .. Len(ps), n - 1 \in S PROVE n \in S
  <2>1. f[n] = InsertParent(f[n - 1], ps[n], boundary)
    BY <1>1
  <2>2. PICK before : before = f[n - 1] /\ Done(before, n - 1)
    BY <1>4
  <2>3. PICK p \in Ids \ {NoId} : p = ps[n] /\ p \in Range(ps)
    BY DEF Range
  <2>4. PICK match : match = FindColumn(before, NoId)
    OBVIOUS
  <2>5. PICK x : x = InsertParent(before, p, boundary)
    OBVIOUS
  <2>6. before \in Seq(Columns) /\ Len(before) >= Len(r)
    BY <2>2
  <2>7. /\ match \in 1 .. Len(x)
        /\ Len(x) = IF match > Len(before) THEN Len(before) + 1 ELSE Len(before)
        /\ match > Len(before) => match = Len(before) + 1
        /\ \A i \in 1 .. Len(x) : x[i].id = IF i = match THEN p ELSE before[i].id
    <3>1. before \in Seq(Columns) /\ p \in Ids \ {NoId} /\ boundary \in BOOLEAN
      BY <2>6
    <3>2. Inserts(x, before, match, p)
      BY ONLY <2>4, <2>5, <3>1, InsertedColumn
    <3>3. QED
      BY <3>2 DEF Inserts
  <2>8. match <= Len(before) => before[match].id = NoId
    BY <2>4, <2>6, FoundColumn, IdsAreNaturals
  <2>9. x \in Seq(Columns) /\ Len(x) >= Len(before)
    BY <2>5, <2>6, InsertedParent
  <2>10. \A i \in 1 .. Len(before) : before[i].id # NoId => x[i].id = before[i].id
    <3>1. TAKE i \in 1 .. Len(before)
    <3>2. i \in 1 .. Len(x)
      BY <2>6, <2>9
    <3>3. QED
      BY <2>6, <2>7, <2>8, <3>2
  <2>11. \A i \in 1 .. Len(r) : r[i].id # NoId => x[i].id = r[i].id
    <3>1. TAKE i \in 1 .. Len(r)
    <3>2. i \in 1 .. Len(before)
      BY <2>6
    <3>3. QED
      BY <2>2, <2>10, <3>2
  <2>12. \A i \in 1 .. Len(x) : (i <= Len(r) /\ x[i].id = r[i].id) \/ x[i].id \in Range(ps)
    <3>1. TAKE i \in 1 .. Len(x)
    <3>2. CASE i = match
      BY <2>3, <2>7, <3>2
    <3>3. CASE i # match
      <4>1. i \in 1 .. Len(before) /\ x[i].id = before[i].id
        BY <2>6, <2>7, <3>3
      <4>2. QED
        BY <2>2, <4>1
    <3>4. QED
      BY <3>2, <3>3
  <2>13. first <= Len(x) /\ x[first].id = ps[1]
    <3>1. CASE n = 1
      <4>1. before = r
        BY <2>2, <3>1
      <4>2. match = first
        BY <1>2, <2>4, <4>1
      <4>3. QED
        BY <2>3, <2>7, <3>1, <4>2
    <3>2. CASE n # 1
      <4>1. first <= Len(before) /\ before[first].id = ps[1]
        BY <2>2, <3>2
      <4>2. ps[1] # NoId /\ first \in 1 .. Len(before)
        BY <2>6, <4>1, <1>2
      <4>3. QED
        BY <2>6, <2>9, <2>10, <4>1, <4>2
    <3>3. QED
      BY <3>1, <3>2
  <2>14. Len(x) >= Len(r)
    BY <2>6, <2>9
  <2>15. Done(x, n)
    BY <2>9, <2>11, <2>12, <2>13, <2>14
  <2> HIDE DEF Done
  <2>16. QED
    BY <2>1, <2>2, <2>3, <2>5, <2>15
<1>5. Done(q, Len(ps))
  <2> HIDE DEF S
  <2>1. PICK n \in Nat : n = Len(ps)
    OBVIOUS
  <2>2. \A k \in 0 .. n : k \in S
    BY <1>3, <1>4, <2>1, EveryRound
  <2>3. QED
    BY <1>1, <2>1, <2>2 DEF S
<1>6. ps # <<>> => Len(ps) # 0
  OBVIOUS
<1>7. QED
  BY <1>2, <1>5, <1>6

\* Where the parents come if one of the first m columns is free and those
\* behind them: the first parent there, and the others at the end.
OneFree(r, free, m) == \A i \in 1 .. Len(r) : r[i].id = NoId <=> (i = free \/ i > m)

LEMMA InsertedAtEnd ==
  ASSUME NEW r \in Seq(Columns), NEW ps \in Seq(Ids \ {NoId}), NEW boundary \in BOOLEAN,
         NEW m \in Nat, m <= Len(r), NEW free \in 1 .. m,
         OneFree(r, free, m), ps # <<>>, Len(r) <= m + Len(ps) - 1,
         NEW q, q = InsertParents(r, ps, boundary)
  PROVE  /\ Len(q) = m + Len(ps) - 1
         /\ \A k \in 2 .. Len(ps) : q[m + k - 1].id = ps[k]
<1>1. PICK f : /\ f = [n \in 0 .. Len(ps) |-> IF n = 0 THEN r ELSE InsertParent(f[n - 1], ps[n], boundary)]
               /\ q = f[Len(ps)]
  BY RoundsOfInsertParents
<1> DEFINE Done(x, n) ==
             /\ x \in Seq(Columns) /\ Len(x) >= Len(r)
             /\ Len(x) = Len(r) \/ Len(x) = m + n - 1
             /\ Len(x) >= m + n - 1
             /\ \A i \in 1 .. Len(x) : x[i].id = NoId <=> ((i = free /\ n = 0) \/ (i > m /\ i > m + n - 1))
             /\ \A k \in 2 .. n : x[m + k - 1].id = ps[k]
           S == {n \in 0 .. Len(ps) : Done(f[n], n)}
<1>2. 0 \in S
  <2>1. f[0] = r
    BY <1>1
  <2>2. Done(r, 0)
    BY DEF OneFree
  <2> HIDE DEF Done
  <2>3. QED
    BY <2>1, <2>2
<1>3. ASSUME NEW n \in 1 .. Len(ps), n - 1 \in S PROVE n \in S
  <2>1. f[n] = InsertParent(f[n - 1], ps[n], boundary)
    <3>1. n \in 0 .. Len(ps) /\ n # 0
      OBVIOUS
    <3>2. QED
      BY ONLY <1>1, <3>1
  <2>2. PICK before : before = f[n - 1] /\ Done(before, n - 1)
    BY <1>3
  <2>3. PICK p \in Ids \ {NoId} : p = ps[n]
    OBVIOUS
  <2>4. PICK match : match = FindColumn(before, NoId)
    OBVIOUS
  <2>5. PICK x : x = InsertParent(before, p, boundary)
    OBVIOUS
  <2>6. /\ before \in Seq(Columns) /\ Len(before) >= Len(r) /\ Len(before) \in Nat
        /\ Len(before) = Len(r) \/ Len(before) = m + n - 2
        /\ Len(before) >= m + n - 2
        /\ \A i \in 1 .. Len(before) : before[i].id = NoId <=> ((i = free /\ n = 1) \/ (i > m /\ i > m + n - 2))
        /\ \A k \in 2 .. n - 1 : before[m + k - 1].id = ps[k]
    BY <2>2
  <2>7. /\ match \in 1 .. Len(x)
        /\ Len(x) = IF match > Len(before) THEN Len(before) + 1 ELSE Len(before)
        /\ match > Len(before) => match = Len(before) + 1
        /\ \A i \in 1 .. Len(x) : x[i].id = IF i = match THEN p ELSE before[i].id
    <3>1. before \in Seq(Columns) /\ p \in Ids \ {NoId} /\ boundary \in BOOLEAN
      BY <2>6
    <3>2. Inserts(x, before, match, p)
      BY ONLY <2>4, <2>5, <3>1, InsertedColumn
    <3>3. QED
      BY <3>2 DEF Inserts
  <2>8. /\ match <= Len(before) => before[match].id = NoId
        /\ \A i \in 1 .. Len(before) : before[i].id = NoId => match <= i
    BY <2>4, <2>6, FoundColumn, IdsAreNaturals
  <2>9. x \in Seq(Columns)
    BY <2>5, <2>6, InsertedParent
  <2>10. CASE n = 1
    <3>1. free \in 1 .. Len(before) /\ before[free].id = NoId
      BY <2>6, <2>10
    <3>2. match = free
      <4>1. match <= free
        BY <2>8, <3>1
      <4>2. match \in 1 .. Len(before) /\ ~(match > m)
        BY <2>6, <2>7, <3>1, <4>1
      <4>3. QED
        BY <2>6, <2>8, <2>10, <4>2
    <3>3. Len(x) = Len(before)
      BY <2>7, <3>1, <3>2
    <3>4. \A i \in 1 .. Len(x) : x[i].id = NoId <=> (i > m /\ i > m + n - 1)
      BY <2>6, <2>7, <2>10, <3>2, <3>3
    <3>5. Done(x, n)
      BY <2>6, <2>9, <2>10, <3>3, <3>4
    <3> HIDE DEF Done
    <3>6. QED
      BY <2>1, <2>2, <2>3, <2>5, <3>5
  <2>11. CASE n # 1
    <3>1. n >= 2 /\ m + n - 2 >= m /\ n \in Nat
      BY <2>11
    <3>2. match = m + n - 1
      <4>1. CASE Len(before) = m + n - 2
        <5>1. \A i \in 1 .. Len(before) : before[i].id # NoId
          BY <2>6, <2>11, <4>1
        <5>2. ~(match <= Len(before))
          BY <2>7, <2>8, <5>1
        <5>3. QED
          BY <2>6, <2>7, <4>1, <5>2
      <4>2. CASE Len(before) # m + n - 2
        <5>1. m + n - 1 \in 1 .. Len(before)
          <6>1. /\ Len(before) \in Nat /\ m \in Nat /\ n \in Nat
                /\ Len(before) >= m + n - 2 /\ Len(before) # m + n - 2 /\ n >= 2
            BY <2>6, <3>1, <4>2
          <6>2. QED
            BY ONLY <6>1
        <5>2. before[m + n - 1].id = NoId
          BY <2>6, <3>1, <5>1
        <5>3. match <= m + n - 1
          BY <2>8, <5>1, <5>2
        <5>4. match \in 1 .. Len(before)
          BY <2>7, <5>1, <5>3
        <5>5. match > m + n - 2
          BY <2>6, <2>8, <2>11, <5>4
        <5>6. QED
          BY <5>3, <5>4, <5>5
      <4>3. QED
        BY <4>1, <4>2
    <3>3. /\ Len(x) >= Len(before) /\ Len(x) >= m + n - 1 /\ Len(x) \in Nat
          /\ Len(x) = Len(r) \/ Len(x) = m + n - 1
      <4>1. CASE match > Len(before)
        <5>1. Len(x) = match /\ Len(x) = Len(before) + 1
          BY <2>6, <2>7, <4>1
        <5>2. QED
          BY <2>6, <3>2, <5>1
      <4>2. CASE ~(match > Len(before))
        BY <2>6, <2>7, <3>1, <3>2, <4>2
      <4>3. QED
        BY <4>1, <4>2
    <3>4. ASSUME NEW i \in 1 .. Len(x)
          PROVE  x[i].id = NoId <=> (i > m /\ i > m + n - 1)
      <4>1. CASE i = match
        <5>1. x[i].id # NoId
          BY <2>3, <2>7, <4>1
        <5>2. ~(i > m + n - 1)
          BY <3>1, <3>2, <4>1
        <5>3. QED
          BY <5>1, <5>2
      <4>2. CASE i # match
        <5>1. i \in 1 .. Len(before) /\ x[i].id = before[i].id
          BY <2>6, <2>7, <4>2
        <5>2. before[i].id = NoId <=> (i > m /\ i > m + n - 2)
          BY <2>6, <2>11, <5>1
        <5>3. QED
          BY <3>1, <3>2, <4>2, <5>1, <5>2
      <4>3. QED
        BY <4>1, <4>2
    <3>5. ASSUME NEW k \in 2 .. n PROVE x[m + k - 1].id = ps[k]
      <4>1. m + k - 1 \in 1 .. Len(x)
        BY <3>1, <3>3
      <4>2. CASE k = n
        BY <2>3, <2>7, <3>2, <4>1, <4>2
      <4>3. CASE k # n
        <5>1. k \in 2 .. n - 1 /\ m + k - 1 # match
          BY <3>1, <3>2, <4>3
        <5>2. QED
          BY <2>6, <2>7, <4>1, <5>1
      <4>4. QED
        BY <4>2, <4>3
    <3>6. Done(x, n)
      BY <2>6, <2>9, <2>11, <3>3, <3>4, <3>5
    <3> HIDE DEF Done
    <3>7. QED
      BY <2>1, <2>2, <2>3, <2>5, <3>6
  <2>12. QED
    BY <2>10, <2>11
<1>4. Done(q, Len(ps))
  <2> HIDE DEF S
  <2>1. PICK n \in Nat : n = Len(ps)
    OBVIOUS
  <2>2. \A k \in 0 .. n : k \in S
    BY <1>2, <1>3, <2>1, EveryRound
  <2>3. n \in S
    BY <2>1, <2>2
  <2> HIDE DEF Done
  <2>4. QED
    BY <1>1, <2>1, <2>3 DEF S
<1>5. /\ q \in Seq(Columns)
      /\ Len(q) = Len(r) \/ Len(q) = m + Len(ps) - 1
      /\ Len(q) >= m + Len(ps) - 1
      /\ \A k \in 2 .. Len(ps) : q[m + k - 1].id = ps[k]
  BY <1>4
<1>6. Len(q) \in Nat /\ Len(r) \in Nat /\ Len(ps) \in Nat
  BY <1>5
<1>7. Len(r) <= m + Len(ps) - 1
  OBVIOUS
<1>8. QED
  BY ONLY <1>5, <1>6, <1>7, m \in Nat
-----------------------------------------------------------------------------
\* The rows from which Drawing makes the next one: r is the row with the
\* columns that graph_expand adds, q what graph_insert_parents makes of it.
Parts(d, c, ps, boundary, r, q) ==
  /\ d.commit = c /\ d.parents = ps /\ d.position = FindColumn(row, c)
  /\ r \in Seq(Columns) /\ Len(r) >= Len(row) /\ Len(r) >= d.position
  /\ ps # <<>> => Len(r) = Len(row) \/ Len(r) = d.position + Len(ps) - 1
  /\ \A i \in 1 .. Len(r) : r[i].id = IF i <= Len(row) THEN row[i].id ELSE NoId
  /\ q = InsertParents(ClearCommit(r, c), ps, boundary)
  /\ q \in Seq(Columns) /\ Len(q) >= Len(r)
  /\ d.prev = Padded(prevRow, Len(q), NoLane)
  /\ d.next = FillEmpty(RemoveCollapsed(q, d.prev, d.position, ps))
  /\ d.next \in Seq(Columns) /\ Len(d.next) = Len(q)
  /\ d.row \in Seq(Columns) /\ Len(d.row) = Len(q)
  /\ \A i \in 1 .. Len(q) : d.row[i].id = IF i <= Len(row) THEN row[i].id ELSE NoId

LEMMA DrawingHasParts ==
  ASSUME RowsOK, NEW c \in Ids \ {NoId}, NEW ps \in Parents, NEW boundary \in BOOLEAN,
         NEW d, d = Drawing(c, ps, boundary)
  PROVE  \E r, q : Parts(d, c, ps, boundary, r, q)
<1>1. PICK position \in Nat \ {0} : position = FindColumn(row, c)
  BY FoundColumn DEF RowsOK
<1> DEFINE wanted == position + (IF ps = <<>> THEN 1 ELSE Len(ps)) - 1
           width == IF wanted > Len(row) THEN wanted ELSE Len(row)
           free == Column(NoId, boundary)
<1>2. PICK n \in Nat : /\ n = width /\ n >= Len(row) /\ n >= position
                       /\ ps # <<>> => n = Len(row) \/ n = position + Len(ps) - 1
  <2>1. Len(row) \in Nat /\ Len(ps) \in Nat /\ (ps # <<>> => Len(ps) >= 1)
    BY DEF RowsOK, Parents
  <2>2. wanted \in Nat /\ wanted >= position /\ (ps # <<>> => wanted = position + Len(ps) - 1)
    BY <2>1
  <2> HIDE DEF wanted
  <2>3. QED
    BY <2>1, <2>2
<1>3. PICK column \in Columns : column = free /\ column.id = NoId
  <2>1. free \in Columns /\ free.id = NoId
    BY IdsAreNaturals DEF Column, Columns
  <2> HIDE DEF free
  <2>2. QED
    BY <2>1
<1>4. PICK r : r = Padded(row, n, column)
  OBVIOUS
<1>5. PICK q : q = InsertParents(ClearCommit(r, c), ps, boundary)
  OBVIOUS
<1>6. PICK prev : prev = Padded(prevRow, Len(q), NoLane)
  OBVIOUS
<1>7. PICK next : next = FillEmpty(RemoveCollapsed(q, prev, position, ps))
  OBVIOUS
<1>8. next = NextRow(r, prevRow, c, position, ps, boundary)
  BY <1>5, <1>6, <1>7 DEF NextRow
<1>9. PICK drawn : drawn = Padded(r, Len(next), column)
  OBVIOUS
<1>10. /\ d.commit = c /\ d.parents = ps /\ d.position = position
       /\ d.prev = Padded(prevRow, Len(next), NoLane) /\ d.row = drawn /\ d.next = next
  BY <1>1, <1>2, <1>3, <1>4, <1>8, <1>9 DEF Drawing
<1> HIDE DEF width, wanted, free
<1>11. row \in Seq(Columns) /\ ps \in Seq(Ids \ {NoId}) /\ c \in Ids
  BY DEF RowsOK, Parents
<1>12. r \in Seq(Columns) /\ Len(r) = n /\ \A i \in 1 .. n : r[i] = IF i <= Len(row) THEN row[i] ELSE column
  <2>1. row \in Seq(Columns) /\ n \in Nat /\ n >= Len(row) /\ column \in Columns
    BY <1>2, <1>11
  <2>2. /\ Padded(row, n, column) \in Seq(Columns) /\ Len(Padded(row, n, column)) = n
        /\ \A i \in 1 .. n : Padded(row, n, column)[i] = IF i <= Len(row) THEN row[i] ELSE column
    BY ONLY <2>1, PaddedRow
  <2>3. QED
    BY ONLY <1>4, <2>2
<1>13. ClearCommit(r, c) \in Seq(Columns) /\ Len(ClearCommit(r, c)) = n
  BY <1>11, <1>12, ClearedIds
<1>14. q \in Seq(Columns) /\ Len(q) >= n
  BY <1>5, <1>11, <1>13, InsertParentsIds
<1>15. PICK collapsed : collapsed = RemoveCollapsed(q, prev, position, ps)
  OBVIOUS
<1>16. collapsed \in Seq(Columns) /\ Len(collapsed) = Len(q)
  BY <1>14, <1>15, CollapsedRow
<1>17. next \in Seq(Columns) /\ Len(next) = Len(q)
  BY <1>7, <1>15, <1>16, FilledRow
<1>18. PICK m \in Nat : m = Len(q) /\ m >= n
  BY <1>14
<1>19. drawn \in Seq(Columns) /\ Len(drawn) = m /\ \A i \in 1 .. m : drawn[i] = IF i <= Len(r) THEN r[i] ELSE column
  <2>1. r \in Seq(Columns) /\ m \in Nat /\ m >= Len(r) /\ column \in Columns
    BY <1>12, <1>18
  <2>2. drawn = Padded(r, m, column)
    BY <1>9, <1>17, <1>18
  <2>3. /\ Padded(r, m, column) \in Seq(Columns) /\ Len(Padded(r, m, column)) = m
        /\ \A i \in 1 .. m : Padded(r, m, column)[i] = IF i <= Len(r) THEN r[i] ELSE column
    BY ONLY <2>1, PaddedRow
  <2>4. QED
    BY ONLY <2>2, <2>3
<1>20. \A i \in 1 .. n : r[i].id = IF i <= Len(row) THEN row[i].id ELSE NoId
  BY <1>3, <1>12
<1>21. \A i \in 1 .. m : drawn[i].id = IF i <= Len(row) THEN row[i].id ELSE NoId
  <2>1. TAKE i \in 1 .. m
  <2>2. CASE i <= n
    <3>1. i \in 1 .. n
      BY <2>2
    <3>2. drawn[i] = r[i]
      BY <1>12, <1>19, <2>2
    <3>3. QED
      BY <1>20, <3>1, <3>2
  <2>3. CASE ~(i <= n)
    <3>1. drawn[i] = column /\ ~(i <= Len(row))
      BY <1>2, <1>11, <1>12, <1>19, <2>3
    <3>2. QED
      BY <1>3, <3>1
  <2>4. QED
    BY <2>2, <2>3
<1>22. Parts(d, c, ps, boundary, r, q)
  BY <1>1, <1>2, <1>5, <1>6, <1>7, <1>10, <1>12, <1>14, <1>17, <1>18, <1>19, <1>20, <1>21 DEF Parts
<1>23. QED
  BY <1>22

\* The row above has a column for each of the row, and none behind them.
LEMMA PrevColumn ==
  ASSUME RowsOK, NEW d, NEW c, NEW ps, NEW boundary, NEW r, NEW q, Parts(d, c, ps, boundary, r, q),
         NEW i \in 1 .. Len(q)
  PROVE  d.prev[i] = IF i <= Len(row) THEN prevRow[i] ELSE NoLane
<1>1. PICK n \in Nat : n = Len(q) /\ n >= Len(row)
  BY DEF Parts, RowsOK
<1>2. PICK lane : lane = NoLane
  OBVIOUS
<1>3. \A k \in 1 .. n : Padded(prevRow, n, lane)[k] = IF k <= Len(prevRow) THEN prevRow[k] ELSE lane
  BY DEF Padded
<1>4. d.prev = Padded(prevRow, n, lane) /\ Len(prevRow) = Len(row) /\ i \in 1 .. n
  BY <1>1, <1>2 DEF Parts, RowsOK
<1>5. QED
  BY <1>2, <1>3, <1>4

\* A column of q that does not collapse is the same in the next row.
LEMMA NextColumn ==
  ASSUME NEW d, NEW c, NEW ps, NEW boundary, NEW r, NEW q, Parts(d, c, ps, boundary, r, q),
         NEW i \in 1 .. Len(q), q[i].id # NoId, ~Collapses(i, q, d.prev, d.position, ps)
  PROVE  d.next[i].id = q[i].id
<1>1. PICK collapsed : collapsed = RemoveCollapsed(q, d.prev, d.position, ps)
  OBVIOUS
<1>2. q \in Seq(Columns)
  BY DEF Parts
<1>3. collapsed[i] = q[i]
  BY <1>1, <1>2, UncollapsedColumn
<1>4. collapsed \in Seq(Columns) /\ Len(collapsed) = Len(q)
  BY <1>1, <1>2, CollapsedRow
<1>5. FillEmpty(collapsed)[i] = collapsed[i]
  BY <1>3, <1>4, FilledColumn
<1>6. QED
  BY <1>1, <1>3, <1>5 DEF Parts

\* Where the commit is.
LEMMA PositionOfCommit ==
  ASSUME RowsOK, NEW c \in Ids \ {NoId}, NEW p, p = FindColumn(row, c)
  PROVE  /\ p \in 1 .. Len(row) + 1
         /\ p <= Len(row) => row[p].id \in {c, NoId}
         /\ \A i \in 1 .. Len(row) : row[i].id \in {c, NoId} => p <= i
         /\ \A i \in 1 .. Len(row) : row[i].id = c => row[p].id = c
<1>1. row \in Seq(Columns) /\ c \in Ids
  BY DEF RowsOK
<1>2. /\ p \in 1 .. Len(row) + 1
      /\ p <= Len(row) => row[p].id \in {c, NoId}
      /\ \A i \in 1 .. Len(row) : row[i].id = c => p <= i /\ row[p].id = c
  BY <1>1, FoundColumn
<1>3. ASSUME NEW i \in 1 .. Len(row), row[i].id = NoId PROVE p <= i
  <2>1. CASE \A j \in 1 .. Len(row) : row[j].id # c
    BY <1>1, <1>3, <2>1, FoundFree
  <2>2. CASE \E j \in 1 .. Len(row) : row[j].id = c
    <3>1. Len(row) = 1
      BY <1>3 DEF RowsOK
    <3>2. QED
      BY <1>3, <2>2, <3>1
  <2>3. QED
    BY <2>1, <2>2
<1>4. QED
  BY <1>2, <1>3

\* The first parent takes the column of the commit.
LEMMA FirstParentBelow ==
  ASSUME RowsOK, NEW c \in Ids \ {NoId}, NEW ps \in Parents, NEW boundary \in BOOLEAN,
         NEW d, NEW r, NEW q, Parts(d, c, ps, boundary, r, q), ps # <<>>
  PROVE  d.position \in 1 .. Len(q) /\ d.next[d.position].id = ps[1]
<1>1. PICK p : p = d.position /\ p = FindColumn(row, c)
  BY DEF Parts
<1>2. /\ p \in 1 .. Len(row) + 1
      /\ p <= Len(row) => row[p].id \in {c, NoId}
      /\ \A i \in 1 .. Len(row) : row[i].id \in {c, NoId} => p <= i
  BY <1>1, PositionOfCommit
<1>3. /\ r \in Seq(Columns) /\ Len(r) >= Len(row) /\ p \in 1 .. Len(r) /\ p \in 1 .. Len(q)
      /\ \A i \in 1 .. Len(r) : r[i].id = IF i <= Len(row) THEN row[i].id ELSE NoId
  <2>1. Len(r) >= p /\ Len(q) >= Len(r) /\ Len(r) \in Nat /\ Len(q) \in Nat
    BY <1>1 DEF Parts
  <2>2. QED
    BY <1>2, <2>1 DEF Parts
<1>4. PICK cleared : cleared = ClearCommit(r, c)
  OBVIOUS
<1>5. cleared \in Seq(Columns) /\ Len(cleared) = Len(r)
  BY <1>3, <1>4, ClearedIds
<1>6. \A i \in 1 .. Len(r) : cleared[i].id = NoId <=> r[i].id \in {c, NoId}
  BY <1>3, <1>4, ClearedColumn
<1>7. PICK first : first = FindColumn(cleared, NoId)
  OBVIOUS
<1>8. /\ first \in 1 .. Len(r) + 1
      /\ first <= Len(r) => cleared[first].id = NoId
      /\ \A i \in 1 .. Len(r) : cleared[i].id = NoId => first <= i
  BY <1>5, <1>7, FoundColumn, IdsAreNaturals
<1>9. first <= p
  <2>1. r[p].id \in {c, NoId}
    BY <1>2, <1>3
  <2>2. QED
    BY <1>3, <1>6, <1>8, <2>1
<1>10. p <= first
  <2>1. first \in 1 .. Len(r) /\ r[first].id \in {c, NoId}
    BY <1>3, <1>6, <1>8, <1>9
  <2>2. CASE first <= Len(row)
    BY <1>2, <1>3, <2>1, <2>2
  <2>3. CASE ~(first <= Len(row))
    BY <1>2, <2>1, <2>3
  <2>4. QED
    BY <2>2, <2>3
<1>11. first = p
  BY <1>2, <1>8, <1>9, <1>10
<1>12. q[p].id = ps[1]
  <2>1. /\ q = InsertParents(cleared, ps, boundary) /\ ps \in Seq(Ids \ {NoId})
        /\ cleared \in Seq(Columns) /\ boundary \in BOOLEAN /\ ps # <<>>
    BY <1>4, <1>5 DEF Parts, Parents
  <2>2. q[FindColumn(cleared, NoId)].id = ps[1]
    BY ONLY <2>1, InsertedColumns
  <2>3. QED
    BY <1>7, <1>11, <2>2
<1>13. ps[1] # NoId
  BY DEF Parents
<1>14. ~Collapses(p, q, d.prev, d.position, ps)
  BY <1>1 DEF Collapses
<1>15. d.next[p].id = ps[1]
  BY <1>3, <1>12, <1>13, <1>14, NextColumn
<1>16. QED
  BY <1>1, <1>3, <1>15

\* A lane that goes on is drawn in its leftmost column, unless it has been
\* moved.
LEMMA LeftmostHasLine ==
  ASSUME RowsOK, NEW c \in Ids \ {NoId}, NEW ps \in Parents, NEW boundary \in BOOLEAN,
         NEW d, NEW r, NEW q, Parts(d, c, ps, boundary, r, q),
         NEW id \in Ids \ {NoId, c}, id \notin Range(ps),
         NEW l \in 1 .. Len(row), row[l].id = id, \A j \in 1 .. l - 1 : row[j].id # id,
         \/ l <= d.position
         \/ \E k \in l + 1 .. Len(row) : row[k].id = id
         \/ prevRow[l].id = id /\ ~prevRow[l].shiftLeft
  PROVE  l \in 1 .. Len(q) /\ d.next[l].id = id /\ Glyph(Symbol(d, l)) \in Down \cup Dots
<1>1. PICK p : p = d.position /\ p = FindColumn(row, c)
  BY DEF Parts
<1>2. /\ p \in 1 .. Len(row) + 1
      /\ p <= Len(row) => row[p].id \in {c, NoId}
      /\ \A i \in 1 .. Len(row) : row[i].id \in {c, NoId} => p <= i
  BY <1>1, PositionOfCommit
<1>3. /\ r \in Seq(Columns) /\ Len(r) >= Len(row) /\ Len(r) \in Nat /\ Len(row) \in Nat
      /\ \A i \in 1 .. Len(r) : r[i].id = IF i <= Len(row) THEN row[i].id ELSE NoId
      /\ q \in Seq(Columns) /\ Len(q) >= Len(r) /\ Len(q) \in Nat
      /\ \A i \in 1 .. Len(q) : d.row[i].id = IF i <= Len(row) THEN row[i].id ELSE NoId
      /\ Len(d.row) = Len(q)
  BY DEF Parts, RowsOK
<1>4. l \in 1 .. Len(r) /\ l \in 1 .. Len(q)
  BY <1>3
<1>5. PICK cleared : cleared = ClearCommit(r, c)
  OBVIOUS
<1>6. cleared \in Seq(Columns) /\ Len(cleared) = Len(r)
  BY <1>3, <1>5, ClearedIds
<1>7. \A i \in 1 .. Len(r) : cleared[i].id = IF r[i].id = c THEN NoId ELSE r[i].id
  BY <1>3, <1>5, ClearedColumn
<1>8. /\ \A i \in 1 .. Len(cleared) : cleared[i].id # NoId => q[i].id = cleared[i].id
      /\ \A i \in 1 .. Len(q) : (i <= Len(cleared) /\ q[i].id = cleared[i].id) \/ q[i].id \in Range(ps)
  <2>1. /\ q = InsertParents(cleared, ps, boundary) /\ ps \in Seq(Ids \ {NoId})
        /\ cleared \in Seq(Columns) /\ boundary \in BOOLEAN
    BY <1>5, <1>6 DEF Parts, Parents
  <2>2. QED
    BY ONLY <2>1, InsertedColumns
<1>9. q[l].id = id
  <2>1. cleared[l].id = id
    BY <1>3, <1>4, <1>7
  <2>2. QED
    BY <1>4, <1>6, <1>8, <2>1
<1>10. ~Collapses(l, q, d.prev, d.position, ps)
  <2> SUFFICES ASSUME l > 1 PROVE q[l - 1].id # id
    BY <1>9 DEF Collapses
  <2>1. l - 1 \in 1 .. Len(r) /\ l - 1 \in 1 .. Len(q) /\ l - 1 <= Len(row) /\ l - 1 \in 1 .. l - 1
    BY <1>3, <1>4
  <2>2. r[l - 1].id # id
    BY <1>3, <2>1
  <2>3. cleared[l - 1].id # id
    BY <1>7, <2>1, <2>2
  <2>4. QED
    BY <1>8, <2>1, <2>3
<1>11. d.next[l].id = id
  BY <1>4, <1>9, <1>10, NextColumn
<1>12. d.row[l].id = id /\ \A j \in 1 .. l - 1 : d.row[j].id # id
  <2>1. d.row[l].id = id
    BY <1>3, <1>4
  <2>2. ASSUME NEW j \in 1 .. l - 1 PROVE d.row[j].id # id
    <3>1. j \in 1 .. Len(q) /\ j <= Len(row)
      BY <1>4
    <3>2. QED
      BY <1>3, <3>1
  <2>3. QED
    BY <2>1, <2>2
<1>13. PICK s : s = Symbol(d, l)
  OBVIOUS
<1>14. /\ s.continuedDown <=> d.row[l].id = d.next[l].id
       /\ s.continuedUp <=> ContinuedDown(d.prev, d.row, l)
       /\ s.continuedRight <=> ContinuedRight(d.row, l, d.position)
       /\ s.parentRight <=> ParentRight(d, l)
       /\ s.flanked <=> Flanked(d, l)
       /\ s.matchesCommit <=> d.row[l].id = d.commit
       /\ s.shiftLeft <=> ShiftLeft(d, l)
       /\ s.empty <=> d.row[l].id = NoId
  BY <1>13 DEF Symbol
<1>15. s.continuedDown /\ ~s.shiftLeft /\ ~s.matchesCommit /\ ~s.empty
  <2>1. ~ShiftLeft(d, l)
    BY <1>12 DEF ShiftLeft
  <2>2. d.commit = c
    BY DEF Parts
  <2>3. QED
    BY <1>11, <1>12, <1>14, <2>1, <2>2
<1>16. ~TurnLeft(s) /\ ~MultiBranch(s) /\ ~HorizontalBar(s)
  BY <1>15 DEF TurnLeft, MultiBranch, HorizontalBar
<1>17. CASE s.continuedRight
  <2>1. TurnDown(s)
    BY <1>15, <1>17 DEF TurnDown
  <2>2. QED
    BY <1>4, <1>11, <1>13, <1>16, <2>1, GlyphWithLine
<1>18. CASE ~s.continuedRight
  <2>1. s.continuedUp \/ ~(s.parentRight \/ s.flanked)
    <3>1. l # p
      BY <1>2
    <3>2. CASE l < p
      <4>1. ~ParentRight(d, l)
        BY <1>1, <1>2, <3>2 DEF ParentRight
      <4>2. ~Flanked(d, l)
        <5>1. ASSUME NEW j \in 1 .. l - 1, d.row[j].id = c PROVE FALSE
          <6>1. j \in 1 .. Len(q) /\ j \in 1 .. Len(row) /\ j < p /\ j <= Len(row)
            BY <1>2, <1>4, <3>2
          <6>2. row[j].id = c
            BY <1>3, <5>1, <6>1
          <6>3. QED
            BY <1>2, <6>1, <6>2
        <5>2. d.commit = c
          BY DEF Parts
        <5>3. QED
          BY <1>1, <3>2, <5>1, <5>2 DEF Flanked
      <4>3. QED
        BY <1>14, <4>1, <4>2
    <3>3. CASE l > p
      <4>1. ASSUME NEW k \in l + 1 .. Len(row), row[k].id = id PROVE FALSE
        <5>1. k \in l + 1 .. Len(d.row) /\ d.row[k].id = d.row[l].id
          <6>1. k \in 1 .. Len(q) /\ k <= Len(row) /\ k \in l + 1 .. Len(q)
            BY <1>3
          <6>2. QED
            BY <1>3, <1>12, <4>1, <6>1
        <5>2. ~(l < d.position)
          BY <1>1, <1>2, <3>3
        <5>3. ContinuedRight(d.row, l, d.position)
          BY <5>1, <5>2 DEF ContinuedRight
        <5>4. QED
          BY <1>14, <1>18, <5>3
      <4>2. prevRow[l].id = id /\ ~prevRow[l].shiftLeft
        BY <1>1, <1>2, <3>3, <4>1
      <4>3. d.prev[l] = prevRow[l]
        BY <1>4, PrevColumn
      <4>4. s.continuedUp
        BY <1>12, <1>14, <4>2, <4>3 DEF ContinuedDown
      <4>5. QED
        BY <4>4
    <3>4. QED
      BY <1>2, <3>1, <3>2, <3>3
  <2>2. VerticalBar(s)
    BY <1>15, <1>18, <2>1 DEF VerticalBar
  <2>3. QED
    BY <1>4, <1>11, <1>13, <2>2, GlyphWithLine
<1>19. QED
  BY <1>17, <1>18

\* The parents of a merge after the first take the columns behind the row if
\* only one lane ends at it.
Once(c) == \A i, j \in 1 .. Len(row) : row[i].id = c /\ row[j].id = c => i = j
Behind(m, d, q, ps) ==
  /\ m >= Len(row) /\ m >= d.position
  /\ Len(q) = m + Len(ps) - 1
  /\ \A k \in 2 .. Len(ps) : d.next[m + k - 1].id = ps[k]

LEMMA LaterParents ==
  ASSUME RowsOK, NEW c \in Ids \ {NoId}, NEW ps \in Parents, NEW boundary \in BOOLEAN,
         NEW d, NEW r, NEW q, Parts(d, c, ps, boundary, r, q), ps # <<>>, Once(c)
  PROVE  \E m \in Nat : Behind(m, d, q, ps)
<1>1. PICK p : p = d.position /\ p = FindColumn(row, c)
  BY DEF Parts
<1>2. /\ p \in 1 .. Len(row) + 1
      /\ p <= Len(row) => row[p].id \in {c, NoId}
      /\ \A i \in 1 .. Len(row) : row[i].id \in {c, NoId} => p <= i
      /\ \A i \in 1 .. Len(row) : row[i].id = c => row[p].id = c
  BY <1>1, PositionOfCommit
<1>3. /\ r \in Seq(Columns) /\ Len(r) >= Len(row) /\ Len(r) \in Nat /\ Len(row) \in Nat
      /\ Len(r) >= p
      /\ Len(r) = Len(row) \/ Len(r) = p + Len(ps) - 1
      /\ \A i \in 1 .. Len(r) : r[i].id = IF i <= Len(row) THEN row[i].id ELSE NoId
      /\ q \in Seq(Columns) /\ Len(q) >= Len(r) /\ Len(q) \in Nat
      /\ ps \in Seq(Ids \ {NoId}) /\ Len(ps) \in Nat /\ Len(ps) >= 1
  <2>1. row \in Seq(Columns) /\ ps \in Seq(Ids \ {NoId})
    BY DEF RowsOK, Parents
  <2>2. /\ r \in Seq(Columns) /\ Len(r) >= Len(row) /\ Len(r) >= p
        /\ Len(r) = Len(row) \/ Len(r) = p + Len(ps) - 1
        /\ \A i \in 1 .. Len(r) : r[i].id = IF i <= Len(row) THEN row[i].id ELSE NoId
        /\ q \in Seq(Columns) /\ Len(q) >= Len(r)
    BY <1>1 DEF Parts
  <2>3. Len(row) \in Nat /\ Len(r) \in Nat /\ Len(q) \in Nat /\ Len(ps) \in Nat
    BY <2>1, <2>2
  <2>4. Len(ps) >= 1
    BY <2>1
  <2>5. QED
    BY ONLY <2>1, <2>2, <2>3, <2>4
<1>4. PICK m \in Nat : m = IF p > Len(row) THEN p ELSE Len(row)
  <2>1. p \in Nat /\ Len(row) \in Nat
    BY <1>2, <1>3
  <2>2. QED
    BY ONLY <2>1
<1>5. m >= Len(row) /\ m >= p /\ p \in 1 .. m /\ m <= Len(r) /\ Len(r) <= m + Len(ps) - 1
  BY <1>2, <1>3, <1>4
<1>6. PICK cleared : cleared = ClearCommit(r, c)
  OBVIOUS
<1>7. cleared \in Seq(Columns) /\ Len(cleared) = Len(r)
  BY <1>3, <1>6, ClearedIds
<1>8. ASSUME NEW i \in 1 .. Len(r) PROVE cleared[i].id = NoId <=> (i = p \/ i > m)
  <2>1. cleared[i].id = NoId <=> r[i].id \in {c, NoId}
    BY <1>3, <1>6, ClearedColumn
  <2>2. CASE i <= Len(row)
    <3>1. i \in 1 .. Len(row) /\ r[i].id = row[i].id /\ ~(i > m)
      BY <1>3, <1>5, <2>2
    <3>2. ASSUME row[i].id = c PROVE i = p
      <4>1. p <= i /\ row[p].id = c
        BY <1>2, <3>1, <3>2
      <4>2. p \in 1 .. Len(row)
        BY <1>2, <3>1, <4>1
      <4>3. QED
        BY <3>1, <3>2, <4>1, <4>2 DEF Once
    <3>3. ASSUME row[i].id = NoId PROVE i = p
      <4>1. p <= i /\ Len(row) = 1
        BY <1>2, <3>1, <3>3 DEF RowsOK
      <4>2. QED
        BY <1>2, <3>1, <4>1
    <3>4. ASSUME i = p PROVE row[i].id \in {c, NoId}
      BY <1>2, <2>2, <3>4
    <3>5. QED
      BY <2>1, <3>1, <3>2, <3>3, <3>4
  <2>3. CASE ~(i <= Len(row))
    <3>1. r[i].id = NoId
      BY <1>3, <2>3
    <3>2. i = p \/ i > m
      BY <1>2, <1>3, <1>4, <2>3
    <3>3. QED
      BY <2>1, <3>1, <3>2
  <2>4. QED
    BY <2>2, <2>3
<1>9. /\ Len(q) = m + Len(ps) - 1
      /\ \A k \in 2 .. Len(ps) : q[m + k - 1].id = ps[k]
  <2>1. /\ q = InsertParents(cleared, ps, boundary) /\ ps \in Seq(Ids \ {NoId})
        /\ cleared \in Seq(Columns) /\ boundary \in BOOLEAN /\ m \in Nat /\ m <= Len(cleared)
        /\ p \in 1 .. m /\ ps # <<>> /\ Len(cleared) <= m + Len(ps) - 1
        /\ OneFree(cleared, p, m)
    BY <1>3, <1>5, <1>6, <1>7, <1>8 DEF Parts, OneFree
  <2>2. QED
    BY ONLY <2>1, InsertedAtEnd
<1>10. ASSUME NEW k \in 2 .. Len(ps) PROVE d.next[m + k - 1].id = ps[k]
  <2>1. PICK j \in 1 .. Len(q) : j = m + k - 1 /\ j > m /\ j > Len(row)
    BY <1>3, <1>5, <1>9
  <2>2. q[j].id = ps[k] /\ ps[k] # NoId /\ ps[k] \in Range(ps)
    BY <1>3, <1>9, <2>1 DEF Range
  <2>3. d.prev[j].id = NoId
    <3>1. d.prev[j] = IF j <= Len(row) THEN prevRow[j] ELSE NoLane
      BY <2>1, PrevColumn
    <3>2. ~(j <= Len(row))
      BY <1>3, <2>1
    <3>3. QED
      BY <3>1, <3>2 DEF NoLane
  <2>4. ~Collapses(j, q, d.prev, d.position, ps)
    BY <2>2, <2>3 DEF Collapses
  <2>5. d.next[j].id = q[j].id
    BY <2>2, <2>4, NextColumn
  <2>6. QED
    BY <2>1, <2>2, <2>5
<1>11. QED
  BY <1>1, <1>5, <1>9, <1>10 DEF Behind

LEMMA LaterParentHasLine ==
  ASSUME RowsOK, NEW c \in Ids \ {NoId}, NEW ps \in Parents, NEW boundary \in BOOLEAN,
         NEW d, NEW r, NEW q, Parts(d, c, ps, boundary, r, q), ps # <<>>, Once(c),
         \A i, j \in 1 .. Len(ps) : ps[i] = ps[j] => i = j,
         NEW k \in 2 .. Len(ps)
  PROVE  \E l \in 1 .. Len(q) : d.next[l].id = ps[k] /\ Glyph(Symbol(d, l)) \in Down \cup Dots
<1>1. PICK m \in Nat : /\ m >= Len(row) /\ m >= d.position
                       /\ Len(q) = m + Len(ps) - 1
                       /\ \A n \in 2 .. Len(ps) : d.next[m + n - 1].id = ps[n]
  <2>1. \E m \in Nat : Behind(m, d, q, ps)
    BY LaterParents
  <2>2. QED
    BY <2>1 DEF Behind
<1>2. /\ Len(q) \in Nat /\ Len(row) \in Nat /\ Len(ps) \in Nat
      /\ Len(d.next) = Len(q) /\ d.commit = c /\ d.parents = ps
      /\ \A i \in 1 .. Len(q) : d.row[i].id = IF i <= Len(row) THEN row[i].id ELSE NoId
  BY DEF Parts, Parents, RowsOK
<1>3. PICK l \in 1 .. Len(q) : l = m + k - 1 /\ l > m
  BY <1>1, <1>2
<1>4. d.next[l].id = ps[k] /\ ps[k] # NoId /\ ps[k] \in Range(ps)
  <2>1. ps[k] # NoId /\ ps[k] \in Range(ps)
    BY DEF Parents, Range
  <2>2. QED
    BY <1>1, <1>3, <2>1
<1>5. d.row[l].id = NoId
  <2>1. ~(l <= Len(row))
    BY <1>1, <1>2, <1>3
  <2>2. QED
    BY <1>2, <2>1
<1>6. PICK s : s = Symbol(d, l)
  OBVIOUS
<1>7. /\ s.continuedDown <=> d.row[l].id = d.next[l].id
      /\ s.matchesCommit <=> d.row[l].id = d.commit
      /\ s.shiftLeft <=> ShiftLeft(d, l)
      /\ s.nextRight <=> ContinuedRight(d.next, l, 0)
      /\ s.parentDown <=> d.next[l].id \in Range(d.parents)
  BY <1>6 DEF Symbol
<1>8. ~s.continuedDown /\ ~s.matchesCommit /\ ~s.shiftLeft /\ s.parentDown
  <2>1. ~ShiftLeft(d, l)
    BY <1>5 DEF ShiftLeft
  <2>2. QED
    BY <1>2, <1>4, <1>5, <1>7, <2>1
<1>9. ~s.nextRight
  <2>1. ASSUME NEW i \in l + 1 .. Len(q), d.next[i].id = d.next[l].id PROVE FALSE
    <3>1. PICK n \in 2 .. Len(ps) : n = i - m + 1 /\ n > k /\ i = m + n - 1
      BY <1>1, <1>2, <1>3
    <3>2. ps[n] = ps[k] /\ n \in 1 .. Len(ps) /\ k \in 1 .. Len(ps)
      BY <1>1, <1>4, <2>1, <3>1
    <3>3. QED
      BY <3>1, <3>2
  <2>2. ~(l < 0)
    OBVIOUS
  <2>3. ~ContinuedRight(d.next, l, 0)
    BY <1>2, <2>1, <2>2 DEF ContinuedRight
  <2>4. QED
    BY <1>7, <2>3
<1>10. ~TurnLeft(s) /\ ~MultiBranch(s) /\ ~HorizontalBar(s)
  BY <1>8, <1>9 DEF TurnLeft, MultiBranch, HorizontalBar
<1>11. Merges(s) \/ MultiMerge(s)
  BY <1>8 DEF Merges, MultiMerge
<1>12. Glyph(s) \in Down \cup Dots
  BY <1>10, <1>11, GlyphWithLine
<1>13. QED
  BY <1>4, <1>6, <1>12
-----------------------------------------------------------------------------
(* Every lane.                                                             *)

\* git lists no parent twice, nor does main_add_changes_commit.
LEMMA ParentsDiffer ==
  ASSUME GraphNext
  PROVE  \A i, j \in DOMAIN parents' : parents'[i] = parents'[j] => i = j
<1>1. ASSUME NEW c \in Commits, NEW boundary \in BOOLEAN, NEW ps \in ParentsOf(c),
             GraphCommit(c, ps, boundary)
      PROVE  \A i, j \in DOMAIN parents' : parents'[i] = parents'[j] => i = j
  <2>1. parents' = ps
    BY <1>1 DEF GraphCommit, Commit, Draw, Drawing
  <2>2. PICK n \in 0 .. MaxParents : ps \in Injection(1 .. n, c + 1 .. NCommits)
    BY DEF ParentsOf
  <2>3. DOMAIN ps = 1 .. n /\ \A i, j \in 1 .. n : ps[i] = ps[j] => i = j
    BY <2>2 DEF Injection, IsInjective
  <2>4. QED
    BY <2>1, <2>3
<1>2. ASSUME NEW h \in Commits, NEW last \in BOOLEAN, GraphChange(h, last)
      PROVE  \A i, j \in DOMAIN parents' : parents'[i] = parents'[j] => i = j
  <2>1. parents' = ChangeParents(h, last)
    BY <1>2 DEF GraphChange, Change, Draw, Drawing
  <2>2. DOMAIN parents' = {1}
    BY <2>1 DEF ChangeParents
  <2>3. QED
    BY <2>2
<1>3. CASE \E c \in Commits, boundary \in BOOLEAN : \E ps \in ParentsOf(c) : GraphCommit(c, ps, boundary)
  BY <1>1, <1>3
<1>4. CASE \E h \in Commits, last \in BOOLEAN : GraphChange(h, last)
  BY <1>2, <1>4
<1>5. QED
  BY <1>3, <1>4 DEF GraphNext

LEMMA OneEnds ==
  ASSUME RowsOK, Cardinality(Ending) <= 1
  PROVE  Once(commit')
<1> SUFFICES ASSUME NEW i \in 1 .. Len(row), NEW j \in 1 .. Len(row),
                    row[i].id = commit', row[j].id = commit', i # j
             PROVE  FALSE
  BY DEF Once
<1>1. PICK S : S = Ending
  OBVIOUS
<1>2. i \in S /\ j \in S /\ S \subseteq 1 .. Len(row)
  BY <1>1 DEF Ending, RowsOK
<1>3. IsFiniteSet(1 .. Len(row))
  BY FS_Interval DEF RowsOK
<1>4. IsFiniteSet(S)
  BY <1>2, <1>3, FS_Subset
<1>5. {i, j} \subseteq S /\ Cardinality({i, j}) = 2
  <2>1. IsFiniteSet({i}) /\ Cardinality({i}) = 1
    BY FS_Singleton
  <2>2. Cardinality({i} \cup {j}) = 2
    <3>1. PICK T : T = {i}
      OBVIOUS
    <3>2. IsFiniteSet(T) /\ j \notin T /\ Cardinality(T) = 1
      BY <2>1, <3>1
    <3>3. Cardinality(T \cup {j}) = Cardinality(T) + 1
      BY <3>2, FS_AddElement
    <3>4. QED
      BY <3>1, <3>2, <3>3
  <2>3. {i, j} = {i} \cup {j}
    OBVIOUS
  <2>4. QED
    BY <1>2, <2>2, <2>3
<1>6. 2 <= Cardinality(S)
  BY <1>4, <1>5, FS_Subset
<1>7. Cardinality(S) \in Nat
  BY <1>4, FS_CardinalityType
<1>8. QED
  BY <1>1, <1>6, <1>7

\* What is seen of the rows that Drawing makes.
LEMMA SeenLine ==
  ASSUME RowsOK, NEW c \in Ids \ {NoId}, NEW ps \in Parents, NEW boundary \in BOOLEAN,
         NEW d, NEW r, NEW q, Parts(d, c, ps, boundary, r, q), Draw(d),
         NEW id \in Ids \ {NoId}, NEW l \in 1 .. Len(q),
         d.next[l].id = id, Glyph(Symbol(d, l)) \in Down \cup Dots
  PROVE  HasLine(id)
<1>1. PICK next : next = d.next
  OBVIOUS
<1>2. next \in Seq(Columns) /\ Len(next) = Len(q) /\ l \in 1 .. Len(next) /\ DOMAIN d.row = 1 .. Len(q)
  BY <1>1 DEF Parts
<1>3. PICK w : w = Width(next)
  OBVIOUS
<1>4. w \in 1 .. Len(next) /\ \A i \in w + 1 .. Len(next) : next[i].id = NoId
  BY <1>2, <1>3, WidthKeepsIds
<1>5. l \in 1 .. w
  <2>1. l \notin w + 1 .. Len(next)
    BY <1>1, <1>4
  <2>2. QED
    BY <1>2, <1>4, <2>1
<1>6. PICK kept : kept = SubSeq(next, 1, w)
  OBVIOUS
<1>7. DOMAIN kept = 1 .. w /\ kept[l] = next[l]
  BY <1>2, <1>4, <1>5, <1>6
<1>8. row' = kept /\ canvas' = [i \in 1 .. Len(q) |-> Glyph(Symbol(d, i))]
  BY <1>1, <1>2, <1>3, <1>6 DEF Draw
<1>9. At(canvas', l) = Glyph(Symbol(d, l))
  BY <1>8 DEF At
<1>10. l \in DOMAIN row' /\ row'[l].id = id
  BY <1>1, <1>5, <1>7, <1>8
<1>11. QED
  BY <1>9, <1>10 DEF HasLine

LaneOfEach ==
  \A id \in IdsOf(row') :
    (IF id \in Range(parents') THEN id = Head(parents') \/ Cardinality(Ending) <= 1
     ELSE ~Moved(id))
    => HasLine(id)

LEMMA EachStepDrawsLanes ==
  RowsOK /\ [GraphNext]_<<vars, oldRow, oldCanvas>> => [LaneOfEach]_vars
<1> SUFFICES ASSUME RowsOK, GraphNext
             PROVE  LaneOfEach
  BY DEF vars
<1>1. PICK c \in Ids \ {NoId}, ps \in Parents, boundary \in BOOLEAN : Draws(c, ps, boundary)
  BY StepDraws
<1>2. PICK d : d = Drawing(c, ps, boundary)
  OBVIOUS
<1>3. Draw(d)
  BY <1>1, <1>2 DEF Draws
<1>4. commit' = c /\ parents' = ps /\ IdsOf(row') = (IdsOf(row) \ {c}) \cup Range(ps)
  BY <1>2, <1>3, DrawLeaves
<1>5. PICK r, q : Parts(d, c, ps, boundary, r, q)
  BY <1>2, DrawingHasParts
<1>6. prevPosition' = d.position
  BY <1>3 DEF Draw
<1>7. ASSUME NEW id \in Range(ps), id = Head(ps) \/ Cardinality(Ending) <= 1
      PROVE  HasLine(id)
  <2>1. ps \in Seq(Ids \ {NoId}) /\ ps # <<>>
    BY DEF Parents, Range
  <2>2. PICK k \in 1 .. Len(ps) : id = ps[k] /\ id \in Ids \ {NoId}
    BY <2>1 DEF Range
  <2>3. CASE id = ps[1]
    <3>1. d.position \in 1 .. Len(q) /\ d.next[d.position].id = id
      BY <1>5, <2>1, <2>3, FirstParentBelow
    <3>2. QED
      BY <1>3, <1>5, <2>2, <3>1, CommitHasLine, SeenLine
  <2>4. CASE id # ps[1]
    <3>1. Cardinality(Ending) <= 1 /\ k \in 2 .. Len(ps)
      BY <1>7, <2>1, <2>2, <2>4
    <3>2. Once(c)
      BY <1>4, <3>1, OneEnds
    <3>3. \A i, j \in 1 .. Len(ps) : ps[i] = ps[j] => i = j
      BY <1>4, <2>1, ParentsDiffer
    <3>4. PICK l \in 1 .. Len(q) : d.next[l].id = id /\ Glyph(Symbol(d, l)) \in Down \cup Dots
      BY <1>5, <2>1, <2>2, <3>1, <3>2, <3>3, LaterParentHasLine
    <3>5. QED
      BY <1>3, <1>5, <2>2, <3>4, SeenLine
  <2>5. QED
    BY <2>3, <2>4
<1>8. ASSUME NEW id \in IdsOf(row) \ {c}, id \notin Range(ps), ~Moved(id)
      PROVE  HasLine(id)
  <2>1. row \in Seq(Columns) /\ id \in Ids \ {NoId, c}
    <3>1. row \in Seq(Columns)
      BY DEF RowsOK
    <3>2. id # NoId /\ \E i \in 1 .. Len(row) : row[i].id = id
      BY <3>1 DEF IdsOf
    <3>3. \A i \in 1 .. Len(row) : row[i].id \in Ids
      <4>1. \A i \in 1 .. Len(row) : row[i] \in Columns
        BY <3>1
      <4>2. QED
        BY <4>1 DEF Columns
    <3>4. QED
      BY <3>1, <3>2, <3>3
  <2>2. PICK S : S = {i \in DOMAIN row : row[i].id = id}
    OBVIOUS
  <2>3. S \subseteq Nat /\ S # {}
    BY <2>1, <2>2 DEF IdsOf
  <2>4. PICK l : l = Least(S) /\ l \in S /\ \A k \in S : l <= k
    BY <2>3, LeastIsLeast
  <2>5. l \in 1 .. Len(row) /\ row[l].id = id /\ \A j \in 1 .. l - 1 : row[j].id # id
    <3>1. l \in 1 .. Len(row) /\ row[l].id = id
      BY <2>1, <2>2, <2>4
    <3>2. ASSUME NEW j \in 1 .. l - 1, row[j].id = id PROVE FALSE
      <4>1. j \in S
        BY <2>1, <2>2, <3>1, <3>2
      <4>2. QED
        BY <2>4, <3>1, <4>1
    <3>3. QED
      BY <3>1, <3>2
  <2>6. \/ l <= d.position
        \/ \E k \in l + 1 .. Len(row) : row[k].id = id
        \/ prevRow[l].id = id /\ ~prevRow[l].shiftLeft
    <3>1. \/ S # {l}
          \/ ~(l > d.position)
          \/ prevRow[l].id = id /\ ~prevRow[l].shiftLeft
      BY <1>6, <1>8, <2>2, <2>4 DEF Moved
    <3>2. ASSUME S # {l} PROVE \E k \in l + 1 .. Len(row) : row[k].id = id
      <4>1. PICK k \in S : k # l
        BY <2>4, <3>2
      <4>2. k \in 1 .. Len(row) /\ row[k].id = id /\ l <= k
        BY <2>1, <2>2, <2>4, <4>1
      <4>3. QED
        BY <2>5, <4>1, <4>2
    <3>3. d.position \in Nat
      BY <1>5, <2>1, FoundColumn DEF Parts
    <3>4. QED
      BY <2>5, <3>1, <3>2, <3>3
  <2>7. l \in 1 .. Len(q) /\ d.next[l].id = id /\ Glyph(Symbol(d, l)) \in Down \cup Dots
    BY <1>5, <1>8, <2>1, <2>5, <2>6, LeftmostHasLine
  <2>8. QED
    BY <1>3, <1>5, <2>1, <2>7, SeenLine
<1>9. QED
  BY <1>4, <1>7, <1>8 DEF LaneOfEach

\* graph_symbol_to_utf8, for any history and any width: the lane of every
\* commit that is still to come is drawn in the row, unless it was moved or
\* begins, not as the first, below a merge at which several lanes end.
THEOREM LanesAlwaysDrawn == GraphSpec => LanesDrawn
<1>1. RowsOK /\ [GraphNext]_<<vars, oldRow, oldCanvas>> => RowsOK'
  BY RowsStep
<1>2. GraphSpec => []RowsOK
  BY <1>1, RowsInitially, PTL DEF GraphSpec
<1>3. GraphSpec => [][LaneOfEach]_vars
  BY <1>2, EachStepDrawsLanes, PTL DEF GraphSpec
<1>4. QED
  BY <1>3, PTL DEF LanesDrawn, LaneOfEach
-----------------------------------------------------------------------------
(***************************************************************************)
(* The old graph.                                                          *)
(***************************************************************************)
OldColumns == [id : Ids, boundary : BOOLEAN, initial : BOOLEAN]
OldRowOK == oldRow \in Seq(OldColumns)

\* Where graph_find_column_by_id of the old graph looks.
LEMMA OldFoundColumn ==
  ASSUME OldRowOK, NEW c \in Ids \ {NoId}
  PROVE  /\ Old!Position(c) \in 1 .. Len(oldRow) + 1
         /\ Old!Position(c) <= Len(oldRow) => oldRow[Old!Position(c)].id \in {c, NoId}
         /\ \A i \in 1 .. Old!Position(c) - 1 : oldRow[i].id # c
<1>1. PICK r \in Seq(OldColumns) : r = oldRow
  BY DEF OldRowOK
<1>2. PICK n \in Nat : n = Len(r)
  OBVIOUS
<1>3. PICK found : found = {i \in 1 .. n : r[i].id = c}
  OBVIOUS
<1>4. PICK free : free = {i \in 1 .. n : r[i].id = NoId}
  OBVIOUS
<1>5. PICK p : p = Old!Position(c)
  OBVIOUS
<1>6. p = IF found # {} THEN CHOOSE i \in found : \A j \in found : i <= j
          ELSE IF free # {} THEN CHOOSE i \in free : \A j \in free : j <= i
          ELSE n + 1
  <2>1. DOMAIN oldRow = 1 .. n
    BY <1>1, <1>2
  <2>2. found = {i \in DOMAIN oldRow : oldRow[i].id = c} /\ free = {i \in DOMAIN oldRow : oldRow[i].id = NoId}
    BY <1>1, <1>3, <1>4, <2>1
  <2>3. QED
    BY <1>1, <1>2, <1>5, <2>2 DEF Old!Position, Old!NoId, NoId
<1>7. CASE found # {}
  <2>1. found \subseteq Nat
    BY <1>3
  <2>2. \E i \in found : \A j \in found : i <= j
    BY <1>7, <2>1, LeastNatural
  <2>3. p \in found /\ \A j \in found : p <= j
    BY <1>6, <1>7, <2>2
  <2>4. p \in 1 .. n /\ r[p].id = c
    BY <1>3, <2>3
  <2>5. ASSUME NEW i \in 1 .. p - 1 PROVE r[i].id # c
    <3>1. i \in 1 .. n /\ ~(p <= i)
      BY <2>4
    <3>2. i \notin found
      BY <2>3, <3>1
    <3>3. QED
      BY <1>3, <3>1, <3>2
  <2>6. QED
    BY <1>1, <1>2, <1>5, <2>4, <2>5
<1>8. CASE found = {} /\ free # {}
  <2>1. free \subseteq 0 .. n
    BY <1>4
  <2>2. \E i \in free : \A j \in free : j <= i
    BY <1>8, <2>1, GreatestNatural
  <2>3. p \in free
    BY <1>6, <1>8, <2>2
  <2>4. p \in 1 .. n /\ r[p].id = NoId
    BY <1>4, <2>3
  <2>5. \A i \in 1 .. n : r[i].id # c
    BY <1>3, <1>8
  <2>6. QED
    BY <1>1, <1>2, <1>5, <2>4, <2>5
<1>9. CASE found = {} /\ free = {}
  <2>1. p = n + 1
    BY <1>6, <1>9
  <2>2. \A i \in 1 .. n : r[i].id # c
    BY <1>3, <1>9
  <2>3. QED
    BY <1>1, <1>2, <1>5, <2>1, <2>2
<1>10. QED
  BY <1>7, <1>8, <1>9

\* The columns that graph_expand makes room for.
Missing(r, p, ps) ==
  LET missing == p - 1 + Old!Width(ps) - Len(r) IN IF missing <= 0 THEN 0 ELSE missing

LEMMA OldWidth ==
  ASSUME NEW ps \in Parents
  PROVE  /\ Old!Width(ps) \in Nat \ {0}
         /\ ps # <<>> => Old!Width(ps) = Len(ps)
         /\ ps = <<>> => Old!Width(ps) = 1
         /\ \A k \in 1 .. Old!Width(ps) :
               /\ Old!Parent(ps, k) \in Ids
               /\ Old!Parent(ps, k) # NoId => Old!Parent(ps, k) \in Range(ps)
               /\ ps # <<>> => Old!Parent(ps, k) = ps[k]
<1>1. CASE ps = <<>>
  BY <1>1, IdsAreNaturals DEF Old!Width, Old!Parent, Old!NoId, NoId
<1>2. CASE ps # <<>>
  <2>1. Len(ps) \in Nat \ {0} /\ DOMAIN ps = 1 .. Len(ps)
    BY <1>2 DEF Parents
  <2>2. Old!Width(ps) = Len(ps) /\ \A k \in 1 .. Len(ps) : Old!Parent(ps, k) = ps[k]
    BY <1>2 DEF Old!Width, Old!Parent
  <2>3. \A k \in 1 .. Len(ps) : ps[k] \in Ids /\ ps[k] \in Range(ps)
    BY <2>1 DEF Range, Parents
  <2>4. QED
    BY <1>2, <2>1, <2>2, <2>3
<1>3. QED
  BY <1>1, <1>2

Joins(q, T, s, t) ==
  /\ q \in Seq(T) /\ Len(q) = Len(s) + Len(t)
  /\ \A i \in 1 .. Len(s) : q[i] = s[i]
  /\ \A i \in 1 .. Len(t) : q[Len(s) + i] = t[i]

LEMMA Joined ==
  ASSUME NEW T, NEW s, s \in Seq(T), NEW t, t \in Seq(T), NEW q, q = s \o t
  PROVE  Joins(q, T, s, t)
BY DEF Joins

\* q is the row r of n columns with m free ones from p on.
Expands(q, r, n, p, w, m) ==
  /\ m \in Nat
  /\ q \in Seq(OldColumns) /\ Len(q) = n + m
  /\ Len(q) >= p - 1 + w
  /\ \A i \in 1 .. p - 1 : q[i] = r[i]
  /\ m # 0 => Len(q) = p - 1 + w
  /\ \A i \in p .. p + m - 1 : q[i].id = NoId
  /\ \A i \in p .. n : q[i + m] = r[i]

\* graph_expand of the old graph: free columns from the commit on, which move
\* the columns on the right.
LEMMA OldExpanded ==
  ASSUME OldRowOK, NEW ps \in Parents, NEW boundary \in BOOLEAN,
         NEW r, r = oldRow, NEW n, n = Len(r), NEW width, width = Old!Width(ps),
         NEW p \in 1 .. n + 1, NEW m, m = Missing(oldRow, p, ps),
         NEW q, q = Old!Expanded(p, ps, boundary)
  PROVE  Expands(q, r, n, p, width, m)
<1> USE DEF Expands
<1>1. r \in Seq(OldColumns)
  BY DEF OldRowOK
<1>2. n \in Nat
  BY <1>1
<1>3. PICK w \in Nat \ {0} : w = Old!Width(ps)
  BY OldWidth
<1>4. m = IF p - 1 + w - n <= 0 THEN 0 ELSE p - 1 + w - n
  BY <1>1, <1>2, <1>3 DEF Missing
<1>5. p \in 1 .. n + 1
  BY <1>1, <1>2
<1>6. CASE p - 1 + w - n <= 0
  <2>1. m = 0
    BY <1>4, <1>6
  <2>2. q = r
    BY <1>1, <1>2, <1>3, <1>6 DEF Old!Expanded
  <2>3. n >= p - 1 + w
    BY <1>5, <1>6
  <2>4. \A i \in p .. n : i + m = i
    BY <2>1
  <2>5. QED
    BY <1>1, <1>2, <1>3, <1>5, <2>1, <2>2, <2>3, <2>4
<1>7. CASE ~(p - 1 + w - n <= 0)
  <2>1. m = p - 1 + w - n /\ m \in Nat \ {0}
    BY <1>4, <1>5, <1>7
  <2>2. PICK left : left = SubSeq(r, 1, p - 1)
    OBVIOUS
  <2>3. PICK column : column = Old!Column(NoId, boundary)
    OBVIOUS
  <2>4. column \in OldColumns /\ column.id = NoId
    BY <2>3, IdsAreNaturals DEF Old!Column, OldColumns
  <2>5. PICK free : free = [k \in 1 .. m |-> column]
    OBVIOUS
  <2>6. PICK right : right = SubSeq(r, p, n)
    OBVIOUS
  <2>7. q = left \o free \o right
    BY <1>1, <1>2, <1>3, <1>7, <2>1, <2>2, <2>3, <2>5, <2>6 DEF Old!Expanded, Old!NoId, NoId
  <2>8. left \in Seq(OldColumns) /\ Len(left) = p - 1 /\ \A i \in 1 .. p - 1 : left[i] = r[i]
    <3>1. \A i \in 1 .. p - 1 : r[i] \in OldColumns
      BY <1>1, <1>2, <1>5
    <3>2. p - 1 \in Int /\ 1 \in Int
      BY <1>5
    <3>3. QED
      BY <1>5, <2>2, <3>1, <3>2
  <2>9. free \in Seq(OldColumns) /\ Len(free) = m /\ \A i \in 1 .. m : free[i].id = NoId
    <3>1. free \in [1 .. m -> OldColumns]
      BY <2>4, <2>5
    <3>2. QED
      BY <2>1, <2>4, <2>5, <3>1
  <2>10. right \in Seq(OldColumns) /\ Len(right) = n - p + 1 /\ \A i \in 1 .. n - p + 1 : right[i] = r[p + i - 1]
    <3>1. \A i \in p .. n : r[i] \in OldColumns
      BY <1>1, <1>2, <1>5
    <3>2. QED
      BY <1>2, <1>5, <2>6, <3>1
  <2>11. PICK both : both = left \o free
    OBVIOUS
  <2>12. /\ both \in Seq(OldColumns) /\ Len(both) = p - 1 + m
         /\ \A i \in 1 .. p - 1 : both[i] = r[i]
         /\ \A i \in 1 .. m : both[p - 1 + i] = free[i]
    <3>1. Joins(both, OldColumns, left, free)
      BY <2>8, <2>9, <2>11, Joined
    <3>2. QED
      BY <2>8, <2>9, <3>1 DEF Joins
  <2>13. /\ q \in Seq(OldColumns) /\ Len(q) = p - 1 + m + (n - p + 1)
         /\ \A i \in 1 .. p - 1 + m : q[i] = both[i]
         /\ \A i \in 1 .. n - p + 1 : q[p - 1 + m + i] = right[i]
    <3>1. q = both \o right
      BY <2>7, <2>11
    <3>2. Joins(q, OldColumns, both, right)
      BY <2>10, <2>12, <3>1, Joined
    <3>3. QED
      BY <2>10, <2>12, <3>2 DEF Joins
  <2>14. Len(q) = n + m /\ Len(q) = p - 1 + w
    BY <1>5, <2>1, <2>13
  <2>15. ASSUME NEW i \in p .. n PROVE q[i + m] = r[i]
    <3>1. i + m = p - 1 + m + (i - p + 1) /\ i - p + 1 \in 1 .. n - p + 1
      BY <1>5, <2>1
    <3>2. q[i + m] = right[i - p + 1]
      BY <2>13, <3>1
    <3>3. right[i - p + 1] = r[p + (i - p + 1) - 1] /\ p + (i - p + 1) - 1 = i
      BY <1>5, <2>10, <3>1
    <3>4. QED
      BY <3>2, <3>3
  <2>16. ASSUME NEW i \in p .. p + m - 1 PROVE q[i].id = NoId
    <3>1. PICK k \in 1 .. m : k = i - (p - 1)
      BY <1>5, <2>1
    <3>2. i \in 1 .. p - 1 + m /\ i = p - 1 + k
      BY <1>5, <2>1, <3>1
    <3>3. QED
      BY <2>9, <2>12, <2>13, <3>2
  <2>17. \A i \in 1 .. p - 1 : q[i] = r[i]
    <3>1. \A i \in 1 .. p - 1 : i \in 1 .. p - 1 + m
      BY <1>5, <2>1
    <3>2. QED
      BY <2>12, <2>13, <3>1
  <2>18. m \in Nat /\ Len(q) >= p - 1 + w
    BY <1>3, <1>5, <2>1, <2>14
  <2>19. QED
    BY <1>1, <1>2, <1>3, <2>13, <2>14, <2>15, <2>16, <2>17, <2>18
<1>8. QED
  BY <1>6, <1>7
\* u is the row q after a commit at p: w columns take its parents.
Rewrites(u, q, p, w, c, ps) ==
  /\ u \in Seq(OldColumns) /\ Len(u) = Len(q)
  /\ \A i \in 1 .. Len(q) :
        u[i].id = IF i < p THEN q[i].id
                  ELSE IF i < p + w THEN Old!Parent(ps, i - p + 1)
                  ELSE IF q[i].id = c THEN NoId ELSE q[i].id

\* graph_insert_parents of the old graph: what each column waits for then.
LEMMA OldRewritten ==
  ASSUME NEW q \in Seq(OldColumns), NEW ps \in Parents, NEW boundary \in BOOLEAN,
         NEW c \in Ids \ {NoId}, NEW p \in Nat \ {0},
         NEW w, w = Old!Width(ps), Len(q) >= p - 1 + w,
         NEW u, u = Old!Rewritten(q, p, c, ps, boundary)
  PROVE  Rewrites(u, q, p, w, c, ps)
<1>1. PICK n \in Nat : n = Len(q)
  OBVIOUS
<1>2. w \in Nat \ {0}
  BY OldWidth
<1> DEFINE e(i) == IF i < p
                   THEN [q[i] EXCEPT !.initial = @ \/ (q[i].id # NoId /\ (ps = <<>> \/ q[i].id \in Range(ps)))]
                   ELSE IF i < p + w THEN Old!Column(Old!Parent(ps, i - p + 1), boundary)
                   ELSE IF q[i].id = c THEN [q[i] EXCEPT !.id = NoId]
                   ELSE q[i]
<1>3. u = [i \in 1 .. n |-> e(i)]
  <2>1. DOMAIN q = 1 .. n
    BY <1>1
  <2>2. QED
    BY <1>2, <2>1 DEF Old!Rewritten, Old!NoId, NoId, Old!Range, Range
<1>4. ASSUME NEW i \in 1 .. n
      PROVE  /\ e(i) \in OldColumns
             /\ e(i).id = IF i < p THEN q[i].id
                          ELSE IF i < p + w THEN Old!Parent(ps, i - p + 1)
                          ELSE IF q[i].id = c THEN NoId ELSE q[i].id
  <2>1. PICK x \in OldColumns : x = q[i]
    BY <1>1
  <2>2. CASE i < p
    <3>1. PICK b \in BOOLEAN : b = (x.initial \/ (x.id # NoId /\ (ps = <<>> \/ x.id \in Range(ps))))
      OBVIOUS
    <3>2. e(i) = [x EXCEPT !.initial = b]
      BY <2>1, <2>2, <3>1
    <3>3. e(i) \in OldColumns /\ e(i).id = x.id
      <4> HIDE DEF e
      <4>1. QED
        BY <3>2 DEF OldColumns
    <3>4. QED
      BY <2>1, <2>2, <3>3
  <2>3. CASE ~(i < p) /\ i < p + w
    <3>1. i - p + 1 \in 1 .. w
      BY <1>2, <2>3
    <3>2. PICK id \in Ids : id = Old!Parent(ps, i - p + 1)
      BY <1>2, <3>1, OldWidth
    <3>3. e(i) = [id |-> id, boundary |-> boundary, initial |-> FALSE]
      BY <2>3, <3>2 DEF Old!Column
    <3> HIDE DEF e
    <3>4. e(i) \in OldColumns /\ e(i).id = id
      BY <3>3 DEF OldColumns
    <3>5. QED
      BY <2>3, <3>2, <3>4
  <2>4. CASE ~(i < p) /\ ~(i < p + w)
    <3>1. e(i) = IF x.id = c THEN [x EXCEPT !.id = NoId] ELSE x
      BY <2>1, <2>4
    <3>2. e(i) \in OldColumns /\ e(i).id = IF x.id = c THEN NoId ELSE x.id
      <4> HIDE DEF e
      <4>1. QED
        BY <3>1, IdsAreNaturals DEF OldColumns
    <3>3. QED
      BY <2>1, <2>4, <3>2
  <2>5. QED
    BY <2>2, <2>3, <2>4
<1> HIDE DEF e
<1>5. u \in [1 .. n -> OldColumns]
  BY <1>3, <1>4
<1>6. u \in Seq(OldColumns) /\ Len(u) = n
  BY <1>5
<1>7. QED
  BY <1>1, <1>3, <1>4, <1>6 DEF Rewrites

\* The old row after a commit: the ids it has, and those it may have lost.
LEMMA OldDrawLeaves ==
  ASSUME OldRowOK, NEW c \in Ids \ {NoId}, NEW ps \in Parents, NEW boundary \in BOOLEAN,
         Old!Draw(c, ps, boundary)
  PROVE  /\ OldRowOK'
         /\ Old!IdsOf(oldRow') \subseteq (Old!IdsOf(oldRow) \ {c}) \cup Range(ps)
         /\ ((Old!IdsOf(oldRow) \ {c}) \cup Range(ps)) \ Old!IdsOf(oldRow')
              \subseteq {oldRow[i].id : i \in DOMAIN oldRow \cap Old!Position(c) + 1 .. Old!Position(c) + Len(ps) - 1}
<1>1. PICK r \in Seq(OldColumns) : r = oldRow
  BY DEF OldRowOK
<1>2. PICK n \in Nat : n = Len(r)
  OBVIOUS
<1>3. PICK p : p = Old!Position(c)
  OBVIOUS
<1>4. /\ p \in 1 .. n + 1 /\ (p <= n => r[p].id \in {c, NoId})
      /\ \A i \in 1 .. p - 1 : r[i].id # c
  BY <1>1, <1>2, <1>3, OldFoundColumn
<1>5. PICK w \in Nat \ {0} : w = Old!Width(ps)
  BY OldWidth
<1>6. PICK m : m = Missing(oldRow, p, ps)
  OBVIOUS
<1>7. PICK q : q = Old!Expanded(p, ps, boundary)
  OBVIOUS
<1>8. /\ m \in Nat
      /\ q \in Seq(OldColumns) /\ Len(q) = n + m
      /\ Len(q) >= p - 1 + w
      /\ \A i \in 1 .. p - 1 : q[i] = r[i]
      /\ m # 0 => Len(q) = p - 1 + w
      /\ \A i \in p .. p + m - 1 : q[i].id = NoId
      /\ \A i \in p .. n : q[i + m] = r[i]
  <2>1. Expands(q, r, n, p, w, m)
    BY <1>1, <1>2, <1>4, <1>5, <1>6, <1>7, OldExpanded
  <2>2. QED
    BY <2>1 DEF Expands
<1>9. PICK u : u = Old!Rewritten(q, p, c, ps, boundary)
  OBVIOUS
<1>10. /\ u \in Seq(OldColumns) /\ Len(u) = n + m
       /\ \A i \in 1 .. n + m :
             u[i].id = IF i < p THEN q[i].id
                       ELSE IF i < p + w THEN Old!Parent(ps, i - p + 1)
                       ELSE IF q[i].id = c THEN NoId ELSE q[i].id
  <2>1. p \in Nat \ {0} /\ Len(q) >= p - 1 + w
    BY <1>4, <1>5, <1>8
  <2>2. Rewrites(u, q, p, w, c, ps)
    BY <1>5, <1>8, <1>9, <2>1, OldRewritten
  <2>3. QED
    BY <1>8, <2>2 DEF Rewrites
<1>11. Len(u) >= 1
  BY <1>4, <1>5, <1>8, <1>10
<1>12. PICK v : v = SubSeq(u, 1, Width(u))
  OBVIOUS
<1>13. Width(u) \in 1 .. Len(u) /\ IdsOf(v) = IdsOf(u)
  BY <1>10, <1>11, <1>12, WidthKeepsIds
<1>14. v \in Seq(OldColumns)
  BY <1>10, <1>12, <1>13
<1>15. oldRow' = v
  BY <1>3, <1>7, <1>9, <1>12 DEF Old!Draw, Old!Collapsed, Width, Old!NoId, NoId
<1>16. DOMAIN u = 1 .. n + m /\ DOMAIN r = 1 .. n
  BY <1>2, <1>8, <1>10
<1>17. ASSUME NEW i \in 1 .. n + m, u[i].id # NoId
       PROVE  u[i].id \in (IdsOf(r) \ {c}) \cup Range(ps)
  <2>1. CASE i < p
    <3>1. i \in 1 .. p - 1 /\ i \in 1 .. n
      BY <1>4, <2>1
    <3>2. u[i].id = r[i].id /\ r[i].id # c
      BY <1>4, <1>8, <1>10, <2>1, <3>1
    <3>3. QED
      BY <1>16, <1>17, <3>1, <3>2 DEF IdsOf
  <2>2. CASE ~(i < p) /\ i < p + w
    <3>1. i - p + 1 \in 1 .. w /\ u[i].id = Old!Parent(ps, i - p + 1)
      BY <1>4, <1>10, <2>2
    <3>2. QED
      BY <1>5, <1>17, <3>1, OldWidth
  <2>3. CASE ~(i < p) /\ ~(i < p + w)
    <3>1. q[i].id # c /\ u[i].id = q[i].id
      BY <1>10, <1>17, <2>3
    <3>2. ~(i \in p .. p + m - 1)
      BY <1>8, <1>17, <3>1
    <3>3. PICK j \in p .. n : i = j + m
      <4>1. i - m \in p .. n
        BY <1>4, <1>8, <2>3, <3>2
      <4>2. i = (i - m) + m
        BY <1>8
      <4>3. QED
        BY <4>1, <4>2
    <3>4. q[i] = r[j] /\ j \in 1 .. n
      BY <1>4, <1>8, <3>3
    <3>5. QED
      BY <1>16, <1>17, <3>1, <3>4 DEF IdsOf
  <2>4. QED
    BY <2>1, <2>2, <2>3
<1>18. IdsOf(v) \subseteq (IdsOf(r) \ {c}) \cup Range(ps)
  <2>1. IdsOf(u) \subseteq (IdsOf(r) \ {c}) \cup Range(ps)
    BY <1>16, <1>17 DEF IdsOf
  <2>2. QED
    BY <1>13, <2>1
<1>19. \A i \in 1 .. n + m : u[i].id # NoId => u[i].id \in IdsOf(v)
  BY <1>13, <1>16 DEF IdsOf
<1>20. ASSUME NEW x \in Range(ps) PROVE x \in IdsOf(v)
  <2>1. PICK k \in DOMAIN ps : x = ps[k]
    BY DEF Range
  <2>2. ps # <<>> /\ k \in 1 .. w /\ x # NoId
    <3>1. DOMAIN ps = 1 .. Len(ps) /\ ps[k] \in Ids \ {NoId} /\ ps # <<>>
      BY DEF Parents
    <3>2. QED
      BY <1>5, <2>1, <3>1, OldWidth
  <2>3. Old!Parent(ps, k) = x
    BY <1>5, <2>1, <2>2, OldWidth
  <2>4. PICK i \in 1 .. n + m : i = p - 1 + k
    BY <1>4, <1>5, <1>8, <2>2
  <2>5. ~(i < p) /\ i < p + w /\ i - p + 1 = k
    BY <1>4, <2>2, <2>4
  <2>6. u[i].id = x
    BY <1>10, <2>3, <2>5
  <2>7. QED
    BY <1>19, <2>2, <2>6
<1>21. ASSUME NEW j \in 1 .. n, r[j].id # NoId, r[j].id # c, r[j].id \notin IdsOf(v)
       PROVE  j \in p + 1 .. p + Len(ps) - 1
  <2>1. ~(j < p)
    <3>1. ASSUME j < p PROVE FALSE
      <4>1. j \in 1 .. p - 1 /\ j \in 1 .. n + m
        BY <1>4, <1>8, <3>1
      <4>2. u[j].id = r[j].id
        BY <1>8, <1>10, <3>1, <4>1
      <4>3. QED
        BY <1>19, <1>21, <4>1, <4>2
    <3>2. QED
      BY <3>1
  <2>2. j # p
    BY <1>4, <1>21
  <2>3. j + m < p + w
    <3>1. ASSUME ~(j + m < p + w) PROVE FALSE
      <4>1. j \in p .. n /\ j + m \in 1 .. n + m /\ ~(j + m < p)
        BY <1>4, <1>8, <2>1
      <4>2. q[j + m] = r[j]
        BY <1>8, <4>1
      <4>3. u[j + m].id = r[j].id
        BY <1>10, <1>21, <3>1, <4>1, <4>2
      <4>4. QED
        BY <1>19, <1>21, <4>1, <4>3
    <3>2. QED
      BY <3>1
  <2>4. j \in p + 1 .. p + w - 1
    BY <1>4, <1>8, <2>1, <2>2, <2>3
  <2>5. ps # <<>>
    <3>1. w # 1
      BY <1>4, <2>4
    <3>2. QED
      BY <1>5, <3>1, OldWidth
  <2>6. w = Len(ps)
    BY <1>5, <2>5, OldWidth
  <2>7. QED
    BY <2>4, <2>6
<1>22. ((IdsOf(r) \ {c}) \cup Range(ps)) \ IdsOf(v)
         \subseteq {r[i].id : i \in DOMAIN r \cap p + 1 .. p + Len(ps) - 1}
  <2>1. ASSUME NEW x, x \in IdsOf(r) \ {c}, x \notin IdsOf(v)
        PROVE  x \in {r[i].id : i \in DOMAIN r \cap p + 1 .. p + Len(ps) - 1}
    <3>1. PICK j \in 1 .. n : x = r[j].id /\ x # NoId
      BY <1>16, <2>1 DEF IdsOf
    <3>2. j \in p + 1 .. p + Len(ps) - 1
      BY <1>21, <2>1, <3>1
    <3>3. QED
      BY <1>16, <3>1, <3>2
  <2>2. QED
    BY <1>20, <2>1
<1>23. Old!IdsOf(oldRow) = IdsOf(r) /\ Old!IdsOf(oldRow') = IdsOf(v)
  BY <1>1, <1>15 DEF Old!IdsOf, IdsOf, Old!NoId, NoId
<1>24. OldRowOK'
  BY <1>14, <1>15 DEF OldRowOK
<1>25. QED
  BY <1>1, <1>3, <1>18, <1>22, <1>23, <1>24
OldAwaits == OldRowOK /\ OldAwaitsNoOther

LEMMA OldInitially == GraphInit => OldAwaits
<1> SUFFICES ASSUME GraphInit PROVE OldAwaits
  OBVIOUS
<1>1. oldRow = <<>>
  BY DEF GraphInit, Old!Init
<1>2. oldRow \in Seq(OldColumns) /\ Old!IdsOf(oldRow) = {}
  BY <1>1 DEF Old!IdsOf
<1>3. QED
  BY <1>2 DEF OldAwaits, OldRowOK, OldAwaitsNoOther

LEMMA OldStep ==
  RowsOK /\ OldAwaits /\ [GraphNext]_<<vars, oldRow, oldCanvas>> => OldAwaits'
<1> SUFFICES ASSUME RowsOK, OldAwaits, [GraphNext]_<<vars, oldRow, oldCanvas>>
             PROVE  OldAwaits'
  OBVIOUS
<1>1. CASE GraphNext
  <2>1. PICK c \in Ids \ {NoId}, ps \in Parents, boundary \in BOOLEAN : Draws(c, ps, boundary)
    BY <1>1, StepDraws
  <2>2. PICK d : d = Drawing(c, ps, boundary)
    OBVIOUS
  <2>3. Draw(d) /\ Old!Draw(c, ps, boundary)
    BY <2>1, <2>2 DEF Draws
  <2>4. IdsOf(row') = (IdsOf(row) \ {c}) \cup Range(ps)
    BY <2>2, <2>3, DrawLeaves
  <2>5. /\ OldRowOK'
        /\ Old!IdsOf(oldRow') \subseteq (Old!IdsOf(oldRow) \ {c}) \cup Range(ps)
    BY <2>3, OldDrawLeaves DEF OldAwaits
  <2>6. Old!IdsOf(oldRow) \subseteq IdsOf(row)
    BY DEF OldAwaits, OldAwaitsNoOther
  <2>7. Old!IdsOf(oldRow') \subseteq IdsOf(row')
    BY <2>4, <2>5, <2>6
  <2>8. IdsOf(row)' = IdsOf(row') /\ Old!IdsOf(oldRow)' = Old!IdsOf(oldRow')
    BY DEF IdsOf, Old!IdsOf
  <2>9. QED
    BY <2>5, <2>7, <2>8 DEF OldAwaits, OldAwaitsNoOther
<1>2. CASE UNCHANGED <<vars, oldRow, oldCanvas>>
  BY <1>2 DEF vars, OldAwaits, OldRowOK, OldAwaitsNoOther, IdsOf, Old!IdsOf
<1>3. QED
  BY <1>1, <1>2

\* For any history: a commit never has a lane of the old graph below its own
\* row, although columns are overwritten and become free in place.
THEOREM OldGraphAwaitsNoOther == GraphSpec => []OldAwaitsNoOther
<1>1. GraphInit => RowsOK /\ OldAwaits
  BY RowsInitially, OldInitially
<1>2. RowsOK /\ OldAwaits /\ [GraphNext]_<<vars, oldRow, oldCanvas>> => RowsOK' /\ OldAwaits'
  BY RowsStep, OldStep
<1>3. GraphSpec => [](RowsOK /\ OldAwaits)
  BY <1>1, <1>2, PTL DEF GraphSpec
<1>4. OldAwaits => OldAwaitsNoOther
  BY DEF OldAwaits
<1>5. QED
  BY <1>3, <1>4, PTL

\* A step of the old graph loses no lane but under a merge.
LostUnderMerge ==
  LET position == Old!Position(commit')
      exact == (Old!IdsOf(oldRow) \ {commit'}) \cup Range(parents')
  IN exact \ Old!IdsOf(oldRow') \subseteq
       {oldRow[i].id : i \in DOMAIN oldRow \cap position + 1 .. position + Len(parents') - 1}

LEMMA OldLosesUnderMerge ==
  RowsOK /\ OldAwaits /\ [GraphNext]_<<vars, oldRow, oldCanvas>>
    => [LostUnderMerge]_<<vars, oldRow, oldCanvas>>
<1> SUFFICES ASSUME RowsOK, OldAwaits, GraphNext
             PROVE  LostUnderMerge
  OBVIOUS
<1>1. PICK c \in Ids \ {NoId}, ps \in Parents, boundary \in BOOLEAN : Draws(c, ps, boundary)
  BY StepDraws
<1>2. PICK d : d = Drawing(c, ps, boundary)
  OBVIOUS
<1>3. Draw(d) /\ Old!Draw(c, ps, boundary)
  BY <1>1, <1>2 DEF Draws
<1>4. commit' = c /\ parents' = ps
  BY <1>2, <1>3, DrawLeaves
<1>5. ((Old!IdsOf(oldRow) \ {c}) \cup Range(ps)) \ Old!IdsOf(oldRow')
        \subseteq {oldRow[i].id : i \in DOMAIN oldRow \cap Old!Position(c) + 1 .. Old!Position(c) + Len(ps) - 1}
  BY <1>3, OldDrawLeaves DEF OldAwaits
<1>6. QED
  BY <1>4, <1>5 DEF LostUnderMerge

\* graph_insert_parents of the old graph, for any history: a commit that is
\* awaited loses its lane only where a merge writes its parents over the
\* columns on its right.
THEOREM OldLanesLostUnderMerges == GraphSpec => OldOverwrittenByMerge
<1>1. GraphInit => RowsOK /\ OldAwaits
  BY RowsInitially, OldInitially
<1>2. RowsOK /\ OldAwaits /\ [GraphNext]_<<vars, oldRow, oldCanvas>> => RowsOK' /\ OldAwaits'
  BY RowsStep, OldStep
<1>3. GraphSpec => [](RowsOK /\ OldAwaits)
  BY <1>1, <1>2, PTL DEF GraphSpec
<1>4. GraphSpec => [][LostUnderMerge]_<<vars, oldRow, oldCanvas>>
  BY <1>3, OldLosesUnderMerge, PTL DEF GraphSpec
<1>5. QED
  BY <1>4, PTL DEF OldOverwrittenByMerge, LostUnderMerge
=============================================================================
