------------------------------ MODULE Refdb_proofs -----------------------------
(***************************************************************************)
(* For any refs, names and commits, and any sequence of loads: the table   *)
(* of refs is what git has.                                                *)
(*                                                                         *)
(* A load is a loop over the lines of git show-ref, so there are three     *)
(* parts.  The lists: putting an entry where it belongs keeps the list of  *)
(* every commit in order (StoredRight).  The lines: git lists what there   *)
(* is, the commit of a ref last and the tags last (LinesDescribe).  And    *)
(* the loop: after n lines the valid entries are the refs of these lines   *)
(* (Track), which no line spoils because each has one key (OneKey).        *)
(*                                                                         *)
(* Nothing is assumed of the table before the load but its type: whatever  *)
(* has been left there is invalid when the first line is read.  Reading    *)
(* HEAD alone starts from what there is, so the lists have to be right     *)
(* before it (HeadLoadedIs).                                               *)
(***************************************************************************)
EXTENDS Refdb, Rounds_proofs

-------------------------------------------------------------------------------
(* What the table is made of.                                              *)

Keys == {"", "HEAD", "refs/tags/", "replaced"} \X Nat
Ids == 0 .. 2 * NCommits
Entries == [id : Ids, type : Types, valid : BOOLEAN]
Entered == UNION {[ks -> Entries] : ks \in SUBSET Keys}
Lists == UNION {[ids -> Seq(Keys)] : ids \in SUBSET Ids}
Tables == [ref : Entered, list : Lists, head : Keys, current : Nat, changed : SUBSET {"refs", "head"}]

LEMMA RankIs ==
  /\ Types = {"head", "branch", "remote", "tag", "localTag", "replace"}
  /\ \A type \in Types : Rank[type] \in Nat
<1>1. Types = {"head", "branch", "remote", "tag", "localTag", "replace"}
  BY DEF Types, Rank
<1>2. QED
  BY <1>1 DEF Rank

LEMMA KeyIs ==
  ASSUME NEW k \in Keys
  PROVE  k = <<k[1], k[2]>>
<1>1. PICK S, T : k \in S \X T
  BY Zenon DEF Keys
<1>2. QED
  BY <1>1

LEMMA TableIs ==
  ASSUME NEW t \in Tables
  PROVE  /\ DOMAIN t.ref \subseteq Keys
         /\ \A k \in DOMAIN t.ref : t.ref[k] \in Entries
         /\ DOMAIN t.list \subseteq Ids
         /\ \A id \in DOMAIN t.list : t.list[id] \in Seq(Keys)
BY DEF Tables, Entered, Lists

LEMMA ListOfTyped ==
  ASSUME NEW t \in Tables, NEW id
  PROVE  ListOf(t, id) \in Seq(Keys)
<1>1. <<>> \in Seq(Keys)
  OBVIOUS
<1>2. QED
  BY <1>1, TableIs DEF ListOf

-------------------------------------------------------------------------------
(* Sequences.                                                              *)

LEMMA RemoveAtIs ==
  ASSUME NEW T, NEW s \in Seq(T), NEW i \in 1 .. Len(s), NEW r, r = RemoveAt(s, i)
  PROVE  /\ r \in Seq(T) /\ Len(r) = Len(s) - 1
         /\ \A j \in 1 .. Len(s) - 1 : r[j] = IF j < i THEN s[j] ELSE s[j + 1]
<1>1. PICK a, b : a = SubSeq(s, 1, i - 1) /\ b = SubSeq(s, i + 1, Len(s))
  OBVIOUS
<1>2. a \in Seq(T) /\ Len(a) = i - 1 /\ \A j \in 1 .. i - 1 : a[j] = s[j]
  BY <1>1
<1>3. b \in Seq(T) /\ Len(b) = Len(s) - i /\ \A j \in 1 .. Len(s) - i : b[j] = s[i + j]
  BY <1>1
<1>4. r = a \o b
  BY <1>1 DEF RemoveAt
<1>5. r \in Seq(T) /\ Len(r) = Len(a) + Len(b)
  <2>1. a \in Seq(T) /\ b \in Seq(T)
    BY <1>2, <1>3
  <2>2. QED
    BY <1>4, <2>1
<1>6. ASSUME NEW j \in 1 .. Len(s) - 1 PROVE r[j] = IF j < i THEN s[j] ELSE s[j + 1]
  <2>1. CASE j < i
    BY <1>2, <1>3, <1>4, <2>1
  <2>2. CASE j >= i
    <3>1. r[j] = b[j - Len(a)]
      BY <1>2, <1>3, <1>4, <1>5, <2>2
    <3>2. j - Len(a) \in 1 .. Len(s) - i /\ i + (j - Len(a)) = j + 1
      BY <1>2, <2>2
    <3>3. b[j - Len(a)] = s[i + (j - Len(a))]
      BY <1>3, <3>2
    <3>4. QED
      BY <2>2, <3>1, <3>2, <3>3
  <2>3. QED
    BY <2>1, <2>2
<1>7. Len(r) = Len(s) - 1
  BY <1>2, <1>3, <1>5
<1>8. QED
  BY <1>5, <1>6, <1>7

\* r is s with e before its i-th element.
HasInserted(r, s, i, e) ==
  /\ Len(r) = Len(s) + 1
  /\ r[i] = e
  /\ \A j \in 1 .. Len(s) + 1 : (j < i => r[j] = s[j]) /\ (j > i => r[j] = s[j - 1])

LEMMA InsertAtIs ==
  ASSUME NEW T, NEW s \in Seq(T), NEW i \in 1 .. Len(s) + 1, NEW e \in T, NEW r, r = InsertAt(s, i, e)
  PROVE  r \in Seq(T) /\ HasInserted(r, s, i, e)
<1>1. PICK a, b : a = SubSeq(s, 1, i - 1) /\ b = SubSeq(s, i, Len(s))
  OBVIOUS
<1>2. a \in Seq(T) /\ Len(a) = i - 1 /\ \A j \in 1 .. i - 1 : a[j] = s[j]
  BY <1>1
<1>3. b \in Seq(T) /\ Len(b) = Len(s) - i + 1 /\ \A j \in 1 .. Len(s) - i + 1 : b[j] = s[i + j - 1]
  BY <1>1
<1>4. PICK c : c = a \o <<e>>
  OBVIOUS
<1>5. c \in Seq(T) /\ Len(c) = i /\ c[i] = e /\ \A j \in 1 .. i - 1 : c[j] = s[j]
  BY <1>2, <1>4
<1>6. r = c \o b
  BY <1>1, <1>4 DEF InsertAt
<1>7. r \in Seq(T) /\ Len(r) = Len(s) + 1
  <2>1. r \in Seq(T) /\ Len(r) = Len(c) + Len(b)
    BY <1>3, <1>5, <1>6
  <2>2. QED
    BY <1>3, <1>5, <2>1
<1>8. ASSUME NEW j \in 1 .. Len(s) + 1
      PROVE  r[j] = IF j < i THEN s[j] ELSE IF j = i THEN e ELSE s[j - 1]
  <2>1. CASE j <= i
    <3>1. r[j] = c[j]
      BY <1>3, <1>5, <1>6, <2>1
    <3>2. QED
      BY <1>5, <2>1, <3>1
  <2>2. CASE j > i
    <3>1. r[j] = b[j - i] /\ j - i \in 1 .. Len(s) - i + 1
      BY <1>3, <1>5, <1>6, <2>2
    <3>2. b[j - i] = s[j - 1]
      BY <1>3, <2>2, <3>1
    <3>3. QED
      BY <2>2, <3>1, <3>2
  <2>3. QED
    BY <2>1, <2>2
<1>9. QED
  BY <1>7, <1>8 DEF HasInserted

-------------------------------------------------------------------------------
(* A list of refs in order.                                                *)

\* l has the refs ks, each once and in their order.
ListIs(t, l, ks) ==
  /\ l \in Seq(Keys)
  /\ Range(l) = ks
  /\ \A i, j \in DOMAIN l : i < j => l[i] # l[j] /\ RefBefore(t, l[i], l[j])

LEMMA OrderIsTotal ==
  ASSUME NEW t \in Tables, NEW k \in DOMAIN t.ref, NEW l \in DOMAIN t.ref
  PROVE  RefBefore(t, k, l) \/ RefBefore(t, l, k)
<1>1. PICK a, b : a = Rank[t.ref[k].type] /\ b = Rank[t.ref[l].type]
  OBVIOUS
<1>2. a \in Nat /\ b \in Nat
  BY <1>1, RankIs, TableIs DEF Entries
<1>3. k[2] \in Nat /\ l[2] \in Nat
  BY TableIs DEF Keys
<1>4. QED
  BY <1>1, <1>2, <1>3 DEF RefBefore

LEMMA OrderIsTransitive ==
  ASSUME NEW t \in Tables, NEW k \in DOMAIN t.ref, NEW l \in DOMAIN t.ref, NEW m \in DOMAIN t.ref,
         RefBefore(t, k, l), RefBefore(t, l, m)
  PROVE  RefBefore(t, k, m)
<1>1. PICK a, b, c : a = Rank[t.ref[k].type] /\ b = Rank[t.ref[l].type] /\ c = Rank[t.ref[m].type]
  OBVIOUS
<1>2. a \in Nat /\ b \in Nat /\ c \in Nat
  BY <1>1, RankIs, TableIs DEF Entries
<1>3. k[2] \in Nat /\ l[2] \in Nat /\ m[2] \in Nat
  BY TableIs DEF Keys
<1>4. QED
  BY <1>1, <1>2, <1>3 DEF RefBefore

LEMMA TakenOffIs ==
  ASSUME NEW t, NEW l, NEW ks, NEW k, ListIs(t, l, ks)
  PROVE  ListIs(t, TakenOff(l, k), ks \ {k})
<1>1. l \in Seq(Keys) /\ Range(l) = ks /\ DOMAIN l = 1 .. Len(l)
  BY DEF ListIs
<1>2. \A i, j \in 1 .. Len(l) : i < j => l[i] # l[j] /\ RefBefore(t, l[i], l[j])
  BY <1>1 DEF ListIs
<1>3. CASE k \notin ks
  <2>1. TakenOff(l, k) = l /\ ks \ {k} = ks
    BY <1>1, <1>3 DEF TakenOff
  <2>2. QED
    BY <2>1
<1>4. CASE k \in ks
  <2>1. \E i \in DOMAIN l : l[i] = k
    BY <1>1, <1>4 DEF Range
  <2> DEFINE c == CHOOSE i \in DOMAIN l : l[i] = k
  <2>2. c \in DOMAIN l /\ l[c] = k
    BY <2>1
  <2>3. TakenOff(l, k) = RemoveAt(l, c)
    BY <1>1, <1>4 DEF TakenOff
  <2> HIDE DEF c
  <2>4. PICK i : i = c
    OBVIOUS
  <2>5. i \in 1 .. Len(l) /\ l[i] = k
    BY <1>1, <2>2, <2>4
  <2>6. PICK r : r = RemoveAt(l, i)
    OBVIOUS
  <2>7. /\ r \in Seq(Keys) /\ Len(r) = Len(l) - 1
        /\ \A j \in 1 .. Len(l) - 1 : r[j] = IF j < i THEN l[j] ELSE l[j + 1]
    BY <1>1, <2>5, <2>6, RemoveAtIs
  <2>8. PICK n \in Nat : n = Len(l)
    <3>1. Len(l) \in Nat
      BY <1>1
    <3>2. QED
      BY <3>1
  <2>9. DOMAIN r = 1 .. n - 1 /\ i \in 1 .. n
    BY <2>5, <2>7, <2>8
  <2>10. \A j \in 1 .. n - 1 : /\ j < i => r[j] = l[j]
                               /\ j >= i => r[j] = l[j + 1]
    BY <2>7, <2>8, <2>9
  <2>11. ASSUME NEW a \in DOMAIN r, NEW b \in DOMAIN r, a < b
         PROVE  r[a] # r[b] /\ RefBefore(t, r[a], r[b])
    <3>1. PICK x, y : x = (IF a < i THEN a ELSE a + 1) /\ y = (IF b < i THEN b ELSE b + 1)
      OBVIOUS
    <3>2. x \in 1 .. n /\ y \in 1 .. n /\ x < y
      BY <2>9, <2>11, <3>1
    <3>3. r[a] = l[x] /\ r[b] = l[y]
      BY <2>9, <2>10, <3>1
    <3>4. QED
      BY <1>2, <2>8, <3>2, <3>3
  <2>12. ASSUME NEW a \in DOMAIN r PROVE r[a] \in ks \ {k}
    <3>1. PICK x : x = (IF a < i THEN a ELSE a + 1)
      OBVIOUS
    <3>2. x \in 1 .. n /\ x # i
      BY <2>9, <3>1
    <3>3. r[a] = l[x]
      BY <2>9, <2>10, <3>1
    <3>4. l[x] \in ks
      BY <1>1, <2>8, <3>2 DEF Range
    <3>5. l[x] # l[i]
      <4>1. x < i \/ i < x
        BY <2>9, <3>2
      <4>2. QED
        BY <1>2, <2>8, <2>9, <3>2, <4>1
    <3>6. QED
      BY <2>5, <3>3, <3>4, <3>5
  <2>13. ASSUME NEW x \in ks, x # k PROVE \E a \in DOMAIN r : r[a] = x
    <3>1. PICK j \in 1 .. n : l[j] = x
      BY <1>1, <2>8 DEF Range
    <3>2. j # i
      BY <2>5, <2>13, <3>1
    <3>3. CASE j < i
      <4>1. j \in DOMAIN r /\ r[j] = l[j]
        BY <2>9, <2>10, <3>1, <3>3
      <4>2. QED
        BY <3>1, <4>1
    <3>4. CASE j > i
      <4>1. j - 1 \in 1 .. n - 1 /\ j - 1 >= i /\ (j - 1) + 1 = j
        BY <2>9, <3>1, <3>4
      <4>2. r[j - 1] = l[j]
        BY <2>10, <4>1
      <4>3. QED
        BY <2>9, <3>1, <4>1, <4>2
    <3>5. QED
      BY <2>9, <3>2, <3>3, <3>4
  <2>14. Range(r) = ks \ {k}
    BY <2>12, <2>13 DEF Range
  <2>15. ListIs(t, r, ks \ {k})
    BY <2>7, <2>11, <2>14 DEF ListIs
  <2>16. QED
    BY <2>3, <2>4, <2>6, <2>15
<1>5. QED
  BY <1>3, <1>4

\* The place at which a key is put into a list.
PutAt(t, l, k, i) ==
  /\ PutInto(t, l, k) = InsertAt(l, i, k)
  /\ i # Len(l) + 1 => RefBefore(t, k, l[i])
  /\ \A j \in 1 .. Len(l) : j < i => ~RefBefore(t, k, l[j])

LEMMA PlaceIs ==
  ASSUME NEW t, NEW l \in Seq(Keys), NEW k
  PROVE  \E i \in 1 .. Len(l) + 1 : PutAt(t, l, k, i)
<1>1. DOMAIN l = 1 .. Len(l) /\ Len(l) \in Nat
  OBVIOUS
<1>3. PICK n \in Nat : n = Len(l)
  BY <1>1
<1> DEFINE after == {i \in DOMAIN l : RefBefore(t, k, l[i])}
           c == CHOOSE i \in after \cup {Len(l) + 1} : \A j \in after : i <= j
<1>4. PutInto(t, l, k) = InsertAt(l, c, k)
  BY Zenon DEF PutInto
<1>5. \E i \in after \cup {Len(l) + 1} : \A j \in after : i <= j
  <2>0. after \subseteq 1 .. n
    BY <1>1, <1>3
  <2> HIDE DEF after
  <2>1. CASE after = {}
    BY <2>1
  <2>2. CASE after # {}
    <3>1. after \subseteq Nat
      BY <2>0
    <3>2. QED
      BY <2>2, <3>1, LeastNatural
  <2>3. QED
    BY <2>1, <2>2
<1>6. c \in after \cup {Len(l) + 1} /\ \A j \in after : c <= j
  <2> HIDE DEF after
  <2>1. QED
    BY <1>5
<1> HIDE DEF c
<1>7. PICK i : i = c
  OBVIOUS
<1>8. i \in 1 .. n + 1 /\ (i # n + 1 => RefBefore(t, k, l[i])) /\ \A j \in 1 .. n : j < i => ~RefBefore(t, k, l[j])
  BY <1>1, <1>3, <1>6, <1>7
<1> HIDE DEF after
<1>9. QED
  BY <1>3, <1>4, <1>7, <1>8 DEF PutAt

LEMMA TakenOffTyped ==
  ASSUME NEW l \in Seq(Keys), NEW k
  PROVE  TakenOff(l, k) \in Seq(Keys)
<1>1. CASE k \in Range(l)
  <2> DEFINE c == CHOOSE i \in DOMAIN l : l[i] = k
  <2>1. c \in DOMAIN l
    BY <1>1 DEF Range
  <2>2. TakenOff(l, k) = RemoveAt(l, c)
    BY <1>1 DEF TakenOff
  <2> HIDE DEF c
  <2>3. PICK r : r = RemoveAt(l, c)
    OBVIOUS
  <2>4. r \in Seq(Keys)
    BY <2>1, <2>3, RemoveAtIs
  <2>5. QED
    BY <2>2, <2>3, <2>4
<1>2. QED
  BY <1>1 DEF TakenOff

LEMMA PutIntoTyped ==
  ASSUME NEW t, NEW l \in Seq(Keys), NEW k \in Keys
  PROVE  PutInto(t, l, k) \in Seq(Keys) /\ PutInto(t, l, k) # <<>>
<1>1. PICK i \in 1 .. Len(l) + 1 : PutAt(t, l, k, i)
  BY PlaceIs
<1>2. PICK r : r = InsertAt(l, i, k)
  OBVIOUS
<1>3. r \in Seq(Keys) /\ Len(r) = Len(l) + 1
  BY <1>2, InsertAtIs DEF HasInserted
<1>4. Len(l) \in Nat
  OBVIOUS
<1>5. r # <<>>
  BY <1>3, <1>4
<1>6. QED
  BY <1>1, <1>2, <1>3, <1>5 DEF PutAt

LEMMA PutIntoIs ==
  ASSUME NEW t \in Tables, NEW l, NEW ks, ks \subseteq DOMAIN t.ref, ListIs(t, l, ks),
         NEW k \in DOMAIN t.ref, k \notin ks
  PROVE  ListIs(t, PutInto(t, l, k), ks \cup {k}) /\ PutInto(t, l, k) # <<>>
<1>1. l \in Seq(Keys) /\ Range(l) = ks /\ DOMAIN l = 1 .. Len(l) /\ Len(l) \in Nat
  BY DEF ListIs
<1>2. \A i, j \in 1 .. Len(l) : i < j => l[i] # l[j] /\ RefBefore(t, l[i], l[j])
  BY <1>1 DEF ListIs
<1>3. PICK n \in Nat : n = Len(l)
  BY <1>1
<1>4. PICK i \in 1 .. Len(l) + 1 : PutAt(t, l, k, i)
  BY <1>1, PlaceIs
<1>8. i \in 1 .. n + 1 /\ (i # n + 1 => RefBefore(t, k, l[i])) /\ \A j \in 1 .. n : j < i => ~RefBefore(t, k, l[j])
  BY <1>1, <1>3, <1>4 DEF PutAt
<1>9. PICK r : r = InsertAt(l, i, k)
  OBVIOUS
<1>10. k \in Keys
  BY TableIs
<1>11. /\ r \in Seq(Keys) /\ Len(r) = n + 1 /\ r[i] = k
       /\ \A j \in 1 .. n + 1 : (j < i => r[j] = l[j]) /\ (j > i => r[j] = l[j - 1])
  <2>1. l \in Seq(Keys) /\ i \in 1 .. Len(l) + 1
    BY <1>1, <1>3, <1>8
  <2>2. r \in Seq(Keys) /\ HasInserted(r, l, i, k)
    BY <1>9, <1>10, <2>1, InsertAtIs
  <2>3. QED
    BY <1>3, <2>2 DEF HasInserted
<1>12. DOMAIN r = 1 .. n + 1
  BY <1>11
<1>13. \A j \in 1 .. n + 1 : /\ j < i => r[j] = l[j]
                             /\ j > i => r[j] = l[j - 1]
  BY <1>8, <1>11
<1>14. r[i] = k
  BY <1>8, <1>11
<1>15. \A j \in 1 .. n : l[j] \in ks /\ l[j] \in DOMAIN t.ref /\ l[j] # k
  BY <1>1, <1>3 DEF Range
<1>16. \A j \in 1 .. n : j < i => RefBefore(t, l[j], k)
  BY <1>8, <1>15, OrderIsTotal
<1>17. ASSUME NEW j \in 1 .. n, j >= i PROVE RefBefore(t, k, l[j])
  <2>1. i \in 1 .. n /\ RefBefore(t, k, l[i])
    BY <1>8, <1>17
  <2>2. CASE j = i
    BY <2>1, <2>2
  <2>3. CASE i < j
    <3>1. RefBefore(t, l[i], l[j])
      BY <1>2, <1>3, <2>1, <2>3
    <3>2. QED
      BY <1>15, <2>1, <3>1, OrderIsTransitive
  <2>4. QED
    BY <1>8, <1>17, <2>2, <2>3
<1>18. ASSUME NEW a \in DOMAIN r, NEW b \in DOMAIN r, a < b
       PROVE  r[a] # r[b] /\ RefBefore(t, r[a], r[b])
  <2>1. CASE a # i /\ b # i
    <3>1. PICK x, y : x = (IF a < i THEN a ELSE a - 1) /\ y = (IF b < i THEN b ELSE b - 1)
      OBVIOUS
    <3>2. x \in 1 .. n /\ y \in 1 .. n /\ x < y
      BY <1>8, <1>12, <1>18, <2>1, <3>1
    <3>3. r[a] = l[x] /\ r[b] = l[y]
      BY <1>8, <1>12, <1>13, <2>1, <3>1
    <3>4. QED
      BY <1>2, <1>3, <3>2, <3>3
  <2>2. CASE a = i
    <3>1. b > i /\ b - 1 \in 1 .. n /\ b - 1 >= i
      BY <1>8, <1>12, <1>18, <2>2
    <3>2. r[b] = l[b - 1]
      BY <1>12, <1>13, <3>1
    <3>3. QED
      BY <1>14, <1>15, <1>17, <2>2, <3>1, <3>2
  <2>3. CASE b = i
    <3>1. a < i /\ a \in 1 .. n
      BY <1>8, <1>12, <1>18, <2>3
    <3>2. r[a] = l[a]
      BY <1>12, <1>13, <3>1
    <3>3. QED
      BY <1>14, <1>15, <1>16, <2>3, <3>1, <3>2
  <2>4. QED
    BY <2>1, <2>2, <2>3
<1>19. ASSUME NEW a \in DOMAIN r PROVE r[a] \in ks \cup {k}
  <2>1. CASE a < i
    <3>1. a \in 1 .. n
      BY <1>8, <1>12, <2>1
    <3>2. QED
      BY <1>12, <1>13, <1>15, <2>1, <3>1
  <2>2. CASE a > i
    <3>1. a - 1 \in 1 .. n
      BY <1>8, <1>12, <2>2
    <3>2. QED
      BY <1>12, <1>13, <1>15, <2>2, <3>1
  <2>3. QED
    BY <1>8, <1>12, <1>14, <2>1, <2>2
<1>20. ASSUME NEW x \in ks \cup {k} PROVE \E a \in DOMAIN r : r[a] = x
  <2>1. CASE x = k
    BY <1>8, <1>12, <1>14, <2>1
  <2>2. CASE x # k
    <3>1. PICK j \in 1 .. n : l[j] = x
      BY <1>1, <1>3, <2>2 DEF Range
    <3>2. CASE j < i
      <4>1. j \in 1 .. n + 1
        BY <3>1
      <4>2. QED
        BY <1>12, <1>13, <3>1, <3>2, <4>1
    <3>3. CASE j >= i
      <4>1. j + 1 \in 1 .. n + 1 /\ j + 1 > i /\ (j + 1) - 1 = j
        BY <1>8, <3>1, <3>3
      <4>2. r[j + 1] = l[j]
        BY <1>13, <4>1
      <4>3. QED
        BY <1>12, <3>1, <4>1, <4>2
    <3>4. QED
      BY <1>8, <3>1, <3>2, <3>3
  <2>3. QED
    BY <2>1, <2>2
<1>21. Range(r) = ks \cup {k}
  BY <1>19, <1>20 DEF Range
<1>22. ListIs(t, r, ks \cup {k})
  BY <1>11, <1>18, <1>21 DEF ListIs
<1>23. r # <<>>
  BY <1>8, <1>12
<1>24. QED
  BY <1>4, <1>9, <1>22, <1>23 DEF PutAt

\* The order of a list depends on the types of its refs only.
LEMMA ListStays ==
  ASSUME NEW t, NEW u, NEW l, NEW ks, ListIs(t, l, ks), \A k \in ks : u.ref[k].type = t.ref[k].type
  PROVE  ListIs(u, l, ks)
<1>1. \A i \in DOMAIN l : l[i] \in ks
  BY DEF ListIs, Range
<1>2. ASSUME NEW i \in DOMAIN l, NEW j \in DOMAIN l, RefBefore(t, l[i], l[j])
      PROVE  RefBefore(u, l[i], l[j])
  <2>1. u.ref[l[i]].type = t.ref[l[i]].type /\ u.ref[l[j]].type = t.ref[l[j]].type
    BY <1>1
  <2>2. QED
    BY <1>2, <2>1 DEF RefBefore
<1>3. QED
  BY <1>2 DEF ListIs

-------------------------------------------------------------------------------
(* The maps.                                                               *)

\* h is f with e for k.
Changed(h, f, k, e) ==
  /\ DOMAIN h = DOMAIN f \cup {k}
  /\ h[k] = e
  /\ \A l \in DOMAIN f : l # k => h[l] = f[l]

LEMMA WithIs ==
  ASSUME NEW f \in Entered, NEW k \in Keys, NEW e \in Entries, NEW h, h = With(f, k, e)
  PROVE  h \in Entered /\ Changed(h, f, k, e)
<1>1. DOMAIN f \subseteq Keys /\ \A l \in DOMAIN f : f[l] \in Entries
  BY DEF Entered
<1>2. h = [x \in DOMAIN f \cup {k} |-> IF x = k THEN e ELSE f[x]]
  BY DEF With
<1>3. DOMAIN h = DOMAIN f \cup {k} /\ h[k] = e /\ \A l \in DOMAIN f : l # k => h[l] = f[l]
  BY <1>2
<1>4. h \in [DOMAIN f \cup {k} -> Entries]
  BY <1>1, <1>2
<1>5. DOMAIN f \cup {k} \subseteq Keys
  BY <1>1
<1>6. QED
  BY <1>3, <1>4, <1>5 DEF Entered, Changed

\* What the list of an id is when a list is put in its place.
Listing(u, t, id, l) == \A x : ListOf(u, x) = IF x = id THEN l ELSE ListOf(t, x)

LEMMA WithListIs ==
  ASSUME NEW t \in Tables, NEW id \in Ids, NEW l \in Seq(Keys), NEW u, u = WithList(t, id, l)
  PROVE  /\ u \in Tables
         /\ u.ref = t.ref /\ u.head = t.head /\ u.current = t.current /\ u.changed = t.changed
         /\ Listing(u, t, id, l)
<1>1. PICK m : m = IF l = <<>> THEN Without(t.list, id) ELSE With(t.list, id, l)
  OBVIOUS
<1>2. u = [t EXCEPT !.list = m]
  BY <1>1 DEF WithList
<1>3. DOMAIN t.list \subseteq Ids /\ \A x \in DOMAIN t.list : t.list[x] \in Seq(Keys)
  BY TableIs
<1>4. /\ m \in Lists
      /\ l = <<>> => DOMAIN m = DOMAIN t.list \ {id}
      /\ l # <<>> => DOMAIN m = DOMAIN t.list \cup {id} /\ m[id] = l
      /\ \A x \in DOMAIN t.list : x # id => m[x] = t.list[x]
  <2>1. CASE l = <<>>
    <3>1. m = [x \in DOMAIN t.list \ {id} |-> t.list[x]]
      BY <1>1, <2>1 DEF Without, Restrict
    <3>2. m \in [DOMAIN t.list \ {id} -> Seq(Keys)] /\ DOMAIN t.list \ {id} \subseteq Ids
      BY <1>3, <3>1
    <3>3. m \in Lists
      BY <3>2 DEF Lists
    <3>4. QED
      BY <2>1, <3>1, <3>3
  <2>2. CASE l # <<>>
    <3>1. m = [x \in DOMAIN t.list \cup {id} |-> IF x = id THEN l ELSE t.list[x]]
      BY <1>1, <2>2 DEF With
    <3>2. m \in [DOMAIN t.list \cup {id} -> Seq(Keys)] /\ DOMAIN t.list \cup {id} \subseteq Ids
      BY <1>3, <3>1
    <3>3. m \in Lists
      BY <3>2 DEF Lists
    <3>4. QED
      BY <2>2, <3>1, <3>3
  <2>3. QED
    BY <2>1, <2>2
<1>5. /\ u \in Tables /\ u.list = m
      /\ u.ref = t.ref /\ u.head = t.head /\ u.current = t.current /\ u.changed = t.changed
  BY <1>2, <1>4 DEF Tables
<1>6. ASSUME NEW x PROVE ListOf(u, x) = IF x = id THEN l ELSE ListOf(t, x)
  <2>1. CASE x = id
    BY <1>4, <1>5, <2>1 DEF ListOf
  <2>2. CASE x # id
    <3>1. x \in DOMAIN m <=> x \in DOMAIN t.list
      BY <1>4, <2>2
    <3>2. QED
      BY <1>4, <1>5, <2>2, <3>1 DEF ListOf
  <2>3. QED
    BY <2>1, <2>2
<1>7. QED
  BY <1>5, <1>6 DEF Listing

-------------------------------------------------------------------------------
(* Storing an entry.                                                       *)

\* u is t with the entry of k.
StoredAs(u, t, k, id, type) ==
  /\ DOMAIN u.ref = DOMAIN t.ref \cup {k}
  /\ u.ref[k] = Entry(id, type, TRUE)
  /\ \A l \in DOMAIN t.ref : l # k => u.ref[l] = t.ref[l]
  /\ u.head = (IF type = "head" THEN k ELSE t.head)
  /\ u.current = t.current
  /\ t.changed \subseteq u.changed
  /\ type = "head" /\ t.head # k => "head" \in u.changed

\* Every list is in order and has the valid entries of its id.
ListsRight(t) ==
  \A id \in 1 .. 2 * NCommits : ListIs(t, ListOf(t, id), {k \in Valid(t) : t.ref[k].id = id})

\* u has its lists from t, without k but on the list of id, where it is put.
ListedAs(u, t, k, id) ==
  /\ ListOf(u, id) # <<>>
  /\ \E l : /\ \/ l = ListOf(t, id)
               \/ l = TakenOff(ListOf(t, id), k)
            /\ ListOf(u, id) = PutInto(u, TakenOff(l, k), k)
  /\ \A x : x # id => \/ ListOf(u, x) = TakenOff(ListOf(t, x), k)
                      \/ /\ ListOf(u, x) = ListOf(t, x)
                         /\ k \in DOMAIN t.ref => t.ref[k].id # x \/ t.ref[k].id = NoId

LEMMA StoredIs ==
  ASSUME NEW t \in Tables, NEW k \in Keys, NEW id \in Ids, NEW type \in Types,
         NEW u, u = Stored(t, k, id, type)
  PROVE  u \in Tables /\ StoredAs(u, t, k, id, type) /\ ListedAs(u, t, k, id)
<1>1. NoId \in Ids /\ "head" \in Types
  BY RefsAssumption, RankIs DEF Ids, NoId
<1>2. PICK old : old = IF k \in DOMAIN t.ref THEN t.ref[k] ELSE Entry(NoId, "head", FALSE)
  OBVIOUS
<1>3. old \in Entries
  BY <1>1, <1>2, TableIs DEF Entries, Entry
<1>4. PICK h : h = With(t.ref, k, old)
  OBVIOUS
<1>5. PICK ref : ref = t.ref /\ ref \in Entered
  BY DEF Tables
<1>6. /\ h \in Entered /\ DOMAIN h = DOMAIN t.ref \cup {k} /\ h[k] = old
      /\ \A l \in DOMAIN t.ref : l # k => h[l] = t.ref[l]
  <2>1. h = With(ref, k, old)
    BY <1>4, <1>5
  <2>2. h \in Entered /\ Changed(h, ref, k, old)
    BY <1>3, <1>5, <2>1, WithIs
  <2>3. QED
    BY <1>5, <2>2 DEF Changed
<1>7. PICK new : new = [t EXCEPT !.ref = h]
  OBVIOUS
<1>8. /\ new \in Tables /\ new.ref = h /\ new.list = t.list /\ new.head = t.head
      /\ new.current = t.current /\ new.changed = t.changed
  BY <1>6, <1>7 DEF Tables
<1>9. \A x : ListOf(new, x) = ListOf(t, x)
  BY <1>8 DEF ListOf
<1>10. PICK differs : differs = (old.id # id \/ old.type # type)
  OBVIOUS
<1>11. PICK m : m = IF differs /\ old.id # NoId THEN Unlisted(new, k) ELSE new
  OBVIOUS
<1>12. /\ m \in Tables
       /\ m.ref = h /\ m.head = t.head /\ m.current = t.current /\ m.changed = t.changed
       /\ \A x : \/ ListOf(m, x) = TakenOff(ListOf(t, x), k)
                 \/ /\ ListOf(m, x) = ListOf(t, x)
                    /\ old.id # x \/ old.id = NoId \/ x = id
  <2>1. CASE differs /\ old.id # NoId
    <3>1. PICK l : l = TakenOff(ListOf(new, old.id), k)
      OBVIOUS
    <3>2. l \in Seq(Keys)
      BY <1>8, <3>1, ListOfTyped, TakenOffTyped
    <3>3. m = WithList(new, old.id, l)
      BY <1>6, <1>8, <1>11, <2>1, <3>1 DEF Unlisted
    <3>4. old.id \in Ids
      BY <1>3 DEF Entries
    <3>5. /\ m \in Tables /\ m.ref = new.ref /\ m.head = new.head /\ m.current = new.current
          /\ m.changed = new.changed /\ Listing(m, new, old.id, l)
      BY <1>8, <3>2, <3>3, <3>4, WithListIs
    <3>6. ASSUME NEW x PROVE \/ ListOf(m, x) = TakenOff(ListOf(t, x), k)
                             \/ ListOf(m, x) = ListOf(t, x) /\ old.id # x
      <4>1. ListOf(m, x) = IF x = old.id THEN l ELSE ListOf(new, x)
        BY <3>5 DEF Listing
      <4>2. QED
        BY <1>9, <3>1, <4>1
    <3>7. QED
      BY <1>8, <3>5, <3>6
  <2>2. CASE ~(differs /\ old.id # NoId)
    <3>1. m = new
      BY <1>11, <2>2
    <3>2. ASSUME NEW x PROVE old.id # x \/ old.id = NoId \/ x = id
      BY <1>10, <2>2
    <3>3. QED
      BY <1>8, <1>9, <3>1, <3>2
  <2>3. QED
    BY <2>1, <2>2
<1>13. PICK e : e = Entry(id, type, TRUE)
  OBVIOUS
<1>14. e \in Entries
  BY <1>13 DEF Entries, Entry
<1>15. PICK f : f = With(h, k, e)
  OBVIOUS
<1>16. /\ f \in Entered /\ DOMAIN f = DOMAIN t.ref \cup {k} /\ f[k] = e
       /\ \A l \in DOMAIN t.ref : l # k => f[l] = t.ref[l]
  <2>1. f \in Entered /\ Changed(f, h, k, e)
    BY <1>6, <1>14, <1>15, WithIs
  <2>2. QED
    BY <1>6, <2>1 DEF Changed
<1>17. PICK hd : hd = IF type = "head" THEN k ELSE t.head
  OBVIOUS
<1>18. hd \in Keys
  BY <1>17 DEF Tables
<1>19. PICK ch : ch = t.changed \cup (IF differs THEN {"refs"} ELSE {})
                               \cup (IF type = "head" /\ t.head # k THEN {"head"} ELSE {})
  OBVIOUS
<1>20. ch \in SUBSET {"refs", "head"} /\ t.changed \subseteq ch /\ (type = "head" /\ t.head # k => "head" \in ch)
  BY <1>19 DEF Tables
<1>21. PICK v : v = [m EXCEPT !.ref = f, !.head = hd, !.changed = ch]
  OBVIOUS
<1>22. u = Inserted(v, k)
  <2>1. Stored(t, k, id, type) =
          Inserted([m EXCEPT
                 !.ref = With(@, k, Entry(id, type, TRUE)),
                 !.head = IF type = "head" THEN k ELSE @,
                 !.changed = @ \cup (IF differs THEN {"refs"} ELSE {})
                                \cup (IF type = "head" /\ t.head # k THEN {"head"} ELSE {})], k)
    BY Zenon, <1>2, <1>4, <1>7, <1>10, <1>11 DEF Stored
  <2>2. QED
    BY <1>12, <1>13, <1>15, <1>17, <1>19, <1>21, <2>1
<1>23. /\ v \in Tables /\ v.ref = f /\ v.list = m.list /\ v.head = hd /\ v.current = t.current /\ v.changed = ch
  BY <1>12, <1>16, <1>18, <1>20, <1>21 DEF Tables
<1>24. \A x : ListOf(v, x) = ListOf(m, x)
  BY <1>23 DEF ListOf
<1>25. PICK l : l = TakenOff(ListOf(v, id), k)
  OBVIOUS
<1>26. PICK p : p = PutInto(v, l, k)
  OBVIOUS
<1>27. l \in Seq(Keys) /\ p \in Seq(Keys)
  BY <1>23, <1>25, <1>26, ListOfTyped, TakenOffTyped, PutIntoTyped
<1>28. u = WithList(v, id, p)
  BY <1>13, <1>16, <1>22, <1>23, <1>25, <1>26 DEF Inserted, Entry
<1>29. /\ u \in Tables /\ u.ref = f /\ u.head = hd /\ u.current = t.current /\ u.changed = ch
       /\ Listing(u, v, id, p)
  BY <1>23, <1>27, <1>28, WithListIs
<1>30. StoredAs(u, t, k, id, type)
  BY <1>13, <1>16, <1>17, <1>20, <1>29 DEF StoredAs
<1>31. PutInto(v, l, k) = PutInto(u, l, k)
  BY <1>23, <1>29 DEF PutInto, RefBefore
<1>32. p # <<>>
  BY <1>26, <1>27, PutIntoTyped
<1>33. ASSUME NEW x, x # id
       PROVE  \/ ListOf(u, x) = TakenOff(ListOf(t, x), k)
              \/ /\ ListOf(u, x) = ListOf(t, x)
                 /\ k \in DOMAIN t.ref => t.ref[k].id # x \/ t.ref[k].id = NoId
  <2>1. ListOf(u, x) = ListOf(m, x)
    BY <1>24, <1>29, <1>33 DEF Listing
  <2>2. k \in DOMAIN t.ref => old = t.ref[k]
    BY <1>2
  <2>3. QED
    BY <1>12, <1>33, <2>1, <2>2
<1>34. ListOf(u, id) = PutInto(u, l, k)
  BY <1>26, <1>29, <1>31 DEF Listing
<1>35. ListOf(v, id) = ListOf(t, id) \/ ListOf(v, id) = TakenOff(ListOf(t, id), k)
  BY <1>12, <1>24
<1>36. ListOf(u, id) # <<>>
  BY <1>26, <1>31, <1>32, <1>34
<1>37. ListedAs(u, t, k, id)
  BY <1>25, <1>33, <1>34, <1>35, <1>36 DEF ListedAs
<1>38. QED
  BY <1>29, <1>30, <1>37

\* Storing keeps the lists right.
LEMMA StoredRight ==
  ASSUME NEW t \in Tables, NEW k \in Keys, NEW id \in Ids, NEW type \in Types,
         NEW u, u = Stored(t, k, id, type), id # NoId, ListsRight(t)
  PROVE  ListsRight(u)
<1>1. u \in Tables /\ StoredAs(u, t, k, id, type) /\ ListedAs(u, t, k, id)
  BY StoredIs
<1>2. /\ u.ref[k].id = id /\ u.ref[k].type = type /\ u.ref[k].valid
      /\ DOMAIN u.ref = DOMAIN t.ref \cup {k}
      /\ \A l \in DOMAIN t.ref : l # k => u.ref[l] = t.ref[l]
  BY <1>1 DEF StoredAs, Entry
<1> DEFINE With1(s, x) == {l \in Valid(s) : s.ref[l].id = x}
<1>3. \A x : With1(u, x) = (With1(t, x) \ {k}) \cup (IF x = id THEN {k} ELSE {})
  BY <1>2 DEF Valid
<1>4. \A x : With1(t, x) \subseteq DOMAIN t.ref
  BY DEF Valid
<1>5. \A x : k \in With1(t, x) => k \in DOMAIN t.ref /\ t.ref[k].id = x
  BY DEF Valid
<1>6. \A x \in 1 .. 2 * NCommits : ListIs(t, ListOf(t, x), With1(t, x))
  BY DEF ListsRight
<1> HIDE DEF With1
<1>7. ASSUME NEW l, NEW x, ListIs(t, l, With1(t, x) \ {k}) PROVE ListIs(u, l, With1(t, x) \ {k})
  <2>1. \A y \in With1(t, x) \ {k} : u.ref[y].type = t.ref[y].type
    BY <1>2, <1>4
  <2>2. QED
    BY <1>7, <2>1, ListStays
<1>8. ASSUME NEW x \in 1 .. 2 * NCommits PROVE ListIs(u, ListOf(u, x), With1(u, x))
  <2>1. ListIs(t, TakenOff(ListOf(t, x), k), With1(t, x) \ {k})
    BY <1>6, TakenOffIs
  <2>2. CASE x # id
    <3>1. ListIs(t, ListOf(u, x), With1(t, x) \ {k})
      <4>1. CASE ListOf(u, x) = TakenOff(ListOf(t, x), k)
        BY <2>1, <4>1
      <4>2. CASE ListOf(u, x) = ListOf(t, x) /\ (k \in DOMAIN t.ref => t.ref[k].id # x \/ t.ref[k].id = NoId)
        <5>1. x # NoId
          BY RefsAssumption DEF NoId
        <5>2. k \notin With1(t, x)
          BY <1>5, <4>2, <5>1
        <5>3. With1(t, x) \ {k} = With1(t, x)
          BY <5>2
        <5>4. QED
          BY <1>6, <4>2, <5>3
      <4>3. QED
        BY <1>1, <2>2, <4>1, <4>2 DEF ListedAs
    <3>2. With1(u, x) = With1(t, x) \ {k}
      BY <1>3, <2>2
    <3>3. QED
      BY <1>7, <3>1, <3>2
  <2>3. CASE x = id
    <3>1. PICK l : /\ l = ListOf(t, id) \/ l = TakenOff(ListOf(t, id), k)
                   /\ ListOf(u, id) = PutInto(u, TakenOff(l, k), k)
      BY <1>1 DEF ListedAs
    <3>2. PICK m : m = TakenOff(l, k)
      OBVIOUS
    <3>3. ListIs(t, m, With1(t, x) \ {k})
      <4>1. CASE l = ListOf(t, id)
        BY <2>1, <2>3, <3>2, <4>1
      <4>2. CASE l = TakenOff(ListOf(t, id), k)
        <5>1. ListIs(t, TakenOff(l, k), (With1(t, x) \ {k}) \ {k})
          BY <2>1, <2>3, <4>2, TakenOffIs
        <5>2. (With1(t, x) \ {k}) \ {k} = With1(t, x) \ {k}
          OBVIOUS
        <5>3. QED
          BY <3>2, <5>1, <5>2
      <4>3. QED
        BY <3>1, <4>1, <4>2
    <3>4. ListIs(u, m, With1(t, x) \ {k})
      BY <1>7, <3>3
    <3>5. PICK ks : ks = With1(t, x) \ {k}
      OBVIOUS
    <3>6. ks \subseteq DOMAIN u.ref /\ k \in DOMAIN u.ref /\ k \notin ks
      BY <1>2, <1>4, <3>5
    <3>7. ListIs(u, PutInto(u, m, k), ks \cup {k})
      BY <1>1, <3>4, <3>5, <3>6, PutIntoIs
    <3>8. With1(u, x) = ks \cup {k}
      BY <1>3, <2>3, <3>5
    <3>9. QED
      BY <2>3, <3>1, <3>2, <3>7, <3>8
  <2>4. QED
    BY <2>2, <2>3
<1>9. QED
  BY <1>8 DEF ListsRight, With1

-------------------------------------------------------------------------------
(* What git lists.                                                         *)

\* The ref a line is about, and the refs there are, with a HEAD that leads
\* to a commit.
Ref(line) == <<line.kind, line.name>>
Exists(g, r) == (r = Detached /\ HeadId(g) # NoId) \/ (r \in Refs /\ g.refs[r] # NoId)

AllLines == [kind : Kinds \cup {"HEAD", "replace"}, name : Nat, id : Ids, peeled : BOOLEAN]
GitLines(g) ==
  {l \in AllLines :
     /\ l.kind # "replace" => l.id # NoId /\ Exists(g, Ref(l))
     /\ l.kind = "HEAD" => l.id = HeadId(g)
     /\ l.kind = "replace" => l.name \in g.replaced}

\* The lines s are of the kinds and are the refs rs there are, and the last
\* line of a ref has its commit.
Describes(s, g, rs, kinds) ==
  /\ s \in Seq(GitLines(g))
  /\ \A i \in DOMAIN s : s[i].kind \in kinds
  /\ \A i \in DOMAIN s : s[i].kind \in Kinds =>
       s[i].id = g.refs[Ref(s[i])] \/ \E j \in DOMAIN s : i < j /\ Ref(s[j]) = Ref(s[i])
  /\ \A r \in rs : Exists(g, r) => \E i \in DOMAIN s : Ref(s[i]) = r

LEMMA RefsAre ==
  /\ \A r \in Refs : r[1] \in Kinds /\ r[2] \in 1 .. NNames /\ r[2] # 0 /\ r[2] \in Nat /\ r = <<r[1], r[2]>>
  /\ NNames \in Nat /\ NCommits \in Nat
BY RefsAssumption

LEMMA HeadIdIs ==
  ASSUME NEW g \in Repositories
  PROVE  /\ HeadId(g) \in Ids /\ g.head \in Nat
         /\ g.head # NoName => /\ <<"heads", g.head>> \in Refs /\ g.head # 0
                               /\ HeadId(g) = g.refs[<<"heads", g.head>>]
<1>1. /\ g.refs \in [Refs -> 0 .. NCommits] /\ g.detached \in 0 .. NCommits
      /\ g.head \in {r[2] : r \in {s \in Refs : s[1] = "heads"}} \cup {NoName}
  BY DEF Repositories
<1>2. 0 .. NCommits \subseteq Ids
  BY RefsAssumption DEF Ids
<1>3. CASE g.head = NoName
  BY <1>1, <1>2, <1>3 DEF HeadId, NoName
<1>4. CASE g.head # NoName
  <2>1. PICK r \in Refs : r[1] = "heads" /\ r[2] = g.head
    BY <1>1, <1>4
  <2>2. r = <<"heads", g.head>> /\ g.head \in Nat /\ g.head # 0
    BY <2>1, RefsAre
  <2>3. g.refs[r] \in 0 .. NCommits
    BY <1>1
  <2>4. HeadId(g) = g.refs[<<"heads", g.head>>]
    BY <1>4 DEF HeadId
  <2>5. QED
    BY <1>2, <2>2, <2>3, <2>4
<1>5. QED
  BY <1>3, <1>4

LEMMA NothingDescribed ==
  ASSUME NEW g, NEW kinds, NEW rs, \A r \in rs : ~Exists(g, r)
  PROVE  Describes(<<>>, g, rs, kinds)
<1>1. <<>> \in Seq(GitLines(g)) /\ DOMAIN <<>> = {}
  OBVIOUS
<1>2. QED
  BY <1>1 DEF Describes

LEMMA Joined ==
  ASSUME NEW g, NEW a, NEW b, NEW rs, NEW qs, NEW kinds, NEW others,
         Describes(a, g, rs, kinds), Describes(b, g, qs, others)
  PROVE  Describes(a \o b, g, rs \cup qs, kinds \cup others)
<1>1. PICK T : T = GitLines(g)
  OBVIOUS
<1>2. a \in Seq(T) /\ b \in Seq(T)
  BY <1>1 DEF Describes
<1>3. PICK n, m : n = Len(a) /\ m = Len(b)
  OBVIOUS
<1>4. n \in Nat /\ m \in Nat /\ DOMAIN a = 1 .. n /\ DOMAIN b = 1 .. m
  BY <1>2, <1>3
<1>5. PICK c : c = a \o b
  OBVIOUS
<1>6. c \in Seq(T) /\ Len(c) = n + m
  BY <1>2, <1>3, <1>5
<1>7. DOMAIN c = 1 .. n + m
  BY <1>6
<1>8. \A i \in 1 .. n : i \in DOMAIN c /\ c[i] = a[i]
  BY <1>2, <1>3, <1>4, <1>5, <1>7
<1>9. \A i \in 1 .. m : n + i \in DOMAIN c /\ c[n + i] = b[i]
  BY <1>2, <1>3, <1>4, <1>5, <1>7
<1>10. \A i \in DOMAIN c : i \in 1 .. n \/ \E j \in 1 .. m : i = n + j
  <2>1. ASSUME NEW i \in DOMAIN c, i \notin 1 .. n PROVE i - n \in 1 .. m /\ i = n + (i - n)
    BY <1>4, <1>7, <2>1
  <2>2. QED
    BY <2>1
<1>11. ASSUME NEW i \in DOMAIN c PROVE c[i].kind \in kinds \cup others
  <2>1. \A j \in 1 .. n : a[j].kind \in kinds
    BY <1>4 DEF Describes
  <2>2. \A j \in 1 .. m : b[j].kind \in others
    BY <1>4 DEF Describes
  <2>3. QED
    BY <1>8, <1>9, <1>10, <2>1, <2>2
<1>12. ASSUME NEW i \in DOMAIN c, c[i].kind \in Kinds
       PROVE  c[i].id = g.refs[Ref(c[i])] \/ \E j \in DOMAIN c : i < j /\ Ref(c[j]) = Ref(c[i])
  <2>1. CASE i \in 1 .. n
    <3>1. a[i].id = g.refs[Ref(a[i])] \/ \E j \in 1 .. n : i < j /\ Ref(a[j]) = Ref(a[i])
      BY <1>4, <1>8, <1>12, <2>1 DEF Describes
    <3>2. QED
      BY <1>8, <2>1, <3>1
  <2>2. CASE \E k \in 1 .. m : i = n + k
    <3>1. PICK k \in 1 .. m : i = n + k
      BY <2>2
    <3>2. b[k].id = g.refs[Ref(b[k])] \/ \E j \in 1 .. m : k < j /\ Ref(b[j]) = Ref(b[k])
      BY <1>4, <1>9, <1>12, <3>1 DEF Describes
    <3>3. CASE b[k].id = g.refs[Ref(b[k])]
      BY <1>9, <3>1, <3>3
    <3>4. ASSUME NEW j \in 1 .. m, k < j, Ref(b[j]) = Ref(b[k])
          PROVE  \E x \in DOMAIN c : i < x /\ Ref(c[x]) = Ref(c[i])
      <4>1. i < n + j
        BY <1>4, <3>1, <3>4
      <4>2. QED
        BY <1>9, <3>1, <3>4, <4>1
    <3>5. QED
      BY <3>2, <3>3, <3>4
  <2>3. QED
    BY <1>10, <2>1, <2>2
<1>13. ASSUME NEW r \in rs \cup qs, Exists(g, r) PROVE \E i \in DOMAIN c : Ref(c[i]) = r
  <2>1. CASE r \in rs
    <3>1. PICK i \in 1 .. n : Ref(a[i]) = r
      BY <1>4, <1>13, <2>1 DEF Describes
    <3>2. QED
      BY <1>8, <3>1
  <2>2. CASE r \in qs
    <3>1. PICK i \in 1 .. m : Ref(b[i]) = r
      BY <1>4, <1>13, <2>2 DEF Describes
    <3>2. QED
      BY <1>9, <3>1
  <2>3. QED
    BY <2>1, <2>2
<1>14. Describes(c, g, rs \cup qs, kinds \cup others)
  BY <1>1, <1>6, <1>11, <1>12, <1>13 DEF Describes
<1>15. QED
  BY <1>5, <1>14

LEMMA OneDescribed ==
  ASSUME NEW g, NEW line \in GitLines(g), line.kind \in Kinds => line.id = g.refs[Ref(line)],
         NEW rs, \A r \in rs : Exists(g, r) => r = Ref(line)
  PROVE  Describes(<<line>>, g, rs, {line.kind})
<1>1. PICK s : s = <<line>>
  OBVIOUS
<1>2. s \in Seq(GitLines(g)) /\ DOMAIN s = {1} /\ s[1] = line
  BY <1>1
<1>3. Describes(s, g, rs, {line.kind})
  BY <1>2 DEF Describes
<1>4. QED
  BY <1>1, <1>3

LEMMA LineIs ==
  ASSUME NEW kind, NEW name, NEW id, NEW peeled, NEW l, l = Line(kind, name, id, peeled)
  PROVE  l = [kind |-> kind, name |-> name, id |-> id, peeled |-> peeled] /\ Ref(l) = <<kind, name>>
BY DEF Line, Ref

\* The lines of one ref.
LEMMA ListedDescribes ==
  ASSUME NEW g \in Repositories, NEW kind \in Kinds, NEW n \in Nat
  PROVE  Describes(Listed(g, <<kind, n>>), g, {<<kind, n>>}, {kind})
<1>1. PICK r : r = <<kind, n>>
  OBVIOUS
<1>2. r[1] = kind /\ r[2] = n /\ r # Detached
  BY <1>1 DEF Detached, Kinds
<1>3. CASE r \notin Refs \/ g.refs[r] = NoId
  <2>1. Listed(g, r) = <<>> /\ ~Exists(g, r)
    BY <1>2, <1>3 DEF Listed, Exists
  <2>2. QED
    BY <1>1, <2>1, NothingDescribed
<1>4. CASE r \in Refs /\ g.refs[r] # NoId
  <2>1. g.refs[r] \in 0 .. NCommits /\ NCommits \in Nat
    BY <1>4, RefsAre DEF Repositories
  <2>2. PICK c \in 1 .. NCommits : c = g.refs[r]
    BY <1>4, <2>1 DEF NoId
  <2>3. c \in Ids /\ c # NoId /\ TagObject(c) \in Ids /\ TagObject(c) # NoId
    BY <2>1, <2>2 DEF Ids, NoId, TagObject
  <2>4. Exists(g, r)
    BY <1>4 DEF Exists
  <2>5. ASSUME NEW id \in Ids, id # NoId, NEW peeled \in BOOLEAN, NEW l, l = Line(kind, n, id, peeled)
        PROVE  l \in GitLines(g) /\ Ref(l) = r /\ l.id = id /\ l.kind = kind
    <3>1. l = [kind |-> kind, name |-> n, id |-> id, peeled |-> peeled] /\ Ref(l) = r
      BY <1>1, <2>5, LineIs
    <3>2. l \in AllLines /\ l.id = id /\ l.kind = kind /\ kind # "HEAD" /\ kind # "replace"
      BY <3>1 DEF AllLines, Kinds
    <3>3. QED
      BY <2>4, <2>5, <3>1, <3>2 DEF GitLines
  <2>6. PICK b : b = Line(kind, n, c, TRUE)
    OBVIOUS
  <2>7. b \in GitLines(g) /\ Ref(b) = r /\ b.id = c /\ b.kind = kind
    BY <2>3, <2>5, <2>6
  <2>8. CASE r \in g.annotated
    <3>1. PICK a : a = Line(kind, n, TagObject(c), FALSE)
      OBVIOUS
    <3>2. a \in GitLines(g) /\ Ref(a) = r /\ a.kind = kind
      BY <2>3, <2>5, <3>1
    <3>3. PICK s : s = <<a, b>>
      OBVIOUS
    <3>4. Listed(g, r) = s
      BY <1>2, <1>4, <2>2, <2>6, <2>8, <3>1, <3>3 DEF Listed
    <3>5. s \in Seq(GitLines(g)) /\ DOMAIN s = {1, 2} /\ s[1] = a /\ s[2] = b
      BY <2>7, <3>2, <3>3
    <3>6. \A i \in DOMAIN s : s[i].kind = kind /\ Ref(s[i]) = r
      BY <2>7, <3>2, <3>5
    <3>7. ASSUME NEW i \in DOMAIN s
          PROVE  s[i].id = g.refs[Ref(s[i])] \/ \E j \in DOMAIN s : i < j /\ Ref(s[j]) = Ref(s[i])
      <4>1. CASE i = 1
        BY <3>5, <3>6, <4>1
      <4>2. CASE i = 2
        BY <2>2, <2>7, <3>5, <4>2
      <4>3. QED
        BY <3>5, <4>1, <4>2
    <3>8. Describes(s, g, {r}, {kind})
      BY <3>5, <3>6, <3>7 DEF Describes
    <3>9. QED
      BY <1>1, <3>4, <3>8
  <2>9. CASE r \notin g.annotated
    <3>1. PICK a : a = Line(kind, n, c, FALSE)
      OBVIOUS
    <3>2. a \in GitLines(g) /\ Ref(a) = r /\ a.id = c /\ a.kind = kind
      BY <2>3, <2>5, <3>1
    <3>3. Listed(g, r) = <<a>>
      BY <1>2, <1>4, <2>2, <2>9, <3>1 DEF Listed
    <3>4. Describes(<<a>>, g, {r}, {a.kind})
      BY <2>2, <3>2, OneDescribed
    <3>5. QED
      BY <1>1, <3>2, <3>3, <3>4
  <2>10. QED
    BY <2>8, <2>9
<1>5. QED
  BY <1>1, <1>3, <1>4

\* The lines of a kind, name by name.
AllCourse(listed, g, kind) ==
  /\ listed[0] = <<>>
  /\ \A n \in 1 .. NNames : listed[n] = listed[n - 1] \o Listed(g, <<kind, n>>)
HasAllCourse(g, kind) == \E listed : AllCourse(listed, g, kind) /\ ListedAll(g, kind) = listed[NNames]

LEMMA CourseOfListedAll ==
  ASSUME NEW g \in Repositories, NEW kind \in Kinds
  PROVE  HasAllCourse(g, kind)
<1> DEFINE Run(f) == f = [n \in 0 .. NNames |-> IF n = 0 THEN <<>> ELSE f[n - 1] \o Listed(g, <<kind, n>>)]
           chosen == CHOOSE listed : Run(listed)
           T == Seq(GitLines(g))
           step == [x \in T \X (1 .. NNames) |-> x[1] \o Listed(g, <<kind, x[2]>>)]
<1>1. ListedAll(g, kind) = chosen[NNames]
  BY Zenon DEF ListedAll
<1>2. \A n \in 1 .. NNames : Listed(g, <<kind, n>>) \in T
  <2>1. ASSUME NEW n \in 1 .. NNames PROVE Listed(g, <<kind, n>>) \in T
    <3>1. n \in Nat
      BY RefsAre
    <3>2. Describes(Listed(g, <<kind, n>>), g, {<<kind, n>>}, {kind})
      BY <3>1, ListedDescribes
    <3>3. QED
      BY <3>2 DEF Describes
  <2>2. QED
    BY <2>1
<1>3. step \in [T \X (1 .. NNames) -> T]
  <2>1. ASSUME NEW s \in T, NEW n \in 1 .. NNames PROVE s \o Listed(g, <<kind, n>>) \in T
    <3>1. PICK q : q = Listed(g, <<kind, n>>)
      OBVIOUS
    <3>2. q \in T
      BY <1>2, <3>1
    <3>3. QED
      BY <3>1, <3>2
  <2> HIDE DEF T
  <2>2. QED
    BY <2>1
<1>4. \A s \in T, n \in 1 .. NNames : step[<<s, n>>] = s \o Listed(g, <<kind, n>>)
  OBVIOUS
<1>5. <<>> \in T /\ NNames \in Nat
  BY RefsAre
<1> HIDE DEF T, step
<1>6. PICK f \in [0 .. NNames -> T] : f[0] = <<>> /\ \A i \in 1 .. NNames : f[i] = step[<<f[i - 1], i>>]
  <2>1. PICK first : first = <<>>
    OBVIOUS
  <2>2. HasRounds(NNames, T, first, step)
    BY <1>3, <1>5, <2>1, RoundsExist
  <2>3. QED
    BY <2>1, <2>2 DEF HasRounds, Rounds
<1>7. \A i \in 1 .. NNames : f[i] = f[i - 1] \o Listed(g, <<kind, i>>)
  <2>1. ASSUME NEW i \in 1 .. NNames PROVE f[i - 1] \in T
    <3>1. i - 1 \in 0 .. NNames
      BY <1>5
    <3>2. QED
      BY <1>6, <3>1
  <2>2. QED
    BY <1>4, <1>6, <2>1
<1>8. Run(f)
  <2>1. \A i \in 0 .. NNames : f[i] = IF i = 0 THEN <<>> ELSE f[i - 1] \o Listed(g, <<kind, i>>)
    <3>1. ASSUME NEW i \in 0 .. NNames, i # 0 PROVE i \in 1 .. NNames
      BY <1>5, <3>1
    <3>2. QED
      BY <1>6, <1>7, <3>1
  <2>2. QED
    BY <1>6, <2>1
<1>9. Run(chosen)
  <2> HIDE DEF Run
  <2>1. QED
    BY <1>8
<1> HIDE DEF chosen
<1>10. chosen[0] = <<>> /\ \A i \in 1 .. NNames : chosen[i] = chosen[i - 1] \o Listed(g, <<kind, i>>)
  <2>1. \A i \in 0 .. NNames : chosen[i] = IF i = 0 THEN <<>> ELSE chosen[i - 1] \o Listed(g, <<kind, i>>)
    BY <1>9
  <2>2. 0 \in 0 .. NNames /\ \A i \in 1 .. NNames : i \in 0 .. NNames /\ i # 0
    BY <1>5
  <2>3. QED
    BY <2>1, <2>2
<1>11. QED
  BY <1>1, <1>10 DEF HasAllCourse, AllCourse

LEMMA ListedAllDescribes ==
  ASSUME NEW g \in Repositories, NEW kind \in Kinds
  PROVE  Describes(ListedAll(g, kind), g, {kind} \X (1 .. NNames), {kind})
<1>1. PICK f : AllCourse(f, g, kind) /\ ListedAll(g, kind) = f[NNames]
  BY CourseOfListedAll DEF HasAllCourse
<1> DEFINE S == {n \in 0 .. NNames : Describes(f[n], g, {kind} \X (1 .. n), {kind})}
<1>2. NNames \in Nat
  BY RefsAre
<1>3. 0 \in S
  <2>1. {kind} \X (1 .. 0) = {}
    OBVIOUS
  <2>2. Describes(<<>>, g, {}, {kind})
    BY NothingDescribed
  <2>3. f[0] = <<>>
    BY <1>1 DEF AllCourse
  <2>4. QED
    BY <1>2, <2>1, <2>2, <2>3
<1>4. ASSUME NEW n \in 1 .. NNames, n - 1 \in S PROVE n \in S
  <2>1. Describes(f[n - 1], g, {kind} \X (1 .. n - 1), {kind})
    BY <1>4
  <2>2. n \in Nat /\ n \in 0 .. NNames
    BY <1>2
  <2>3. Describes(Listed(g, <<kind, n>>), g, {<<kind, n>>}, {kind})
    BY <2>2, ListedDescribes
  <2>4. f[n] = f[n - 1] \o Listed(g, <<kind, n>>)
    BY <1>1 DEF AllCourse
  <2>5. PICK a, b, rs, qs, ks : /\ a = f[n - 1] /\ b = Listed(g, <<kind, n>>) /\ ks = {kind}
                                /\ rs = {kind} \X (1 .. n - 1) /\ qs = {<<kind, n>>}
    OBVIOUS
  <2>6. Describes(a \o b, g, rs \cup qs, ks \cup ks)
    BY <2>1, <2>3, <2>5, Joined
  <2>7. rs \cup qs = {kind} \X (1 .. n)
    <3>1. 1 .. n = (1 .. n - 1) \cup {n}
      BY <2>2
    <3>2. QED
      BY <2>5, <3>1
  <2>8. QED
    BY <2>2, <2>4, <2>5, <2>6, <2>7
<1> HIDE DEF S
<1>5. \A n \in 0 .. NNames : n \in S
  BY <1>2, <1>3, <1>4, EveryRound
<1>6. NNames \in S
  BY <1>2, <1>5
<1>7. QED
  BY <1>1, <1>6 DEF S

\* The lines of the replacements, commit by commit.
ReplaceStep(g, s, c) == IF c \in g.replaced THEN Append(s, Line("replace", c, NoId, FALSE)) ELSE s
ReplaceCourse(listed, g) ==
  /\ listed[0] = <<>>
  /\ \A c \in 1 .. NCommits : listed[c] = ReplaceStep(g, listed[c - 1], c)
HasReplaceCourse(g) == \E listed : ReplaceCourse(listed, g) /\ ReplaceLines(g) = listed[NCommits]

LEMMA ReplaceStepDescribes ==
  ASSUME NEW g \in Repositories, NEW c \in 1 .. NCommits, NEW s, Describes(s, g, {}, {"replace"})
  PROVE  Describes(ReplaceStep(g, s, c), g, {}, {"replace"})
<1>1. CASE c \notin g.replaced
  BY <1>1 DEF ReplaceStep
<1>2. CASE c \in g.replaced
  <2>1. PICK l : l = Line("replace", c, NoId, FALSE)
    OBVIOUS
  <2>2. l = [kind |-> "replace", name |-> c, id |-> NoId, peeled |-> FALSE]
    BY <2>1 DEF Line
  <2>3. l \in AllLines /\ l.kind = "replace" /\ l.name = c
    BY <2>2, RefsAre DEF AllLines, NoId, Ids
  <2>4. l \in GitLines(g) /\ l.kind \notin Kinds
    BY <1>2, <2>3 DEF GitLines, Kinds
  <2>5. Describes(<<l>>, g, {}, {l.kind})
    BY <2>4, OneDescribed
  <2>6. PICK b, none, ks : b = <<l>> /\ none = {} /\ ks = {"replace"}
    OBVIOUS
  <2>7. Describes(s \o b, g, none \cup none, ks \cup ks)
    BY <2>3, <2>5, <2>6, Joined
  <2>8. s \o b = Append(s, l)
    <3>1. s \in Seq(GitLines(g))
      BY DEF Describes
    <3>2. QED
      BY <2>4, <2>6, <3>1
  <2>9. QED
    BY <1>2, <2>1, <2>6, <2>7, <2>8 DEF ReplaceStep
<1>3. QED
  BY <1>1, <1>2

LEMMA CourseOfReplaceLines ==
  ASSUME NEW g \in Repositories
  PROVE  HasReplaceCourse(g)
<1> DEFINE Run(f) == f = [c \in 0 .. NCommits |->
                            IF c = 0 THEN <<>>
                            ELSE IF c \in g.replaced THEN Append(f[c - 1], Line("replace", c, NoId, FALSE))
                            ELSE f[c - 1]]
           chosen == CHOOSE listed : Run(listed)
           T == {s \in Seq(GitLines(g)) : Describes(s, g, {}, {"replace"})}
           step == [x \in T \X (1 .. NCommits) |-> ReplaceStep(g, x[1], x[2])]
<1>1. ReplaceLines(g) = chosen[NCommits]
  BY Zenon DEF ReplaceLines
<1>2. ASSUME NEW s \in T, NEW c \in 1 .. NCommits PROVE ReplaceStep(g, s, c) \in T
  <2>1. Describes(ReplaceStep(g, s, c), g, {}, {"replace"})
    BY ReplaceStepDescribes
  <2>2. ReplaceStep(g, s, c) \in Seq(GitLines(g))
    BY <2>1 DEF Describes
  <2>3. QED
    BY <2>1, <2>2
<1>3. <<>> \in T /\ NCommits \in Nat
  <2>1. Describes(<<>>, g, {}, {"replace"})
    BY NothingDescribed
  <2>2. <<>> \in Seq(GitLines(g))
    OBVIOUS
  <2>3. QED
    BY <2>1, <2>2, RefsAre
<1> HIDE DEF T
<1>4. step \in [T \X (1 .. NCommits) -> T]
  BY <1>2
<1>5. \A s \in T, c \in 1 .. NCommits : step[<<s, c>>] = ReplaceStep(g, s, c)
  OBVIOUS
<1> HIDE DEF step
<1>6. PICK f \in [0 .. NCommits -> T] : f[0] = <<>> /\ \A i \in 1 .. NCommits : f[i] = step[<<f[i - 1], i>>]
  <2>1. PICK first : first = <<>>
    OBVIOUS
  <2>2. HasRounds(NCommits, T, first, step)
    BY <1>3, <1>4, <2>1, RoundsExist
  <2>3. QED
    BY <2>1, <2>2 DEF HasRounds, Rounds
<1>7. \A i \in 1 .. NCommits : f[i] = ReplaceStep(g, f[i - 1], i)
  <2>1. ASSUME NEW i \in 1 .. NCommits PROVE f[i - 1] \in T
    <3>1. i - 1 \in 0 .. NCommits
      BY <1>3
    <3>2. QED
      BY <1>6, <3>1
  <2>2. QED
    BY <1>5, <1>6, <2>1
<1>8. Run(f)
  <2>1. \A i \in 0 .. NCommits : f[i] = IF i = 0 THEN <<>> ELSE ReplaceStep(g, f[i - 1], i)
    <3>1. ASSUME NEW i \in 0 .. NCommits, i # 0 PROVE i \in 1 .. NCommits
      BY <1>3, <3>1
    <3>2. QED
      BY <1>6, <1>7, <3>1
  <2>2. QED
    BY <1>6, <2>1 DEF ReplaceStep
<1>9. Run(chosen)
  <2> HIDE DEF Run
  <2>1. QED
    BY <1>8
<1> HIDE DEF chosen
<1>10. chosen[0] = <<>> /\ \A i \in 1 .. NCommits : chosen[i] = ReplaceStep(g, chosen[i - 1], i)
  <2>1. \A i \in 0 .. NCommits : chosen[i] = IF i = 0 THEN <<>> ELSE ReplaceStep(g, chosen[i - 1], i)
    BY <1>9 DEF ReplaceStep
  <2>2. 0 \in 0 .. NCommits /\ \A i \in 1 .. NCommits : i \in 0 .. NCommits /\ i # 0
    BY <1>3
  <2>3. QED
    BY <2>1, <2>2
<1>11. QED
  BY <1>1, <1>10 DEF HasReplaceCourse, ReplaceCourse

LEMMA ReplaceLinesDescribe ==
  ASSUME NEW g \in Repositories
  PROVE  Describes(ReplaceLines(g), g, {}, {"replace"})
<1>1. PICK f : ReplaceCourse(f, g) /\ ReplaceLines(g) = f[NCommits]
  BY CourseOfReplaceLines DEF HasReplaceCourse
<1> DEFINE S == {n \in 0 .. NCommits : Describes(f[n], g, {}, {"replace"})}
<1>2. NCommits \in Nat
  BY RefsAre
<1>3. 0 \in S
  <2>1. Describes(<<>>, g, {}, {"replace"})
    BY NothingDescribed
  <2>2. QED
    BY <1>1, <1>2, <2>1 DEF ReplaceCourse
<1>4. ASSUME NEW n \in 1 .. NCommits, n - 1 \in S PROVE n \in S
  <2>1. Describes(f[n - 1], g, {}, {"replace"})
    BY <1>4
  <2>2. f[n] = ReplaceStep(g, f[n - 1], n)
    BY <1>1 DEF ReplaceCourse
  <2>3. QED
    BY <1>2, <2>1, <2>2, ReplaceStepDescribes
<1> HIDE DEF S
<1>5. NCommits \in S
  <2>1. \A n \in 0 .. NCommits : n \in S
    BY <1>2, <1>3, <1>4, EveryRound
  <2>2. QED
    BY <1>2, <2>1
<1>6. QED
  BY <1>1, <1>5 DEF S

\* After a tag come only tags.
TagsLast(s) == \A i, j \in DOMAIN s : i < j /\ s[i].kind = "tags" => s[j].kind = "tags"

LEMMA TagsStayLast ==
  ASSUME NEW g, NEW a, NEW b, NEW rs, NEW qs, NEW kinds, "tags" \notin kinds,
         Describes(a, g, rs, kinds), Describes(b, g, qs, {"tags"})
  PROVE  TagsLast(a \o b)
<1>1. PICK T : T = GitLines(g)
  OBVIOUS
<1>2. a \in Seq(T) /\ b \in Seq(T)
  BY <1>1 DEF Describes
<1>3. PICK n, m : n = Len(a) /\ m = Len(b)
  OBVIOUS
<1>4. n \in Nat /\ m \in Nat /\ DOMAIN a = 1 .. n /\ DOMAIN b = 1 .. m
  BY <1>2, <1>3
<1>5. PICK c : c = a \o b
  OBVIOUS
<1>6. DOMAIN c = 1 .. n + m
  BY <1>2, <1>3, <1>5
<1>7. ASSUME NEW i \in DOMAIN c, i <= n PROVE c[i].kind # "tags"
  <2>1. i \in DOMAIN a /\ c[i] = a[i]
    BY <1>2, <1>3, <1>4, <1>5, <1>6, <1>7
  <2>2. QED
    BY <2>1 DEF Describes
<1>8. ASSUME NEW i \in DOMAIN c, i > n PROVE c[i].kind = "tags"
  <2>1. i - n \in DOMAIN b
    BY <1>4, <1>6, <1>8
  <2>2. c[i] = b[i - n]
    BY <1>2, <1>3, <1>5, <1>6, <1>8
  <2>3. QED
    BY <2>1, <2>2 DEF Describes
<1>9. ASSUME NEW i \in DOMAIN c, NEW j \in DOMAIN c, i < j, c[i].kind = "tags" PROVE c[j].kind = "tags"
  <2>1. i > n
    BY <1>4, <1>6, <1>7, <1>9
  <2>2. j > n
    BY <1>4, <1>6, <1>9, <2>1
  <2>3. QED
    BY <1>8, <2>2
<1>10. QED
  BY <1>5, <1>9 DEF TagsLast

Named == {Detached} \cup (Kinds \X (1 .. NNames))
LineKinds == Kinds \cup {"HEAD", "replace"}

\* Git lists what there is, the tags last.
LEMMA LinesDescribe ==
  ASSUME NEW g \in Repositories
  PROVE  Describes(Lines(g), g, Named, LineKinds) /\ TagsLast(Lines(g))
<1>1. PICK h : h = IF HeadId(g) = NoId THEN <<>> ELSE <<Line("HEAD", 0, HeadId(g), FALSE)>>
  OBVIOUS
<1>2. Describes(h, g, {Detached}, {"HEAD"})
  <2>1. CASE HeadId(g) = NoId
    <3>1. Detached \notin Refs
      BY RefsAre DEF Detached, Kinds
    <3>2. ~Exists(g, Detached)
      BY <2>1, <3>1 DEF Exists
    <3>3. QED
      BY <1>1, <2>1, <3>2, NothingDescribed
  <2>2. CASE HeadId(g) # NoId
    <3>1. PICK l : l = Line("HEAD", 0, HeadId(g), FALSE)
      OBVIOUS
    <3>2. l = [kind |-> "HEAD", name |-> 0, id |-> HeadId(g), peeled |-> FALSE]
      BY <3>1 DEF Line
    <3>3. l \in AllLines /\ l.kind = "HEAD" /\ l.id = HeadId(g)
      BY <3>2, HeadIdIs DEF AllLines
    <3>4. Ref(l) = Detached
      BY <3>2 DEF Ref, Detached
    <3>5. Exists(g, Detached)
      BY <2>2 DEF Exists
    <3>6. l \in GitLines(g)
      BY <2>2, <3>3, <3>4, <3>5 DEF GitLines
    <3>7. Describes(<<l>>, g, {Detached}, {l.kind})
      BY <3>3, <3>4, <3>6, OneDescribed DEF Kinds
    <3>8. QED
      BY <1>1, <2>2, <3>1, <3>3, <3>7
  <2>3. QED
    BY <2>1, <2>2
<1>3. PICK a, b, t : a = ListedAll(g, "heads") /\ b = ListedAll(g, "remotes") /\ t = ListedAll(g, "tags")
  OBVIOUS
<1>4. PICK ra, rb, rt : /\ ra = {"heads"} \X (1 .. NNames) /\ rb = {"remotes"} \X (1 .. NNames)
                        /\ rt = {"tags"} \X (1 .. NNames)
  OBVIOUS
<1>5. "heads" \in Kinds /\ "remotes" \in Kinds /\ "tags" \in Kinds
  BY DEF Kinds
<1>6. Describes(a, g, ra, {"heads"}) /\ Describes(b, g, rb, {"remotes"}) /\ Describes(t, g, rt, {"tags"})
  BY <1>3, <1>4, <1>5, ListedAllDescribes
<1>7. PICK r : r = ReplaceLines(g)
  OBVIOUS
<1>8. Describes(r, g, {}, {"replace"})
  BY <1>7, ReplaceLinesDescribe
<1>9. Describes(h \o a, g, {Detached} \cup ra, {"HEAD"} \cup {"heads"})
  BY <1>2, <1>6, Joined
<1>10. Describes((h \o a) \o b, g, ({Detached} \cup ra) \cup rb, ({"HEAD"} \cup {"heads"}) \cup {"remotes"})
  BY <1>6, <1>9, Joined
<1>11. PICK p, q, k : /\ p = ((h \o a) \o b) \o r /\ q = (({Detached} \cup ra) \cup rb) \cup {}
                      /\ k = (({"HEAD"} \cup {"heads"}) \cup {"remotes"}) \cup {"replace"}
  OBVIOUS
<1>12. Describes(p, g, q, k)
  BY <1>8, <1>10, <1>11, Joined
<1>13. "tags" \notin k /\ k \cup {"tags"} = LineKinds /\ q \cup rt = Named
  <2>1. "tags" \notin k /\ k \cup {"tags"} = LineKinds
    BY <1>11 DEF LineKinds, Kinds
  <2>2. Kinds \X (1 .. NNames) = (ra \cup rb) \cup rt
    BY <1>4 DEF Kinds
  <2>3. QED
    BY <1>11, <2>1, <2>2 DEF Named
<1>14. Describes(p \o t, g, q \cup rt, k \cup {"tags"}) /\ TagsLast(p \o t)
  BY <1>6, <1>12, <1>13, Joined, TagsStayLast
<1>15. Lines(g) = p \o t
  BY <1>1, <1>3, <1>7, <1>11 DEF Lines
<1>16. QED
  BY <1>13, <1>14, <1>15

-------------------------------------------------------------------------------
(* Adding a line.                                                          *)

LEMMA KeyTyped ==
  ASSUME NEW t, NEW line \in AllLines
  PROVE  KeyOf(t, line) \in Keys
<1>1. line.name \in Nat
  BY DEF AllLines
<1>2. <<"", line.name>> \in Keys /\ <<"refs/tags/", line.name>> \in Keys /\ Detached \in Keys
  BY <1>1 DEF Keys, Detached
<1>3. QED
  BY <1>2 DEF KeyOf

LEMMA TypeTyped ==
  ASSUME NEW line \in AllLines, line.kind # "replace", NEW current
  PROVE  /\ TypeOf(line, current) \in {"head", "branch", "remote", "tag", "localTag"}
         /\ TypeOf(line, current) \in Types
         /\ line.kind \in Kinds => KindOf(TypeOf(line, current)) = line.kind
         /\ IsTag([type |-> TypeOf(line, current)]) <=> line.kind = "tags"
         /\ TypeOf(line, current) = "head" <=> line.kind = "HEAD" \/ (line.kind = "heads" /\ line.name = current)
<1>1. line.kind \in {"heads", "remotes", "tags", "HEAD"}
  BY DEF AllLines, Kinds
<1>2. PICK type : type = TypeOf(line, current)
  OBVIOUS
<1>3. /\ line.kind = "HEAD" => type = "head"
      /\ line.kind = "heads" /\ line.name = current => type = "head"
      /\ line.kind = "heads" /\ line.name # current => type = "branch"
      /\ line.kind = "remotes" => type = "remote"
      /\ line.kind = "tags" => type \in {"tag", "localTag"}
  BY <1>1, <1>2 DEF TypeOf
<1>4. type \in {"head", "branch", "remote", "tag", "localTag"}
  BY <1>1, <1>3
<1>5. line.kind \in Kinds => KindOf(type) = line.kind
  BY <1>3 DEF KindOf, Kinds
<1>6. IsTag([type |-> type]) <=> line.kind = "tags"
  BY <1>1, <1>3 DEF IsTag
<1>7. type = "head" <=> line.kind = "HEAD" \/ (line.kind = "heads" /\ line.name = current)
  BY <1>1, <1>3
<1>8. QED
  BY <1>2, <1>4, <1>5, <1>6, <1>7, RankIs

\* u is t with the line.
AddedAs(u, t, line) ==
  /\ line.kind = "HEAD" /\ t.current # NoName => u = t
  /\ line.kind = "replace" => u.head = t.head /\ u.current = t.current /\ t.changed \subseteq u.changed
  /\ line.kind # "replace" /\ ~(line.kind = "HEAD" /\ t.current # NoName)
       => StoredAs(u, t, KeyOf(t, line), line.id, TypeOf(line, t.current))

LEMMA AddedIs ==
  ASSUME NEW t \in Tables, NEW line \in AllLines, line.kind = "replace" => line.name \in 1 .. NCommits,
         NEW u, u = Added(t, line)
  PROVE  u \in Tables /\ AddedAs(u, t, line)
<1>1. CASE line.kind = "HEAD" /\ t.current # NoName
  BY <1>1 DEF Added, AddedAs
<1>2. CASE line.kind = "replace"
  <2>1. PICK c \in 1 .. NCommits : c = line.name
    BY <1>2
  <2>2. PICK k : k = IF ListOf(t, c) = <<>> THEN <<"replaced", c>> ELSE t.list[c][1]
    OBVIOUS
  <2>3. c \in Nat /\ c \in Ids
    BY RefsAre DEF Ids
  <2>4. k \in Keys
    <3>1. CASE ListOf(t, c) = <<>>
      BY <2>2, <2>3, <3>1 DEF Keys
    <3>2. CASE ListOf(t, c) # <<>>
      <4>1. PICK l : l = ListOf(t, c)
        OBVIOUS
      <4>2. l \in Seq(Keys) /\ l # <<>> /\ l = t.list[c]
        BY <3>2, <4>1, ListOfTyped DEF ListOf
      <4>3. l[1] \in Keys
        BY <4>2
      <4>4. QED
        BY <2>2, <3>2, <4>2, <4>3
    <3>3. QED
      BY <3>1, <3>2
  <2>5. PICK m : m = [t EXCEPT !.list = Without(@, c)]
    OBVIOUS
  <2>6. m \in Tables /\ m.head = t.head /\ m.current = t.current /\ m.changed = t.changed
    <3>1. PICK none : none = <<>>
      OBVIOUS
    <3>2. none \in Seq(Keys)
      BY <3>1
    <3>3. m = WithList(t, c, none)
      BY <2>5, <3>1 DEF WithList
    <3>4. /\ m \in Tables
          /\ m.ref = t.ref /\ m.head = t.head /\ m.current = t.current /\ m.changed = t.changed
          /\ Listing(m, t, c, none)
      BY <2>3, <3>2, <3>3, WithListIs
    <3>5. QED
      BY <3>4
  <2>7. u = Stored(m, k, c, "replace")
    BY <1>2, <2>1, <2>2, <2>5 DEF Added, Replaced
  <2>8. PICK type : type = "replace" /\ type \in Types
    BY RankIs
  <2>9. u \in Tables /\ StoredAs(u, m, k, c, type)
    BY <2>3, <2>4, <2>6, <2>7, <2>8, StoredIs
  <2>10. u.head = t.head /\ u.current = t.current /\ t.changed \subseteq u.changed
    BY <2>6, <2>8, <2>9 DEF StoredAs
  <2>11. QED
    BY <1>2, <2>9, <2>10 DEF AddedAs
<1>3. CASE line.kind # "replace" /\ ~(line.kind = "HEAD" /\ t.current # NoName)
  <2>1. PICK k, id, type : k = KeyOf(t, line) /\ id = line.id /\ type = TypeOf(line, t.current)
    OBVIOUS
  <2>2. k \in Keys /\ type \in Types
    BY <1>3, <2>1, KeyTyped, TypeTyped
  <2>3. id \in Ids
    BY <2>1 DEF AllLines
  <2>4. u = Stored(t, k, id, type)
    BY <1>3, <2>1 DEF Added
  <2>5. u \in Tables /\ StoredAs(u, t, k, id, type)
    BY <2>2, <2>3, <2>4, StoredIs
  <2>6. QED
    BY <1>3, <2>1, <2>5 DEF AddedAs
<1>4. QED
  BY <1>1, <1>2, <1>3

\* A table when git show-ref has been run, and before its first line.
CurrentOf(g) == IF g.head # NoName /\ HeadId(g) # NoId THEN g.head ELSE NoName
Fresh(b, g) ==
  /\ Valid(b) = {}
  /\ \A x : ListOf(b, x) = <<>>
  /\ b.head = NoKey
  /\ b.current = CurrentOf(g)

\* The branch that is checked out is stored as the head; nothing else is.
LEMMA HeadLoadedIs ==
  ASSUME NEW t \in Tables, NEW g \in Repositories, NEW u, u = HeadLoaded(t, g)
  PROVE  /\ u \in Tables /\ u.current = CurrentOf(g)
         /\ ListsRight(t) => ListsRight(u)
         /\ CurrentOf(g) # NoName =>
              /\ HeadId(g) # NoId /\ u.head # NoKey
              /\ u.head \in Valid(u) /\ u.ref[u.head].id = HeadId(g)
<1>1. HeadId(g) \in Ids /\ g.head \in Nat
  BY HeadIdIs
<1>2. PICK now : now = [t EXCEPT !.current = CurrentOf(g)]
  OBVIOUS
<1>3. now \in Tables /\ now.current = CurrentOf(g)
  BY <1>1, <1>2 DEF Tables, CurrentOf, NoName
<1>4. ASSUME ListsRight(t) PROVE ListsRight(now)
  <2>1. now.list = t.list /\ now.ref = t.ref
    BY <1>2 DEF Tables
  <2>2. ASSUME NEW id \in 1 .. 2 * NCommits PROVE ListIs(now, ListOf(now, id), {k \in Valid(now) : now.ref[k].id = id})
    <3>1. PICK ks : ks = {k \in Valid(t) : t.ref[k].id = id}
      OBVIOUS
    <3>2. ListIs(t, ListOf(t, id), ks)
      BY <1>4, <3>1 DEF ListsRight
    <3>3. ListOf(now, id) = ListOf(t, id) /\ Valid(now) = Valid(t)
      BY <2>1 DEF ListOf, Valid
    <3>4. ListIs(now, ListOf(t, id), ks)
      BY <2>1, <3>2, ListStays
    <3>5. {k \in Valid(now) : now.ref[k].id = id} = ks
      BY <2>1, <3>1, <3>3
    <3>6. QED
      BY <3>3, <3>4, <3>5
  <2>3. QED
    BY <2>2 DEF ListsRight
<1>5. CASE g.head # NoName /\ HeadId(g) # NoId
  <2>1. PICK l : l = Line("heads", g.head, HeadId(g), FALSE)
    OBVIOUS
  <2>2. l \in AllLines /\ l.kind = "heads" /\ l.name = g.head /\ l.id = HeadId(g)
    BY <1>1, <2>1 DEF Line, AllLines, Kinds
  <2>3. PICK v : v = Added(now, l)
    OBVIOUS
  <2>4. PICK k, id, type : /\ k = KeyOf(now, l) /\ id = l.id /\ type = TypeOf(l, now.current)
    OBVIOUS
  <2>5. k[2] = g.head /\ k \in Keys /\ type = "head" /\ type \in Types /\ id = HeadId(g) /\ id \in Ids
    <3>1. k[2] = g.head
      BY <2>2, <2>4 DEF KeyOf
    <3>2. k \in Keys
      BY <2>2, <2>4, KeyTyped
    <3>3. now.current = g.head
      BY <1>3, <1>5 DEF CurrentOf
    <3>4. type = "head"
      BY <2>2, <2>4, <3>3 DEF TypeOf
    <3>5. QED
      BY <1>1, <2>2, <2>4, <3>1, <3>2, <3>4, RankIs
  <2>6. v = Stored(now, k, id, type)
    <3>1. l.kind # "HEAD" /\ l.kind # "replace"
      BY <2>2
    <3>2. Added(now, l) = Stored(now, KeyOf(now, l), l.id, TypeOf(l, now.current))
      BY <3>1 DEF Added
    <3>3. QED
      BY <2>3, <2>4, <3>2
  <2>7. v \in Tables /\ StoredAs(v, now, k, id, type)
    BY <1>3, <2>5, <2>6, StoredIs
  <2>8. v.current = CurrentOf(g) /\ v.head = k /\ k \in DOMAIN v.ref /\ v.ref[k].valid /\ v.ref[k].id = HeadId(g)
    BY <1>3, <2>5, <2>7 DEF StoredAs, Entry
  <2>9. u = [v EXCEPT !.changed = t.changed]
    BY <1>2, <1>5, <2>1, <2>3 DEF HeadLoaded, CurrentOf
  <2>10. u \in Tables /\ u.current = CurrentOf(g) /\ u.head = k /\ u.ref = v.ref /\ u.list = v.list
    BY <2>7, <2>8, <2>9 DEF Tables
  <2>11. k # NoKey
    <3>1. NoKey[2] = 0
      BY DEF NoKey
    <3>2. QED
      BY <1>5, <2>5, <3>1 DEF NoName
  <2>12. k \in Valid(u)
    BY <2>8, <2>10 DEF Valid
  <2>13. ASSUME ListsRight(t) PROVE ListsRight(u)
    <3>1. ListsRight(v)
      BY <1>3, <1>4, <1>5, <2>5, <2>6, <2>13, StoredRight
    <3>2. ASSUME NEW x \in 1 .. 2 * NCommits PROVE ListIs(u, ListOf(u, x), {j \in Valid(u) : u.ref[j].id = x})
      <4>1. PICK ks : ks = {j \in Valid(v) : v.ref[j].id = x}
        OBVIOUS
      <4>2. ListIs(v, ListOf(v, x), ks)
        BY <3>1, <4>1 DEF ListsRight
      <4>3. ListOf(u, x) = ListOf(v, x) /\ Valid(u) = Valid(v)
        BY <2>10 DEF ListOf, Valid
      <4>4. ListIs(u, ListOf(v, x), ks)
        BY <2>10, <4>2, ListStays
      <4>5. {j \in Valid(u) : u.ref[j].id = x} = ks
        BY <2>10, <4>1, <4>3
      <4>6. QED
        BY <4>3, <4>4, <4>5
    <3>3. QED
      BY <3>2 DEF ListsRight
  <2>14. QED
    BY <1>5, <2>8, <2>10, <2>11, <2>12, <2>13
<1>6. CASE ~(g.head # NoName /\ HeadId(g) # NoId)
  <2>1. u = now /\ CurrentOf(g) = NoName
    BY <1>2, <1>6 DEF HeadLoaded, CurrentOf
  <2>2. QED
    BY <1>3, <1>4, <2>1
<1>7. QED
  BY <1>5, <1>6

LEMMA InvalidatedIs ==
  ASSUME NEW t \in Tables, NEW u, u = Invalidated(t)
  PROVE  /\ u \in Tables /\ Valid(u) = {} /\ u.head = NoKey /\ u.current = t.current /\ u.changed = t.changed
         /\ \A x : ListOf(u, x) = <<>>
<1>1. PICK list : list = [c \in {} |-> <<>>]
  OBVIOUS
<1>2. PICK ks : ks = {l \in DOMAIN t.ref : l[1] # "replaced"}
  OBVIOUS
<1>3. PICK ref : ref = [k \in ks |-> [t.ref[k] EXCEPT !.valid = FALSE]]
  OBVIOUS
<1>4. u = [t EXCEPT !.head = NoKey, !.list = list, !.ref = ref]
  BY <1>1, <1>2, <1>3 DEF Invalidated
<1>5. list \in Lists /\ DOMAIN list = {}
  <2>1. list \in [{} -> Seq(Keys)] /\ DOMAIN list = {}
    BY <1>1
  <2>2. QED
    BY <2>1 DEF Lists
<1>6. ref \in Entered /\ \A k \in DOMAIN ref : ~ref[k].valid
  <2>1. \A k \in ks : t.ref[k] \in Entries
    BY <1>2, TableIs
  <2>2. \A k \in ks : [t.ref[k] EXCEPT !.valid = FALSE] \in Entries /\ ~[t.ref[k] EXCEPT !.valid = FALSE].valid
    BY <2>1 DEF Entries
  <2>3. ks \subseteq Keys
    BY <1>2, TableIs
  <2>4. ref \in [ks -> Entries]
    BY <1>3, <2>2
  <2>5. QED
    BY <1>3, <2>2, <2>3, <2>4 DEF Entered
<1>7. NoKey \in Keys
  BY DEF NoKey, Keys
<1>8. /\ u \in Tables /\ u.head = NoKey /\ u.current = t.current /\ u.changed = t.changed
      /\ u.ref = ref /\ u.list = list
  BY <1>4, <1>5, <1>6, <1>7 DEF Tables
<1>9. Valid(u) = {}
  BY <1>6, <1>8 DEF Valid
<1>10. \A x : ListOf(u, x) = <<>>
  BY <1>5, <1>8 DEF ListOf
<1>11. QED
  BY <1>8, <1>9, <1>10

LEMMA BegunIs ==
  ASSUME NEW t \in Tables, NEW g \in Repositories, NEW b, b = Begun(t, g)
  PROVE  b \in Tables /\ Fresh(b, g)
<1>1. PICK s : s = [t EXCEPT !.changed = {}]
  OBVIOUS
<1>2. s \in Tables
  BY <1>1 DEF Tables
<1>3. PICK loaded : loaded = HeadLoaded(s, g)
  OBVIOUS
<1>4. loaded \in Tables /\ loaded.current = CurrentOf(g)
  BY <1>2, <1>3, HeadLoadedIs
<1>5. PICK m : m = [loaded EXCEPT !.changed = IF loaded.current # t.current THEN {"head"} ELSE {}]
  OBVIOUS
<1>6. m \in Tables /\ m.current = CurrentOf(g)
  BY <1>4, <1>5 DEF Tables
<1>7. b = Invalidated(m)
  BY Zenon, <1>1, <1>3, <1>5 DEF Begun
<1>8. QED
  BY <1>6, <1>7, InvalidatedIs DEF Fresh

-------------------------------------------------------------------------------
(* The lines one by one.                                                   *)

LEMMA GitLineIs ==
  ASSUME NEW g \in Repositories, NEW line \in GitLines(g)
  PROVE  /\ line \in AllLines
         /\ line.kind = "replace" => line.name \in 1 .. NCommits /\ line.name \in g.replaced
         /\ line.kind = "HEAD" => line.name = 0 /\ line.id = HeadId(g) /\ HeadId(g) # NoId
         /\ line.kind \in Kinds => /\ Ref(line) \in Refs /\ g.refs[Ref(line)] # NoId
                                   /\ line.id # NoId /\ line.name # 0
<1>1. line \in AllLines
  BY DEF GitLines
<1>2. ASSUME line.kind = "replace" PROVE line.name \in 1 .. NCommits /\ line.name \in g.replaced
  <2>1. g.replaced \subseteq 1 .. NCommits
    BY RefsAssumption DEF Repositories
  <2>2. QED
    BY <1>2, <2>1 DEF GitLines
<1>3. ASSUME line.kind = "HEAD" PROVE line.name = 0 /\ line.id = HeadId(g) /\ HeadId(g) # NoId
  <2>1. Ref(line) \notin Refs
    BY <1>3, RefsAre DEF Ref, Kinds
  <2>2. Ref(line) = Detached /\ HeadId(g) # NoId /\ line.id = HeadId(g)
    BY <1>3, <2>1 DEF GitLines, Exists
  <2>3. QED
    BY <1>3, <2>2 DEF Ref, Detached
<1>4. ASSUME line.kind \in Kinds
      PROVE  Ref(line) \in Refs /\ g.refs[Ref(line)] # NoId /\ line.id # NoId /\ line.name # 0
  <2>1. line.kind # "HEAD" /\ line.kind # "replace"
    BY <1>4 DEF Kinds
  <2>2. Ref(line) # Detached
    BY <2>1 DEF Ref, Detached
  <2>3. line.id # NoId /\ Ref(line) \in Refs /\ g.refs[Ref(line)] # NoId
    BY <2>1, <2>2 DEF GitLines, Exists
  <2>4. Ref(line)[2] # 0
    BY <2>3, RefsAre
  <2>5. QED
    BY <2>3, <2>4 DEF Ref
<1>5. QED
  BY <1>1, <1>2, <1>3, <1>4

\* The tables after each line.
RefCourse(after, t, g) ==
  /\ after[0] = Begun(t, g)
  /\ \A n \in 0 .. Len(Lines(g)) : after[n] \in Tables
  /\ \A n \in 1 .. Len(Lines(g)) : after[n] = Added(after[n - 1], Lines(g)[n])
HasRefCourse(t, g) == \E after : RefCourse(after, t, g) /\ Reloaded(t, g) = CleanedUp(after[Len(Lines(g))])

LEMMA LinesTyped ==
  ASSUME NEW g \in Repositories
  PROVE  /\ Len(Lines(g)) \in Nat /\ Lines(g) \in Seq(GitLines(g)) /\ DOMAIN Lines(g) = 1 .. Len(Lines(g))
         /\ \A n \in 1 .. Len(Lines(g)) : Lines(g)[n] \in GitLines(g)
<1>1. PICK s : s = Lines(g)
  OBVIOUS
<1>2. s \in Seq(GitLines(g))
  BY <1>1, LinesDescribe DEF Describes
<1>3. QED
  BY <1>1, <1>2

LEMMA CourseOfReloaded ==
  ASSUME NEW t \in Tables, NEW g \in Repositories
  PROVE  HasRefCourse(t, g)
<1>1. PICK L : L = Lines(g)
  OBVIOUS
<1>2. PICK m \in Nat : m = Len(L)
  BY <1>1, LinesTyped
<1> DEFINE Run(f) == f = [n \in 0 .. Len(L) |-> IF n = 0 THEN Begun(t, g) ELSE Added(f[n - 1], L[n])]
           chosen == CHOOSE after : Run(after)
           step == [x \in Tables \X (1 .. m) |-> Added(x[1], L[x[2]])]
<1>3. Reloaded(t, g) = CleanedUp(chosen[Len(L)])
  BY Zenon, <1>1 DEF Reloaded
<1>4. ASSUME NEW s \in Tables, NEW n \in 1 .. m PROVE Added(s, L[n]) \in Tables
  <2>1. L[n] \in GitLines(g)
    BY <1>1, <1>2, LinesTyped
  <2>2. L[n] \in AllLines /\ (L[n].kind = "replace" => L[n].name \in 1 .. NCommits)
    BY <2>1, GitLineIs
  <2>3. QED
    BY <2>2, AddedIs
<1>5. step \in [Tables \X (1 .. m) -> Tables]
  BY <1>4
<1>6. \A s \in Tables, n \in 1 .. m : step[<<s, n>>] = Added(s, L[n])
  OBVIOUS
<1> HIDE DEF step
<1>7. PICK b : b = Begun(t, g) /\ b \in Tables
  BY BegunIs
<1>8. PICK f \in [0 .. m -> Tables] : f[0] = b /\ \A i \in 1 .. m : f[i] = step[<<f[i - 1], i>>]
  <2>1. HasRounds(m, Tables, b, step)
    BY <1>5, <1>7, RoundsExist
  <2>2. QED
    BY <2>1 DEF HasRounds, Rounds
<1>9. \A i \in 1 .. m : f[i] = Added(f[i - 1], L[i])
  <2>1. ASSUME NEW i \in 1 .. m PROVE f[i - 1] \in Tables
    <3>1. i - 1 \in 0 .. m
      OBVIOUS
    <3>2. QED
      BY <1>8, <3>1
  <2>2. QED
    BY <1>6, <1>8, <2>1
<1>10. Run(f)
  <2>1. \A i \in 0 .. m : f[i] = IF i = 0 THEN Begun(t, g) ELSE Added(f[i - 1], L[i])
    <3>1. ASSUME NEW i \in 0 .. m, i # 0 PROVE i \in 1 .. m
      BY <3>1
    <3>2. QED
      BY <1>7, <1>8, <1>9, <3>1
  <2>2. QED
    BY <1>2, <1>8, <2>1
<1>11. Run(chosen)
  <2> HIDE DEF Run
  <2>1. QED
    BY <1>10
<1> HIDE DEF chosen
<1>12. chosen[0] = Begun(t, g) /\ \A i \in 1 .. m : chosen[i] = Added(chosen[i - 1], L[i])
  <2>1. \A i \in 0 .. m : chosen[i] = IF i = 0 THEN Begun(t, g) ELSE Added(chosen[i - 1], L[i])
    BY <1>2, <1>11
  <2>2. 0 \in 0 .. m /\ \A i \in 1 .. m : i \in 0 .. m /\ i # 0
    OBVIOUS
  <2>3. QED
    BY <2>1, <2>2
<1>13. \A i \in 0 .. m : chosen[i] \in Tables
  <2> DEFINE S == {i \in 0 .. m : chosen[i] \in Tables}
  <2>1. 0 \in S
    BY <1>7, <1>12
  <2>2. ASSUME NEW i \in 1 .. m, i - 1 \in S PROVE i \in S
    BY <1>4, <1>12, <2>2
  <2> HIDE DEF S
  <2>3. \A i \in 0 .. m : i \in S
    BY <2>1, <2>2, EveryRound
  <2>4. QED
    BY <2>3 DEF S
<1>14. QED
  BY <1>1, <1>2, <1>3, <1>12, <1>13 DEF HasRefCourse, RefCourse

-------------------------------------------------------------------------------
(* After n of the lines L, the table has their refs.                       *)

\* The entry of k stands for line i, the last one so far of its ref.
Stands(t, L, n, k, i) ==
  /\ L[i].kind \in Kinds
  /\ k[2] = L[i].name
  /\ t.ref[k].type = TypeOf(L[i], t.current)
  /\ t.ref[k].id = L[i].id
  /\ \A j \in i + 1 .. n : Ref(L[j]) # Ref(L[i])
  /\ k[1] = "" \/ (k[1] = "refs/tags/" /\ L[i].kind = "tags")

IsHead(t, g, k) ==
  /\ k = Detached /\ t.current = NoName
  /\ t.ref[k].type = "head" /\ t.ref[k].id = HeadId(g) /\ HeadId(g) # NoId

OfRef(t, k, line) == k # Detached /\ k[2] = line.name /\ KindOf(t.ref[k].type) = line.kind

NoStranger(t, g, L, n) == \A k \in Valid(t) : IsHead(t, g, k) \/ (k # Detached /\ \E i \in 1 .. n : Stands(t, L, n, k, i))
NoneMissing(t, L, n) ==
  \A i \in 1 .. n : /\ L[i].kind \in Kinds => \E k \in Valid(t) : OfRef(t, k, L[i])
                    /\ L[i].kind = "HEAD" /\ t.current = NoName => Detached \in Valid(t)
\* A tag keeps its prefix as long as there is a branch of its name.
NotBoth(t) ==
  \A k \in Valid(t) : k[1] = "refs/tags/" =>
    <<"", k[2]>> \in DOMAIN t.ref /\ ~IsTag(t.ref[<<"", k[2]>>])
OneHead(t) ==
  /\ \A k \in Valid(t) : t.ref[k].type = "head" => t.head = k
  /\ t.head # NoKey => t.head \in Valid(t) /\ t.ref[t.head].type = "head"

Track(t, g, L, n) ==
  /\ t \in Tables /\ t.current = CurrentOf(g)
  /\ ListsRight(t)
  /\ NoStranger(t, g, L, n)
  /\ NoneMissing(t, L, n)
  /\ NotBoth(t)
  /\ OneHead(t)

LEMMA FreshTracks ==
  ASSUME NEW b \in Tables, NEW g, Fresh(b, g), NEW L
  PROVE  Track(b, g, L, 0)
<1>1. \A i \in 1 .. 0 : FALSE
  OBVIOUS
<1>2. Valid(b) = {} /\ b.head = NoKey /\ b.current = CurrentOf(g) /\ \A x : ListOf(b, x) = <<>>
  BY DEF Fresh
<1>3. ListsRight(b)
  <2>1. <<>> \in Seq(Keys) /\ DOMAIN <<>> = {}
    OBVIOUS
  <2>2. ListIs(b, <<>>, {})
    BY <2>1 DEF ListIs, Range
  <2>3. \A x : {k \in Valid(b) : b.ref[k].id = x} = {}
    BY <1>2
  <2>4. QED
    BY <1>2, <2>2, <2>3 DEF ListsRight
<1>4. NoStranger(b, g, L, 0) /\ NotBoth(b)
  BY <1>2 DEF NoStranger, NotBoth
<1>5. NoneMissing(b, L, 0)
  BY <1>1 DEF NoneMissing
<1>6. OneHead(b)
  BY <1>2 DEF OneHead
<1>7. QED
  BY <1>2, <1>3, <1>4, <1>5, <1>6 DEF Track

\* What a round works on.
Round(t, g, L, n) ==
  /\ L = Lines(g) /\ Clear(g)
  /\ n \in 1 .. Len(L)
  /\ Track(t, g, L, n - 1)

LEMMA RoundIs ==
  ASSUME NEW g \in Repositories, NEW L, NEW t, NEW n, Round(t, g, L, n)
  PROVE  /\ n \in Nat /\ n - 1 \in Nat /\ n \in 1 .. n /\ n - 1 \in 0 .. n
         /\ \A i \in 1 .. n : i \in DOMAIN L /\ L[i] \in GitLines(g) /\ L[i] \in AllLines /\ L[i].kind # "replace"
         /\ \A i \in 1 .. n - 1 : L[i].kind = "tags" => L[n].kind = "tags"
         /\ \A i \in 1 .. n - 1 : i \in 1 .. n /\ i < n
<1>1. L = Lines(g) /\ n \in 1 .. Len(L) /\ g.replaced = {}
  BY DEF Round, Clear
<1>2. Len(L) \in Nat /\ DOMAIN L = 1 .. Len(L)
  BY <1>1, LinesTyped
<1>3. n \in Nat /\ n - 1 \in Nat /\ n \in 1 .. n /\ n - 1 \in 0 .. n /\ n \in DOMAIN L
  BY <1>1, <1>2
<1>4. ASSUME NEW i \in 1 .. n PROVE i \in DOMAIN L /\ L[i] \in GitLines(g) /\ L[i] \in AllLines /\ L[i].kind # "replace"
  <2>1. i \in DOMAIN L
    BY <1>1, <1>2
  <2>2. L[i] \in GitLines(g)
    BY <1>1, <1>2, <2>1, LinesTyped
  <2>3. L[i] \in AllLines /\ L[i].kind # "replace"
    BY <1>1, <2>2, GitLineIs
  <2>4. QED
    BY <2>1, <2>2, <2>3
<1>5. \A i \in 1 .. n - 1 : i \in 1 .. n /\ i < n
  BY <1>3
<1>6. TagsLast(L)
  BY <1>1, LinesDescribe
<1>7. ASSUME NEW i \in 1 .. n - 1, L[i].kind = "tags" PROVE L[n].kind = "tags"
  BY <1>3, <1>4, <1>5, <1>6, <1>7 DEF TagsLast
<1>8. QED
  BY <1>3, <1>4, <1>5, <1>7

LEMMA KindOfTag ==
  ASSUME NEW e \in Entries
  PROVE  KindOf(e.type) = "tags" <=> IsTag(e)
BY RankIs DEF KindOf, IsTag, Entries

\* A line has one key: the valid entry of its ref, if there is one, has it,
\* and no valid entry of another ref does.
LEMMA OneKey ==
  ASSUME NEW g \in Repositories, NEW L, NEW t, NEW n, Round(t, g, L, n), L[n].kind \in Kinds,
         NEW k \in Valid(t), k # Detached, k[2] = L[n].name
  PROVE  KindOf(t.ref[k].type) = L[n].kind <=> k = KeyOf(t, L[n])
<1>1. PICK line : line = L[n]
  OBVIOUS
<1>2. t \in Tables /\ NoStranger(t, g, L, n - 1) /\ NotBoth(t) /\ Clear(g)
  BY DEF Round, Track
<1>3. k \in DOMAIN t.ref /\ k \in Keys /\ t.ref[k] \in Entries
  BY <1>2, TableIs DEF Valid
<1>4. PICK i \in 1 .. n - 1 : Stands(t, L, n - 1, k, i)
  BY <1>2 DEF NoStranger, IsHead
<1>5. i \in 1 .. n /\ L[i] \in GitLines(g) /\ L[i] \in AllLines /\ L[i].kind # "replace" /\ (L[i].kind = "tags" => line.kind = "tags")
  BY <1>1, RoundIs
<1>6. line \in GitLines(g) /\ line \in AllLines
  BY <1>1, RoundIs
<1>7. KindOf(t.ref[k].type) = L[i].kind /\ L[i].kind \in Kinds
  BY <1>4, <1>5, TypeTyped DEF Stands
<1>8. KindOf(t.ref[k].type) = "tags" <=> IsTag(t.ref[k])
  BY <1>3, KindOfTag
<1>9. k = <<k[1], k[2]>> /\ (k[1] = "" \/ (k[1] = "refs/tags/" /\ L[i].kind = "tags"))
  <2>2. k = <<k[1], k[2]>>
    BY <1>3, KeyIs
  <2>3. k[1] = "" \/ (k[1] = "refs/tags/" /\ L[i].kind = "tags")
    BY <1>4 DEF Stands
  <2>4. QED
    BY <2>2, <2>3
<1>10. PICK short, long : short = <<"", line.name>> /\ long = <<"refs/tags/", line.name>>
  OBVIOUS
<1>11. k = short \/ (k = long /\ L[i].kind = "tags")
  BY <1>1, <1>9, <1>10
<1>12. line.kind # "HEAD" /\ line.kind \in {"heads", "remotes", "tags"}
  BY <1>1 DEF Kinds
<1>13. CASE line.kind = "tags"
  <2>1. KeyOf(t, line) = IF short \in DOMAIN t.ref /\ ~IsTag(t.ref[short]) THEN long ELSE short
    BY <1>10, <1>13 DEF KeyOf
  <2>2. short # long
    BY <1>10
  <2>3. CASE k = short
    <3>1. k = KeyOf(t, line) <=> IsTag(t.ref[k])
      BY <1>3, <2>1, <2>2, <2>3
    <3>2. QED
      BY <1>1, <1>8, <1>13, <3>1
  <2>4. CASE k = long
    <3>1. short \in DOMAIN t.ref /\ ~IsTag(t.ref[short])
      BY <1>1, <1>2, <1>10, <2>4 DEF NotBoth
    <3>2. k = KeyOf(t, line)
      BY <2>1, <2>4, <3>1
    <3>3. KindOf(t.ref[k].type) = "tags"
      BY <1>7, <1>9, <1>10, <2>2, <2>4
    <3>4. QED
      BY <1>1, <1>13, <3>2, <3>3
  <2>5. QED
    BY <1>11, <2>3, <2>4
<1>14. CASE line.kind # "tags"
  <2>1. KeyOf(t, line) = short
    BY <1>10, <1>12, <1>14 DEF KeyOf
  <2>2. k = short /\ L[i].kind # "tags"
    BY <1>5, <1>11, <1>14
  <2>3. Ref(line) \in Refs /\ g.refs[Ref(line)] # NoId /\ Ref(L[i]) \in Refs /\ g.refs[Ref(L[i])] # NoId
    BY <1>1, <1>5, <1>6, <1>7, GitLineIs
  <2>4. Ref(line) = <<line.kind, line.name>> /\ Ref(L[i]) = <<L[i].kind, line.name>>
    BY <1>1, <1>4 DEF Ref, Stands
  <2>5. L[i].kind \in {"heads", "remotes"} /\ line.kind \in {"heads", "remotes"}
    BY <1>7, <1>12, <1>14, <2>2 DEF Kinds
  <2>6. ~(<<"heads", line.name>> \in Refs /\ g.refs[<<"heads", line.name>>] # NoId
            /\ <<"remotes", line.name>> \in Refs /\ g.refs[<<"remotes", line.name>>] # NoId)
    <3>1. Shadowed(g) = {}
      BY <1>2 DEF Clear
    <3>2. PICK r : r = <<"heads", line.name>>
      OBVIOUS
    <3>3. r[1] = "heads" /\ r[2] = line.name /\ r \notin Shadowed(g)
      BY <3>1, <3>2
    <3>4. QED
      BY <3>2, <3>3 DEF Shadowed
  <2>7. L[i].kind = line.kind
    BY <2>3, <2>4, <2>5, <2>6
  <2>8. QED
    BY <1>1, <1>7, <2>1, <2>2, <2>7
<1>15. QED
  BY <1>13, <1>14

\* An entry that a line does not touch stands for the line it stood for.
LEMMA StandsOn ==
  ASSUME NEW t, NEW u, NEW L, NEW n \in Nat, NEW k, NEW i \in 1 .. n - 1, Stands(t, L, n - 1, k, i),
         u.current = t.current, u.ref[k] = t.ref[k], Ref(L[n]) # Ref(L[i])
  PROVE  i \in 1 .. n /\ Stands(u, L, n, k, i)
<1>1. i \in 1 .. n
  OBVIOUS
<1>2. ASSUME NEW j \in i + 1 .. n PROVE Ref(L[j]) # Ref(L[i])
  <2>1. CASE j = n
    BY <2>1
  <2>2. CASE j # n
    <3>1. j \in i + 1 .. n - 1
      BY <2>2
    <3>2. QED
      BY <3>1 DEF Stands
  <2>3. QED
    BY <2>1, <2>2
<1>3. QED
  BY <1>1, <1>2 DEF Stands

\* The line of HEAD when a branch is checked out changes nothing.
LEMMA TrackSkips ==
  ASSUME NEW g \in Repositories, NEW L, NEW t, NEW n, Round(t, g, L, n),
         L[n].kind = "HEAD", t.current # NoName
  PROVE  Track(t, g, L, n)
<1>1. Track(t, g, L, n - 1) /\ n \in Nat /\ n - 1 \in Nat
  BY RoundIs DEF Round
<1>2. L[n].kind \notin Kinds
  BY DEF Kinds
<1>3. ASSUME NEW k \in Valid(t) PROVE IsHead(t, g, k) \/ (k # Detached /\ \E i \in 1 .. n : Stands(t, L, n, k, i))
  <2>1. CASE IsHead(t, g, k)
    BY <2>1
  <2>2. CASE ~IsHead(t, g, k)
    <3>1. k # Detached
      BY <1>1, <2>2 DEF Track, NoStranger
    <3>2. PICK i \in 1 .. n - 1 : Stands(t, L, n - 1, k, i)
      BY <1>1, <2>2 DEF Track, NoStranger
    <3>3. Ref(L[n]) # Ref(L[i])
      BY <1>2, <3>2 DEF Ref, Stands
    <3>4. i \in 1 .. n /\ Stands(t, L, n, k, i)
      BY <1>1, <3>2, <3>3, StandsOn
    <3>5. QED
      BY <3>1, <3>4
  <2>3. QED
    BY <2>1, <2>2
<1>4. NoneMissing(t, L, n)
  <2>1. NoneMissing(t, L, n - 1)
    BY <1>1 DEF Track
  <2>2. \A i \in 1 .. n : i = n \/ i \in 1 .. n - 1
    BY <1>1
  <2>3. QED
    BY <1>2, <2>1, <2>2 DEF NoneMissing
<1>5. QED
  BY <1>1, <1>3, <1>4 DEF Track, NoStranger

\* A round that stores an entry.
Storing(u, t, g, L, n, k, type) ==
  /\ Round(t, g, L, n)
  /\ ~(L[n].kind = "HEAD" /\ t.current # NoName)
  /\ u = Added(t, L[n])
  /\ k = KeyOf(t, L[n]) /\ type = TypeOf(L[n], t.current)

\* What is so of a line, its key and its type, and of the entry it gets.
Taken(t, g, line, k, type) ==
  /\ k \in Keys /\ type \in Types /\ line.id \in Ids /\ line.id # NoId
  /\ type = TypeOf(line, t.current) /\ k = KeyOf(t, line) /\ line \in AllLines /\ line.kind # "replace"
  /\ line.kind = "HEAD" \/ line.kind \in Kinds
  /\ line.kind = "HEAD" => k = Detached /\ type = "head" /\ t.current = NoName /\ line.id = HeadId(g)
  /\ line.kind \in Kinds => /\ k # Detached /\ k[2] = line.name /\ line.name # 0
                            /\ k[1] = "" \/ (k[1] = "refs/tags/" /\ line.kind = "tags")

LEMMA StoringIs ==
  ASSUME NEW g \in Repositories, NEW L, NEW t, NEW u, NEW n, NEW k, NEW type, Storing(u, t, g, L, n, k, type)
  PROVE  /\ t \in Tables /\ u \in Tables /\ t.current = CurrentOf(g)
         /\ Taken(t, g, L[n], k, type)
         /\ u = Stored(t, k, L[n].id, type)
         /\ StoredAs(u, t, k, L[n].id, type)
<1>1. PICK line : line = L[n]
  OBVIOUS
<1>2. t \in Tables /\ t.current = CurrentOf(g)
  BY DEF Storing, Round, Track
<1>3. line \in GitLines(g) /\ line \in AllLines /\ line.kind # "replace"
  BY <1>1, RoundIs DEF Storing
<1>4. ~(line.kind = "HEAD" /\ t.current # NoName) /\ u = Added(t, line) /\ k = KeyOf(t, line) /\ type = TypeOf(line, t.current)
  BY <1>1 DEF Storing
<1>5. u \in Tables /\ AddedAs(u, t, line)
  BY <1>2, <1>3, <1>4, AddedIs
<1>6. StoredAs(u, t, k, line.id, type)
  BY <1>3, <1>4, <1>5 DEF AddedAs
<1>7. k \in Keys /\ type \in Types /\ line.id \in Ids
  BY <1>3, <1>4, KeyTyped, TypeTyped DEF AllLines
<1>8. line.kind = "HEAD" \/ line.kind \in Kinds
  BY <1>3 DEF AllLines
<1>9. line.kind = "HEAD" => k = Detached /\ type = "head" /\ t.current = NoName /\ line.id = HeadId(g) /\ line.id # NoId
  BY <1>3, <1>4, GitLineIs, TypeTyped DEF KeyOf
<1>10. line.kind \in Kinds => /\ k # Detached /\ k[2] = line.name /\ line.name # 0 /\ line.id # NoId
                              /\ k[1] = "" \/ (k[1] = "refs/tags/" /\ line.kind = "tags")
  <2>1. line.kind \in Kinds => line.kind # "HEAD"
    BY DEF Kinds
  <2>2. line.kind \in Kinds => k = <<"", line.name>> \/ (k = <<"refs/tags/", line.name>> /\ line.kind = "tags")
    BY <1>4, <2>1 DEF KeyOf
  <2>3. line.kind \in Kinds => line.name # 0 /\ line.id # NoId
    BY <1>3, GitLineIs
  <2>4. CASE k = <<"", line.name>>
    <3>1. k # Detached /\ k[2] = line.name /\ k[1] = ""
      BY <2>4 DEF Detached
    <3>2. QED
      BY <2>3, <3>1
  <2>5. CASE k = <<"refs/tags/", line.name>> /\ line.kind = "tags"
    <3>1. k # Detached /\ k[2] = line.name /\ k[1] = "refs/tags/"
      BY <2>5 DEF Detached
    <3>2. QED
      BY <2>3, <2>5, <3>1
  <2>6. QED
    BY <2>2, <2>4, <2>5
<1>11. u = Stored(t, k, line.id, type)
  BY <1>3, <1>4 DEF Added
<1>12. line.id # NoId
  BY <1>8, <1>9, <1>10
<1>13. Taken(t, g, line, k, type)
  BY <1>3, <1>4, <1>7, <1>8, <1>9, <1>10, <1>12 DEF Taken
<1>14. QED
  BY <1>1, <1>2, <1>5, <1>6, <1>11, <1>13

OthersAs(u, t, line, k, type) ==
  /\ DOMAIN u.ref = DOMAIN t.ref \cup {k} /\ u.current = t.current
  /\ u.ref[k].id = line.id /\ u.ref[k].type = type
  /\ Valid(u) = Valid(t) \cup {k}
  /\ \A l \in Valid(t) : l \in DOMAIN t.ref
  /\ \A l \in DOMAIN t.ref : l # k => u.ref[l] = t.ref[l]
  /\ u.head = (IF type = "head" THEN k ELSE t.head)

LEMMA OthersStay ==
  ASSUME NEW g \in Repositories, NEW L, NEW t, NEW u, NEW n, NEW k, NEW type, Storing(u, t, g, L, n, k, type)
  PROVE  OthersAs(u, t, L[n], k, type)
<1>1. StoredAs(u, t, k, L[n].id, type)
  BY StoringIs
<1>2. /\ DOMAIN u.ref = DOMAIN t.ref \cup {k} /\ u.current = t.current
      /\ u.ref[k].id = L[n].id /\ u.ref[k].type = type /\ u.ref[k].valid
      /\ \A l \in DOMAIN t.ref : l # k => u.ref[l] = t.ref[l]
      /\ u.head = (IF type = "head" THEN k ELSE t.head)
  BY <1>1 DEF StoredAs, Entry
<1>3. Valid(u) = Valid(t) \cup {k} /\ \A l \in Valid(t) : l \in DOMAIN t.ref
  BY <1>2 DEF Valid
<1>4. QED
  BY <1>2, <1>3 DEF OthersAs

\* Where an entry that stood for a line has been, the line's ref was.
LEMMA StandsFor ==
  ASSUME NEW g \in Repositories, NEW L, NEW t, NEW n, NEW k, NEW i, Stands(t, L, n, k, i), L[i] \in GitLines(g)
  PROVE  /\ L[i].kind \in Kinds /\ L[i].name # 0 /\ k[2] = L[i].name
         /\ KindOf(t.ref[k].type) = L[i].kind
         /\ t.ref[k].type = "head" <=> L[i].kind = "heads" /\ L[i].name = t.current
<1>1. L[i] \in AllLines /\ (L[i].kind \in Kinds => L[i].kind # "replace")
  BY GitLineIs DEF Kinds
<1>2. L[i].kind \in Kinds /\ k[2] = L[i].name /\ t.ref[k].type = TypeOf(L[i], t.current)
  BY DEF Stands
<1>3. L[i].name # 0
  BY <1>1, <1>2, GitLineIs
<1>4. L[i].kind # "HEAD"
  BY <1>2 DEF Kinds
<1>5. PICK line, c : line = L[i] /\ c = t.current
  OBVIOUS
<1>6. line \in AllLines /\ line.kind # "replace" /\ line.kind \in Kinds /\ line.kind # "HEAD"
  BY <1>1, <1>2, <1>4, <1>5
<1>7. /\ KindOf(TypeOf(line, c)) = line.kind
      /\ TypeOf(line, c) = "head" <=> line.kind = "HEAD" \/ (line.kind = "heads" /\ line.name = c)
  BY <1>6, TypeTyped
<1>8. KindOf(t.ref[k].type) = L[i].kind
  BY <1>2, <1>5, <1>7
<1>9. t.ref[k].type = "head" <=> L[i].kind = "heads" /\ L[i].name = t.current
  BY <1>2, <1>4, <1>5, <1>7
<1>10. QED
  BY <1>2, <1>3, <1>8, <1>9

LEMMA StandsOf ==
  ASSUME NEW g \in Repositories, NEW L, NEW t, NEW n, Round(t, g, L, n),
         NEW k, NEW i \in 1 .. n - 1, Stands(t, L, n - 1, k, i)
  PROVE  /\ L[i].kind \in Kinds /\ L[i].name # 0 /\ k[2] = L[i].name
         /\ KindOf(t.ref[k].type) = L[i].kind
         /\ t.ref[k].type = "head" <=> L[i].kind = "heads" /\ L[i].name = t.current
<1>1. L[i] \in GitLines(g)
  BY RoundIs
<1>2. QED
  BY <1>1, StandsFor

LEMMA StoredNoStranger ==
  ASSUME NEW g \in Repositories, NEW L, NEW t, NEW u, NEW n, NEW k, NEW type, Storing(u, t, g, L, n, k, type)
  PROVE  NoStranger(u, g, L, n)
<1>1. Round(t, g, L, n) /\ NoStranger(t, g, L, n - 1)
  BY DEF Storing, Round, Track
<1>2. n \in Nat /\ n \in 1 .. n
  BY <1>1, RoundIs
<1>3. PICK line : line = L[n]
  OBVIOUS
<1>4. Taken(t, g, line, k, type) /\ OthersAs(u, t, line, k, type)
  BY <1>3, StoringIs, OthersStay
<1>5. IsHead(u, g, k) \/ (k # Detached /\ \E i \in 1 .. n : Stands(u, L, n, k, i))
  <2>1. CASE line.kind = "HEAD"
    <3>1. IsHead(u, g, k)
      BY <1>4, <2>1 DEF Taken, OthersAs, IsHead
    <3>2. QED
      BY <3>1
  <2>2. CASE line.kind \in Kinds
    <3>1. \A j \in n + 1 .. n : FALSE
      BY <1>2
    <3>2. k[2] = line.name /\ k # Detached /\ (k[1] = "" \/ (k[1] = "refs/tags/" /\ line.kind = "tags"))
      BY <1>4, <2>2 DEF Taken
    <3>3. u.ref[k].type = TypeOf(line, u.current) /\ u.ref[k].id = line.id
      BY <1>4 DEF Taken, OthersAs
    <3>4. Stands(u, L, n, k, n)
      BY <1>3, <2>2, <3>1, <3>2, <3>3 DEF Stands
    <3>5. QED
      BY <1>2, <3>2, <3>4
  <2>3. QED
    BY <1>4, <2>1, <2>2 DEF Taken
<1>6. ASSUME NEW l \in Valid(t), l # k
      PROVE  IsHead(u, g, l) \/ (l # Detached /\ \E i \in 1 .. n : Stands(u, L, n, l, i))
  <2>1. u.ref[l] = t.ref[l] /\ u.current = t.current
    BY <1>4, <1>6 DEF OthersAs
  <2>2. CASE IsHead(t, g, l)
    BY <2>1, <2>2 DEF IsHead
  <2>3. CASE ~IsHead(t, g, l)
    <3>1. l # Detached
      BY <1>1, <2>3 DEF NoStranger
    <3>2. PICK i \in 1 .. n - 1 : Stands(t, L, n - 1, l, i)
      BY <1>1, <2>3 DEF NoStranger
    <3>3. L[i].kind \in Kinds /\ l[2] = L[i].name /\ KindOf(t.ref[l].type) = L[i].kind
      BY <1>1, <3>2, StandsOf
    <3>4. ASSUME Ref(line) = Ref(L[i]) PROVE FALSE
      <4>1. line.kind = L[i].kind /\ line.name = L[i].name
        BY <3>4 DEF Ref
      <4>2. l = KeyOf(t, line)
        BY <1>1, <1>3, <3>1, <3>3, <4>1, OneKey
      <4>3. QED
        BY <1>4, <1>6, <4>2 DEF Taken
    <3>5. i \in 1 .. n /\ Stands(u, L, n, l, i)
      BY <1>2, <1>3, <2>1, <3>2, <3>4, StandsOn
    <3>6. QED
      BY <3>1, <3>5
  <2>4. QED
    BY <2>2, <2>3
<1>7. \A l \in Valid(u) : l = k \/ l \in Valid(t)
  BY <1>4 DEF OthersAs
<1>8. QED
  BY <1>5, <1>6, <1>7 DEF NoStranger

LEMMA StoredNoneMissing ==
  ASSUME NEW g \in Repositories, NEW L, NEW t, NEW u, NEW n, NEW k, NEW type, Storing(u, t, g, L, n, k, type)
  PROVE  NoneMissing(u, L, n)
<1>1. Round(t, g, L, n) /\ NoneMissing(t, L, n - 1)
  BY DEF Storing, Round, Track
<1>2. n \in Nat /\ n \in 1 .. n
  BY <1>1, RoundIs
<1>3. PICK line : line = L[n]
  OBVIOUS
<1>4. Taken(t, g, line, k, type) /\ OthersAs(u, t, line, k, type)
  BY <1>3, StoringIs, OthersStay
<1>5. k \in Valid(u) /\ (line.kind \in Kinds => OfRef(u, k, line)) /\ (line.kind = "HEAD" => k = Detached)
  <2>1. line.kind \in Kinds => KindOf(type) = line.kind
    BY <1>4, TypeTyped DEF Taken
  <2>2. line.kind \in Kinds => k # Detached /\ k[2] = line.name
    BY <1>4 DEF Taken
  <2>3. QED
    BY <1>4, <2>1, <2>2 DEF OthersAs, OfRef, Taken
<1>6. ASSUME NEW i \in 1 .. n - 1, L[i].kind \in Kinds PROVE \E l \in Valid(u) : OfRef(u, l, L[i])
  <2>1. PICK l \in Valid(t) : OfRef(t, l, L[i])
    BY <1>1, <1>6 DEF NoneMissing
  <2>2. l \in Valid(u)
    BY <1>4 DEF OthersAs
  <2>3. CASE l # k
    <3>1. u.ref[l] = t.ref[l]
      BY <1>4, <2>3 DEF OthersAs
    <3>2. QED
      BY <2>1, <2>2, <3>1 DEF OfRef
  <2>4. CASE l = k
    <3>1. l # Detached /\ l[2] = L[i].name /\ KindOf(t.ref[l].type) = L[i].kind
      BY <2>1 DEF OfRef
    <3>2. line.kind \in Kinds /\ l[2] = line.name /\ l = KeyOf(t, line)
      BY <1>4, <2>4, <3>1 DEF Taken
    <3>3. KindOf(t.ref[l].type) = line.kind
      BY <1>1, <1>3, <3>1, <3>2, OneKey
    <3>4. OfRef(u, k, L[i])
      BY <1>5, <2>4, <3>1, <3>2, <3>3 DEF OfRef
    <3>5. QED
      BY <2>2, <2>4, <3>4
  <2>5. QED
    BY <2>3, <2>4
<1>7. ASSUME NEW i \in 1 .. n - 1, L[i].kind = "HEAD", u.current = NoName PROVE Detached \in Valid(u)
  BY <1>1, <1>4, <1>7 DEF NoneMissing, OthersAs
<1>8. \A i \in 1 .. n : i = n \/ i \in 1 .. n - 1
  BY <1>2
<1>9. QED
  BY <1>3, <1>5, <1>6, <1>7, <1>8 DEF NoneMissing

LEMMA StoredNotBoth ==
  ASSUME NEW g \in Repositories, NEW L, NEW t, NEW u, NEW n, NEW k, NEW type, Storing(u, t, g, L, n, k, type)
  PROVE  NotBoth(u)
<1>1. NotBoth(t)
  BY DEF Storing, Round, Track
<1>2. PICK line : line = L[n]
  OBVIOUS
<1>3. Taken(t, g, line, k, type) /\ OthersAs(u, t, line, k, type)
  BY <1>2, StoringIs, OthersStay
<1>4. ASSUME NEW l \in Valid(u), l[1] = "refs/tags/"
      PROVE  <<"", l[2]>> \in DOMAIN u.ref /\ ~IsTag(u.ref[<<"", l[2]>>])
  <2>1. PICK short : short = <<"", l[2]>>
    OBVIOUS
  <2>2. short[1] = "" /\ short[2] = l[2] /\ Detached[1] = "HEAD"
    BY <2>1 DEF Detached
  <2>3. CASE l = k
    <3>1. line.kind = "tags"
      <4>1. line.kind # "HEAD"
        BY <1>3, <1>4, <2>2, <2>3 DEF Taken
      <4>2. QED
        BY <1>3, <1>4, <2>3, <4>1 DEF Taken
    <3>2. l[2] = line.name /\ k = KeyOf(t, line)
      BY <1>3, <2>3, <3>1 DEF Taken, Kinds
    <3>3. k = IF short \in DOMAIN t.ref /\ ~IsTag(t.ref[short]) THEN <<"refs/tags/", line.name>> ELSE short
      BY <2>1, <3>1, <3>2 DEF KeyOf
    <3>4. short # k
      BY <1>4, <2>2, <2>3
    <3>5. short \in DOMAIN t.ref /\ ~IsTag(t.ref[short])
      BY <3>3, <3>4
    <3>6. QED
      BY <1>3, <2>1, <3>4, <3>5 DEF OthersAs
  <2>4. CASE l # k
    <3>1. l \in Valid(t)
      BY <1>3, <2>4 DEF OthersAs
    <3>2. short \in DOMAIN t.ref /\ ~IsTag(t.ref[short])
      BY <1>1, <1>4, <2>1, <3>1 DEF NotBoth
    <3>3. CASE short # k
      BY <1>3, <2>1, <3>2, <3>3 DEF OthersAs
    <3>4. CASE short = k
      <4>1. k # Detached
        BY <2>2, <3>4
      <4>2. line.kind \in Kinds /\ k[2] = line.name
        BY <1>3, <4>1 DEF Taken
      <4>3. short = <<"", line.name>>
        <5>1. l[2] = line.name
          BY <2>2, <3>4, <4>2
        <5>2. QED
          BY <2>1, <5>1
      <4>4. line.kind # "tags"
        <5>1. ASSUME line.kind = "tags" PROVE FALSE
          <6>1. KeyOf(t, line) = <<"refs/tags/", line.name>>
            BY <3>2, <4>3, <5>1 DEF KeyOf
          <6>2. KeyOf(t, line) = <<"", line.name>>
            BY <1>3, <3>4, <4>3 DEF Taken
          <6>3. <<"refs/tags/", line.name>>[1] = "refs/tags/" /\ <<"", line.name>>[1] = ""
            OBVIOUS
          <6>4. QED
            BY <6>1, <6>2, <6>3
        <5>2. QED
          BY <5>1
      <4>5. type \notin {"tag", "localTag"}
        BY <1>3, <4>4, TypeTyped DEF Taken, IsTag
      <4>6. u.ref[short].type = type /\ short \in DOMAIN u.ref
        BY <1>3, <3>4 DEF OthersAs
      <4>7. QED
        BY <2>1, <4>5, <4>6 DEF IsTag
    <3>5. QED
      BY <3>3, <3>4
  <2>5. QED
    BY <2>3, <2>4
<1>5. QED
  BY <1>4 DEF NotBoth

\* The valid entries of type head have one key.
LEMMA HeadsKey ==
  ASSUME NEW g \in Repositories, NEW L, NEW t, NEW n, Round(t, g, L, n),
         NEW k \in Valid(t), t.ref[k].type = "head"
  PROVE  /\ t.current = NoName <=> k = Detached
         /\ k # Detached => k[2] = t.current /\ KindOf(t.ref[k].type) = "heads"
<1>1. NoStranger(t, g, L, n - 1)
  BY DEF Round, Track
<1>2. CASE IsHead(t, g, k)
  BY <1>2 DEF IsHead
<1>3. CASE ~IsHead(t, g, k)
  <2>1. k # Detached
    BY <1>1, <1>3 DEF NoStranger
  <2>2. PICK i \in 1 .. n - 1 : Stands(t, L, n - 1, k, i)
    BY <1>1, <1>3 DEF NoStranger
  <2>3. L[i].name # 0 /\ k[2] = L[i].name /\ L[i].name = t.current /\ KindOf(t.ref[k].type) = "heads"
    BY <2>2, StandsOf
  <2>4. QED
    BY <2>1, <2>3 DEF NoName
<1>4. QED
  BY <1>2, <1>3

LEMMA StoredOneHead ==
  ASSUME NEW g \in Repositories, NEW L, NEW t, NEW u, NEW n, NEW k, NEW type, Storing(u, t, g, L, n, k, type)
  PROVE  OneHead(u)
<1>1. Round(t, g, L, n) /\ OneHead(t)
  BY DEF Storing, Round, Track
<1>2. PICK line : line = L[n]
  OBVIOUS
<1>3. Taken(t, g, line, k, type) /\ OthersAs(u, t, line, k, type)
  BY <1>2, StoringIs, OthersStay
<1>4. type = "head" <=> line.kind = "HEAD" \/ (line.kind = "heads" /\ line.name = t.current)
  BY <1>3, TypeTyped DEF Taken
<1>5. /\ line.kind = "HEAD" \/ line.kind \in Kinds
      /\ line.kind = "HEAD" => k = Detached /\ t.current = NoName
      /\ line.kind \in Kinds => k # Detached /\ k[2] = line.name /\ line.name # NoName /\ k = KeyOf(t, line)
  BY <1>3 DEF Taken, NoName
<1>6. "heads" \in Kinds
  BY DEF Kinds
<1>7. /\ Valid(u) = Valid(t) \cup {k} /\ u.ref[k].type = type
      /\ \A l \in Valid(t) : l # k => u.ref[l] = t.ref[l]
      /\ u.head = (IF type = "head" THEN k ELSE t.head)
  BY <1>3 DEF OthersAs
<1>8. ASSUME NEW l \in Valid(t), l # k, t.ref[l].type = "head", type = "head" PROVE FALSE
  <2>1. /\ t.current = NoName <=> l = Detached
        /\ l # Detached => l[2] = t.current /\ KindOf(t.ref[l].type) = "heads"
    BY <1>1, <1>8, HeadsKey
  <2>2. CASE line.kind = "HEAD"
    BY <1>5, <1>8, <2>1, <2>2
  <2>3. CASE line.kind = "heads" /\ line.name = t.current
    <3>1. t.current # NoName /\ l # Detached /\ l[2] = line.name
      BY <1>5, <1>6, <2>1, <2>3
    <3>2. l = KeyOf(t, line)
      BY <1>1, <1>2, <1>6, <2>1, <2>3, <3>1, OneKey
    <3>3. QED
      BY <1>5, <1>6, <1>8, <2>3, <3>2
  <2>4. QED
    BY <1>4, <1>8, <2>2, <2>3
<1>9. ASSUME k \in Valid(t), t.ref[k].type = "head", type # "head" PROVE FALSE
  <2>1. line.kind \in Kinds /\ k # Detached /\ k[2] = line.name /\ k = KeyOf(t, line)
    BY <1>4, <1>5, <1>9
  <2>2. k[2] = t.current /\ KindOf(t.ref[k].type) = "heads"
    BY <1>1, <1>9, <2>1, HeadsKey
  <2>3. KindOf(t.ref[k].type) = line.kind
    BY <1>1, <1>2, <1>9, <2>1, OneKey
  <2>4. QED
    BY <1>4, <1>9, <2>1, <2>2, <2>3
<1>10. ASSUME NEW l \in Valid(u), u.ref[l].type = "head" PROVE u.head = l
  <2>1. CASE l = k
    BY <1>7, <1>10, <2>1
  <2>2. CASE l # k
    <3>1. l \in Valid(t) /\ t.ref[l].type = "head"
      BY <1>7, <1>10, <2>2
    <3>2. type # "head"
      BY <1>8, <2>2, <3>1
    <3>3. QED
      BY <1>1, <1>7, <3>1, <3>2 DEF OneHead
  <2>3. QED
    BY <2>1, <2>2
<1>11. ASSUME u.head # NoKey PROVE u.head \in Valid(u) /\ u.ref[u.head].type = "head"
  <2>1. CASE type = "head"
    BY <1>7, <2>1
  <2>2. CASE type # "head"
    <3>1. PICK h : h = t.head
      OBVIOUS
    <3>2. u.head = h /\ h \in Valid(t) /\ t.ref[h].type = "head"
      BY <1>1, <1>7, <1>11, <2>2, <3>1 DEF OneHead
    <3>3. h # k
      BY <1>9, <2>2, <3>2
    <3>4. QED
      BY <1>7, <3>2, <3>3
  <2>3. QED
    BY <2>1, <2>2
<1>12. QED
  BY <1>10, <1>11 DEF OneHead

LEMMA TrackOn ==
  ASSUME NEW g \in Repositories, NEW L, NEW t, NEW u, NEW n, Round(t, g, L, n), u = Added(t, L[n])
  PROVE  Track(u, g, L, n)
<1>1. CASE L[n].kind = "HEAD" /\ t.current # NoName
  <2>1. Track(t, g, L, n)
    BY <1>1, TrackSkips
  <2>2. u = t
    BY <1>1 DEF Added
  <2>3. QED
    BY <2>1, <2>2
<1>2. CASE ~(L[n].kind = "HEAD" /\ t.current # NoName)
  <2>1. PICK k, type : k = KeyOf(t, L[n]) /\ type = TypeOf(L[n], t.current)
    OBVIOUS
  <2>2. Storing(u, t, g, L, n, k, type)
    BY <1>2, <2>1 DEF Storing
  <2>3. PICK id : id = L[n].id
    OBVIOUS
  <2>4. /\ t \in Tables /\ u \in Tables /\ t.current = CurrentOf(g)
        /\ Taken(t, g, L[n], k, type)
        /\ u = Stored(t, k, id, type)
        /\ StoredAs(u, t, k, id, type)
    BY <2>2, <2>3, StoringIs
  <2>5. k \in Keys /\ id \in Ids /\ id # NoId /\ type \in Types
    BY <2>3, <2>4 DEF Taken
  <2>6. ListsRight(t)
    BY DEF Round, Track
  <2>7. ListsRight(u)
    BY <2>4, <2>5, <2>6, StoredRight
  <2>8. u.current = CurrentOf(g)
    BY <2>4 DEF StoredAs
  <2>9. NoStranger(u, g, L, n) /\ NoneMissing(u, L, n) /\ NotBoth(u) /\ OneHead(u)
    BY <2>2, StoredNoStranger, StoredNoneMissing, StoredNotBoth, StoredOneHead
  <2>10. QED
    BY <2>4, <2>7, <2>8, <2>9 DEF Track
<1>3. QED
  BY <1>1, <1>2

\* The table when the last line is in it.
LEMMA AllTracked ==
  ASSUME NEW t \in Tables, NEW g \in Repositories, Clear(g), NEW after, RefCourse(after, t, g)
  PROVE  Track(after[Len(Lines(g))], g, Lines(g), Len(Lines(g)))
<1>1. PICK L : L = Lines(g)
  OBVIOUS
<1>2. PICK m \in Nat : m = Len(L)
  BY <1>1, LinesTyped
<1>3. /\ after[0] = Begun(t, g)
      /\ \A n \in 0 .. m : after[n] \in Tables
      /\ \A n \in 1 .. m : after[n] = Added(after[n - 1], L[n])
  BY <1>1, <1>2 DEF RefCourse
<1> DEFINE S == {n \in 0 .. m : Track(after[n], g, L, n)}
<1>4. 0 \in S
  <2>1. PICK b : b = after[0]
    OBVIOUS
  <2>2. b \in Tables /\ Fresh(b, g)
    BY <1>3, <2>1, BegunIs
  <2>3. Track(b, g, L, 0)
    BY <2>2, FreshTracks
  <2>4. QED
    BY <2>1, <2>3
<1>5. ASSUME NEW n \in 1 .. m, n - 1 \in S PROVE n \in S
  <2>1. PICK a, u : a = after[n - 1] /\ u = after[n]
    OBVIOUS
  <2>2. Track(a, g, L, n - 1)
    BY <1>5, <2>1
  <2>3. Round(a, g, L, n)
    BY <1>1, <1>2, <2>2 DEF Round
  <2>4. u = Added(a, L[n])
    BY <1>3, <2>1
  <2>5. Track(u, g, L, n)
    BY <2>3, <2>4, TrackOn
  <2>6. QED
    BY <2>1, <2>5
<1> HIDE DEF S
<1>6. \A n \in 0 .. m : n \in S
  BY <1>4, <1>5, EveryRound
<1>7. m \in S
  BY <1>6
<1>8. QED
  BY <1>1, <1>2, <1>7 DEF S

-------------------------------------------------------------------------------
(* The table after a load.                                                 *)

\* What there is of the entry of a key, and what git has of a ref.
Told(t, k) == <<KindOf(t.ref[k].type), k[2], t.ref[k].id>>
Had(g, r) == <<r[1], r[2], g.refs[r]>>
TableOf(t, g) == {Told(t, k) : k \in Valid(t) \ {Detached}} = {Had(g, r) : r \in {s \in Refs : g.refs[s] # NoId}}
HeadOf(t, g) ==
  /\ t.head = NoKey <=> HeadId(g) = NoId
  /\ t.head # NoKey => t.head \in Valid(t) /\ t.ref[t.head].id = HeadId(g)
  /\ \A k \in Valid(t) : t.ref[k].type = "head" => k = t.head

\* All lines of a repository in which nothing is hidden are in t.
Loaded(t, g, L, m) ==
  /\ L = Lines(g) /\ m = Len(L) /\ Clear(g)
  /\ Track(t, g, L, m)

LEMMA LoadedLines ==
  ASSUME NEW g \in Repositories, NEW t, NEW L, NEW m, Loaded(t, g, L, m)
  PROVE  /\ m \in Nat /\ DOMAIN L = 1 .. m
         /\ \A i \in 1 .. m : L[i] \in GitLines(g) /\ L[i] \in AllLines /\ L[i].kind # "replace"
         /\ Describes(L, g, Named, LineKinds)
<1>1. L = Lines(g) /\ m = Len(L) /\ g.replaced = {}
  BY DEF Loaded, Clear
<1>2. m \in Nat /\ DOMAIN L = 1 .. m
  BY <1>1, LinesTyped
<1>3. ASSUME NEW i \in 1 .. m PROVE L[i] \in GitLines(g) /\ L[i] \in AllLines /\ L[i].kind # "replace"
  <2>1. L[i] \in GitLines(g)
    BY <1>1, LinesTyped
  <2>2. QED
    BY <1>1, <2>1, GitLineIs
<1>4. Describes(L, g, Named, LineKinds)
  BY <1>1, LinesDescribe
<1>5. QED
  BY <1>2, <1>3, <1>4

\* The ref a valid entry is of.
LEMMA EntryOf ==
  ASSUME NEW g \in Repositories, NEW t, NEW L, NEW m, Loaded(t, g, L, m),
         NEW k \in Valid(t), k # Detached
  PROVE  \E r \in Refs : /\ g.refs[r] # NoId /\ Told(t, k) = Had(g, r)
                         /\ k[2] # 0
                         /\ t.ref[k].type = "head" <=> r[1] = "heads" /\ k[2] = t.current
<1>1. NoStranger(t, g, L, m)
  BY DEF Loaded, Track
<1>2. PICK i \in 1 .. m : Stands(t, L, m, k, i)
  BY <1>1 DEF NoStranger, IsHead
<1>3. PICK line : line = L[i]
  OBVIOUS
<1>4. line \in GitLines(g)
  BY <1>3, LoadedLines
<1>5. /\ line.kind \in Kinds /\ line.name # 0 /\ k[2] = line.name
      /\ KindOf(t.ref[k].type) = line.kind
      /\ t.ref[k].type = "head" <=> line.kind = "heads" /\ line.name = t.current
  BY <1>2, <1>3, <1>4, StandsFor
<1>6. PICK r : r = Ref(line)
  OBVIOUS
<1>7. r \in Refs /\ g.refs[r] # NoId /\ r[1] = line.kind /\ r[2] = line.name
  BY <1>4, <1>5, <1>6, GitLineIs DEF Ref
<1>8. line.id = g.refs[r]
  <2>1. line.id = g.refs[r] \/ \E j \in 1 .. m : i < j /\ Ref(L[j]) = r
    BY <1>3, <1>5, <1>6, LoadedLines DEF Describes
  <2>2. ASSUME NEW j \in 1 .. m, i < j, Ref(L[j]) = r PROVE FALSE
    <3>1. j \in i + 1 .. m
      BY <2>2, LoadedLines
    <3>2. QED
      BY <1>2, <1>3, <1>6, <2>2, <3>1 DEF Stands
  <2>3. QED
    BY <2>1, <2>2
<1>9. t.ref[k].id = line.id
  BY <1>2, <1>3 DEF Stands
<1>10. Told(t, k) = Had(g, r)
  BY <1>5, <1>7, <1>8, <1>9 DEF Told, Had
<1>11. t.ref[k].type = "head" <=> r[1] = "heads" /\ k[2] = t.current
  BY <1>5, <1>7
<1>12. QED
  BY <1>5, <1>7, <1>10, <1>11

\* The entry of a ref.
LEMMA EntryFor ==
  ASSUME NEW g \in Repositories, NEW t, NEW L, NEW m, Loaded(t, g, L, m),
         NEW r \in Refs, g.refs[r] # NoId
  PROVE  \E k \in Valid(t) \ {Detached} : Told(t, k) = Had(g, r)
<1>1. r[1] \in Kinds /\ r[2] \in 1 .. NNames /\ r = <<r[1], r[2]>>
  BY RefsAre
<1>2. r \in Named /\ Exists(g, r)
  BY <1>1 DEF Named, Exists
<1>3. PICK i \in 1 .. m : Ref(L[i]) = r
  BY <1>2, LoadedLines DEF Describes
<1>4. L[i].kind = r[1] /\ L[i].name = r[2]
  BY <1>1, <1>3 DEF Ref
<1>5. NoneMissing(t, L, m)
  BY DEF Loaded, Track
<1>6. PICK k \in Valid(t) : OfRef(t, k, L[i])
  BY <1>1, <1>4, <1>5 DEF NoneMissing
<1>7. k # Detached /\ k[2] = r[2] /\ KindOf(t.ref[k].type) = r[1]
  BY <1>4, <1>6 DEF OfRef
<1>8. PICK q \in Refs : Told(t, k) = Had(g, q)
  BY <1>7, EntryOf
<1>9. q[1] = r[1] /\ q[2] = r[2]
  BY <1>7, <1>8 DEF Told, Had
<1>10. q = r
  BY <1>9, RefsAre
<1>11. QED
  BY <1>7, <1>8, <1>10

LEMMA TableFits ==
  ASSUME NEW g \in Repositories, NEW t, NEW L, NEW m, Loaded(t, g, L, m)
  PROVE  TableOf(t, g)
<1>1. ASSUME NEW k \in Valid(t) \ {Detached} PROVE \E r \in {s \in Refs : g.refs[s] # NoId} : Told(t, k) = Had(g, r)
  BY EntryOf
<1>2. ASSUME NEW r \in {s \in Refs : g.refs[s] # NoId} PROVE \E k \in Valid(t) \ {Detached} : Told(t, k) = Had(g, r)
  BY EntryFor
<1>3. QED
  BY <1>1, <1>2 DEF TableOf

LEMMA HeadFits ==
  ASSUME NEW g \in Repositories, NEW t, NEW L, NEW m, Loaded(t, g, L, m)
  PROVE  HeadOf(t, g)
<1>1. OneHead(t) /\ NoStranger(t, g, L, m) /\ t.current = CurrentOf(g)
  BY DEF Loaded, Track
<1>2. /\ HeadId(g) \in Ids /\ g.head \in Nat
      /\ g.head # NoName => /\ <<"heads", g.head>> \in Refs /\ g.head # 0
                            /\ HeadId(g) = g.refs[<<"heads", g.head>>]
  BY HeadIdIs
<1>3. ASSUME NEW k \in Valid(t), t.ref[k].type = "head" PROVE HeadId(g) # NoId /\ t.ref[k].id = HeadId(g)
  <2>1. CASE k = Detached
    <3>1. IsHead(t, g, k)
      BY <1>1, <2>1 DEF NoStranger
    <3>2. QED
      BY <3>1 DEF IsHead
  <2>2. CASE k # Detached
    <3>1. PICK r \in Refs : /\ g.refs[r] # NoId /\ Told(t, k) = Had(g, r) /\ k[2] # 0
                            /\ t.ref[k].type = "head" <=> r[1] = "heads" /\ k[2] = t.current
      BY <2>2, EntryOf
    <3>2. r[1] = "heads" /\ k[2] = t.current
      BY <1>3, <3>1
    <3>3. r[2] = k[2] /\ t.ref[k].id = g.refs[r]
      BY <3>1 DEF Told, Had
    <3>4. g.head # NoName /\ t.current = g.head /\ HeadId(g) # NoId
      BY <1>1, <3>1, <3>2 DEF CurrentOf, NoName
    <3>5. r = <<"heads", g.head>>
      BY <3>2, <3>3, <3>4, RefsAre
    <3>6. QED
      BY <1>2, <3>3, <3>4, <3>5
  <2>3. QED
    BY <2>1, <2>2
<1>4. ASSUME HeadId(g) # NoId PROVE t.head # NoKey
  <2>1. CASE g.head = NoName
    <3>1. Exists(g, Detached) /\ Detached \in Named
      BY <1>4 DEF Exists, Named
    <3>2. PICK i \in 1 .. m : Ref(L[i]) = Detached
      BY <3>1, LoadedLines DEF Describes
    <3>3. L[i].kind = "HEAD" /\ t.current = NoName
      BY <1>1, <2>1, <3>2 DEF Ref, Detached, CurrentOf
    <3>4. NoneMissing(t, L, m)
      BY DEF Loaded, Track
    <3>5. Detached \in Valid(t)
      BY <3>3, <3>4 DEF NoneMissing
    <3>6. t.ref[Detached].type = "head"
      BY <1>1, <3>5 DEF NoStranger, IsHead
    <3>7. t.head = Detached
      BY <1>1, <3>5, <3>6 DEF OneHead
    <3>8. Detached[1] = "HEAD" /\ NoKey[1] = ""
      BY DEF Detached, NoKey
    <3>9. QED
      BY <3>7, <3>8
  <2>2. CASE g.head # NoName
    <3>1. PICK r : r = <<"heads", g.head>>
      OBVIOUS
    <3>2. r \in Refs /\ g.refs[r] # NoId /\ r[1] = "heads" /\ r[2] = g.head
      BY <1>2, <1>4, <2>2, <3>1
    <3>3. PICK k \in Valid(t) \ {Detached} : Told(t, k) = Had(g, r)
      BY <3>2, EntryFor
    <3>4. PICK q \in Refs : /\ Told(t, k) = Had(g, q) /\ k[2] # 0
                            /\ t.ref[k].type = "head" <=> q[1] = "heads" /\ k[2] = t.current
      BY <3>3, EntryOf
    <3>5. q[1] = "heads" /\ k[2] = g.head
      BY <3>2, <3>3, <3>4 DEF Told, Had
    <3>6. t.current = g.head
      BY <1>1, <1>4, <2>2 DEF CurrentOf
    <3>7. t.head = k
      BY <1>1, <3>4, <3>5, <3>6 DEF OneHead
    <3>8. NoKey[2] = 0
      BY DEF NoKey
    <3>9. QED
      BY <3>4, <3>7, <3>8
  <2>3. QED
    BY <2>1, <2>2
<1>5. t.head # NoKey => t.head \in Valid(t) /\ t.ref[t.head].type = "head"
  BY <1>1 DEF OneHead
<1>6. ASSUME t.head # NoKey PROVE HeadId(g) # NoId /\ t.ref[t.head].id = HeadId(g)
  BY <1>3, <1>5, <1>6
<1>7. \A k \in Valid(t) : t.ref[k].type = "head" => k = t.head
  BY <1>1 DEF OneHead
<1>8. QED
  BY <1>4, <1>5, <1>6, <1>7 DEF HeadOf

-------------------------------------------------------------------------------
(* What a load reports.                                                    *)

\* The line of where HEAD leads.
HeadLine(g, line) ==
  \/ line.kind = "HEAD" /\ CurrentOf(g) = NoName
  \/ line.kind = "heads" /\ line.name = CurrentOf(g)

\* A new head is reported; and one there is has been.
Reported(t, g, L, n) ==
  /\ t.current = CurrentOf(g)
  /\ t.head # NoKey \/ (\E i \in 1 .. n : HeadLine(g, L[i])) => "head" \in t.changed

LEMMA ReportedOn ==
  ASSUME NEW g \in Repositories, NEW L, NEW n \in Nat, NEW t \in Tables, Reported(t, g, L, n - 1),
         L[n] \in GitLines(g), NEW u, u = Added(t, L[n])
  PROVE  Reported(u, g, L, n)
<1>1. PICK line : line = L[n]
  OBVIOUS
<1>2. line \in GitLines(g) /\ line \in AllLines /\ (line.kind = "replace" => line.name \in 1 .. NCommits)
  BY <1>1, GitLineIs
<1>3. u = Added(t, line)
  BY <1>1
<1>4. AddedAs(u, t, line)
  BY <1>2, <1>3, AddedIs
<1>5. \A i \in 1 .. n : i = n \/ i \in 1 .. n - 1
  OBVIOUS
<1>6. t.current = CurrentOf(g) /\ (t.head # NoKey => "head" \in t.changed)
      /\ ((\E i \in 1 .. n - 1 : HeadLine(g, L[i])) => "head" \in t.changed)
  BY DEF Reported
<1>7. SUFFICES /\ u.current = t.current /\ t.changed \subseteq u.changed
               /\ u.head # t.head /\ u.head # NoKey => "head" \in u.changed
               /\ HeadLine(g, line) => "head" \in u.changed
  BY <1>1, <1>5, <1>6 DEF Reported
<1>8. CASE line.kind = "HEAD" /\ t.current # NoName
  <2>1. u = t
    BY <1>4, <1>8 DEF AddedAs
  <2>2. ~HeadLine(g, line)
    BY <1>6, <1>8 DEF HeadLine
  <2>3. QED
    BY <2>1, <2>2
<1>9. CASE line.kind = "replace"
  <2>1. u.head = t.head /\ u.current = t.current /\ t.changed \subseteq u.changed
    BY <1>4, <1>9 DEF AddedAs
  <2>2. ~HeadLine(g, line)
    BY <1>9 DEF HeadLine
  <2>3. QED
    BY <2>1, <2>2
<1>10. CASE line.kind # "replace" /\ ~(line.kind = "HEAD" /\ t.current # NoName)
  <2>1. PICK k, type : k = KeyOf(t, line) /\ type = TypeOf(line, t.current)
    OBVIOUS
  <2>2. StoredAs(u, t, k, line.id, type)
    BY <1>4, <1>10, <2>1 DEF AddedAs
  <2>3. /\ u.current = t.current /\ t.changed \subseteq u.changed
        /\ u.head = (IF type = "head" THEN k ELSE t.head)
        /\ type = "head" /\ t.head # k => "head" \in u.changed
    BY <2>2 DEF StoredAs
  <2>4. type = "head" <=> line.kind = "HEAD" \/ (line.kind = "heads" /\ line.name = t.current)
    BY <1>2, <1>10, <2>1, TypeTyped
  <2>5. HeadLine(g, line) => type = "head"
    BY <1>6, <2>4 DEF HeadLine
  <2>6. type = "head" => k # NoKey
    <3>1. CASE line.kind = "HEAD"
      <4>1. k[1] = "HEAD" /\ NoKey[1] = ""
        BY <2>1, <3>1 DEF KeyOf, Detached, NoKey
      <4>2. QED
        BY <4>1
    <3>2. CASE line.kind = "heads"
      <4>1. k[2] = line.name /\ NoKey[2] = 0
        BY <2>1, <3>2 DEF KeyOf, NoKey
      <4>2. line.name # 0
        BY <1>2, <3>2, GitLineIs DEF Kinds
      <4>3. QED
        BY <4>1, <4>2
    <3>3. QED
      BY <2>4, <3>1, <3>2
  <2>7. type = "head" => "head" \in u.changed
    BY <1>6, <2>3, <2>6
  <2>8. QED
    BY <2>3, <2>5, <2>7
<1>11. QED
  BY <1>8, <1>9, <1>10

LEMMA HeadIsReported ==
  ASSUME NEW t \in Tables, NEW g \in Repositories, HeadId(g) # NoId, NEW after, RefCourse(after, t, g)
  PROVE  "head" \in after[Len(Lines(g))].changed
<1>1. PICK L : L = Lines(g)
  OBVIOUS
<1>2. PICK m \in Nat : m = Len(L)
  BY <1>1, LinesTyped
<1>3. /\ after[0] = Begun(t, g)
      /\ \A n \in 0 .. m : after[n] \in Tables
      /\ \A n \in 1 .. m : after[n] = Added(after[n - 1], L[n])
  BY <1>1, <1>2 DEF RefCourse
<1>4. DOMAIN L = 1 .. m /\ \A n \in 1 .. m : L[n] \in GitLines(g)
  BY <1>1, <1>2, LinesTyped
<1> DEFINE S == {n \in 0 .. m : Reported(after[n], g, L, n)}
<1>5. 0 \in S
  <2>1. PICK b : b = after[0]
    OBVIOUS
  <2>2. b.head = NoKey /\ b.current = CurrentOf(g)
    BY <1>3, <2>1, BegunIs DEF Fresh
  <2>3. \A i \in 1 .. 0 : FALSE
    OBVIOUS
  <2>4. Reported(b, g, L, 0)
    BY <2>2, <2>3 DEF Reported
  <2>5. QED
    BY <2>1, <2>4
<1>6. ASSUME NEW n \in 1 .. m, n - 1 \in S PROVE n \in S
  <2>1. PICK a, u : a = after[n - 1] /\ u = after[n]
    OBVIOUS
  <2>2. Reported(a, g, L, n - 1) /\ n - 1 \in 0 .. m
    BY <1>6, <2>1
  <2>3. a \in Tables /\ u = Added(a, L[n])
    BY <1>3, <2>1, <2>2
  <2>4. n \in Nat
    OBVIOUS
  <2>5. Reported(u, g, L, n)
    BY <1>4, <2>2, <2>3, <2>4, ReportedOn
  <2>6. QED
    BY <2>1, <2>5
<1> HIDE DEF S
<1>7. m \in S
  <2>1. \A n \in 0 .. m : n \in S
    BY <1>5, <1>6, EveryRound
  <2>2. QED
    BY <2>1
<1>8. Reported(after[m], g, L, m)
  BY <1>7 DEF S
<1>9. Describes(L, g, Named, LineKinds)
  BY <1>1, LinesDescribe
<1>10. \E i \in 1 .. m : HeadLine(g, L[i])
  <2>1. CASE g.head = NoName
    <3>1. Exists(g, Detached) /\ Detached \in Named
      BY DEF Exists, Named
    <3>2. PICK i \in 1 .. m : Ref(L[i]) = Detached
      BY <1>4, <1>9, <3>1 DEF Describes
    <3>3. L[i].kind = "HEAD" /\ CurrentOf(g) = NoName
      BY <2>1, <3>2 DEF Ref, Detached, CurrentOf
    <3>4. QED
      BY <3>3 DEF HeadLine
  <2>2. CASE g.head # NoName
    <3>1. PICK r : r = <<"heads", g.head>>
      OBVIOUS
    <3>2. r \in Refs /\ g.refs[r] # NoId /\ r[1] = "heads" /\ r[2] = g.head
      BY <2>2, <3>1, HeadIdIs
    <3>3. r[1] \in Kinds /\ r[2] \in 1 .. NNames /\ r = <<r[1], r[2]>>
      BY <3>2, RefsAre
    <3>4. r \in Named /\ Exists(g, r)
      BY <3>2, <3>3 DEF Exists, Named
    <3>5. PICK i \in 1 .. m : Ref(L[i]) = r
      BY <1>4, <1>9, <3>4 DEF Describes
    <3>6. L[i].kind = "heads" /\ L[i].name = g.head /\ CurrentOf(g) = g.head
      BY <2>2, <3>2, <3>5 DEF Ref, CurrentOf
    <3>7. QED
      BY <3>6 DEF HeadLine
  <2>3. QED
    BY <2>1, <2>2
<1>11. QED
  BY <1>1, <1>2, <1>8, <1>10 DEF Reported

LEMMA CleanedUpIs ==
  ASSUME NEW t \in Tables, NEW u, u = CleanedUp(t)
  PROVE  /\ u \in Tables /\ u.list = t.list /\ u.head = t.head /\ t.changed \subseteq u.changed
         /\ Valid(u) = Valid(t) /\ \A k \in Valid(t) : u.ref[k] = t.ref[k]
<1>1. PICK ref : ref = [k \in DOMAIN t.ref |-> IF t.ref[k].valid THEN t.ref[k] ELSE [t.ref[k] EXCEPT !.id = NoId]]
  OBVIOUS
<1>2. PICK changed : changed = t.changed \cup (IF \E k \in DOMAIN t.ref : ~t.ref[k].valid THEN {"refs"} ELSE {})
  OBVIOUS
<1>3. u = [t EXCEPT !.ref = ref, !.changed = changed]
  BY <1>1, <1>2 DEF CleanedUp
<1>4. DOMAIN t.ref \subseteq Keys /\ \A k \in DOMAIN t.ref : t.ref[k] \in Entries
  BY TableIs
<1>5. NoId \in Ids
  BY RefsAssumption DEF Ids, NoId
<1>6. \A k \in DOMAIN t.ref : ref[k] \in Entries /\ (ref[k].valid <=> t.ref[k].valid) /\ (t.ref[k].valid => ref[k] = t.ref[k])
  BY <1>1, <1>4, <1>5 DEF Entries
<1>7. DOMAIN ref = DOMAIN t.ref
  BY <1>1
<1>8. ref \in Entered
  <2>1. ref \in [DOMAIN t.ref -> Entries]
    BY <1>1, <1>6
  <2>2. QED
    BY <1>4, <2>1 DEF Entered
<1>9. changed \subseteq {"refs", "head"} /\ t.changed \subseteq changed
  BY <1>2 DEF Tables
<1>10. u \in Tables /\ u.list = t.list /\ u.head = t.head /\ u.ref = ref /\ u.changed = changed
  BY <1>3, <1>8, <1>9 DEF Tables
<1>11. Valid(u) = Valid(t) /\ \A k \in Valid(t) : u.ref[k] = t.ref[k]
  BY <1>6, <1>7, <1>10 DEF Valid
<1>12. QED
  BY <1>9, <1>10, <1>11

LEMMA ReloadedIs ==
  ASSUME NEW t \in Tables, NEW g \in Repositories, NEW u, u = Reloaded(t, g)
  PROVE  /\ u \in Tables
         /\ Clear(g) => ListsRight(u) /\ TableOf(u, g) /\ HeadOf(u, g)
         /\ HeadId(g) # NoId => "head" \in u.changed
<1>1. PICK after : RefCourse(after, t, g) /\ u = CleanedUp(after[Len(Lines(g))])
  BY CourseOfReloaded DEF HasRefCourse
<1>2. PICK L, m : L = Lines(g) /\ m = Len(L)
  OBVIOUS
<1>3. PICK a : a = after[m]
  OBVIOUS
<1>4. a \in Tables
  <2>1. m \in 0 .. m
    BY <1>2, LinesTyped
  <2>2. QED
    BY <1>1, <1>2, <1>3, <2>1 DEF RefCourse
<1>5. u = CleanedUp(a)
  BY <1>1, <1>2, <1>3
<1>6. /\ u \in Tables /\ u.list = a.list /\ u.head = a.head /\ a.changed \subseteq u.changed
      /\ Valid(u) = Valid(a) /\ \A k \in Valid(a) : u.ref[k] = a.ref[k]
  BY <1>4, <1>5, CleanedUpIs
<1>7. ASSUME HeadId(g) # NoId PROVE "head" \in u.changed
  BY <1>1, <1>2, <1>3, <1>6, <1>7, HeadIsReported
<1>8. ASSUME Clear(g) PROVE ListsRight(u) /\ TableOf(u, g) /\ HeadOf(u, g)
  <2>1. Track(a, g, L, m)
    BY <1>1, <1>2, <1>3, <1>8, AllTracked
  <2>2. Loaded(a, g, L, m)
    BY <1>2, <1>8, <2>1 DEF Loaded
  <2>3. TableOf(a, g) /\ HeadOf(a, g) /\ ListsRight(a)
    BY <2>1, <2>2, TableFits, HeadFits DEF Track
  <2>4. \A k \in Valid(a) : Told(u, k) = Told(a, k)
    BY <1>6 DEF Told
  <2>5. {Told(u, k) : k \in Valid(u) \ {Detached}} = {Told(a, k) : k \in Valid(a) \ {Detached}}
    BY <1>6, <2>4
  <2>6. TableOf(u, g)
    BY <2>3, <2>5 DEF TableOf
  <2>7. HeadOf(u, g)
    BY <1>6, <2>3 DEF HeadOf
  <2>8. ASSUME NEW id \in 1 .. 2 * NCommits PROVE ListIs(u, ListOf(u, id), {k \in Valid(u) : u.ref[k].id = id})
    <3>1. PICK ks : ks = {k \in Valid(a) : a.ref[k].id = id}
      OBVIOUS
    <3>2. ListIs(a, ListOf(a, id), ks)
      BY <2>3, <3>1 DEF ListsRight
    <3>3. ListOf(u, id) = ListOf(a, id)
      BY <1>6 DEF ListOf
    <3>4. \A k \in ks : u.ref[k].type = a.ref[k].type
      BY <1>6, <3>1
    <3>5. ListIs(u, ListOf(a, id), ks)
      BY <3>2, <3>4, ListStays
    <3>6. {k \in Valid(u) : u.ref[k].id = id} = ks
      BY <1>6, <3>1
    <3>7. QED
      BY <3>3, <3>5, <3>6
  <2>9. QED
    BY <2>6, <2>7, <2>8 DEF ListsRight
<1>9. QED
  BY <1>6, <1>7, <1>8

-------------------------------------------------------------------------------
(* The states.                                                             *)

\* What the next load starts from, and what the last one has left.
TypeInv ==
  /\ git \in Repositories /\ table \in Tables
  /\ last \in Loads /\ clear \in BOOLEAN /\ partial \in 0 .. MaxPartial
LoadInv ==
  /\ clear => ListsRight(table)
  /\ last = "all refs" /\ Clear(git) => TableOf(table, git) /\ HeadOf(table, git)
  /\ last = "HEAD" /\ table.current # NoName => HeadRight
IInv == TypeInv /\ LoadInv

LEMMA EmptyTableTyped == EmptyTable \in Tables
<1>1. PICK ref : ref = [k \in {} |-> Entry(NoId, "head", FALSE)]
  OBVIOUS
<1>2. PICK list : list = [c \in {} |-> <<>>]
  OBVIOUS
<1>3. ref \in Entered
  <2>1. ref \in [{} -> Entries]
    BY <1>1
  <2>2. QED
    BY <2>1 DEF Entered
<1>4. list \in Lists
  <2>1. list \in [{} -> Seq(Keys)]
    BY <1>2
  <2>2. QED
    BY <2>1 DEF Lists
<1>5. NoKey \in Keys /\ NoName \in Nat
  BY DEF NoKey, NoName, Keys
<1>6. EmptyTable = [ref |-> ref, list |-> list, head |-> NoKey, current |-> NoName, changed |-> {}]
  BY <1>1, <1>2 DEF EmptyTable
<1>7. QED
  BY <1>3, <1>4, <1>5, <1>6 DEF Tables

\* Where HEAD cannot be resolved, all but the branch is seen as it is.
LEMMA SeenIs ==
  ASSUME NEW g \in Repositories, NEW seen \in Seen(g)
  PROVE  /\ seen \in Repositories
         /\ HeadId(seen) = HeadId(g)
         /\ seen.refs = g.refs /\ seen.replaced = g.replaced
         /\ Clear(seen) <=> Clear(g)
         /\ CurrentOf(seen) # NoName => seen = g
<1>1. CASE seen = g
  BY <1>1
<1>2. CASE seen # g
  <2>1. seen = [g EXCEPT !.head = NoName, !.detached = HeadId(g)] /\ HeadId(g) # NoId
    BY <1>2 DEF Seen, Unresolved
  <2>2. HeadId(g) \in 0 .. NCommits
    <3>1. g.refs \in [Refs -> 0 .. NCommits] /\ g.detached \in 0 .. NCommits
      BY DEF Repositories
    <3>2. CASE g.head = NoName
      BY <3>1, <3>2 DEF HeadId
    <3>3. CASE g.head # NoName
      <4>1. PICK r \in Refs : r = <<"heads", g.head>> /\ HeadId(g) = g.refs[r]
        BY <3>3, HeadIdIs
      <4>2. QED
        BY <3>1, <4>1
    <3>4. QED
      BY <3>2, <3>3
  <2>3. /\ seen.head = NoName /\ seen.detached = HeadId(g)
        /\ seen.refs = g.refs /\ seen.replaced = g.replaced /\ seen.annotated = g.annotated
    BY <2>1 DEF Repositories
  <2>4. seen \in Repositories
    BY <2>1, <2>2, <2>3 DEF Repositories
  <2>5. HeadId(seen) = HeadId(g)
    BY <2>3 DEF HeadId
  <2>6. Clear(seen) <=> Clear(g)
    BY <2>3 DEF Clear, Shadowed
  <2>7. CurrentOf(seen) = NoName
    BY <2>3 DEF CurrentOf
  <2>8. QED
    BY <2>3, <2>4, <2>5, <2>6, <2>7
<1>3. QED
  BY <1>1, <1>2

LEMMA InitHolds == Init => IInv
<1> SUFFICES ASSUME Init PROVE IInv
  OBVIOUS
<1>1. PICK t, g : t = table /\ g = git
  OBVIOUS
<1>2. PICK e : e = EmptyTable /\ e \in Tables
  BY EmptyTableTyped
<1>3. g \in Repositories /\ t = Reloaded(e, g) /\ last = "all refs" /\ clear = Clear(g) /\ partial = 0
  BY <1>1, <1>2 DEF Init
<1>4. t \in Tables /\ (Clear(g) => ListsRight(t) /\ TableOf(t, g) /\ HeadOf(t, g))
  BY <1>2, <1>3, ReloadedIs
<1>5. Clear(g) \in BOOLEAN /\ 0 \in 0 .. MaxPartial
  BY RefsAssumption DEF Clear
<1>6. QED
  BY <1>1, <1>3, <1>4, <1>5 DEF IInv, TypeInv, LoadInv, Loads

\* A load of all refs starts anew, whatever the table was.
LEMMA LoadHolds ==
  ASSUME NEW g \in Repositories, TypeInv, Load(g)
  PROVE  IInv' /\ (HeadId(git') # NoId => table'.changed # {})
<1>1. PICK seen \in Seen(g) : table' = Reloaded(table, seen)
  BY DEF Load
<1>2. PICK t, u : t = table /\ u = table'
  OBVIOUS
<1>3. t \in Tables /\ u = Reloaded(t, seen)
  BY <1>1, <1>2 DEF TypeInv
<1>4. git' = g /\ last' = "all refs" /\ clear' = Clear(g) /\ partial' = 0
  BY DEF Load, Moved
<1>5. /\ seen \in Repositories /\ HeadId(seen) = HeadId(g) /\ seen.refs = g.refs
      /\ Clear(seen) <=> Clear(g)
  BY SeenIs
<1>6. /\ u \in Tables /\ (Clear(seen) => ListsRight(u) /\ TableOf(u, seen) /\ HeadOf(u, seen))
      /\ HeadId(seen) # NoId => "head" \in u.changed
  BY <1>3, <1>5, ReloadedIs
<1>7. ASSUME Clear(g) PROVE ListsRight(u) /\ TableOf(u, g) /\ HeadOf(u, g)
  <2>1. ListsRight(u) /\ TableOf(u, seen) /\ HeadOf(u, seen)
    BY <1>5, <1>6, <1>7
  <2>2. TableOf(u, g)
    BY <1>5, <2>1 DEF TableOf, Had
  <2>3. HeadOf(u, g)
    BY <1>5, <2>1 DEF HeadOf
  <2>4. QED
    BY <2>1, <2>2, <2>3
<1>8. Clear(g) \in BOOLEAN /\ 0 \in 0 .. MaxPartial
  BY RefsAssumption DEF Clear
<1>9. TypeInv'
  BY <1>2, <1>4, <1>6, <1>8 DEF TypeInv, Loads
<1>10. LoadInv'
  BY <1>2, <1>4, <1>7 DEF LoadInv
<1>11. HeadId(git') # NoId => table'.changed # {}
  BY <1>2, <1>4, <1>5, <1>6
<1>12. QED
  BY <1>9, <1>10, <1>11 DEF IInv

LEMMA PartialIs ==
  ASSUME partial \in 0 .. MaxPartial, Partial
  PROVE  partial' \in 0 .. MaxPartial
BY RefsAssumption DEF Partial

\* A load that fails leaves no valid entry and no list.
LEMMA FailureHolds ==
  ASSUME NEW g \in Repositories, TypeInv, LoadFails(g)
  PROVE  IInv' /\ last' = "nothing"
<1>1. PICK seen \in Seen(g) : table' = Begun(table, seen)
  BY DEF LoadFails
<1>2. PICK t, u : t = table /\ u = table'
  OBVIOUS
<1>3. git' = g /\ last' = "nothing" /\ clear' = TRUE /\ Partial
  BY DEF LoadFails, Moved
<1>4. seen \in Repositories /\ t \in Tables
  BY <1>2, SeenIs DEF TypeInv
<1>5. u \in Tables /\ Fresh(u, seen)
  BY <1>1, <1>2, <1>4, BegunIs
<1>6. ListsRight(u)
  <2>1. Track(u, seen, <<>>, 0)
    BY <1>5, FreshTracks
  <2>2. QED
    BY <2>1 DEF Track
<1>7. TypeInv'
  BY <1>2, <1>3, <1>5, PartialIs DEF TypeInv, Loads
<1>8. LoadInv'
  BY <1>2, <1>3, <1>6 DEF LoadInv
<1>9. QED
  BY <1>3, <1>7, <1>8 DEF IInv

\* Reading HEAD alone puts its branch where it belongs, whatever is there.
LEMMA LoadHeadHolds ==
  ASSUME NEW g \in Repositories, IInv, LoadHead(g)
  PROVE  IInv' /\ last' = "HEAD"
<1>1. PICK seen \in Seen(g) : table' = [HeadLoaded(table, seen) EXCEPT !.changed = {}]
  BY DEF LoadHead
<1>2. PICK t, u, v : t = table /\ u = table' /\ v = HeadLoaded(t, seen)
  OBVIOUS
<1>3. git' = g /\ last' = "HEAD" /\ clear' = clear /\ Partial
  BY DEF LoadHead, Moved
<1>4. /\ seen \in Repositories /\ HeadId(seen) = HeadId(g)
      /\ t \in Tables /\ (clear => ListsRight(t))
  BY <1>2, SeenIs DEF IInv, TypeInv, LoadInv
<1>5. /\ v \in Tables /\ v.current = CurrentOf(seen)
      /\ ListsRight(t) => ListsRight(v)
      /\ CurrentOf(seen) # NoName =>
           HeadId(seen) # NoId /\ v.head # NoKey /\ v.head \in Valid(v) /\ v.ref[v.head].id = HeadId(seen)
  BY <1>2, <1>4, HeadLoadedIs
<1>6. u = [v EXCEPT !.changed = {}]
  BY <1>1, <1>2
<1>7. /\ u \in Tables /\ u.ref = v.ref /\ u.list = v.list /\ u.head = v.head /\ u.current = v.current
  BY <1>5, <1>6 DEF Tables
<1>8. Valid(u) = Valid(v) /\ \A x : ListOf(u, x) = ListOf(v, x)
  BY <1>7 DEF Valid, ListOf
<1>9. ASSUME ListsRight(v) PROVE ListsRight(u)
  <2>1. ASSUME NEW x \in 1 .. 2 * NCommits PROVE ListIs(u, ListOf(u, x), {j \in Valid(u) : u.ref[j].id = x})
    <3>1. PICK ks : ks = {j \in Valid(v) : v.ref[j].id = x}
      OBVIOUS
    <3>2. ListIs(v, ListOf(v, x), ks)
      BY <1>9, <3>1 DEF ListsRight
    <3>3. ListIs(u, ListOf(v, x), ks)
      BY <1>7, <3>2, ListStays
    <3>4. {j \in Valid(u) : u.ref[j].id = x} = ks
      BY <1>7, <1>8, <3>1
    <3>5. QED
      BY <1>8, <3>3, <3>4
  <2>2. QED
    BY <2>1 DEF ListsRight
<1>10. ASSUME u.current # NoName PROVE HeadRight'
  BY <1>2, <1>3, <1>4, <1>5, <1>7, <1>8, <1>10 DEF HeadRight
<1>11. TypeInv'
  BY <1>2, <1>3, <1>7, PartialIs DEF TypeInv, IInv, Loads
<1>12. LoadInv'
  BY <1>2, <1>3, <1>4, <1>5, <1>9, <1>10 DEF LoadInv
<1>13. QED
  BY <1>3, <1>11, <1>12 DEF IInv

LEMMA NextHolds == IInv /\ [Next]_vars => IInv'
<1> SUFFICES ASSUME IInv, [Next]_vars PROVE IInv'
  OBVIOUS
<1>1. ASSUME NEW g \in Repositories, Load(g) PROVE IInv'
  BY <1>1, LoadHolds DEF IInv
<1>2. ASSUME NEW g \in Repositories, LoadFails(g) PROVE IInv'
  BY <1>2, FailureHolds DEF IInv
<1>3. ASSUME NEW g \in Repositories, LoadHead(g) PROVE IInv'
  BY <1>3, LoadHeadHolds
<1>4. CASE UNCHANGED vars
  BY <1>4 DEF IInv, TypeInv, LoadInv, HeadRight, vars
<1>5. QED
  BY <1>1, <1>2, <1>3, <1>4 DEF Next

\* The table of refs keeps its shape, and what a load has left is right.
THEOREM LoadsHold == Spec => []IInv
<1>1. QED
  BY InitHolds, NextHolds, PTL DEF Spec

\* For any refs, names, commits and number of refs that move at a time: after
\* a load of all refs the valid entries are the refs git has and their
\* commits, whatever the loads before it have left in the table.
THEOREM TableFollowsGit == Spec => []TableIsGit
<1>1. IInv => TableIsGit
  <2> SUFFICES ASSUME IInv, last = "all refs", Clear(git) PROVE TableOf(table, git)
    BY DEF TableIsGit, TableOf, Told, Had
  <2>1. QED
    BY DEF IInv, LoadInv
<1>2. QED
  BY <1>1, LoadsHold, PTL

\* The list of refs of a commit is the valid entries of it, each once and in
\* their order, after a load, after one that has failed and after HEAD has
\* been read alone, in any order.
THEOREM ListsFollowTable == Spec => []ListsAreTable
<1>1. IInv => ListsAreTable
  <2> SUFFICES ASSUME IInv, clear, NEW id \in 1 .. 2 * NCommits
               PROVE  /\ Range(ListOf(table, id)) = {k \in Valid(table) : table.ref[k].id = id}
                      /\ \A i, j \in DOMAIN ListOf(table, id) : i < j =>
                           /\ ListOf(table, id)[i] # ListOf(table, id)[j]
                           /\ RefBefore(table, ListOf(table, id)[i], ListOf(table, id)[j])
    BY DEF ListsAreTable
  <2>1. ListIs(table, ListOf(table, id), {k \in Valid(table) : table.ref[k].id = id})
    BY DEF IInv, LoadInv, ListsRight
  <2>2. QED
    BY <2>1 DEF ListIs
<1>2. QED
  BY <1>1, LoadsHold, PTL

\* The head of the table is the one entry of type head, and where HEAD leads;
\* after HEAD has been read alone it is where HEAD leads, if a branch is
\* checked out.
THEOREM HeadFollowsGit == Spec => []HeadKnown
<1>1. IInv => HeadKnown
  <2> SUFFICES ASSUME IInv PROVE HeadKnown
    OBVIOUS
  <2>1. ASSUME last = "all refs", Clear(git)
        PROVE  HeadRight /\ \A k \in Valid(table) : table.ref[k].type = "head" => k = table.head
    <3>1. HeadOf(table, git)
      BY <2>1 DEF IInv, LoadInv
    <3>2. QED
      BY <3>1 DEF HeadOf, HeadRight
  <2>2. ASSUME last = "HEAD", table.current # NoName PROVE HeadRight
    BY <2>2 DEF IInv, LoadInv
  <2>3. QED
    BY <2>1, <2>2 DEF HeadKnown
<1>2. QED
  BY <1>1, LoadsHold, PTL

\* A load of all refs that changes what is drawn of them reports something,
\* also when commits are replaced and branches hidden.
THEOREM LoadsReport == Spec => ChangesReported
<1>1. ASSUME IInv, [Next]_vars
      PROVE  [last' = "all refs" /\ HeadId(git') # NoId /\ Drawn(table') # Drawn(table) => table'.changed # {}]_vars
  <2>1. ASSUME NEW g \in Repositories, LoadFails(g) PROVE last' # "all refs"
    BY <2>1 DEF LoadFails
  <2>2. ASSUME NEW g \in Repositories, LoadHead(g) PROVE last' # "all refs"
    BY <2>2 DEF LoadHead
  <2>3. ASSUME NEW g \in Repositories, Load(g) PROVE HeadId(git') # NoId => table'.changed # {}
    BY <1>1, <2>3, LoadHolds DEF IInv
  <2>4. CASE UNCHANGED vars
    BY <2>4
  <2>5. QED
    BY <1>1, <2>1, <2>2, <2>3, <2>4 DEF Next
<1>2. QED
  BY <1>1, LoadsHold, PTL DEF Spec, ChangesReported
================================================================================
