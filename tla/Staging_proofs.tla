--------------------------- MODULE Staging_proofs ---------------------------
(***************************************************************************)
(* A request on a chunk changes only what was selected, and the line       *)
(* numbers of the view are right, for files of any number and contents,    *)
(* any context, and diffs that are old, incomplete or cut at any place.    *)
(*                                                                         *)
(* The first is a fact about each state (ChangesAreSelected), which rests  *)
(* on nothing but types (Typed): what is written as a patch has no changes *)
(* but the selected ones (PatchOfSelected), and whatever git finds in the  *)
(* file, applying the patch takes out only lines the patch removes and     *)
(* puts in only lines it adds (OnlyPatchedLines).                          *)
(*                                                                         *)
(* The second needs to know what the lines of the view are: they lead,     *)
(* from place to place, through the files that git diff looked at          *)
(* (Mapped).  What git prints does (ShownLeads), because the script of a   *)
(* diff goes through both files (ScriptTells); and splitting a chunk,      *)
(* wherever it cuts, leads where the chunk led (SplitLeads).  Loops are    *)
(* followed by rounds.                                                     *)
(***************************************************************************)
EXTENDS Staging, Rounds_proofs, FiniteSetTheorems
-----------------------------------------------------------------------------
(***************************************************************************)
(* Sequences: what is in them.                                             *)
(***************************************************************************)
LEMMA ElementsOf ==
  ASSUME NEW T, NEW s \in Seq(T)
  PROVE  ToSet(s) \subseteq T /\ ToSet(s) = {s[i] : i \in 1 .. Len(s)}
BY DEF ToSet

\* A sequence over a set is one over any larger set.
LEMMA SeqOfMore ==
  ASSUME NEW S, NEW T, S \subseteq T, NEW s \in Seq(S)
  PROVE  s \in Seq(T)
<1>1. Len(s) \in Nat /\ DOMAIN s = 1 .. Len(s) /\ \A i \in 1 .. Len(s) : s[i] \in S
  OBVIOUS
<1>2. s \in [1 .. Len(s) -> T]
  BY <1>1
<1>3. QED
  BY <1>1, <1>2

\* A concatenation has the elements of both parts.
LEMMA ElementsOfConcat ==
  ASSUME NEW T, NEW a \in Seq(T), NEW b \in Seq(T)
  PROVE  a \o b \in Seq(T) /\ ToSet(a \o b) = ToSet(a) \cup ToSet(b)
<1>1. a \o b \in Seq(T) /\ Len(a \o b) = Len(a) + Len(b)
      /\ \A i \in 1 .. Len(a) + Len(b) : (a \o b)[i] = IF i <= Len(a) THEN a[i] ELSE b[i - Len(a)]
  OBVIOUS
<1>2. ASSUME NEW t \in ToSet(a \o b) PROVE t \in ToSet(a) \cup ToSet(b)
  <2>1. PICK i \in 1 .. Len(a) + Len(b) : t = (a \o b)[i]
    BY <1>1 DEF ToSet
  <2>2. CASE i <= Len(a)
    BY <1>1, <2>1, <2>2 DEF ToSet
  <2>3. CASE ~(i <= Len(a))
    <3>1. i - Len(a) \in 1 .. Len(b) /\ t = b[i - Len(a)]
      BY <1>1, <2>1, <2>3
    <3>2. QED
      BY <3>1 DEF ToSet
  <2>4. QED
    BY <2>2, <2>3
<1>3. ASSUME NEW t \in ToSet(a) PROVE t \in ToSet(a \o b)
  <2>1. PICK i \in 1 .. Len(a) : t = a[i]
    BY DEF ToSet
  <2>2. i \in 1 .. Len(a) + Len(b) /\ (a \o b)[i] = t
    BY <1>1, <2>1
  <2>3. QED
    BY <1>1, <2>2 DEF ToSet
<1>4. ASSUME NEW t \in ToSet(b) PROVE t \in ToSet(a \o b)
  <2>1. PICK i \in 1 .. Len(b) : t = b[i]
    BY DEF ToSet
  <2>2. Len(a) + i \in 1 .. Len(a) + Len(b) /\ ~(Len(a) + i <= Len(a)) /\ Len(a) + i - Len(a) = i
    OBVIOUS
  <2>3. (a \o b)[Len(a) + i] = t
    BY <1>1, <2>1, <2>2
  <2>4. QED
    BY <1>1, <2>2, <2>3 DEF ToSet
<1>5. QED
  BY <1>1, <1>2, <1>3, <1>4

\* What FlattenSeq has joined after each part.
Joins(h, n, s) == \A i \in 1 .. n : h[i] = IF i = 1 THEN s[i] ELSE h[i - 1] \o s[i]

\* FlattenSeq adds one part after the other.
LEMMA FlattenCourse ==
  ASSUME NEW T, NEW s \in Seq(Seq(T)), NEW n \in Nat, n = Len(s), n # 0
  PROVE  \E h : Joins(h, n, s) /\ FlattenSeq(s) = h[n]
<1> DEFINE Course(f) == f = [i \in 1 .. Len(s) |-> IF i = 1 THEN s[i] ELSE f[i - 1] \o s[i]]
           chosen == CHOOSE f : Course(f)
           step == [x \in Seq(T) \X (1 .. n) |-> x[1] \o s[x[2]]]
<1>1. FlattenSeq(s) = chosen[Len(s)]
  <2>1. ~(Len(s) = 0)
    OBVIOUS
  <2>2. QED
    BY <2>1, Zenon DEF FlattenSeq
<1>2. \A i \in 1 .. n : s[i] \in Seq(T)
  OBVIOUS
<1>3. step \in [Seq(T) \X (1 .. n) -> Seq(T)]
  <2>1. ASSUME NEW x \in Seq(T) \X (1 .. n) PROVE x[1] \o s[x[2]] \in Seq(T)
    BY <1>2
  <2>2. QED
    BY <2>1
<1>4. \A q \in Seq(T), i \in 1 .. n : step[<<q, i>>] = q \o s[i]
  OBVIOUS
<1> HIDE DEF step
<1>5. PICK f \in [0 .. n -> Seq(T)] : f[0] = <<>> /\ \A i \in 1 .. n : f[i] = step[<<f[i - 1], i>>]
  <2>1. PICK U : U = Seq(T)
    OBVIOUS
  <2>2. PICK st : st = step
    OBVIOUS
  <2>3. PICK first : first = <<>>
    OBVIOUS
  <2>4. st \in [U \X (1 .. n) -> U] /\ first \in U
    <3>1. st \in [U \X (1 .. n) -> U]
      BY <1>3, <2>1, <2>2
    <3>2. <<>> \in Seq(T)
      OBVIOUS
    <3>3. QED
      BY <2>1, <2>3, <3>1, <3>2
  <2>5. HasRounds(n, U, first, st)
    BY <2>4, RoundsExist
  <2>6. QED
    BY <2>1, <2>2, <2>3, <2>5 DEF HasRounds, Rounds
<1>6. \A i \in 1 .. n : f[i - 1] \in Seq(T) /\ f[i] = f[i - 1] \o s[i]
  <2>1. TAKE i \in 1 .. n
  <2>2. i - 1 \in 0 .. n
    OBVIOUS
  <2>3. QED
    BY <1>4, <1>5, <2>2
<1> DEFINE g == [i \in 1 .. n |-> f[i]]
<1>7. Course(g)
  <2>1. ASSUME NEW i \in 1 .. n PROVE g[i] = IF i = 1 THEN s[i] ELSE g[i - 1] \o s[i]
    <3>1. CASE i = 1
      <4>1. i - 1 = 0 /\ g[i] = f[i]
        BY <3>1
      <4>2. f[i] = f[0] \o s[i] /\ f[0] = <<>> /\ s[i] \in Seq(T)
        BY <1>2, <1>5, <1>6, <4>1
      <4>3. <<>> \o s[i] = s[i]
        BY <4>2
      <4>4. QED
        BY <3>1, <4>1, <4>2, <4>3
    <3>2. CASE i # 1
      <4>1. i - 1 \in 1 .. n
        BY <3>2
      <4>2. QED
        BY <1>6, <3>2, <4>1
    <3>3. QED
      BY <3>1, <3>2
  <2>2. QED
    BY <2>1
<1>8. Course(chosen)
  <2> HIDE DEF Course, g
  <2>1. QED
    BY <1>7
<1>9. PICK h : h = chosen /\ h = [i \in 1 .. n |-> IF i = 1 THEN s[i] ELSE h[i - 1] \o s[i]]
  BY <1>8
<1> HIDE DEF Course
<1>10. Joins(h, n, s) /\ FlattenSeq(s) = h[n]
  <2>1. \A i \in 1 .. n : h[i] = IF i = 1 THEN s[i] ELSE h[i - 1] \o s[i]
    BY <1>9
  <2>2. QED
    BY <1>1, <1>9, <2>1 DEF Joins
<1> HIDE DEF chosen
<1>11. QED
  BY <1>10

\* Of no parts it makes nothing.
LEMMA FlattenedNothing ==
  ASSUME NEW T, NEW s \in Seq(T), Len(s) = 0
  PROVE  FlattenSeq(s) = <<>>
<1>1. s = <<>>
  OBVIOUS
<1>2. FlattenSeq(s) = s
  BY <1>1, Zenon DEF FlattenSeq
<1>3. QED
  BY <1>1, <1>2

\* FlattenSeq has the elements of its parts.
LEMMA Flattened ==
  ASSUME NEW T, NEW s \in Seq(Seq(T)), NEW n \in Nat, n = Len(s)
  PROVE  /\ FlattenSeq(s) \in Seq(T)
         /\ \A t : t \in ToSet(FlattenSeq(s)) <=> \E i \in 1 .. n : t \in ToSet(s[i])
<1>1. CASE n = 0
  <2>1. FlattenSeq(s) = <<>>
    BY <1>1, FlattenedNothing
  <2>2. QED
    BY <1>1, <2>1 DEF ToSet
<1>2. CASE n # 0
  <2>1. PICK h : Joins(h, n, s) /\ FlattenSeq(s) = h[n]
    BY <1>2, FlattenCourse
  <2>2. \A i \in 1 .. n : s[i] \in Seq(T) /\ h[i] = IF i = 1 THEN s[i] ELSE h[i - 1] \o s[i]
    BY <2>1 DEF Joins
  <2> DEFINE Holds(k) == /\ h[k] \in Seq(T)
                         /\ \A t : t \in ToSet(h[k]) <=> \E i \in 1 .. k : t \in ToSet(s[i])
             S == {k \in 0 .. n : k = 0 \/ Holds(k)}
  <2>3. ASSUME NEW k \in 1 .. n, k - 1 \in S PROVE k \in S
    <3>1. CASE k = 1
      <4>1. h[k] = s[1]
        BY <2>2, <3>1
      <4>2. Holds(k)
        BY <2>2, <3>1, <4>1
      <4>3. QED
        BY <4>2
    <3>2. CASE k # 1
      <4>1. Holds(k - 1)
        BY <2>3, <3>2
      <4>2. h[k] = h[k - 1] \o s[k]
        BY <2>2, <3>2
      <4>3. h[k] \in Seq(T) /\ ToSet(h[k]) = ToSet(h[k - 1]) \cup ToSet(s[k])
        BY <2>2, <4>1, <4>2, ElementsOfConcat
      <4>4. ASSUME NEW t PROVE t \in ToSet(h[k]) <=> \E i \in 1 .. k : t \in ToSet(s[i])
        <5>1. t \in ToSet(h[k - 1]) <=> \E i \in 1 .. k - 1 : t \in ToSet(s[i])
          BY <4>1
        <5>2. 1 .. k = (1 .. k - 1) \cup {k}
          OBVIOUS
        <5>3. QED
          BY <4>3, <5>1, <5>2
      <4>5. Holds(k)
        BY <4>3, <4>4
      <4> HIDE DEF Holds
      <4>6. QED
        BY <4>5
    <3>3. QED
      BY <3>1, <3>2
  <2>4. n \in S
    <3>1. 0 \in S
      OBVIOUS
    <3> HIDE DEF S
    <3>2. \A k \in 0 .. n : k \in S
      BY <2>3, <3>1, EveryRound
    <3>3. QED
      BY <3>2
  <2>5. QED
    BY <1>2, <2>1, <2>2, <2>4
<1>3. QED
  BY <1>1, <1>2

\* The same when the parts are given by number.
LEMMA FlattenedParts ==
  ASSUME NEW T, NEW n \in Nat, NEW s, s \in [1 .. n -> Seq(T)]
  PROVE  /\ FlattenSeq(s) \in Seq(T)
         /\ \A t : t \in ToSet(FlattenSeq(s)) <=> \E i \in 1 .. n : t \in ToSet(s[i])
<1>1. s \in Seq(Seq(T)) /\ Len(s) = n
  OBVIOUS
<1>2. QED
  BY ONLY <1>1, n \in Nat, Flattened

\* A part of a sequence has elements of the sequence.
LEMMA ElementsOfSubSeq ==
  ASSUME NEW T, NEW s \in Seq(T), NEW from \in Int, NEW to \in Int, from >= 1, to <= Len(s)
  PROVE  /\ SubSeq(s, from, to) \in Seq(T)
         /\ Len(SubSeq(s, from, to)) = IF from <= to THEN to - from + 1 ELSE 0
         /\ \A i \in 1 .. Len(SubSeq(s, from, to)) : SubSeq(s, from, to)[i] = s[from + i - 1]
OBVIOUS

\* Where the elements of a concatenation come from, and that they make it.
LEMMA ConcatIs ==
  ASSUME NEW T, NEW s \in Seq(T), NEW a \in Seq(T), NEW b \in Seq(T),
         Len(s) = Len(a) + Len(b),
         \A i \in 1 .. Len(a) : a[i] = s[i], \A i \in 1 .. Len(b) : b[i] = s[Len(a) + i]
  PROVE  a \o b = s
<1>0. PICK k, m \in Nat : k = Len(a) /\ m = Len(b)
  OBVIOUS
<1>1. PICK c : c = a \o b
  OBVIOUS
<1>2. /\ c \in Seq(T) /\ Len(c) = k + m
      /\ \A i \in 1 .. k : c[i] = a[i]
      /\ \A i \in 1 .. m : c[k + i] = b[i]
  BY <1>0, <1>1
<1>3. ASSUME NEW i \in 1 .. k + m PROVE c[i] = s[i]
  <2>1. CASE i <= k
    <3>1. i \in 1 .. k
      BY <2>1
    <3>2. QED
      BY <1>0, <1>2, <3>1
  <2>2. CASE ~(i <= k)
    <3>1. i - k \in 1 .. m /\ k + (i - k) = i
      BY <2>2
    <3>2. PICK j \in 1 .. m : k + j = i
      BY <3>1
    <3>3. QED
      BY <1>0, <1>2, <3>2
  <2>3. QED
    BY <2>1, <2>2
<1>4. c \in [1 .. k + m -> T] /\ s \in [1 .. k + m -> T]
  BY <1>0, <1>2
<1>5. QED
  BY <1>1, <1>3, <1>4

\* A sequence is its first part and then the rest of it.
LEMMA InTwo ==
  ASSUME NEW T, NEW s \in Seq(T), NEW n \in 1 .. Len(s)
  PROVE  /\ SubSeq(s, 1, n) \in Seq(T) /\ SubSeq(s, n + 1, Len(s)) \in Seq(T)
         /\ SubSeq(s, 1, n) \o SubSeq(s, n + 1, Len(s)) = s
<1>1. PICK a, b : a = SubSeq(s, 1, n) /\ b = SubSeq(s, n + 1, Len(s))
  OBVIOUS
<1>2. PICK m \in Nat : m = Len(s) - n
  <2>1. Len(s) - n \in Nat
    OBVIOUS
  <2>2. QED
    BY <2>1
<1>3. /\ n \in Int /\ 1 \in Int /\ 1 >= 1 /\ n <= Len(s) /\ n + 1 \in Int /\ n + 1 >= 1 /\ n \in Nat
      /\ Len(s) \in Int /\ Len(s) <= Len(s) /\ Len(s) = n + m
  BY <1>2
<1>4. /\ a \in Seq(T) /\ Len(a) = IF 1 <= n THEN n - 1 + 1 ELSE 0
      /\ \A i \in 1 .. Len(a) : a[i] = s[1 + i - 1]
  BY <1>1, <1>3, ElementsOfSubSeq
<1>5. /\ b \in Seq(T) /\ Len(b) = IF n + 1 <= Len(s) THEN Len(s) - (n + 1) + 1 ELSE 0
      /\ \A i \in 1 .. Len(b) : b[i] = s[n + 1 + i - 1]
  BY <1>1, <1>3, ElementsOfSubSeq
<1>6. Len(a) = n /\ Len(b) = m
  BY <1>2, <1>4, <1>5
<1>7. \A i \in 1 .. n : a[i] = s[i]
  <2>1. \A i \in 1 .. n : 1 + i - 1 = i
    OBVIOUS
  <2>2. QED
    BY <1>4, <1>6, <2>1
<1>8. \A i \in 1 .. m : b[i] = s[n + i]
  <2>1. \A i \in 1 .. m : n + 1 + i - 1 = n + i
    BY <1>2
  <2>2. QED
    BY <1>5, <1>6, <2>1
<1>9. a \o b = s
  <2>1. a \in Seq(T) /\ b \in Seq(T) /\ Len(s) = Len(a) + Len(b)
    BY <1>3, <1>4, <1>5, <1>6
  <2>2. \A i \in 1 .. Len(a) : a[i] = s[i]
    BY <1>6, <1>7
  <2>3. \A i \in 1 .. Len(b) : b[i] = s[Len(a) + i]
    BY <1>6, <1>8
  <2>4. QED
    BY ONLY <2>1, <2>2, <2>3, ConcatIs, s \in Seq(T)
<1>10. QED
  BY <1>1, <1>4, <1>5, <1>9

-----------------------------------------------------------------------------
(***************************************************************************)
(* The lines of a view.                                                    *)
(***************************************************************************)
ChunkHeaders == [kind : {"chunk"}, opos : Int, olines : Int, npos : Int, nlines : Int]
BodyLines == [kind : {"ctx", "del", "add"}, text : Nat] \cup [kind : {"noeol"}]
FileLines == [kind : ToSet(HeaderKinds), file : Names]
Line == ChunkHeaders \cup BodyLines \cup FileLines

\* What the kind of a line says of its fields.
LEMMA KindOfLine ==
  ASSUME NEW l \in Line
  PROVE  /\ l.kind \in {"ctx", "del", "add"} => l \in [kind : {"ctx", "del", "add"}, text : Nat]
         /\ l.kind = "chunk" => l \in ChunkHeaders
         /\ l.kind = "header" => l.file \in Names
<1>1. ToSet(HeaderKinds) = {"header", "index", "old", "new"}
  BY DEF ToSet, HeaderKinds
<1>2. QED
  BY <1>1 DEF Line, ChunkHeaders, BodyLines, FileLines

\* The number of a line does not depend on its sign.
LEMMA AbsIsNatural == \A n \in Int : Abs(n) \in Nat /\ Abs(-n) = Abs(n)
BY DEF Abs

\* A natural number is its own absolute value.
LEMMA AbsOfNatural == \A n \in Nat : Abs(n) = n /\ Abs(-n) = n
BY DEF Abs

\* Counting lines of some kinds gives a natural number.
LEMMA CountIsNatural ==
  ASSUME NEW T, NEW lines \in Seq(T), NEW kinds
  PROVE  Count(lines, kinds) \in Nat
<1> DEFINE S == {i \in DOMAIN lines : lines[i].kind \in kinds}
<1>1. S \subseteq 1 .. Len(lines) /\ Len(lines) \in Nat
  OBVIOUS
<1>2. IsFiniteSet(1 .. Len(lines))
  BY <1>1, FS_Interval
<1> HIDE DEF S
<1>3. IsFiniteSet(S)
  BY <1>1, <1>2, FS_Subset
<1>4. Cardinality(S) \in Nat
  BY <1>3, FS_CardinalityType
<1>5. QED
  BY <1>4 DEF Count, S

\* A bounded set of numbers that is not empty has a greatest one.
LEMMA GreatestOf ==
  ASSUME NEW n \in Nat, NEW S, S \subseteq 0 .. n, S # {}
  PROVE  Max(S) \in S /\ \A k \in S : k <= Max(S)
<1>1. PICK m \in S : \A k \in S : k <= m
  BY GreatestNatural
<1>2. \A k \in S : m >= k
  BY <1>1
<1>3. \E x \in S : \A y \in S : x >= y
  BY <1>2
<1>4. Max(S) \in S /\ \A y \in S : Max(S) >= y
  BY <1>3, Zenon DEF Max
<1>5. QED
  BY <1>4

\* A set of numbers that is not empty has a least one.
LEMMA LeastOf ==
  ASSUME NEW S, S \subseteq Nat, S # {}
  PROVE  Min(S) \in S /\ \A k \in S : Min(S) <= k
<1>1. \E m \in S : \A k \in S : m <= k
  BY LeastNatural
<1>2. QED
  BY <1>1, Zenon DEF Min

-----------------------------------------------------------------------------
(***************************************************************************)
(* git diff.                                                               *)
(***************************************************************************)
\* A script is of parts, each a line of the files at its place.
ScriptPart == [kind : {"ctx", "del", "add"}, line : Int, old : Nat \ {0}, new : Nat \ {0}]

\* What is known of a script when the next lines are old and new: its parts follow
\* each other, are lines of the files, and lead there.
Follows(script, i, old, new) ==
  /\ old = script[i].old + (IF script[i].kind = "add" THEN 0 ELSE 1)
  /\ new = script[i].new + (IF script[i].kind = "del" THEN 0 ELSE 1)
Placed(part, old, new) ==
  /\ part.kind # "add" => part.old <= Len(old) /\ old[part.old] = part.line
  /\ part.kind # "del" => part.new <= Len(new) /\ new[part.new] = part.line
Tells(script, old, new, o, n) ==
  /\ \A i \in 1 .. Len(script) : Placed(script[i], old, new)
  /\ \A i \in 1 .. Len(script) - 1 : Follows(script, i, script[i + 1].old, script[i + 1].new)
  /\ IF Len(script) = 0 THEN o = 1 /\ n = 1
     ELSE script[1].old = 1 /\ script[1].new = 1 /\ Follows(script, Len(script), o, n)
  /\ o <= Len(old) + 1 /\ n <= Len(new) + 1

ScriptStates == [script : Seq(ScriptPart), old : Nat \ {0}, new : Nat \ {0}]

\* A part more.
LEMMA PartAppended ==
  ASSUME NEW old \in Seq(Int), NEW new \in Seq(Int), NEW script \in Seq(ScriptPart),
         NEW o \in Nat \ {0}, NEW n \in Nat \ {0}, Tells(script, old, new, o, n),
         NEW part \in ScriptPart, part.old = o, part.new = n, Placed(part, old, new),
         NEW o2, o2 = IF part.kind = "add" THEN o ELSE o + 1,
         NEW n2, n2 = IF part.kind = "del" THEN n ELSE n + 1
  PROVE  /\ Append(script, part) \in Seq(ScriptPart)
         /\ Tells(Append(script, part), old, new, o2, n2)
<1>1. PICK longer : longer = Append(script, part)
  OBVIOUS
<1>2. PICK m \in Nat : m = Len(script)
  OBVIOUS
<1>3. /\ longer \in Seq(ScriptPart) /\ Len(longer) = m + 1 /\ longer[m + 1] = part
      /\ \A i \in 1 .. m : longer[i] = script[i]
  BY <1>1, <1>2
<1>4. ASSUME NEW i \in 1 .. m + 1 PROVE Placed(longer[i], old, new)
  <2>1. CASE i = m + 1
    BY <1>3, <2>1
  <2>2. CASE i # m + 1
    <3>1. i \in 1 .. m
      BY <2>2
    <3>2. QED
      BY <1>2, <1>3, <3>1 DEF Tells
  <2>3. QED
    BY <2>1, <2>2
<1>5. ASSUME NEW i \in 1 .. m
      PROVE  Follows(longer, i, longer[i + 1].old, longer[i + 1].new)
  <2>1. longer[i] = script[i]
    BY <1>3
  <2>2. CASE i = m
    <3>1. longer[i + 1].old = o /\ longer[i + 1].new = n
      BY <1>3, <2>2
    <3>2. Follows(script, i, o, n)
      BY <1>2, <2>2 DEF Tells
    <3>3. QED
      BY <2>1, <3>1, <3>2 DEF Follows
  <2>3. CASE i # m
    <3>1. i \in 1 .. m - 1 /\ i + 1 \in 1 .. m
      BY <2>3
    <3>2. longer[i + 1] = script[i + 1]
      BY <1>3, <3>1
    <3>3. Follows(script, i, script[i + 1].old, script[i + 1].new)
      BY <1>2, <3>1 DEF Tells
    <3>4. QED
      BY <2>1, <3>2, <3>3 DEF Follows
  <2>4. QED
    BY <2>2, <2>3
<1>6. longer[1].old = 1 /\ longer[1].new = 1
  <2>1. CASE m = 0
    BY <1>2, <1>3, <2>1 DEF Tells
  <2>2. CASE m # 0
    <3>1. 1 \in 1 .. m
      BY <2>2
    <3>2. QED
      BY <1>2, <1>3, <2>2, <3>1 DEF Tells
  <2>3. QED
    BY <2>1, <2>2
<1>7. Follows(longer, m + 1, o2, n2)
  BY <1>3 DEF Follows
<1>8. o2 <= Len(old) + 1 /\ n2 <= Len(new) + 1
  <2>1. o <= Len(old) + 1 /\ n <= Len(new) + 1
    BY DEF Tells
  <2>2. part.kind # "add" => o <= Len(old)
    BY DEF Placed
  <2>3. part.kind # "del" => n <= Len(new)
    BY DEF Placed
  <2>4. Len(old) \in Nat /\ Len(new) \in Nat
    OBVIOUS
  <2>5. QED
    BY <2>1, <2>2, <2>3, <2>4
<1>9. Tells(longer, old, new, o2, n2)
  BY <1>3, <1>4, <1>5, <1>6, <1>7, <1>8 DEF Tells
<1>10. QED
  BY <1>1, <1>3, <1>9

\* A step of making the script.
LEMMA StepTells ==
  ASSUME NEW old \in Seq(Int), NEW new \in Seq(Int), NEW s \in ScriptStates,
         Tells(s.script, old, new, s.old, s.new)
  PROVE  LET t == ScriptStep(old, new, s)
         IN  t \in ScriptStates /\ Tells(t.script, old, new, t.old, t.new)
<1> DEFINE goes == s.old <= Len(old) /\ \A n \in s.new .. Len(new) : new[n] # old[s.old]
           stays == s.old <= Len(old) /\ s.new <= Len(new) /\ old[s.old] = new[s.new]
           comes == ~goes /\ ~stays /\ s.new <= Len(new)
           Part(kind, n) == [kind |-> kind, line |-> n, old |-> s.old, new |-> s.new]
           t == ScriptStep(old, new, s)
<1>1. PICK script \in Seq(ScriptPart), o \in Nat \ {0}, n \in Nat \ {0} :
        s = [script |-> script, old |-> o, new |-> n]
  BY DEF ScriptStates
<1>2. Len(old) \in Nat /\ Len(new) \in Nat
  OBVIOUS
<1>3. Tells(script, old, new, o, n)
  BY <1>1
<1>4. goes => ~stays /\ ~comes
  <2>1. ASSUME goes, stays PROVE FALSE
    <3>1. n \in n .. Len(new)
      BY <1>1, <1>2, <2>1
    <3>2. QED
      BY <1>1, <2>1, <3>1
  <2>2. QED
    BY <2>1
<1>5. t = CASE goes -> [script |-> Append(s.script, Part("del", old[s.old])),
                        old |-> s.old + 1, new |-> s.new]
            [] comes -> [script |-> Append(s.script, Part("add", new[s.new])),
                         old |-> s.old, new |-> s.new + 1]
            [] stays -> [script |-> Append(s.script, Part("ctx", old[s.old])),
                         old |-> s.old + 1, new |-> s.new + 1]
            [] OTHER -> s
  BY DEF ScriptStep
<1>6. CASE goes
  <2>1. PICK part : part = [kind |-> "del", line |-> old[o], old |-> o, new |-> n]
    OBVIOUS
  <2>2. o \in 1 .. Len(old)
    BY <1>1, <1>2, <1>6
  <2>3. part \in ScriptPart /\ part.kind = "del" /\ part.old = o /\ part.new = n /\ Placed(part, old, new)
    BY <2>1, <2>2 DEF ScriptPart, Placed
  <2>4. Append(script, part) \in Seq(ScriptPart) /\ Tells(Append(script, part), old, new, o + 1, n)
    BY <1>3, <2>3, PartAppended
  <2>5. t = [script |-> Append(s.script, Part("del", old[s.old])), old |-> s.old + 1, new |-> s.new]
    BY <1>4, <1>5, <1>6
  <2>6. t = [script |-> Append(script, part), old |-> o + 1, new |-> n]
    BY <1>1, <2>1, <2>5
  <2>7. QED
    BY <2>4, <2>6 DEF ScriptStates
<1>7. CASE comes
  <2>1. PICK part : part = [kind |-> "add", line |-> new[n], old |-> o, new |-> n]
    OBVIOUS
  <2>2. n \in 1 .. Len(new)
    BY <1>1, <1>2, <1>7
  <2>3. part \in ScriptPart /\ part.kind = "add" /\ part.old = o /\ part.new = n /\ Placed(part, old, new)
    BY <2>1, <2>2 DEF ScriptPart, Placed
  <2>4. Append(script, part) \in Seq(ScriptPart) /\ Tells(Append(script, part), old, new, o, n + 1)
    BY <1>3, <2>3, PartAppended
  <2>5. t = [script |-> Append(s.script, Part("add", new[s.new])), old |-> s.old, new |-> s.new + 1]
    BY <1>4, <1>5, <1>7
  <2>6. t = [script |-> Append(script, part), old |-> o, new |-> n + 1]
    BY <1>1, <2>1, <2>5
  <2>7. QED
    BY <2>4, <2>6 DEF ScriptStates
<1>8. CASE stays
  <2>1. PICK part : part = [kind |-> "ctx", line |-> old[o], old |-> o, new |-> n]
    OBVIOUS
  <2>2. o \in 1 .. Len(old) /\ n \in 1 .. Len(new) /\ old[o] = new[n]
    BY <1>1, <1>2, <1>8
  <2>3. part \in ScriptPart /\ part.kind = "ctx" /\ part.old = o /\ part.new = n /\ Placed(part, old, new)
    BY <2>1, <2>2 DEF ScriptPart, Placed
  <2>4. Append(script, part) \in Seq(ScriptPart) /\ Tells(Append(script, part), old, new, o + 1, n + 1)
    BY <1>3, <2>3, PartAppended
  <2>5. ~goes /\ ~comes
    BY <1>4, <1>8
  <2>6. t = [script |-> Append(s.script, Part("ctx", old[s.old])), old |-> s.old + 1, new |-> s.new + 1]
    BY <1>5, <1>8, <2>5
  <2>7. t = [script |-> Append(script, part), old |-> o + 1, new |-> n + 1]
    BY <1>1, <2>1, <2>6
  <2>8. QED
    BY <2>4, <2>7 DEF ScriptStates
<1>9. CASE ~goes /\ ~comes /\ ~stays
  BY <1>5, <1>9
<1>10. QED
  BY <1>6, <1>7, <1>8, <1>9

\* The script of two files goes through both from their first lines.
LEMMA ScriptTells ==
  ASSUME NEW old \in Seq(Int), NEW new \in Seq(Int)
  PROVE  /\ Script(old, new) \in Seq(ScriptPart)
         /\ \E o, n \in Nat \ {0} : Tells(Script(old, new), old, new, o, n)
<1> DEFINE first == [script |-> <<>>, old |-> 1, new |-> 1]
           rounds == Len(old) + Len(new)
           Course(f) == f = [n \in 0 .. rounds |->
             IF n = 0 THEN first ELSE ScriptStep(old, new, f[n - 1])]
           chosen == CHOOSE f : Course(f)
           T == {s \in ScriptStates : Tells(s.script, old, new, s.old, s.new)}
           step == [x \in T \X (1 .. rounds) |-> ScriptStep(old, new, x[1])]
<1>1. Script(old, new) = chosen[rounds].script
  BY Zenon DEF Script
<1>2. rounds \in Nat
  <2>1. Len(old) \in Nat /\ Len(new) \in Nat
    OBVIOUS
  <2>2. QED
    BY <2>1
<1>3. first \in T
  <2>1. <<>> \in Seq(ScriptPart) /\ Len(<<>>) = 0
    OBVIOUS
  <2>2. first \in ScriptStates
    BY <2>1 DEF ScriptStates
  <2>3. Len(old) \in Nat /\ Len(new) \in Nat
    OBVIOUS
  <2>4. Tells(<<>>, old, new, 1, 1)
    BY <2>1, <2>3 DEF Tells
  <2>5. QED
    BY <2>2, <2>4
<1> HIDE DEF first
<1>4. ASSUME NEW s \in T PROVE ScriptStep(old, new, s) \in T
  BY StepTells
<1> HIDE DEF rounds, T
<1>5. /\ step \in [T \X (1 .. rounds) -> T]
      /\ \A s \in T, i \in 1 .. rounds : step[<<s, i>>] = ScriptStep(old, new, s)
  <2>1. \A s \in T, i \in 1 .. rounds : step[<<s, i>>] = ScriptStep(old, new, s)
    OBVIOUS
  <2>2. ASSUME NEW x \in T \X (1 .. rounds) PROVE ScriptStep(old, new, x[1]) \in T
    BY <1>4
  <2>3. QED
    BY <2>1, <2>2
<1> HIDE DEF step
<1>6. PICK f \in [0 .. rounds -> T] : f[0] = first /\ \A i \in 1 .. rounds : f[i] = step[<<f[i - 1], i>>]
  <2>1. HasRounds(rounds, T, first, step)
    BY <1>2, <1>3, <1>5, RoundsExist
  <2>2. QED
    BY <2>1 DEF HasRounds, Rounds
<1>7. Course(f)
  <2>1. ASSUME NEW i \in 0 .. rounds PROVE f[i] = IF i = 0 THEN first ELSE ScriptStep(old, new, f[i - 1])
    <3>1. CASE i = 0
      BY <1>6, <3>1
    <3>2. CASE i # 0
      <4>1. i \in 1 .. rounds /\ i - 1 \in 0 .. rounds
        BY <1>2, <3>2
      <4>2. QED
        BY <1>5, <1>6, <3>2, <4>1
    <3>3. QED
      BY <3>1, <3>2
  <2>2. QED
    BY <1>6, <2>1
<1>8. Course(chosen)
  <2> HIDE DEF Course
  <2>1. QED
    BY <1>7
<1>9. PICK h : h = chosen /\ Course(h)
  BY <1>8
<1> HIDE DEF chosen
<1> DEFINE S == {k \in 0 .. rounds : h[k] \in T}
<1>10. 0 \in S
  BY <1>2, <1>3, <1>9
<1>11. ASSUME NEW k \in 1 .. rounds, k - 1 \in S PROVE k \in S
  <2>1. k \in 0 .. rounds /\ k # 0
    BY <1>2
  <2>2. h[k] = ScriptStep(old, new, h[k - 1])
    BY <1>9, <2>1
  <2>3. QED
    BY <1>4, <1>11, <2>1, <2>2
<1> HIDE DEF Course
<1>12. h[rounds] \in T
  <2>1. \A k \in 0 .. rounds : k \in S
    <3> HIDE DEF S
    <3>1. QED
      BY <1>2, <1>10, <1>11, EveryRound
  <2>2. QED
    BY <1>2, <2>1
<1>13. QED
  BY <1>1, <1>9, <1>12 DEF T, ScriptStates

\* What git prints of a part of a script.
LEMMA PrintedLines ==
  ASSUME NEW part \in ScriptPart
  PROVE  Printed(part) \in Seq(Line)
<1>1. PICK x, y, z : /\ x = Body(part.kind, Abs(part.line)) /\ y = [kind |-> "noeol"]
                     /\ z = (IF part.line < 0 THEN <<y>> ELSE <<>>)
  OBVIOUS
<1>2. x \in Line
  <2>1. part.line \in Int /\ part.kind \in {"ctx", "del", "add"}
    BY DEF ScriptPart
  <2>2. Abs(part.line) \in Nat
    BY <2>1, AbsIsNatural
  <2>3. QED
    BY <1>1, <2>1, <2>2 DEF Body, Line, BodyLines
<1>3. y \in Line
  BY <1>1 DEF Line, BodyLines
<1>4. <<x>> \in Seq(Line) /\ z \in Seq(Line)
  BY <1>1, <1>2, <1>3
<1>5. <<x>> \o z \in Seq(Line)
  BY <1>4
<1>6. QED
  BY <1>1, <1>5 DEF Printed

\* A chunk as it is printed.
LEMMA PrintedChunk ==
  ASSUME NEW script \in Seq(ScriptPart), NEW from \in 1 .. Len(script), NEW to \in from .. Len(script)
  PROVE  ChunkAt(script, from, to) \in Seq(Line)
<1> DEFINE Position(next, count) == IF count = 0 THEN next - 1 ELSE next
           Others(kind) == {i \in from .. to : script[i].kind # kind}
           olines == Cardinality(Others("add"))
           nlines == Cardinality(Others("del"))
           header == [kind |-> "chunk",
                      opos |-> Position(script[from].old, olines), olines |-> olines,
                      npos |-> Position(script[from].new, nlines), nlines |-> nlines]
           n == to - from + 1
           parts == [i \in 1 .. n |-> Printed(script[from + i - 1])]
<1>1. ChunkAt(script, from, to) = <<header>> \o FlattenSeq(parts)
  BY DEF ChunkAt
<1>2. \A kind : Cardinality(Others(kind)) \in Nat
  <2>1. TAKE kind
  <2>2. from \in Int /\ to \in Int /\ Others(kind) \subseteq from .. to
    OBVIOUS
  <2> HIDE DEF Others
  <2>3. IsFiniteSet(from .. to)
    BY <2>2, FS_Interval
  <2>4. IsFiniteSet(Others(kind))
    BY <2>2, <2>3, FS_Subset
  <2>5. QED
    BY <2>4, FS_CardinalityType
<1>3. olines \in Nat /\ nlines \in Nat
  BY <1>2
<1> HIDE DEF olines, nlines
<1>4. script[from].old \in Nat /\ script[from].new \in Nat
  <2>1. script[from] \in ScriptPart
    OBVIOUS
  <2>2. QED
    BY <2>1 DEF ScriptPart
<1>5. header \in Line
  BY <1>3, <1>4 DEF Line, ChunkHeaders
<1> HIDE DEF header
<1>6. n \in Nat
  OBVIOUS
<1>7. parts \in [1 .. n -> Seq(Line)]
  <2>1. ASSUME NEW i \in 1 .. n PROVE Printed(script[from + i - 1]) \in Seq(Line)
    <3>1. from + i - 1 \in 1 .. Len(script)
      OBVIOUS
    <3>2. script[from + i - 1] \in ScriptPart
      BY <3>1
    <3>3. QED
      BY <3>2, PrintedLines
  <2>2. QED
    BY <2>1
<1> HIDE DEF parts, n
<1>8. FlattenSeq(parts) \in Seq(Line)
  BY <1>6, <1>7, FlattenedParts
<1>9. <<header>> \o FlattenSeq(parts) \in Seq(Line)
  BY <1>5, <1>8
<1>10. QED
  BY <1>1, <1>9

\* The header of a file.
LEMMA HeaderLines ==
  ASSUME NEW file \in Names
  PROVE  HeaderOf(file) \in Seq(Line)
<1>1. \A n \in 1 .. 4 : [kind |-> HeaderKinds[n], file |-> file] \in Line
  <2>1. \A n \in 1 .. 4 : HeaderKinds[n] \in ToSet(HeaderKinds)
    BY DEF HeaderKinds, ToSet
  <2>2. QED
    BY <2>1 DEF Line, FileLines
<1>2. HeaderOf(file) \in [1 .. 4 -> Line]
  BY <1>1 DEF HeaderOf
<1>3. PICK h : h = HeaderOf(file)
  OBVIOUS
<1>4. PICK four \in Nat : four = 4
  OBVIOUS
<1>5. h \in [1 .. four -> Line]
  BY <1>2, <1>3, <1>4
<1>6. h \in Seq(Line)
  BY <1>5
<1>7. QED
  BY <1>3, <1>6

\* A diff of two files is a sequence of lines.
LEMMA DiffLines ==
  ASSUME NEW file \in Names, NEW old \in Seq(Int), NEW new \in Seq(Int)
  PROVE  Diff(file, old, new) \in Seq(Line)
<1> DEFINE script == Script(old, new)
           shown == ShownParts(script)
           EndOf(i) == Min({j \in i .. Len(script) : j + 1 \notin shown})
           part(i) == IF i \in shown /\ i - 1 \notin shown THEN ChunkAt(script, i, EndOf(i)) ELSE <<>>
           parts == [i \in DOMAIN script |-> part(i)]
<1>1. Chunks(script) = FlattenSeq(parts)
  BY DEF Chunks
<1>2. script \in Seq(ScriptPart)
  BY ScriptTells
<1> HIDE DEF script, shown
<1>3. DOMAIN script = 1 .. Len(script) /\ Len(script) \in Nat
  BY <1>2
<1>4. ASSUME NEW i \in 1 .. Len(script) PROVE part(i) \in Seq(Line)
  <2> DEFINE E == {j \in i .. Len(script) : j + 1 \notin shown}
  <2>1. EndOf(i) \in i .. Len(script) \/ E = {}
    <3>1. E \subseteq Nat /\ E \subseteq i .. Len(script)
      BY <1>3
    <3>2. E # {} => Min(E) \in E
      <4> HIDE DEF E
      <4>1. QED
        BY <3>1, LeastOf
    <3>3. QED
      BY <3>1, <3>2
  <2>2. Len(script) \in E
    <3>1. shown \subseteq DOMAIN script
      BY DEF shown, ShownParts
    <3>2. QED
      BY <1>3, <3>1
  <2>3. PICK e \in i .. Len(script) : e = EndOf(i)
    BY <2>1, <2>2
  <2>4. ChunkAt(script, i, e) \in Seq(Line)
    BY <1>2, <2>3, PrintedChunk
  <2>5. <<>> \in Seq(Line)
    OBVIOUS
  <2>6. QED
    BY <2>3, <2>4, <2>5
<1> HIDE DEF part
<1>5. parts \in [1 .. Len(script) -> Seq(Line)]
  BY <1>3, <1>4
<1> HIDE DEF parts
<1>6. FlattenSeq(parts) \in Seq(Line)
  BY <1>3, <1>5, FlattenedParts
<1>7. HeaderOf(file) \in Seq(Line) /\ <<>> \in Seq(Line)
  BY HeaderLines
<1>8. HeaderOf(file) \o Chunks(script) \in Seq(Line)
  BY <1>1, <1>6, <1>7
<1>9. QED
  BY <1>7, <1>8 DEF Diff, script

FilesTyped(files) == files \in [Names -> Seq(Int)]

\* What git prints for all the files.
LEMMA ShownLines ==
  ASSUME NEW t, NEW s, NEW state, FilesTyped(state.index), FilesTyped(state.work)
  PROVE  Shown(t, s, state) \in Seq(Line)
<1> DEFINE part(f) == IF s \in {f, All} THEN Diff(f, Old(t, state)[f], New(t, state)[f]) ELSE <<>>
           parts == [n \in DOMAIN Files |-> part(Files[n])]
<1>1. Shown(t, s, state) = FlattenSeq(parts)
  BY DEF Shown
<1>2. ASSUME NEW f \in Names PROVE part(f) \in Seq(Line)
  <2>1. CASE s \in {f, All}
    <3>1. Old(t, state)[f] \in Seq(Int) /\ New(t, state)[f] \in Seq(Int)
      BY FilesAssumption DEF Old, New, FilesTyped
    <3>2. Diff(f, Old(t, state)[f], New(t, state)[f]) \in Seq(Line)
      BY <3>1, DiffLines
    <3>3. QED
      BY <2>1, <3>2
  <2>2. CASE ~(s \in {f, All})
    <3>1. <<>> \in Seq(Line)
      OBVIOUS
    <3>2. QED
      BY <2>2, <3>1
  <2>3. QED
    BY <2>1, <2>2
<1> HIDE DEF part
<1>3. PICK n \in Nat : n = Len(Files)
  BY FilesAssumption
<1>4. DOMAIN Files = 1 .. n /\ \A i \in 1 .. n : Files[i] \in Names
  BY <1>3, FilesAssumption
<1>5. parts \in [1 .. n -> Seq(Line)]
  BY <1>2, <1>4
<1> HIDE DEF parts
<1>6. FlattenSeq(parts) \in Seq(Line)
  BY <1>5, FlattenedParts
<1>7. QED
  BY <1>1, <1>6

-----------------------------------------------------------------------------
(***************************************************************************)
(* Finding one's way in the view.                                          *)
(***************************************************************************)
\* The chunk header at a line or above it, or 0.
LEMMA ChunkAbove ==
  ASSUME NEW view0 \in Seq(Line), NEW line \in 1 .. Len(view0)
  PROVE  /\ ChunkOf(view0, line) \in 0 .. line
         /\ ChunkOf(view0, line) # 0 => view0[ChunkOf(view0, line)].kind = "chunk"
<1> DEFINE I == {i \in 1 .. line : view0[i].kind = "chunk"}
<1>1. ChunkOf(view0, line) = Max({0} \cup I)
  BY DEF ChunkOf, PrevOfKind
<1>2. {0} \cup I \subseteq 0 .. line /\ line \in Nat
  OBVIOUS
<1>3. Max({0} \cup I) \in {0} \cup I
  <2> HIDE DEF I
  <2>1. QED
    BY <1>2, GreatestOf
<1>4. QED
  BY <1>1, <1>2, <1>3

\* The body of a chunk ends in the view.
LEMMA EndOfBody ==
  ASSUME NEW view0 \in Seq(Line), NEW chunk \in 0 .. Len(view0)
  PROVE  BodyEnd(view0, chunk) \in chunk .. Len(view0)
<1> DEFINE E == {i \in chunk .. Len(view0) :
                   i = Len(view0) \/ view0[i + 1].kind \in {"chunk", "header"}}
<1>1. E \subseteq chunk .. Len(view0) /\ E \subseteq Nat /\ Len(view0) \in E
  OBVIOUS
<1>2. BodyEnd(view0, chunk) = Min(E)
  BY DEF BodyEnd
<1> HIDE DEF E
<1>3. Min(E) \in E
  BY <1>1, LeastOf
<1>4. QED
  BY <1>1, <1>2, <1>3

\* The lines of the body of a chunk.
LEMMA LinesOfBody ==
  ASSUME NEW view0 \in Seq(Line), NEW chunk \in 0 .. Len(view0)
  PROVE  /\ BodyOf(view0, chunk) \in Seq(Line)
         /\ \A l \in ToSet(BodyOf(view0, chunk)) :
              \E i \in chunk + 1 .. BodyEnd(view0, chunk) : l = view0[i]
<1>1. PICK end \in chunk .. Len(view0) : end = BodyEnd(view0, chunk)
  BY EndOfBody
<1>2. PICK s : s = SubSeq(view0, chunk + 1, end)
  OBVIOUS
<1>3. chunk + 1 \in Int /\ end \in Int /\ chunk + 1 >= 1 /\ end <= Len(view0)
  OBVIOUS
<1>4. /\ s \in Seq(Line)
      /\ Len(s) = IF chunk + 1 <= end THEN end - (chunk + 1) + 1 ELSE 0
      /\ \A i \in 1 .. Len(s) : s[i] = view0[chunk + 1 + i - 1]
  BY <1>2, <1>3, ElementsOfSubSeq
<1>5. ASSUME NEW l \in ToSet(s) PROVE \E i \in chunk + 1 .. end : l = view0[i]
  <2>1. PICK i \in 1 .. Len(s) : l = s[i]
    BY <1>4, <1>5, ElementsOf
  <2>2. chunk + i \in chunk + 1 .. end /\ chunk + 1 + i - 1 = chunk + i
    BY <1>4
  <2>3. QED
    BY <1>4, <2>1, <2>2
<1>6. QED
  BY <1>1, <1>2, <1>4, <1>5 DEF BodyOf

-----------------------------------------------------------------------------
(***************************************************************************)
(* git apply.                                                              *)
(***************************************************************************)
LinesOf(file) == {Abs(t) : t \in ToSet(file)}
TextsOf(lines, kinds) == {lines[i].text : i \in {j \in DOMAIN lines : lines[j].kind \in kinds}}

\* What git expects in the file, or leads to, is made of the lines of the patch.
LEMMA UnprintedLines ==
  ASSUME NEW lines \in Seq(Line), NEW kinds, kinds \subseteq {"ctx", "del", "add"}
  PROVE  /\ Unprinted(lines, kinds) \in Seq(Int)
         /\ LinesOf(Unprinted(lines, kinds)) = TextsOf(lines, kinds)
<1> DEFINE Text(i) == IF i < Len(lines) /\ lines[i + 1].kind = "noeol"
                        THEN -lines[i].text ELSE lines[i].text
           S == {i \in DOMAIN lines : lines[i].kind \in kinds}
           u == [i \in DOMAIN lines |-> IF lines[i].kind \in kinds THEN <<Text(i)>> ELSE <<>>]
<1>1. Unprinted(lines, kinds) = FlattenSeq(u)
  BY DEF Unprinted
<1>2. S \subseteq 1 .. Len(lines) /\ DOMAIN lines = 1 .. Len(lines)
  OBVIOUS
<1>3. \A i \in S : lines[i].text \in Nat
  <2>1. ASSUME NEW i \in S PROVE lines[i].text \in Nat
    <3>1. i \in 1 .. Len(lines) /\ lines[i].kind \in kinds
      OBVIOUS
    <3>2. PICK l : l = lines[i]
      OBVIOUS
    <3>3. l \in Line /\ l.kind \in {"ctx", "del", "add"}
      <4>1. l \in Line
        BY <3>1, <3>2
      <4>2. l.kind \in kinds
        BY <3>1, <3>2
      <4>3. QED
        BY ONLY <4>1, <4>2, kinds \subseteq {"ctx", "del", "add"}
    <3>4. l \in [kind : {"ctx", "del", "add"}, text : Nat]
      BY <3>3, KindOfLine
    <3>5. QED
      BY <3>2, <3>4
  <2>2. QED
    BY <2>1
<1>4. \A i \in S : Text(i) \in Int /\ Abs(Text(i)) = lines[i].text
  BY <1>3, AbsOfNatural
<1>5. TextsOf(lines, kinds) = {lines[i].text : i \in S}
  BY DEF TextsOf
<1>6. \A i \in 1 .. Len(lines) : i \in S <=> lines[i].kind \in kinds
  BY <1>2
<1>7. u = [i \in 1 .. Len(lines) |-> IF i \in S THEN <<Text(i)>> ELSE <<>>]
  BY <1>2, <1>6
<1> HIDE DEF Text, S, u
<1>8. PICK v : v = [i \in 1 .. Len(lines) |-> IF i \in S THEN <<Text(i)>> ELSE <<>>]
  OBVIOUS
<1>9. ASSUME NEW i \in 1 .. Len(lines)
      PROVE  v[i] \in Seq(Int) /\ ToSet(v[i]) = IF i \in S THEN {Text(i)} ELSE {}
  <2>1. CASE i \in S
    <3>1. PICK t \in Int : t = Text(i)
      BY <1>4, <2>1
    <3>2. v[i] = <<t>>
      BY <1>8, <2>1, <3>1
    <3>3. QED
      BY <2>1, <3>1, <3>2 DEF ToSet
  <2>2. CASE i \notin S
    <3>1. v[i] = <<>>
      BY <1>8, <2>2
    <3>2. QED
      BY <2>2, <3>1 DEF ToSet
  <2>3. QED
    BY <2>1, <2>2
<1>10. Len(lines) \in Nat /\ v \in [1 .. Len(lines) -> Seq(Int)]
  <2>1. \A i \in 1 .. Len(lines) : v[i] \in Seq(Int)
    BY <1>9
  <2>2. PICK k \in Nat : k = Len(lines)
    OBVIOUS
  <2>3. DOMAIN v = 1 .. k /\ v = [i \in 1 .. k |-> v[i]]
    BY <1>8, <2>2
  <2>4. QED
    BY <2>1, <2>2, <2>3
<1>11. /\ FlattenSeq(v) \in Seq(Int)
       /\ \A t : t \in ToSet(FlattenSeq(v)) <=> \E i \in 1 .. Len(lines) : t \in ToSet(v[i])
  BY <1>10, FlattenedParts
<1>12. ToSet(FlattenSeq(v)) = {Text(i) : i \in S}
  <2>1. ASSUME NEW t PROVE t \in ToSet(FlattenSeq(v)) <=> \E i \in S : t = Text(i)
    <3>1. \A i \in 1 .. Len(lines) : t \in ToSet(v[i]) <=> i \in S /\ t = Text(i)
      BY <1>9
    <3>2. QED
      BY <1>2, <1>11, <3>1
  <2>2. QED
    BY <2>1
<1>13. LinesOf(FlattenSeq(v)) = {lines[i].text : i \in S}
  BY <1>4, <1>12 DEF LinesOf
<1>14. QED
  BY <1>1, <1>5, <1>7, <1>8, <1>11, <1>13

\* Git reads lines of the patch.
LEMMA ReadLinesOfPatch ==
  ASSUME NEW patch, patch.body \in Seq(Line), NEW kinds
  PROVE  Read(patch) \in Seq(Line) /\ TextsOf(Read(patch), kinds) \subseteq TextsOf(patch.body, kinds)
<1> DEFINE whole == {n \in 0 .. Len(patch.body) :
                       /\ OldLines(SubSeq(patch.body, 1, n)) = patch.header.olines
                       /\ NewLines(SubSeq(patch.body, 1, n)) = patch.header.nlines}
<1>1. Read(patch) = IF whole = {} THEN <<>> ELSE SubSeq(patch.body, 1, Max(whole))
  BY DEF Read
<1>2. whole \subseteq 0 .. Len(patch.body) /\ Len(patch.body) \in Nat
  OBVIOUS
<1> HIDE DEF whole
<1>3. CASE whole = {}
  <2>1. Read(patch) = <<>>
    BY <1>1, <1>3
  <2>2. <<>> \in Seq(Line) /\ DOMAIN <<>> = {}
    OBVIOUS
  <2>3. QED
    BY <2>1, <2>2 DEF TextsOf
<1>4. CASE whole # {}
  <2>1. PICK m \in 0 .. Len(patch.body) : m = Max(whole)
    BY <1>2, <1>4, GreatestOf
  <2>2. PICK b, r : b = patch.body /\ r = SubSeq(b, 1, m)
    OBVIOUS
  <2>3. b \in Seq(Line) /\ m \in Int /\ m <= Len(b)
    BY <2>1, <2>2
  <2>4. /\ r \in Seq(Line)
        /\ Len(r) = IF 1 <= m THEN m - 1 + 1 ELSE 0
        /\ \A i \in 1 .. Len(r) : r[i] = b[1 + i - 1]
    BY <2>2, <2>3, ElementsOfSubSeq
  <2>5. ASSUME NEW i \in DOMAIN r PROVE i \in DOMAIN b /\ r[i] = b[i]
    <3>1. i \in 1 .. Len(r) /\ Len(b) \in Nat
      BY <2>3, <2>4
    <3>2. i \in 1 .. Len(b) /\ 1 + i - 1 = i
      BY <2>3, <2>4, <3>1
    <3>3. r[i] = b[i]
      BY <2>4, <3>1, <3>2
    <3>4. DOMAIN b = 1 .. Len(b)
      BY <2>3
    <3>5. QED
      BY <3>2, <3>3, <3>4
  <2>6. TextsOf(r, kinds) \subseteq TextsOf(b, kinds)
    BY <2>5 DEF TextsOf
  <2>7. QED
    BY <1>1, <1>4, <2>1, <2>2, <2>4, <2>6
<1>5. QED
  BY <1>3, <1>4

\* The lines of two files put together.
LEMMA LinesOfConcat ==
  ASSUME NEW a \in Seq(Int), NEW b \in Seq(Int)
  PROVE  a \o b \in Seq(Int) /\ LinesOf(a \o b) = LinesOf(a) \cup LinesOf(b)
BY ElementsOfConcat DEF LinesOf

Occurs(part, file, at) == SubSeq(file, at, at + Len(part) - 1) = part

Replaces(file, at, from, to, after) ==
  /\ at \in Nat /\ at >= 1 /\ at + Len(from) <= Len(file) + 1
  /\ Occurs(from, file, at)
  /\ after = ReplaceSubSeqAt(at, to, from, file)

\* Replacing part of a file takes its lines out and puts the others in.
LEMMA LinesReplaced ==
  ASSUME NEW file \in Seq(Int), NEW from \in Seq(Int), NEW to \in Seq(Int),
         NEW at, NEW after, Replaces(file, at, from, to, after)
  PROVE  /\ after \in Seq(Int)
         /\ LinesOf(file) \ LinesOf(after) \subseteq LinesOf(from) \ LinesOf(to)
         /\ LinesOf(after) \ LinesOf(file) \subseteq LinesOf(to) \ LinesOf(from)
<1> USE DEF Replaces
<1>1. PICK prefix, suffix : /\ prefix = SubSeq(file, 1, at - 1)
                            /\ suffix = SubSeq(file, at + Len(from), Len(file))
  OBVIOUS
<1>0. /\ prefix \in Seq(Int)
      /\ Len(prefix) = IF 1 <= at - 1 THEN at - 1 - 1 + 1 ELSE 0
      /\ \A i \in 1 .. Len(prefix) : prefix[i] = file[1 + i - 1]
      /\ suffix \in Seq(Int)
      /\ Len(suffix) = IF at + Len(from) <= Len(file) THEN Len(file) - (at + Len(from)) + 1 ELSE 0
      /\ \A i \in 1 .. Len(suffix) : suffix[i] = file[at + Len(from) + i - 1]
  <2>1. Len(file) \in Nat /\ Len(from) \in Nat
    OBVIOUS
  <2>2. PICK l, first, last, one : l = Len(file) /\ first = at + Len(from) /\ last = at - 1 /\ one = 1
    OBVIOUS
  <2>3. /\ l \in Int /\ first \in Int /\ last \in Int /\ one \in Int
        /\ first >= 1 /\ last <= l /\ one >= 1 /\ l <= l
    BY <2>1, <2>2
  <2>4. /\ prefix = SubSeq(file, one, last) /\ suffix = SubSeq(file, first, l)
        /\ l = Len(file)
    BY <1>1, <2>2
  <2>5. /\ prefix \in Seq(Int)
        /\ Len(prefix) = IF one <= last THEN last - one + 1 ELSE 0
        /\ \A i \in 1 .. Len(prefix) : prefix[i] = file[one + i - 1]
    BY <2>3, <2>4, ElementsOfSubSeq
  <2>6. /\ suffix \in Seq(Int)
        /\ Len(suffix) = IF first <= l THEN l - first + 1 ELSE 0
        /\ \A i \in 1 .. Len(suffix) : suffix[i] = file[first + i - 1]
    BY <2>3, <2>4, ElementsOfSubSeq
  <2>7. QED
    BY <2>2, <2>5, <2>6
<1>2. prefix \in Seq(Int) /\ suffix \in Seq(Int)
  BY <1>0
<1>3. after = prefix \o to \o suffix
  BY <1>1 DEF ReplaceSubSeqAt
<1>4. prefix \o from \o suffix = file
  <2>1. /\ Len(prefix) = at - 1 /\ Len(suffix) = Len(file) - (at + Len(from)) + 1
        /\ \A i \in 1 .. at - 1 : prefix[i] = file[i]
        /\ \A i \in 1 .. Len(from) : from[i] = file[at + i - 1]
        /\ \A i \in 1 .. Len(suffix) : suffix[i] = file[at + Len(from) + i - 1]
    <3>1. Len(file) \in Nat /\ Len(from) \in Nat
      OBVIOUS
    <3>2. /\ Len(prefix) = IF 1 <= at - 1 THEN at - 1 - 1 + 1 ELSE 0
          /\ \A i \in 1 .. Len(prefix) : prefix[i] = file[1 + i - 1]
      BY <1>0
    <3>3. /\ Len(suffix) = IF at + Len(from) <= Len(file) THEN Len(file) - (at + Len(from)) + 1 ELSE 0
          /\ \A i \in 1 .. Len(suffix) : suffix[i] = file[at + Len(from) + i - 1]
      BY <1>0
    <3>4. \A i \in 1 .. Len(from) : from[i] = file[at + i - 1]
      <4>0. at + Len(from) - 1 \in Int
        BY ONLY <3>1, at \in Nat
      <4>1. PICK end \in Int : end = at + Len(from) - 1
        BY ONLY <4>0
      <4>2. end <= Len(file) /\ at >= 1 /\ at \in Int
        BY <3>1, <4>1
      <4>3. PICK part : part = SubSeq(file, at, end)
        OBVIOUS
      <4>4. \A i \in 1 .. Len(part) : part[i] = file[at + i - 1]
        BY <4>2, <4>3, ElementsOfSubSeq
      <4>5. part = from
        BY <4>1, <4>3 DEF Occurs
      <4>6. QED
        BY <4>4, <4>5
    <3>5. QED
      BY <3>1, <3>2, <3>3, <3>4
  <2>2. PICK p : p = prefix \o from
    OBVIOUS
  <2>3. /\ p \in Seq(Int) /\ Len(p) = at - 1 + Len(from)
        /\ \A i \in 1 .. Len(p) : p[i] = file[i]
    <3>1. p \in Seq(Int) /\ Len(p) = Len(prefix) + Len(from)
          /\ \A i \in 1 .. Len(p) : p[i] = IF i <= Len(prefix) THEN prefix[i] ELSE from[i - Len(prefix)]
      BY <1>2, <2>2
    <3>2. ASSUME NEW i \in 1 .. Len(p) PROVE p[i] = file[i]
      <4>1. CASE i <= at - 1
        BY <2>1, <3>1, <4>1
      <4>2. CASE ~(i <= at - 1)
        <5>1. i - (at - 1) \in 1 .. Len(from) /\ at + (i - (at - 1)) - 1 = i
          BY <2>1, <3>1, <4>2
        <5>2. p[i] = from[i - (at - 1)]
          BY <2>1, <3>1, <4>2
        <5>3. QED
          BY <2>1, <5>1, <5>2
      <4>3. QED
        BY <4>1, <4>2
    <3>3. QED
      BY <2>1, <3>1, <3>2
  <2>4. PICK c : c = p \o suffix
    OBVIOUS
  <2>5. /\ c \in Seq(Int) /\ Len(c) = Len(p) + Len(suffix)
        /\ \A i \in 1 .. Len(c) : c[i] = IF i <= Len(p) THEN p[i] ELSE suffix[i - Len(p)]
    <3>1. suffix \in Seq(Int) /\ p \in Seq(Int)
      BY <1>2, <2>3
    <3>2. QED
      BY ONLY <3>1, <2>4
  <2>6. Len(c) = Len(file) /\ Len(file) \in Nat /\ Len(from) \in Nat
    BY <2>1, <2>3, <2>5
  <2>7. ASSUME NEW i \in 1 .. Len(file) PROVE c[i] = file[i]
    <3> PICK l, n, m \in Nat : l = Len(p) /\ n = Len(file) /\ m = Len(suffix)
      BY <1>2, <2>3
    <3>8. l = at - 1 + Len(from)
      BY <2>3
    <3>9. m = n - l
      BY <2>1, <2>6, <3>8
    <3>0. l = at - 1 + Len(from) /\ m = n - l /\ i \in 1 .. n /\ Len(c) = n
      BY <2>6, <3>8, <3>9
    <3>1. CASE i <= l
      <4>1. i \in 1 .. Len(p) /\ i \in 1 .. Len(c)
        BY <3>0, <3>1
      <4>2. p[i] = file[i]
        BY <2>3, <4>1
      <4>3. c[i] = p[i]
        BY <2>5, <3>1, <4>1
      <4>4. QED
        BY <4>2, <4>3
    <3>2. CASE ~(i <= l)
      <4>1. i - l \in 1 .. Len(suffix) /\ i \in 1 .. Len(c)
        BY <3>0, <3>2
      <4>2. at + Len(from) + (i - l) - 1 = i
        BY <2>6, <3>0
      <4>3. suffix[i - l] = file[i]
        BY <2>1, <4>1, <4>2
      <4>4. c[i] = suffix[i - l]
        BY <2>5, <3>2, <4>1
      <4>5. QED
        BY <4>3, <4>4
    <3>3. QED
      BY <3>1, <3>2
  <2>8. c = file
    <3>1. PICK n \in Nat : n = Len(file)
      OBVIOUS
    <3>2. c = [i \in 1 .. n |-> c[i]]
      BY <2>5, <2>6, <3>1
    <3>3. file = [i \in 1 .. n |-> file[i]]
      BY <3>1
    <3>4. \A i \in 1 .. n : c[i] = file[i]
      BY <2>7, <3>1
    <3>5. QED
      BY <3>2, <3>3, <3>4, Zenon
  <2>9. QED
    BY <2>2, <2>4, <2>8
<1>5. \A s \in Seq(Int) : /\ prefix \o s \o suffix \in Seq(Int)
                          /\ LinesOf(prefix \o s \o suffix) = LinesOf(prefix) \cup LinesOf(suffix) \cup LinesOf(s)
  <2>1. TAKE s \in Seq(Int)
  <2>2. PICK p : p = prefix \o s
    OBVIOUS
  <2>3. p \in Seq(Int) /\ LinesOf(p) = LinesOf(prefix) \cup LinesOf(s)
    BY <1>2, <2>2, LinesOfConcat
  <2>4. p \o suffix \in Seq(Int) /\ LinesOf(p \o suffix) = LinesOf(p) \cup LinesOf(suffix)
    BY <1>2, <2>3, LinesOfConcat
  <2>5. QED
    BY <2>2, <2>3, <2>4
<1>6. QED
  BY <1>3, <1>4, <1>5

(***************************************************************************)
(* What git apply writes is a file again, and the lines that it takes out  *)
(* or puts in are lines that the patch removes or adds.                    *)
(***************************************************************************)
LEMMA OnlyPatchedLines ==
  ASSUME NEW patch, patch.body \in Seq(Line), NEW file \in Seq(Int), GitApply(patch, file).ok
  PROVE  LET after == GitApply(patch, file).file
             gone == IF patch.reverse THEN "add" ELSE "del"
             came == IF patch.reverse THEN "del" ELSE "add"
         IN  /\ after \in Seq(Int)
             /\ LinesOf(file) \ LinesOf(after) \subseteq TextsOf(patch.body, {gone})
             /\ LinesOf(after) \ LinesOf(file) \subseteq TextsOf(patch.body, {came})
<1> DEFINE lines == Read(patch)
           old == Unprinted(lines, {"ctx", "del"})
           new == Unprinted(lines, {"ctx", "add"})
           from == IF patch.reverse THEN new ELSE old
           to == IF patch.reverse THEN old ELSE new
           position == IF patch.reverse THEN patch.header.npos ELSE patch.header.opos
           atEnd == lines[Len(lines)].kind # "ctx"
           places == {i \in 1 .. Len(file) - Len(from) + 1 :
                        /\ SubSeq(file, i, i + Len(from) - 1) = from
                        /\ position <= 1 => i = 1
                        /\ atEnd => i + Len(from) - 1 = Len(file)}
           result == ReplaceSubSeqAt(Min(places), to, from, file)
           gone == IF patch.reverse THEN "add" ELSE "del"
           came == IF patch.reverse THEN "del" ELSE "add"
<1>1. places # {} /\ GitApply(patch, file).file = result
  <2>1. Applied(file, from, to, position, atEnd)
          = IF places = {} THEN Refused ELSE [ok |-> TRUE, file |-> result]
    BY DEF Applied
  <2>2. GitApply(patch, file) = IF lines = <<>> THEN Refused
                                ELSE Applied(file, from, to, position, atEnd)
    BY DEF GitApply
  <2>3. Refused.ok = FALSE
    BY DEF Refused
  <2> HIDE DEF lines, places, result, atEnd, position, from, to
  <2>4. ~(lines = <<>>) /\ ~(places = {})
    BY <2>1, <2>2, <2>3
  <2>5. QED
    BY <2>1, <2>2, <2>4
<1>2. /\ lines \in Seq(Line)
      /\ \A kinds : TextsOf(lines, kinds) \subseteq TextsOf(patch.body, kinds)
  BY ReadLinesOfPatch
<1> HIDE DEF lines
<1>3. /\ old \in Seq(Int) /\ LinesOf(old) = TextsOf(lines, {"ctx", "del"})
      /\ new \in Seq(Int) /\ LinesOf(new) = TextsOf(lines, {"ctx", "add"})
  BY <1>2, UnprintedLines
<1>4. /\ TextsOf(lines, {"ctx", "del"}) = TextsOf(lines, {"ctx"}) \cup TextsOf(lines, {"del"})
      /\ TextsOf(lines, {"ctx", "add"}) = TextsOf(lines, {"ctx"}) \cup TextsOf(lines, {"add"})
  BY DEF TextsOf
<1> HIDE DEF old, new
<1>5. /\ from \in Seq(Int) /\ to \in Seq(Int)
      /\ LinesOf(from) \ LinesOf(to) \subseteq TextsOf(patch.body, {gone})
      /\ LinesOf(to) \ LinesOf(from) \subseteq TextsOf(patch.body, {came})
  <2>1. CASE patch.reverse
    BY <1>2, <1>3, <1>4, <2>1
  <2>2. CASE ~patch.reverse
    BY <1>2, <1>3, <1>4, <2>2
  <2>3. QED
    BY <2>1, <2>2
<1> HIDE DEF from, to, gone, came, position, atEnd
<1>6. Len(from) \in Nat /\ Len(file) \in Nat
  BY <1>5
<1>7. places \subseteq Nat
  BY <1>6
<1>8. \A i \in places : i \in Nat /\ i >= 1 /\ i + Len(from) <= Len(file) + 1 /\ Occurs(from, file, i)
  <2>1. TAKE i \in places
  <2>2. i \in 1 .. Len(file) - Len(from) + 1
    OBVIOUS
  <2>3. SubSeq(file, i, i + Len(from) - 1) = from
    OBVIOUS
  <2> HIDE DEF places
  <2>4. i \in Nat /\ i >= 1 /\ i + Len(from) <= Len(file) + 1
    BY <1>6, <2>2
  <2>5. QED
    BY <2>3, <2>4 DEF Occurs
<1> HIDE DEF places
<1>9. PICK at : at = Min(places)
  OBVIOUS
<1>10. at \in Nat /\ at >= 1 /\ at + Len(from) <= Len(file) + 1 /\ Occurs(from, file, at)
  BY <1>1, <1>7, <1>8, <1>9, LeastOf
<1>12. result = ReplaceSubSeqAt(at, to, from, file)
  BY <1>9
<1> HIDE DEF result
<1>13. /\ result \in Seq(Int)
       /\ LinesOf(file) \ LinesOf(result) \subseteq LinesOf(from) \ LinesOf(to)
       /\ LinesOf(result) \ LinesOf(file) \subseteq LinesOf(to) \ LinesOf(from)
  <2>1. Replaces(file, at, from, to, result)
    BY <1>10, <1>12 DEF Replaces
  <2>2. QED
    BY <1>5, <2>1, LinesReplaced
<1>14. /\ LinesOf(file) \ LinesOf(result) \subseteq TextsOf(patch.body, {gone})
       /\ LinesOf(result) \ LinesOf(file) \subseteq TextsOf(patch.body, {came})
  BY <1>5, <1>13
<1>15. QED
  BY <1>1, <1>13, <1>14 DEF gone, came

-----------------------------------------------------------------------------
(***************************************************************************)
(* The patches of a request.                                               *)
(***************************************************************************)
\* What is written of a body for part of its changes makes no other changes.
LEMMA WrittenLines ==
  ASSUME NEW view0 \in Seq(Line), NEW staged \in BOOLEAN, NEW chunk \in 0 .. Len(view0),
         NEW first, NEW last
  PROVE  /\ RangeWritten(view0, staged, chunk, first, last) \in Seq(Line)
         /\ \A l \in ToSet(RangeWritten(view0, staged, chunk, first, last)) :
              l.kind \in {"del", "add"}
              => \E i \in chunk + 1 .. BodyEnd(view0, chunk) : i \in first .. last /\ l = view0[i]
<1> DEFINE asNormal == IF staged THEN "add" ELSE "del"
           ignored == IF staged THEN "del" ELSE "add"
           Written(i) ==
             CASE i \in first .. last -> <<view0[i]>>
               [] i \notin first .. last /\ view0[i].kind = asNormal -> <<Body("ctx", view0[i].text)>>
               [] i \notin first .. last /\ view0[i].kind = ignored -> <<>>
               [] OTHER -> <<view0[i]>>
           parts == [n \in 1 .. BodyEnd(view0, chunk) - chunk |-> Written(chunk + n)]
           Fits(i, s) == /\ s \in Seq(Line)
                         /\ \A l \in ToSet(s) : l.kind \in {"del", "add"} => i \in first .. last /\ l = view0[i]
<1>1. RangeWritten(view0, staged, chunk, first, last) = FlattenSeq(parts)
  BY DEF RangeWritten
<1>2. ASSUME NEW x \in Line PROVE <<x>> \in Seq(Line) /\ ToSet(<<x>>) = {x}
  BY DEF ToSet
<1>3. <<>> \in Seq(Line) /\ ToSet(<<>>) = {}
  BY DEF ToSet
<1>4. ASSUME NEW i \in 1 .. Len(view0) PROVE Fits(i, Written(i))
  <2>1. PICK l \in Line : l = view0[i]
    OBVIOUS
  <2>2. CASE i \in first .. last
    <3>1. Written(i) = <<l>>
      BY <2>1, <2>2
    <3>2. QED
      BY <1>2, <2>1, <2>2, <3>1
  <2>3. CASE i \notin first .. last /\ l.kind = asNormal
    <3>1. PICK b : b = Body("ctx", l.text)
      OBVIOUS
    <3>2. Written(i) = <<b>>
      BY <2>1, <2>3, <3>1
    <3>3. l.kind \in {"ctx", "del", "add"}
      BY <2>3
    <3>4. l.text \in Nat
      BY <3>3, KindOfLine
    <3>5. b \in Line /\ b.kind = "ctx"
      BY <3>1, <3>4 DEF Body, Line, BodyLines
    <3>6. QED
      BY <1>2, <3>2, <3>5
  <2>4. CASE i \notin first .. last /\ l.kind = ignored
    <3>1. asNormal # ignored
      OBVIOUS
    <3>2. Written(i) = <<>>
      BY <2>1, <2>4, <3>1
    <3>3. QED
      BY <1>3, <3>2
  <2>5. CASE i \notin first .. last /\ l.kind # asNormal /\ l.kind # ignored
    <3>1. Written(i) = <<l>>
      BY <2>1, <2>5
    <3>2. l.kind \notin {"del", "add"}
      BY <2>5
    <3>3. QED
      BY <1>2, <3>1, <3>2
  <2>6. QED
    BY <2>2, <2>3, <2>4, <2>5
<1>5. PICK end \in chunk .. Len(view0) : end = BodyEnd(view0, chunk)
  BY EndOfBody
<1>6. PICK n \in Nat : n = end - chunk
  OBVIOUS
<1>7. \A k \in 1 .. n : chunk + k \in chunk + 1 .. end /\ chunk + k \in 1 .. Len(view0)
  BY <1>6
<1>8. parts \in [1 .. n -> Seq(Line)] /\ \A k \in 1 .. n : Fits(chunk + k, parts[k])
  <2> HIDE DEF Written
  <2>1. \A k \in 1 .. n : Fits(chunk + k, Written(chunk + k))
    BY <1>4, <1>7
  <2>2. parts = [k \in 1 .. n |-> Written(chunk + k)]
    BY <1>5, <1>6
  <2> HIDE DEF parts
  <2>3. QED
    BY <2>1, <2>2
<1> HIDE DEF parts
<1>9. /\ FlattenSeq(parts) \in Seq(Line)
      /\ \A t : t \in ToSet(FlattenSeq(parts)) <=> \E i \in 1 .. n : t \in ToSet(parts[i])
  BY <1>8, FlattenedParts
<1>10. ASSUME NEW l \in ToSet(FlattenSeq(parts)), l.kind \in {"del", "add"}
       PROVE  \E i \in chunk + 1 .. end : i \in first .. last /\ l = view0[i]
  <2>1. PICK k \in 1 .. n : l \in ToSet(parts[k])
    BY <1>9
  <2>2. Fits(chunk + k, parts[k]) /\ chunk + k \in chunk + 1 .. end
    BY <1>7, <1>8
  <2>3. QED
    BY <1>10, <2>1, <2>2
<1>11. QED
  BY <1>1, <1>5, <1>9, <1>10

\* A patch that is written consists of lines.
LEMMA LinesOfPatch ==
  ASSUME NEW view0 \in Seq(Line), NEW line \in 1 .. Len(view0), NEW staged \in BOOLEAN,
         NEW revert \in BOOLEAN, NEW update
  PROVE  /\ PatchFor(view0, line, staged, revert, update).body \in Seq(Line)
         /\ PatchFor(view0, line, staged, revert, update).reverse = (revert \/ staged)
<1>1. ChunkOf(view0, line) \in 0 .. Len(view0)
  BY ChunkAbove
<1>2. BodyOf(view0, ChunkOf(view0, line)) \in Seq(Line)
  BY <1>1, LinesOfBody
<1>3. \A first, last : RangeWritten(view0, staged, ChunkOf(view0, line), first, last) \in Seq(Line)
  BY <1>1, WrittenLines
<1>4. QED
  BY <1>2, <1>3 DEF PatchFor

\* The part around a change is of changes only.
LEMMA PartIsChanges ==
  ASSUME NEW view0 \in Seq(Line), NEW line \in 1 .. Len(view0),
         ChunkOf(view0, line) # 0, IsChange(view0[line])
  PROVE  /\ PartFirst(view0, line) \in Nat /\ PartLast(view0, line) \in Nat
         /\ line \in PartFirst(view0, line) .. PartLast(view0, line)
         /\ \A j \in PartFirst(view0, line) .. PartLast(view0, line) :
              IsChange(view0[j]) \/ view0[j].kind = "noeol"
<1> DEFINE Starts == {i \in ChunkOf(view0, line) + 1 .. line : \A j \in i .. line - 1 : IsChange(view0[j])}
           Ends(f) == {f} \cup {i \in f .. Len(view0) :
                         \A j \in f .. i : IsChange(view0[j]) \/ view0[j].kind = "noeol"}
<1>1. ChunkOf(view0, line) \in 1 .. line /\ view0[ChunkOf(view0, line)].kind = "chunk"
  BY ChunkAbove
<1>2. ChunkOf(view0, line) # line
  BY <1>1 DEF IsChange
<1>3. PICK first : first = PartFirst(view0, line)
  OBVIOUS
<1>4. first \in Starts
  <2>1. line \in Starts /\ Starts \subseteq Nat
    BY <1>1, <1>2
  <2>2. first = Min(Starts)
    BY <1>3 DEF PartFirst
  <2> HIDE DEF Starts
  <2>3. QED
    BY <2>1, <2>2, LeastOf
<1>5. first \in 1 .. line /\ \A j \in first .. line - 1 : IsChange(view0[j])
  BY <1>1, <1>4
<1> HIDE DEF Starts
<1>6. \A j \in first .. line : IsChange(view0[j])
  <2>1. \A j \in first .. line : j = line \/ j \in first .. line - 1
    BY <1>5
  <2>2. QED
    BY <1>5, <2>1
<1>7. PICK last : last = PartLast(view0, line)
  OBVIOUS
<1>8. last \in Ends(first) /\ \A k \in Ends(first) : k <= last
  <2>1. Ends(first) \subseteq 0 .. Len(view0) /\ Len(view0) \in Nat /\ first \in Ends(first)
    BY <1>5
  <2>2. last = Max(Ends(first))
    BY <1>3, <1>7 DEF PartLast
  <2> HIDE DEF Ends
  <2>3. QED
    BY <2>1, <2>2, GreatestOf
<1>9. line \in Ends(first)
  BY <1>5, <1>6
<1>10. last \in Nat /\ line <= last
  BY <1>5, <1>8, <1>9
<1>11. \A j \in first .. last : IsChange(view0[j]) \/ view0[j].kind = "noeol"
  <2>1. CASE last = first
    BY <1>5, <1>6, <1>10, <2>1
  <2>2. CASE last # first
    BY <1>8, <2>2
  <2>3. QED
    BY <2>1, <2>2
<1>12. QED
  BY <1>3, <1>5, <1>7, <1>10, <1>11

(***************************************************************************)
(* The changes in the patch of a request are those that are selected.      *)
(***************************************************************************)
LEMMA PatchOfSelected ==
  ASSUME view \in Seq(Line), NEW line \in 1 .. Len(view), NEW staged \in BOOLEAN,
         NEW revert \in BOOLEAN, NEW update \in Updates,
         ChunkOf(view, line) # 0, update # "normal" => IsChange(view[line]),
         NEW kind \in {"del", "add"}
  PROVE  TextsOf(PatchFor(view, line, staged, revert, update).body, {kind})
           \subseteq Texts(Selected(line, update), kind)
<1> DEFINE chunk == ChunkOf(view, line)
           first == IF update = "single" THEN line ELSE PartFirst(view, line)
           last == IF update = "single" THEN line ELSE PartLast(view, line)
           body == PatchFor(view, line, staged, revert, update).body
<1>1. chunk \in 0 .. Len(view)
  BY ChunkAbove
<1>2. body = IF update = "normal" THEN BodyOf(view, chunk)
             ELSE RangeWritten(view, staged, chunk, first, last)
  BY DEF PatchFor
<1>3. ASSUME NEW l \in ToSet(body), l.kind = kind
      PROVE  \E i \in Selected(line, update) : l = view[i]
  <2>1. PICK i \in chunk + 1 .. BodyEnd(view, chunk) :
          l = view[i] /\ (update # "normal" => i \in first .. last)
    <3>1. CASE update = "normal"
      BY <1>1, <1>2, <1>3, <3>1, LinesOfBody
    <3>2. CASE update # "normal"
      <4>1. PICK f, t : f = first /\ t = last
        OBVIOUS
      <4>2. l \in ToSet(RangeWritten(view, staged, chunk, f, t)) /\ l.kind \in {"del", "add"}
        BY <1>2, <1>3, <3>2, <4>1
      <4>3. \E i \in chunk + 1 .. BodyEnd(view, chunk) : i \in f .. t /\ l = view[i]
        BY <1>1, <4>2, WrittenLines
      <4>4. QED
        BY <4>1, <4>3
    <3>3. QED
      BY <3>1, <3>2
  <2>2. IsChange(view[i])
    BY <1>3, <2>1 DEF IsChange
  <2>3. ASSUME update = "part", NEW j \in (i .. line) \cup (line .. i)
        PROVE  IsChange(view[j]) \/ view[j].kind = "noeol"
    <3>1. IsChange(view[line]) /\ i \in PartFirst(view, line) .. PartLast(view, line)
      BY <2>1, <2>3
    <3>2. /\ PartFirst(view, line) \in Nat /\ PartLast(view, line) \in Nat
          /\ line \in PartFirst(view, line) .. PartLast(view, line)
          /\ \A k \in PartFirst(view, line) .. PartLast(view, line) :
               IsChange(view[k]) \/ view[k].kind = "noeol"
      BY <3>1, PartIsChanges
    <3>3. j \in PartFirst(view, line) .. PartLast(view, line)
      BY <2>3, <3>1, <3>2
    <3>4. QED
      BY <3>2, <3>3
  <2>4. update = "single" => i = line
    BY <2>1
  <2>5. QED
    BY <2>1, <2>2, <2>3, <2>4 DEF Selected
<1>4. body \in Seq(Line)
  BY LinesOfPatch
<1> HIDE DEF body
<1>5. ASSUME NEW i \in DOMAIN body, body[i].kind = kind
      PROVE  body[i].text \in Texts(Selected(line, update), kind)
  <2>1. body[i] \in ToSet(body)
    BY DEF ToSet
  <2>2. PICK j \in Selected(line, update) : body[i] = view[j]
    BY <1>3, <1>5, <2>1
  <2>3. QED
    BY <1>5, <2>2 DEF Texts
<1>6. QED
  BY <1>5 DEF TextsOf, body

-----------------------------------------------------------------------------
(***************************************************************************)
(* Requests.                                                               *)
(***************************************************************************)
\* A file is read from the index or the working tree, and git applies a patch
\* to it.  A name that is not of a file changes nothing.
LEMMA FileChanged ==
  ASSUME NEW files, FilesTyped(files), NEW file, NEW content, file \in Names => content \in Seq(Int)
  PROVE  FilesTyped([files EXCEPT ![file] = content])
BY DEF FilesTyped

\* A request on a chunk leaves files.
LEMMA ChunkUpdated ==
  ASSUME view \in Seq(Line), NEW line \in 1 .. Len(view), NEW update, Staged \in BOOLEAN,
         NEW contents, FilesTyped(contents)
  PROVE  FilesTyped(UpdateChunk(line, update, contents).index)
<1> DEFINE file == FileOf(view, ChunkOf(view, line))
           patch == PatchFor(view, line, Staged, FALSE, update)
           result == GitApply(patch, contents[file])
<1>1. UpdateChunk(line, update, contents).index
        = IF result.ok THEN [contents EXCEPT ![file] = result.file] ELSE contents
  BY DEF UpdateChunk
<1>2. patch.body \in Seq(Line)
  BY LinesOfPatch
<1> HIDE DEF patch, file
<1>3. ASSUME result.ok, file \in Names PROVE result.file \in Seq(Int)
  <2>1. contents[file] \in Seq(Int)
    BY <1>3 DEF FilesTyped
  <2>2. QED
    BY <1>2, <1>3, <2>1, OnlyPatchedLines
<1> HIDE DEF result
<1>4. CASE result.ok
  <2>1. FilesTyped([contents EXCEPT ![file] = result.file])
    BY <1>3, <1>4, FileChanged
  <2>2. QED
    BY <1>1, <1>4, <2>1
<1>5. CASE ~result.ok
  BY <1>1, <1>5
<1>6. QED
  BY <1>4, <1>5

\* What an attempt to change the index comes to.
Results == [ok : BOOLEAN, index : [Names -> Seq(Int)]]

\* A request on a chunk gives an index of files.
LEMMA ChunkResults ==
  ASSUME view \in Seq(Line), NEW line \in 1 .. Len(view), NEW update, NEW contents,
         FilesTyped(contents), Staged \in BOOLEAN
  PROVE  UpdateChunk(line, update, contents) \in Results
<1> DEFINE result == GitApply(PatchFor(view, line, Staged, FALSE, update),
                              contents[FileOf(view, ChunkOf(view, line))])
<1>1. result.ok \in BOOLEAN
  BY DEF GitApply, Applied, Refused
<1>2. UpdateChunk(line, update, contents).ok = result.ok
  BY DEF UpdateChunk
<1>3. FilesTyped(UpdateChunk(line, update, contents).index)
  BY ChunkUpdated
<1>4. UpdateChunk(line, update, contents)
        = [ok |-> UpdateChunk(line, update, contents).ok, index |-> UpdateChunk(line, update, contents).index]
  BY DEF UpdateChunk
<1>5. QED
  BY <1>1, <1>2, <1>3, <1>4 DEF FilesTyped, Results

\* So does a request on all the chunks of the view, by rounds.
LEMMA FilesUpdated ==
  ASSUME view \in Seq(Line), FilesTyped(index), Staged \in BOOLEAN
  PROVE  UpdateFiles \in Results
<1> DEFINE first == [ok |-> ChunkLines # {}, index |-> index]
           n == Len(view)
           Course(f) == f = [line \in 0 .. n |->
             IF line = 0 THEN first ELSE UpdateNext(line, f[line - 1])]
           chosen == CHOOSE f : Course(f)
           step == [x \in Results \X (1 .. n) |-> UpdateNext(x[2], x[1])]
<1>1. UpdateFiles = chosen[n]
  BY Zenon DEF UpdateFiles
<1>2. n \in Nat
  OBVIOUS
<1>3. first \in Results
  BY DEF Results, FilesTyped
<1> HIDE DEF first
<1>4. ASSUME NEW r \in Results, NEW i \in 1 .. n PROVE UpdateNext(i, r) \in Results
  <2>1. FilesTyped(r.index)
    BY DEF Results, FilesTyped
  <2>2. UpdateChunk(i, "normal", r.index) \in Results
    BY <2>1, ChunkResults
  <2>3. QED
    BY <2>2 DEF UpdateNext
<1> HIDE DEF n
<1>5. /\ step \in [Results \X (1 .. n) -> Results]
      /\ \A r \in Results, i \in 1 .. n : step[<<r, i>>] = UpdateNext(i, r)
  <2>1. \A r \in Results, i \in 1 .. n : step[<<r, i>>] = UpdateNext(i, r)
    OBVIOUS
  <2>2. ASSUME NEW x \in Results \X (1 .. n) PROVE UpdateNext(x[2], x[1]) \in Results
    BY <1>4
  <2>3. QED
    BY <2>1, <2>2
<1> HIDE DEF step
<1>6. PICK f \in [0 .. n -> Results] : f[0] = first /\ \A i \in 1 .. n : f[i] = step[<<f[i - 1], i>>]
  <2>1. HasRounds(n, Results, first, step)
    BY <1>2, <1>3, <1>5, RoundsExist
  <2>2. QED
    BY <2>1 DEF HasRounds, Rounds
<1>7. Course(f)
  <2>1. ASSUME NEW i \in 0 .. n PROVE f[i] = IF i = 0 THEN first ELSE UpdateNext(i, f[i - 1])
    <3>1. CASE i = 0
      BY <1>6, <3>1
    <3>2. CASE i # 0
      <4>1. i \in 1 .. n /\ i - 1 \in 0 .. n
        BY <1>2, <3>2
      <4>2. QED
        BY <1>5, <1>6, <3>2, <4>1
    <3>3. QED
      BY <3>1, <3>2
  <2>2. QED
    BY <1>6, <2>1
<1>8. Course(chosen)
  <2> HIDE DEF Course
  <2>1. QED
    BY <1>7
<1>9. PICK h : h = chosen /\ Course(h)
  BY <1>8
<1> HIDE DEF chosen
<1> DEFINE S == {k \in 0 .. n : h[k] \in Results}
<1>10. 0 \in S
  BY <1>2, <1>3, <1>9
<1>11. ASSUME NEW k \in 1 .. n, k - 1 \in S PROVE k \in S
  <2>1. k \in 0 .. n /\ k # 0 /\ h[k - 1] \in Results
    BY <1>2, <1>11
  <2>2. h[k] = UpdateNext(k, h[k - 1])
    BY <1>9, <2>1
  <2>3. QED
    BY <1>4, <2>1, <2>2
<1>12. n \in S
  <2> HIDE DEF S
  <2>1. \A k \in 0 .. n : k \in S
    BY <1>2, <1>10, <1>11, EveryRound
  <2>2. QED
    BY <1>2, <2>1
<1>13. QED
  BY <1>1, <1>9, <1>12

-----------------------------------------------------------------------------
(***************************************************************************)
(* Where the lines of a view are in their files.  A place says of which    *)
(* file, if any, the lines below are, whether they are in a chunk, and     *)
(* which lines of the old and the new file come next.                      *)
(***************************************************************************)
Places == [file : SUBSET Names, inside : BOOLEAN, old : Int, new : Int]

Nowhere == [file |-> {}, inside |-> FALSE, old |-> 0, new |-> 0]
PlaceAt(file, old, new) == [file |-> file, inside |-> TRUE, old |-> old, new |-> new]

Behind(x, kind) == PlaceAt(x.file, IF kind = "add" THEN x.old ELSE x.old + 1,
                                   IF kind = "del" THEN x.new ELSE x.new + 1)

\* A line l at x is the line of the files o and n that it should be.
Matches(o, n, x, l) ==
  \A f \in x.file : /\ l.kind # "add" => Abs(o[f][x.old]) = l.text
                    /\ l.kind # "del" => Abs(n[f][x.new]) = l.text

\* Below a line l at x is y.
Moves(o, n, x, l, y) ==
  \/ l.kind = "header" /\ y.file = {l.file} /\ ~y.inside
  \/ l.kind \in {"index", "old", "new"} /\ ~x.inside /\ y = x
  \/ l.kind = "chunk" /\ x.file # {} /\ y = PlaceAt(x.file, l.opos, l.npos)
  \/ l.kind = "noeol" /\ x.inside /\ y = x
  \/ l.kind \in {"ctx", "del", "add"} /\ x.inside /\ y = Behind(x, l.kind) /\ Matches(o, n, x, l)

IsPath(o, n, lines, p) ==
  /\ p \in [0 .. Len(lines) -> Places]
  /\ \A i \in 1 .. Len(lines) : Moves(o, n, p[i - 1], lines[i], p[i])

Leads(o, n, x, lines, y) == \E p : IsPath(o, n, lines, p) /\ p[0] = x /\ p[Len(lines)] = y

\* No lines lead nowhere.
LEMMA NoLines ==
  ASSUME NEW o, NEW n, NEW x \in Places
  PROVE  Leads(o, n, x, <<>>, x)
<1> DEFINE p == [i \in 0 .. 0 |-> x]
<1>1. Len(<<>>) = 0
  OBVIOUS
<1>2. p \in [0 .. 0 -> Places] /\ p[0] = x
  OBVIOUS
<1>3. IsPath(o, n, <<>>, p)
  BY <1>1, <1>2 DEF IsPath
<1> HIDE DEF p
<1>4. QED
  BY <1>1, <1>2, <1>3 DEF Leads

\* One line leads to the place below it.
LEMMA OneLine ==
  ASSUME NEW o, NEW n, NEW x \in Places, NEW y \in Places, NEW l, Moves(o, n, x, l, y)
  PROVE  Leads(o, n, x, <<l>>, y)
<1> DEFINE p == [i \in 0 .. 1 |-> IF i = 0 THEN x ELSE y]
<1>1. PICK s : s = <<l>>
  OBVIOUS
<1>2. Len(s) = 1 /\ s[1] = l
  BY <1>1
<1>3. p \in [0 .. 1 -> Places] /\ p[0] = x /\ p[1] = y
  OBVIOUS
<1> HIDE DEF p
<1>4. ASSUME NEW i \in 1 .. 1 PROVE Moves(o, n, p[i - 1], s[i], p[i])
  <2>1. i = 1 /\ i - 1 = 0
    OBVIOUS
  <2>2. QED
    BY <1>2, <1>3, <2>1
<1>5. IsPath(o, n, s, p)
  BY <1>2, <1>3, <1>4 DEF IsPath
<1>6. QED
  BY <1>1, <1>2, <1>3, <1>5 DEF Leads

\* Paths of lines that follow each other make one.
LEMMA ThenLines ==
  ASSUME NEW o, NEW n, NEW T, NEW a \in Seq(T), NEW b \in Seq(T), NEW x, NEW y, NEW z,
         Leads(o, n, x, a, y), Leads(o, n, y, b, z)
  PROVE  Leads(o, n, x, a \o b, z)
<1>1. PICK p : IsPath(o, n, a, p) /\ p[0] = x /\ p[Len(a)] = y
  BY DEF Leads
<1>2. PICK q : IsPath(o, n, b, q) /\ q[0] = y /\ q[Len(b)] = z
  BY DEF Leads
<1>3. PICK c : c = a \o b
  OBVIOUS
<1>4. PICK k, m \in Nat : k = Len(a) /\ m = Len(b)
  OBVIOUS
<1>5. /\ Len(c) = k + m
      /\ \A i \in 1 .. k : c[i] = a[i]
      /\ \A i \in 1 .. m : c[k + i] = b[i]
  BY <1>3, <1>4
<1>6. /\ p \in [0 .. k -> Places] /\ q \in [0 .. m -> Places]
      /\ \A i \in 1 .. k : Moves(o, n, p[i - 1], a[i], p[i])
      /\ \A i \in 1 .. m : Moves(o, n, q[i - 1], b[i], q[i])
      /\ p[k] = q[0]
  BY <1>1, <1>2, <1>4 DEF IsPath
<1> DEFINE r == [i \in 0 .. k + m |-> IF i <= k THEN p[i] ELSE q[i - k]]
<1>7. r \in [0 .. k + m -> Places]
  BY <1>6
<1>8. r[0] = x /\ r[k + m] = z
  <2>1. CASE m = 0
    BY <1>1, <1>2, <1>4, <2>1
  <2>2. CASE m # 0
    <3>1. ~(k + m <= k) /\ k + m - k = m /\ 0 <= k /\ 0 \in 0 .. k + m /\ k + m \in 0 .. k + m
      BY <2>2
    <3>2. QED
      BY <1>1, <1>2, <1>4, <3>1
  <2>3. QED
    BY <2>1, <2>2
<1>9. ASSUME NEW i \in 1 .. k + m PROVE Moves(o, n, r[i - 1], c[i], r[i])
  <2>1. CASE i <= k
    <3>1. i \in 1 .. k /\ i - 1 \in 0 .. k + m /\ i - 1 <= k /\ i \in 0 .. k + m
      BY <2>1
    <3>2. r[i - 1] = p[i - 1] /\ r[i] = p[i] /\ c[i] = a[i]
      BY <1>5, <2>1, <3>1
    <3>3. QED
      BY <1>6, <3>1, <3>2
  <2>2. CASE i = k + 1
    <3>1. 1 \in 1 .. m /\ i - 1 = k /\ ~(i <= k) /\ i - k = 1 /\ i \in 0 .. k + m /\ k \in 0 .. k + m
      BY <2>2
    <3>2. r[i - 1] = q[0] /\ r[i] = q[1] /\ c[i] = b[1]
      BY <1>5, <1>6, <2>2, <3>1
    <3>3. Moves(o, n, q[1 - 1], b[1], q[1])
      BY <1>6, <3>1
    <3>4. 1 - 1 = 0
      OBVIOUS
    <3>5. QED
      BY <3>2, <3>3, <3>4
  <2>3. CASE i > k + 1
    <3> DEFINE j == i - k
    <3>1. j \in 1 .. m /\ k + j = i /\ i - 1 - k = j - 1 /\ ~(i <= k) /\ ~(i - 1 <= k)
          /\ i \in 0 .. k + m /\ i - 1 \in 0 .. k + m
      BY <2>3
    <3>2. r[i - 1] = q[j - 1] /\ r[i] = q[j]
      BY <3>1
    <3>3. c[i] = b[j]
      BY <1>5, <3>1
    <3> HIDE DEF j
    <3>4. QED
      BY <1>6, <3>1, <3>2, <3>3
  <2>4. QED
    BY <2>1, <2>2, <2>3
<1> HIDE DEF r
<1>10. IsPath(o, n, c, r)
  BY <1>5, <1>7, <1>9 DEF IsPath
<1>11. QED
  BY <1>3, <1>5, <1>8, <1>10 DEF Leads

\* Part of a path.
LEMMA PathOfPart ==
  ASSUME NEW o, NEW n, NEW T, NEW lines \in Seq(T), NEW p, IsPath(o, n, lines, p),
         NEW from \in 1 .. Len(lines) + 1, NEW to \in from - 1 .. Len(lines)
  PROVE  Leads(o, n, p[from - 1], SubSeq(lines, from, to), p[to])
<1>1. PICK s : s = SubSeq(lines, from, to)
  OBVIOUS
<1>2. PICK m \in Nat : m = to - (from - 1)
  <2>1. to - (from - 1) \in Nat
    OBVIOUS
  <2>2. QED
    BY <2>1
<1>3. Len(s) = m /\ \A i \in 1 .. m : s[i] = lines[from + i - 1]
  <2>1. from \in Int /\ to \in Int /\ from >= 1 /\ to <= Len(lines)
    OBVIOUS
  <2>2. /\ Len(s) = IF from <= to THEN to - from + 1 ELSE 0
        /\ \A i \in 1 .. Len(s) : s[i] = lines[from + i - 1]
    BY <1>1, <2>1, ElementsOfSubSeq
  <2>3. Len(s) = m
    BY <1>2, <2>1, <2>2
  <2>4. QED
    BY <2>2, <2>3
<1>4. /\ p \in [0 .. Len(lines) -> Places]
      /\ \A i \in 1 .. Len(lines) : Moves(o, n, p[i - 1], lines[i], p[i])
  BY DEF IsPath
<1> DEFINE q == [i \in 0 .. m |-> p[from - 1 + i]]
<1>5. q \in [0 .. m -> Places] /\ q[0] = p[from - 1] /\ q[m] = p[to]
  <2>1. \A i \in 0 .. m : from - 1 + i \in 0 .. Len(lines)
    BY <1>2
  <2>2. from - 1 + 0 = from - 1 /\ from - 1 + m = to /\ 0 \in 0 .. m /\ m \in 0 .. m
    BY <1>2
  <2>3. q[0] = p[from - 1] /\ q[m] = p[to]
    BY <2>2
  <2>4. \A i \in 0 .. m : p[from - 1 + i] \in Places
    BY <1>4, <2>1
  <2>5. QED
    BY <2>3, <2>4
<1>6. ASSUME NEW i \in 1 .. m PROVE Moves(o, n, q[i - 1], s[i], q[i])
  <2> DEFINE j == from - 1 + i
  <2>1. j \in 1 .. Len(lines) /\ from - 1 + (i - 1) = j - 1 /\ from + i - 1 = j /\ i \in 0 .. m /\ i - 1 \in 0 .. m
    BY <1>2
  <2>2. q[i - 1] = p[j - 1] /\ q[i] = p[j]
    BY <2>1
  <2>3. s[i] = lines[j]
    BY <1>3, <2>1
  <2> HIDE DEF j
  <2>4. QED
    BY <1>4, <2>1, <2>2, <2>3
<1> HIDE DEF q
<1>7. IsPath(o, n, s, q)
  BY <1>3, <1>5, <1>6 DEF IsPath
<1>8. QED
  BY <1>1, <1>3, <1>5, <1>7 DEF Leads

(***************************************************************************)
(* Parts that lead from each of some places to one of others lead, one     *)
(* after the other, from the first of these to the last.                   *)
(***************************************************************************)
LEMMA ThroughParts ==
  ASSUME NEW o, NEW n, NEW T, NEW k \in Nat, NEW s, s \in [1 .. k -> Seq(T)], NEW F,
         F[0] \subseteq Places,
         \A i \in 1 .. k : \A x \in F[i - 1] : \E y \in F[i] : Leads(o, n, x, s[i], y)
  PROVE  \A x \in F[0] : \E y \in F[k] : Leads(o, n, x, FlattenSeq(s), y)
<1> TAKE x \in F[0]
<1>1. CASE k = 0
  <2>1. FlattenSeq(s) = <<>>
    <3>1. s \in Seq(Seq(T)) /\ Len(s) = 0
      BY <1>1
    <3>2. QED
      BY <3>1, FlattenedNothing
  <2>2. Leads(o, n, x, <<>>, x)
    BY NoLines
  <2>3. QED
    BY <1>1, <2>1, <2>2
<1>2. CASE k # 0
  <2>1. PICK h : /\ \A i \in 1 .. k : h[i] = IF i = 1 THEN s[i] ELSE h[i - 1] \o s[i]
                 /\ h[k] = FlattenSeq(s)
    <3>1. s \in Seq(Seq(T)) /\ Len(s) = k
      OBVIOUS
    <3>2. \E h : Joins(h, k, s) /\ FlattenSeq(s) = h[k]
      BY <1>2, <3>1, FlattenCourse
    <3>3. QED
      BY <3>2 DEF Joins
  <2> DEFINE Holds(i) == h[i] \in Seq(T) /\ \E y \in F[i] : Leads(o, n, x, h[i], y)
             S == {i \in 0 .. k : i = 0 \/ Holds(i)}
  <2>2. ASSUME NEW i \in 1 .. k, i - 1 \in S PROVE i \in S
    <3>1. CASE i = 1
      <4>1. h[i] = s[i] /\ i - 1 = 0
        BY <2>1, <3>1
      <4>2. PICK y \in F[i] : Leads(o, n, x, s[i], y)
        BY <4>1
      <4>3. Holds(i)
        BY <4>1, <4>2
      <4> HIDE DEF Holds
      <4>4. QED
        BY <4>3
    <3>2. CASE i # 1
      <4>1. Holds(i - 1)
        BY <2>2, <3>2
      <4>2. PICK y \in F[i - 1] : Leads(o, n, x, h[i - 1], y)
        BY <4>1
      <4>3. PICK z \in F[i] : Leads(o, n, y, s[i], z)
        OBVIOUS
      <4>4. h[i] = h[i - 1] \o s[i] /\ s[i] \in Seq(T) /\ h[i - 1] \in Seq(T)
        BY <2>1, <3>2, <4>1
      <4>5. Leads(o, n, x, h[i], z) /\ h[i] \in Seq(T)
        <5>1. Leads(o, n, x, h[i - 1] \o s[i], z)
          BY <4>2, <4>3, <4>4, ThenLines
        <5>2. h[i - 1] \o s[i] \in Seq(T)
          BY <4>4
        <5>3. QED
          BY <4>4, <5>1, <5>2
      <4>6. Holds(i)
        BY <4>5
      <4> HIDE DEF Holds
      <4>7. QED
        BY <4>6
    <3>3. QED
      BY <3>1, <3>2
  <2>3. k \in S
    <3>1. 0 \in S
      OBVIOUS
    <3> HIDE DEF S
    <3>2. \A i \in 0 .. k : i \in S
      BY <2>2, <3>1, EveryRound
    <3>3. QED
      BY <3>2
  <2>4. QED
    BY <1>2, <2>1, <2>3
<1>3. QED
  BY <1>1, <1>2

\* Lines that lead somewhere lead there by way of the place between two of them.
LEMMA LeadsApart ==
  ASSUME NEW o, NEW n, NEW T, NEW a \in Seq(T), NEW b \in Seq(T), NEW x, NEW z, Leads(o, n, x, a \o b, z)
  PROVE  \E y \in Places : Leads(o, n, x, a, y) /\ Leads(o, n, y, b, z)
<1>1. PICK c : c = a \o b
  OBVIOUS
<1>2. PICK k, m \in Nat : k = Len(a) /\ m = Len(b)
  OBVIOUS
<1>3. /\ c \in Seq(T) /\ Len(c) = k + m
      /\ \A i \in 1 .. k : c[i] = a[i]
      /\ \A i \in 1 .. m : c[k + i] = b[i]
  BY <1>1, <1>2
<1>4. PICK p : IsPath(o, n, c, p) /\ p[0] = x /\ p[k + m] = z
  BY <1>1, <1>3 DEF Leads
<1>5. p \in [0 .. k + m -> Places] /\ \A i \in 1 .. k + m : Moves(o, n, p[i - 1], c[i], p[i])
  BY <1>3, <1>4 DEF IsPath
<1> DEFINE q == [i \in 0 .. k |-> p[i]]
           r == [i \in 0 .. m |-> p[k + i]]
<1>6. /\ q \in [0 .. k -> Places] /\ q[0] = x /\ q[k] = p[k] /\ p[k] \in Places
      /\ \A i \in 0 .. k : q[i] = p[i]
  <2>1. \A i \in 0 .. k : i \in 0 .. k + m
    OBVIOUS
  <2>2. 0 \in 0 .. k /\ k \in 0 .. k
    OBVIOUS
  <2>3. QED
    BY <1>4, <1>5, <2>1, <2>2
<1>7. /\ r \in [0 .. m -> Places] /\ r[0] = p[k] /\ r[m] = z
      /\ \A i \in 0 .. m : r[i] = p[k + i]
  <2>1. \A i \in 0 .. m : k + i \in 0 .. k + m
    OBVIOUS
  <2>2. 0 \in 0 .. m /\ m \in 0 .. m /\ k + 0 = k
    OBVIOUS
  <2>3. QED
    BY <1>4, <1>5, <2>1, <2>2
<1> HIDE DEF q, r
<1>8. \A i \in 1 .. k : Moves(o, n, q[i - 1], a[i], q[i])
  <2>1. \A i \in 1 .. k : i \in 1 .. k + m /\ i - 1 \in 0 .. k /\ i \in 0 .. k
    OBVIOUS
  <2>2. QED
    BY <1>3, <1>5, <1>6, <2>1
<1>9. \A i \in 1 .. m : Moves(o, n, r[i - 1], b[i], r[i])
  <2>1. \A i \in 1 .. m : /\ k + i \in 1 .. k + m /\ k + i - 1 = k + (i - 1)
                          /\ i - 1 \in 0 .. m /\ i \in 0 .. m
    OBVIOUS
  <2>2. QED
    BY <1>3, <1>5, <1>7, <2>1
<1>10. Leads(o, n, x, a, p[k])
  BY <1>2, <1>6, <1>8 DEF Leads, IsPath
<1>11. Leads(o, n, p[k], b, z)
  BY <1>2, <1>7, <1>9 DEF Leads, IsPath
<1>12. QED
  BY <1>6, <1>10, <1>11

\* A part of a script is printed where it is.
LEMMA PrintedLeads ==
  ASSUME NEW o, NEW n, NEW part \in ScriptPart, NEW x \in Places, x.inside,
         \A f \in x.file : /\ part.kind # "add" => Abs(o[f][x.old]) = Abs(part.line)
                           /\ part.kind # "del" => Abs(n[f][x.new]) = Abs(part.line)
  PROVE  Leads(o, n, x, Printed(part), Behind(x, part.kind))
<1>1. PICK l, e, y, rest0 : /\ l = Body(part.kind, Abs(part.line)) /\ e = [kind |-> "noeol"]
                            /\ y = Behind(x, part.kind)
                            /\ rest0 = (IF part.line < 0 THEN <<e>> ELSE <<>>)
  OBVIOUS
<1>2. l.kind = part.kind /\ l.text = Abs(part.line) /\ part.kind \in {"ctx", "del", "add"}
  BY <1>1 DEF Body, ScriptPart
<1>3. y \in Places /\ y.inside
  BY <1>1 DEF Places, Behind, PlaceAt
<1>4. Matches(o, n, x, l)
  BY <1>2 DEF Matches
<1>5. Moves(o, n, x, l, y)
  BY <1>1, <1>2, <1>4 DEF Moves
<1>6. Leads(o, n, x, <<l>>, y)
  BY <1>3, <1>5, OneLine
<1>7. Leads(o, n, y, rest0, y)
  <2>1. Moves(o, n, y, e, y)
    BY <1>1, <1>3 DEF Moves
  <2>2. Leads(o, n, y, <<e>>, y)
    BY <1>3, <2>1, OneLine
  <2>3. Leads(o, n, y, <<>>, y)
    BY <1>3, NoLines
  <2>4. QED
    BY <1>1, <2>2, <2>3
<1>8. PICK T : T = {l, e}
  OBVIOUS
<1>9. <<l>> \in Seq(T) /\ rest0 \in Seq(T)
  BY <1>1, <1>8
<1>10. Leads(o, n, x, <<l>> \o rest0, y)
  BY <1>6, <1>7, <1>9, ThenLines
<1>11. QED
  BY <1>1, <1>10 DEF Printed

(***************************************************************************)
(* A chunk is where its header says.                                       *)
(***************************************************************************)
LEMMA ChunkLeads ==
  ASSUME NEW o, NEW n, NEW file \in Names, NEW script \in Seq(ScriptPart), NEW a, NEW b,
         Tells(script, o[file], n[file], a, b),
         NEW from \in 1 .. Len(script), NEW to \in from .. Len(script),
         NEW x \in Places, x.file = {file}
  PROVE  \E y \in Places : y.file = {file} /\ Leads(o, n, x, ChunkAt(script, from, to), y)
<1> DEFINE Position(next, count) == IF count = 0 THEN next - 1 ELSE next
           Others(kind) == {i \in from .. to : script[i].kind # kind}
           olines == Cardinality(Others("add"))
           nlines == Cardinality(Others("del"))
           header == [kind |-> "chunk",
                      opos |-> Position(script[from].old, olines), olines |-> olines,
                      npos |-> Position(script[from].new, nlines), nlines |-> nlines]
           k == to - from + 1
           parts == [i \in 1 .. k |-> Printed(script[from + i - 1])]
           d == IF olines = 0 THEN 1 ELSE 0
           e == IF nlines = 0 THEN 1 ELSE 0
           Before(i) == PlaceAt({file}, script[i].old - d, script[i].new - e)
           After2(i) == Behind(Before(i), script[i].kind)
           F == [i \in 0 .. k |-> {IF i = 0 THEN Before(from) ELSE After2(from + i - 1)}]
<1>1. ChunkAt(script, from, to) = <<header>> \o FlattenSeq(parts)
  BY DEF ChunkAt
<1>2. ASSUME NEW kind, Cardinality(Others(kind)) = 0, NEW i \in from .. to
      PROVE  script[i].kind = kind
  <2>1. from \in Int /\ to \in Int /\ Others(kind) \subseteq from .. to
    OBVIOUS
  <2>2. PICK S : S = Others(kind)
    OBVIOUS
  <2>3. IsFiniteSet(from .. to) /\ S \subseteq from .. to /\ Cardinality(S) = 0
    BY <1>2, <2>1, <2>2, FS_Interval
  <2>4. IsFiniteSet(S)
    BY <2>3, FS_Subset
  <2>5. S = {}
    BY <2>3, <2>4, FS_EmptySet
  <2>6. QED
    BY <2>2, <2>5
<1>3. \A i \in from .. to : /\ script[i].kind # "add" => d = 0
                            /\ script[i].kind # "del" => e = 0
  <2>1. TAKE i \in from .. to
  <2>2. olines = 0 => script[i].kind = "add"
    BY <1>2
  <2>3. nlines = 0 => script[i].kind = "del"
    BY <1>2
  <2> HIDE DEF olines, nlines
  <2>4. QED
    BY <2>2, <2>3
<1>4. /\ header.kind = "chunk"
      /\ header.opos = script[from].old - d /\ header.npos = script[from].new - e
  <2>1. script[from].old \in Nat /\ script[from].new \in Nat
    <3>1. script[from] \in ScriptPart
      OBVIOUS
    <3>2. QED
      BY <3>1 DEF ScriptPart
  <2> HIDE DEF olines, nlines
  <2>2. QED
    BY <2>1
<1> HIDE DEF header
<1>5. d \in Int /\ e \in Int
  OBVIOUS
<1> HIDE DEF d, e
<1>6. ASSUME NEW i \in from .. to
      PROVE  /\ script[i] \in ScriptPart /\ Placed(script[i], o[file], n[file])
             /\ script[i].kind \in {"ctx", "del", "add"}
             /\ script[i].old \in Int /\ script[i].new \in Int
  <2>1. i \in 1 .. Len(script)
    OBVIOUS
  <2>2. script[i] \in ScriptPart
    BY <2>1
  <2>3. Placed(script[i], o[file], n[file])
    BY <2>1 DEF Tells
  <2>4. PICK part : part = script[i]
    OBVIOUS
  <2>5. part.kind \in {"ctx", "del", "add"} /\ part.old \in Int /\ part.new \in Int
    BY <2>2, <2>4 DEF ScriptPart
  <2>6. QED
    BY <2>2, <2>3, <2>4, <2>5
<1>7. \A i \in from .. to : Before(i) \in Places /\ After2(i) \in Places
  <2> TAKE i \in from .. to
  <2>1. script[i].old - d \in Int /\ script[i].new - e \in Int
    BY <1>5, <1>6
  <2>2. PICK old, new \in Int : old = script[i].old - d /\ new = script[i].new - e
    BY <2>1
  <2>3. PICK y : y = PlaceAt({file}, old, new)
    OBVIOUS
  <2>4. y \in Places /\ \A kind : Behind(y, kind) \in Places
    BY <2>3 DEF Places, PlaceAt, Behind
  <2>5. Before(i) = y
    BY <2>2, <2>3
  <2> HIDE DEF Before
  <2>6. QED
    BY <2>4, <2>5
<1>8. \A i \in from .. to - 1 : After2(i) = Before(i + 1)
  <2>1. TAKE i \in from .. to - 1
  <2>2. i \in 1 .. Len(script) - 1 /\ i \in from .. to /\ i + 1 \in from .. to
    OBVIOUS
  <2>3. Follows(script, i, script[i + 1].old, script[i + 1].new)
    BY <2>2 DEF Tells
  <2>4. PICK part, next : part = script[i] /\ next = script[i + 1]
    OBVIOUS
  <2>5. /\ part.old \in Int /\ part.new \in Int
        /\ next.old = part.old + (IF part.kind = "add" THEN 0 ELSE 1)
        /\ next.new = part.new + (IF part.kind = "del" THEN 0 ELSE 1)
    BY <1>6, <2>2, <2>3, <2>4 DEF Follows
  <2>6. Behind(PlaceAt({file}, part.old - d, part.new - e), part.kind)
          = PlaceAt({file}, next.old - d, next.new - e)
    <3>1. \A u, v : Behind(PlaceAt({file}, u, v), part.kind)
                     = PlaceAt({file}, IF part.kind = "add" THEN u ELSE u + 1,
                                       IF part.kind = "del" THEN v ELSE v + 1)
      BY DEF PlaceAt, Behind
    <3>2. next.old - d = IF part.kind = "add" THEN part.old - d ELSE part.old - d + 1
      BY <1>5, <2>5
    <3>3. next.new - e = IF part.kind = "del" THEN part.new - e ELSE part.new - e + 1
      BY <1>5, <2>5
    <3>4. QED
      BY <3>1, <3>2, <3>3
  <2>7. QED
    BY <2>4, <2>6
<1>9. ASSUME NEW i \in from .. to
      PROVE  Leads(o, n, Before(i), Printed(script[i]), After2(i))
  <2>1. PICK y, part : y = Before(i) /\ part = script[i]
    OBVIOUS
  <2>2. /\ part \in ScriptPart /\ y \in Places /\ y.inside /\ y.file = {file}
        /\ y.old = part.old - d /\ y.new = part.new - e
    BY <1>6, <1>7, <2>1 DEF PlaceAt
  <2>3. /\ part.kind # "add" => y.old = part.old /\ o[file][part.old] = part.line
        /\ part.kind # "del" => y.new = part.new /\ n[file][part.new] = part.line
    BY <1>3, <1>6, <2>1, <2>2 DEF Placed
  <2>4. \A f \in y.file : /\ part.kind # "add" => Abs(o[f][y.old]) = Abs(part.line)
                          /\ part.kind # "del" => Abs(n[f][y.new]) = Abs(part.line)
    BY <2>2, <2>3
  <2>5. Leads(o, n, y, Printed(part), Behind(y, part.kind))
    BY <2>2, <2>4, PrintedLeads
  <2>6. QED
    BY <2>1, <2>5
<1>10. k \in Nat \ {0}
  OBVIOUS
<1>11. parts \in [1 .. k -> Seq(Line)]
  <2>1. \A i \in 1 .. k : from + i - 1 \in from .. to
    OBVIOUS
  <2>2. \A i \in 1 .. k : Printed(script[from + i - 1]) \in Seq(Line)
    BY <1>6, <2>1, PrintedLines
  <2>3. QED
    BY <2>2
<1>12. \A i \in 1 .. k : parts[i] = Printed(script[from + i - 1])
  OBVIOUS
<1>13. /\ F[0] = {Before(from)}
       /\ \A i \in 1 .. k : F[i] = {After2(from + i - 1)}
  BY <1>10
<1> HIDE DEF parts, Before, After2, F
<1>14. ASSUME NEW i \in 1 .. k, NEW y \in F[i - 1]
       PROVE  \E z \in F[i] : Leads(o, n, y, parts[i], z)
  <2>1. PICK j : j = from + i - 1
    OBVIOUS
  <2>2. j \in from .. to
    BY <2>1
  <2>3. y = Before(j)
    <3>1. CASE i = 1
      BY <1>13, <2>1, <3>1
    <3>2. CASE i # 1
      <4>1. i - 1 \in 1 .. k /\ from + (i - 1) - 1 = j - 1 /\ j - 1 \in from .. to - 1 /\ j - 1 + 1 = j
        BY <2>1, <2>2, <3>2
      <4>2. y = After2(j - 1)
        BY <1>13, <4>1
      <4>3. After2(j - 1) = Before(j)
        BY <1>8, <4>1
      <4>4. QED
        BY <4>2, <4>3
    <3>3. QED
      BY <3>1, <3>2
  <2>4. After2(j) \in F[i] /\ parts[i] = Printed(script[j])
    BY <1>12, <1>13, <2>1
  <2>5. QED
    BY <1>9, <2>2, <2>3, <2>4
<1>15. F[0] \subseteq Places
  BY <1>7, <1>13
<1>16. PICK y \in F[k] : Leads(o, n, Before(from), FlattenSeq(parts), y)
  <2> HIDE DEF k
  <2>1. \A y \in F[0] : \E z \in F[k] : Leads(o, n, y, FlattenSeq(parts), z)
    BY <1>10, <1>11, <1>14, <1>15, ThroughParts
  <2>2. QED
    BY <1>13, <2>1
<1>17. Leads(o, n, x, <<header>>, Before(from))
  <2>1. Before(from) = PlaceAt({file}, header.opos, header.npos)
    BY <1>4 DEF Before
  <2>2. Moves(o, n, x, header, Before(from))
    BY <1>4, <2>1 DEF Moves
  <2>3. QED
    BY <1>7, <2>2, OneLine
<1>18. Leads(o, n, x, ChunkAt(script, from, to), y)
  <2>1. ChunkAt(script, from, to) \in Seq(Line)
    BY PrintedChunk
  <2>2. PICK T : T = Line \cup {header}
    OBVIOUS
  <2>3. <<header>> \in Seq(T)
    BY <2>2
  <2>4. FlattenSeq(parts) \in Seq(Line)
    <3> HIDE DEF k
    <3>1. QED
      BY <1>10, <1>11, FlattenedParts
  <2>5. FlattenSeq(parts) \in Seq(T)
    BY <2>2, <2>4, SeqOfMore
  <2>6. Leads(o, n, x, <<header>> \o FlattenSeq(parts), y)
    BY <1>16, <1>17, <2>3, <2>5, ThenLines
  <2>7. QED
    BY <1>1, <2>6
<1>19. y \in Places /\ y.file = {file}
  <2>1. from + k - 1 = to /\ k \in 1 .. k
    BY <1>10
  <2>2. y = After2(to)
    BY <1>13, <1>16, <2>1
  <2>3. After2(to).file = {file}
    <3>1. \A z, kind : Behind(z, kind).file = z.file
      BY DEF Behind, PlaceAt
    <3>2. Before(to).file = {file}
      BY DEF Before, PlaceAt
    <3>3. QED
      BY <3>1, <3>2 DEF After2
  <2>4. QED
    BY <1>7, <2>2, <2>3
<1>20. QED
  BY <1>18, <1>19

\* The header of a file leads to the file, outside its chunks.
LEMMA HeaderLeads ==
  ASSUME NEW o, NEW n, NEW file \in Names, NEW x \in Places
  PROVE  \E y \in Places : y.file = {file} /\ Leads(o, n, x, HeaderOf(file), y)
<1> DEFINE y == [file |-> {file}, inside |-> FALSE, old |-> 0, new |-> 0]
           p == [i \in 0 .. 4 |-> IF i = 0 THEN x ELSE y]
<1>1. y \in Places /\ y.file = {file} /\ ~y.inside
  BY DEF Places
<1> HIDE DEF y
<1>2. PICK lines : lines = HeaderOf(file)
  OBVIOUS
<1>3. /\ Len(lines) = 4
      /\ lines[1].kind = "header" /\ lines[1].file = file
      /\ lines[2].kind = "index" /\ lines[3].kind = "old" /\ lines[4].kind = "new"
  <2>1. lines = [i \in 1 .. 4 |-> [kind |-> HeaderKinds[i], file |-> file]]
    BY <1>2 DEF HeaderOf
  <2>2. HeaderKinds[1] = "header" /\ HeaderKinds[2] = "index" /\ HeaderKinds[3] = "old" /\ HeaderKinds[4] = "new"
    BY DEF HeaderKinds
  <2>3. lines \in Seq(Line) /\ DOMAIN lines = 1 .. 4
    BY <1>2, <2>1, HeaderLines
  <2>4. Len(lines) = 4
    BY <2>3
  <2>5. QED
    BY <2>1, <2>2, <2>4
<1>4. ASSUME NEW i \in 1 .. 4 PROVE Moves(o, n, p[i - 1], lines[i], p[i])
  <2>1. CASE i = 1
    <3>1. p[i - 1] = x /\ p[i] = y
      BY <2>1
    <3>2. QED
      BY <1>1, <1>3, <2>1, <3>1 DEF Moves
  <2>2. CASE i # 1
    <3>1. p[i - 1] = y /\ p[i] = y
      BY <2>2
    <3>2. lines[i].kind \in {"index", "old", "new"}
      BY <1>3, <2>2
    <3>3. QED
      BY <1>1, <3>1, <3>2 DEF Moves
  <2>3. QED
    BY <2>1, <2>2
<1>5. p \in [0 .. 4 -> Places] /\ p[0] = x /\ p[4] = y
  BY <1>1
<1> HIDE DEF p
<1>6. IsPath(o, n, lines, p)
  BY <1>3, <1>4, <1>5 DEF IsPath
<1>7. Leads(o, n, x, lines, y)
  BY <1>3, <1>5, <1>6 DEF Leads
<1>8. QED
  BY <1>1, <1>2, <1>7

\* A diff of two files is where it says.
LEMMA DiffLeads ==
  ASSUME NEW o, NEW n, NEW file \in Names, o[file] \in Seq(Int), n[file] \in Seq(Int), NEW x \in Places
  PROVE  \E y \in Places : Leads(o, n, x, Diff(file, o[file], n[file]), y)
<1> DEFINE script == Script(o[file], n[file])
           shown == ShownParts(script)
           EndOf(i) == Min({j \in i .. Len(script) : j + 1 \notin shown})
           part(i) == IF i \in shown /\ i - 1 \notin shown THEN ChunkAt(script, i, EndOf(i)) ELSE <<>>
           parts == [i \in DOMAIN script |-> part(i)]
           here == {z \in Places : z.file = {file}}
<1>1. Chunks(script) = FlattenSeq(parts)
  BY DEF Chunks
<1>2. /\ script \in Seq(ScriptPart)
      /\ \E a, b \in Nat \ {0} : Tells(script, o[file], n[file], a, b)
  BY ScriptTells
<1>3. shown \subseteq DOMAIN script
  BY DEF ShownParts
<1> HIDE DEF script, shown
<1>4. DOMAIN script = 1 .. Len(script) /\ Len(script) \in Nat
  BY <1>2
<1>5. ASSUME NEW i \in 1 .. Len(script) PROVE EndOf(i) \in i .. Len(script)
  <2> DEFINE E == {j \in i .. Len(script) : j + 1 \notin shown}
  <2>1. E \subseteq Nat /\ E \subseteq i .. Len(script) /\ Len(script) \in E
    BY <1>3, <1>4
  <2>2. Min(E) \in E
    <3> HIDE DEF E
    <3>1. QED
      BY <2>1, LeastOf
  <2>3. QED
    BY <2>1, <2>2
<1> HIDE DEF EndOf
<1>6. ASSUME NEW i \in 1 .. Len(script)
      PROVE  /\ part(i) \in Seq(Line)
             /\ \A z \in here : \E y \in here : Leads(o, n, z, part(i), y)
  <2>1. CASE i \in shown /\ i - 1 \notin shown
    <3>1. PICK e \in i .. Len(script) : e = EndOf(i)
      BY <1>5
    <3>2. part(i) = ChunkAt(script, i, e)
      BY <2>1, <3>1
    <3>3. ChunkAt(script, i, e) \in Seq(Line)
      BY <1>2, PrintedChunk
    <3>4. ASSUME NEW z \in here PROVE \E y \in here : Leads(o, n, z, ChunkAt(script, i, e), y)
      BY <1>2, ChunkLeads
    <3>5. QED
      BY <3>2, <3>3, <3>4
  <2>2. CASE ~(i \in shown /\ i - 1 \notin shown)
    <3>1. part(i) = <<>>
      BY <2>2
    <3>2. <<>> \in Seq(Line) /\ \A z \in here : Leads(o, n, z, <<>>, z)
      BY NoLines
    <3>3. QED
      BY <3>1, <3>2
  <2>3. QED
    BY <2>1, <2>2
<1> HIDE DEF part
<1>7. PICK k \in Nat : k = Len(script)
  BY <1>4
<1>8. parts \in [1 .. k -> Seq(Line)] /\ \A i \in 1 .. k : parts[i] = part(i)
  BY <1>4, <1>6, <1>7
<1> HIDE DEF parts
<1> DEFINE F == [i \in 0 .. k |-> here]
<1>9. \A z \in here : \E y \in here : Leads(o, n, z, FlattenSeq(parts), y)
  <2>1. F[0] \subseteq Places /\ F[0] = here /\ F[k] = here
    OBVIOUS
  <2>2. \A i \in 1 .. k : F[i - 1] = here /\ F[i] = here
    OBVIOUS
  <2> HIDE DEF F, here
  <2>3. \A i \in 1 .. k : \A z \in F[i - 1] : \E y \in F[i] : Leads(o, n, z, parts[i], y)
    BY <1>6, <1>7, <1>8, <2>2
  <2>4. \A z \in F[0] : \E y \in F[k] : Leads(o, n, z, FlattenSeq(parts), y)
    BY <1>8, <2>1, <2>3, ThroughParts
  <2>5. QED
    BY <2>1, <2>4
<1>10. PICK z \in here : Leads(o, n, x, HeaderOf(file), z)
  BY HeaderLeads
<1>11. PICK y \in here : Leads(o, n, z, FlattenSeq(parts), y)
  BY <1>9
<1>12. HeaderOf(file) \in Seq(Line) /\ FlattenSeq(parts) \in Seq(Line)
  BY <1>8, HeaderLines, FlattenedParts
<1>13. Leads(o, n, x, HeaderOf(file) \o Chunks(script), y)
  BY <1>1, <1>10, <1>11, <1>12, ThenLines
<1>14. Leads(o, n, x, <<>>, x)
  BY NoLines
<1>15. QED
  BY <1>13, <1>14 DEF Diff, script

\* So is what git prints for all the files.
LEMMA ShownLeads ==
  ASSUME NEW t, NEW s, NEW state, FilesTyped(state.index), FilesTyped(state.work), NEW x \in Places
  PROVE  \E y \in Places : Leads(Old(t, state), New(t, state), x, Shown(t, s, state), y)
<1> DEFINE part(f) == IF s \in {f, All} THEN Diff(f, Old(t, state)[f], New(t, state)[f]) ELSE <<>>
           parts == [i \in DOMAIN Files |-> part(Files[i])]
<1>1. Shown(t, s, state) = FlattenSeq(parts)
  BY DEF Shown
<1>2. PICK o, n : o = Old(t, state) /\ n = New(t, state)
  OBVIOUS
<1>3. ASSUME NEW f \in Names
      PROVE  /\ part(f) \in Seq(Line)
             /\ \A z \in Places : \E y \in Places : Leads(o, n, z, part(f), y)
  <2>1. CASE s \in {f, All}
    <3>1. o[f] \in Seq(Int) /\ n[f] \in Seq(Int)
      BY <1>2, FilesAssumption DEF Old, New, FilesTyped
    <3>2. part(f) = Diff(f, o[f], n[f])
      BY <1>2, <2>1
    <3>3. Diff(f, o[f], n[f]) \in Seq(Line)
      BY <3>1, DiffLines
    <3>4. \A z \in Places : \E y \in Places : Leads(o, n, z, Diff(f, o[f], n[f]), y)
      BY <3>1, DiffLeads
    <3>5. QED
      BY <3>2, <3>3, <3>4
  <2>2. CASE ~(s \in {f, All})
    <3>1. part(f) = <<>> /\ <<>> \in Seq(Line)
      BY <2>2
    <3>2. QED
      BY <3>1, NoLines
  <2>3. QED
    BY <2>1, <2>2
<1> HIDE DEF part
<1>4. PICK k \in Nat : k = Len(Files)
  BY FilesAssumption
<1>5. DOMAIN Files = 1 .. k /\ \A i \in 1 .. k : Files[i] \in Names
  BY <1>4, FilesAssumption
<1>6. parts \in [1 .. k -> Seq(Line)] /\ \A i \in 1 .. k : parts[i] = part(Files[i])
  BY <1>3, <1>5
<1> HIDE DEF parts
<1> DEFINE F == [i \in 0 .. k |-> Places]
<1>7. F[0] = Places /\ F[k] = Places /\ \A i \in 1 .. k : F[i - 1] = Places /\ F[i] = Places
  OBVIOUS
<1> HIDE DEF F
<1>8. \A i \in 1 .. k : \A z \in F[i - 1] : \E y \in F[i] : Leads(o, n, z, parts[i], y)
  <2>1. TAKE i \in 1 .. k
  <2>2. PICK f \in Names : f = Files[i]
    BY <1>5
  <2>3. F[i - 1] = Places /\ F[i] = Places /\ parts[i] = part(f)
    BY <1>6, <1>7, <2>2
  <2>4. QED
    BY <1>3, <2>3
<1>9. \A z \in F[0] : \E y \in F[k] : Leads(o, n, z, FlattenSeq(parts), y)
  BY <1>6, <1>7, <1>8, ThroughParts
<1>10. QED
  BY <1>1, <1>2, <1>7, <1>9

-----------------------------------------------------------------------------
(***************************************************************************)
(* Splitting a chunk.                                                      *)
(***************************************************************************)
Parts(n) == [header : ChunkHeaders, from : Nat \ {0}, to : 0 .. n]
SplitStates(n) ==
  [parts : Seq(Parts(n)), header : ChunkHeaders, from : Nat \ {0}, changed : Nat, unchanged : Nat]

\* The counts of a chunk header may be set.
LEMMA HeaderTyped ==
  ASSUME NEW h \in ChunkHeaders
  PROVE  /\ h.opos \in Int /\ h.olines \in Int /\ h.npos \in Int /\ h.nlines \in Int
         /\ \A o, n \in Int : /\ [h EXCEPT !.olines = o] \in ChunkHeaders
                              /\ [h EXCEPT !.nlines = n] \in ChunkHeaders
                              /\ [h EXCEPT !.olines = o, !.nlines = n] \in ChunkHeaders
BY DEF ChunkHeaders

\* The header of the next part of a split chunk is a chunk header.
LEMMA NextHeaderTyped ==
  ASSUME NEW h \in ChunkHeaders, NEW shared \in Int
  PROVE  NextHeader(h, shared) \in ChunkHeaders
<1>1. PICK o, n : o = h.opos + h.olines - shared /\ n = h.npos + h.nlines - shared
  OBVIOUS
<1>2. NextHeader(h, shared)
        = [kind |-> "chunk", opos |-> o, olines |-> shared, npos |-> n, nlines |-> shared]
  BY <1>1 DEF NextHeader
<1>3. h.opos \in Int /\ h.olines \in Int /\ h.npos \in Int /\ h.nlines \in Int
  BY HeaderTyped
<1>4. o \in Int /\ n \in Int
  BY <1>1, <1>3
<1>5. QED
  BY <1>2, <1>4 DEF ChunkHeaders

\* What the state of a split holds.
LEMMA SplitStateTyped ==
  ASSUME NEW n, NEW s \in SplitStates(n)
  PROVE  /\ s.parts \in Seq(Parts(n)) /\ s.header \in ChunkHeaders
         /\ s.from \in Nat \ {0} /\ s.changed \in Nat /\ s.unchanged \in Nat
         /\ \A h \in ChunkHeaders, c \in Nat : [s EXCEPT !.header = h, !.changed = c] \in SplitStates(n)
         /\ \A h \in ChunkHeaders, u \in Nat : [s EXCEPT !.header = h, !.unchanged = u] \in SplitStates(n)
BY DEF SplitStates

\* A change below unchanged lines, themselves below a change, ends a part.
Cuts(s) == s.changed # 0 /\ s.changed < s.unchanged
SplitDone(s, i) ==
  IF ~Cuts(s) THEN s
  ELSE [parts |-> Append(s.parts, [header |-> s.header, from |-> s.from, to |-> i - 1]),
        header |-> NextHeader(s.header, i - s.unchanged),
        from |-> s.unchanged, changed |-> 0, unchanged |-> 0]

\* Ending a part of a chunk keeps the types.
LEMMA SplitDoneTyped ==
  ASSUME NEW n \in Nat, NEW s \in SplitStates(n), NEW i \in 1 .. n
  PROVE  SplitDone(s, i) \in SplitStates(n)
<1> DEFINE shared == i - s.unchanged
           part == [header |-> s.header, from |-> s.from, to |-> i - 1]
<1>1. /\ s.parts \in Seq(Parts(n)) /\ s.header \in ChunkHeaders
      /\ s.from \in Nat \ {0} /\ s.changed \in Nat /\ s.unchanged \in Nat
  BY DEF SplitStates
<1>2. CASE ~Cuts(s)
  BY <1>2 DEF SplitDone
<1>3. CASE Cuts(s)
  <2>1. s.unchanged \in Nat \ {0} /\ shared \in Int
    BY <1>1, <1>3 DEF Cuts
  <2>2. NextHeader(s.header, shared) \in ChunkHeaders
    BY <1>1, <2>1, NextHeaderTyped
  <2>3. part \in Parts(n)
    BY <1>1 DEF Parts
  <2>4. SplitDone(s, i) = [parts |-> Append(s.parts, part), header |-> NextHeader(s.header, shared),
                           from |-> s.unchanged, changed |-> 0, unchanged |-> 0]
    BY <1>3 DEF SplitDone
  <2> HIDE DEF part, shared
  <2>5. Append(s.parts, part) \in Seq(Parts(n))
    BY <1>1, <2>3
  <2>6. PICK p, h : p = Append(s.parts, part) /\ h = NextHeader(s.header, shared)
    OBVIOUS
  <2>7. [parts |-> p, header |-> h, from |-> s.unchanged, changed |-> 0, unchanged |-> 0] \in SplitStates(n)
    BY <2>1, <2>2, <2>5, <2>6 DEF SplitStates
  <2>8. QED
    BY <2>4, <2>6, <2>7
<1>4. QED
  BY <1>2, <1>3

\* Each step of splitting a chunk keeps its types.
LEMMA SplitStepTyped ==
  ASSUME NEW view0 \in Seq(Line), NEW state \in SplitStates(Len(view0)), NEW i \in 1 .. Len(view0)
  PROVE  SplitStep(view0, state, i) \in SplitStates(Len(view0))
<1> DEFINE char == First(view0[i])
           cut == state.changed # 0 /\ state.changed < state.unchanged
           shared == i - state.unchanged
           part == [header |-> state.header, from |-> state.from, to |-> i - 1]
           done == IF ~cut THEN state
                   ELSE [parts |-> Append(state.parts, part),
                         header |-> NextHeader(state.header, shared),
                         from |-> state.unchanged, changed |-> 0, unchanged |-> 0]
           context == [state EXCEPT !.header.olines = @ + 1, !.header.nlines = @ + 1,
                                    !.unchanged = IF @ < state.changed THEN i ELSE @]
           removed == [done EXCEPT !.header.olines = @ + 1, !.changed = i]
           added == [done EXCEPT !.header.nlines = @ + 1, !.changed = i]
<1> DEFINE States == SplitStates(Len(view0))
<1>1. SplitStep(view0, state, i) \in {context, removed, added, done}
  BY DEF SplitStep
<1>2. /\ state.parts \in Seq(Parts(Len(view0))) /\ state.header \in ChunkHeaders
      /\ state.from \in Nat \ {0} /\ state.changed \in Nat /\ state.unchanged \in Nat
  BY DEF SplitStates
<1>3. done \in States
  <2>1. done = SplitDone(state, i)
    BY DEF SplitDone, Cuts
  <2>2. QED
    <3>1. Len(view0) \in Nat
      OBVIOUS
    <3>2. SplitDone(state, i) \in SplitStates(Len(view0))
      BY <3>1, SplitDoneTyped
    <3>3. QED
      BY <2>1, <3>2
<1> HIDE DEF done
<1> HIDE DEF States
<1>5. context \in States
  <2>0. state.header.olines \in Int /\ state.header.nlines \in Int
    BY <1>2, HeaderTyped
  <2>1. PICK o, n \in Int : o = state.header.olines + 1 /\ n = state.header.nlines + 1
    BY <2>0
  <2>2. PICK h \in ChunkHeaders : h = [state.header EXCEPT !.olines = o, !.nlines = n]
    BY <1>2, HeaderTyped
  <2>3. PICK u \in Nat : u = IF state.unchanged < state.changed THEN i ELSE state.unchanged
    BY <1>2
  <2>4. context = [state EXCEPT !.header = h, !.unchanged = u]
    BY <2>1, <2>2, <2>3 DEF SplitStates, ChunkHeaders
  <2>5. [state EXCEPT !.header = h, !.unchanged = u] \in States
    BY SplitStateTyped DEF States
  <2>6. QED
    BY <2>4, <2>5
<1>6. removed \in States
  <2>1. PICK d : d = done /\ d \in SplitStates(Len(view0))
    BY <1>3 DEF States
  <2>0. d.header \in ChunkHeaders /\ d.header.olines \in Int /\ i \in Nat
    <3>1. d.header \in ChunkHeaders
      BY <2>1, SplitStateTyped
    <3>2. d.header.olines \in Int
      BY <3>1, HeaderTyped
    <3>3. QED
      BY <3>1, <3>2
  <2>2. PICK o \in Int : o = d.header.olines + 1
    BY <2>0
  <2>3. PICK h \in ChunkHeaders : h = [d.header EXCEPT !.olines = o]
    BY <2>0, HeaderTyped
  <2>4. [d EXCEPT !.header = h, !.changed = i] \in States
    BY <2>0, <2>1, SplitStateTyped DEF States
  <2>5. removed = [d EXCEPT !.header = h, !.changed = i]
    BY <2>1, <2>2, <2>3 DEF SplitStates
  <2>6. QED
    BY <2>4, <2>5
<1>7. added \in States
  <2>1. PICK d : d = done /\ d \in SplitStates(Len(view0))
    BY <1>3 DEF States
  <2>0. d.header \in ChunkHeaders /\ d.header.nlines \in Int /\ i \in Nat
    <3>1. d.header \in ChunkHeaders
      BY <2>1, SplitStateTyped
    <3>2. d.header.nlines \in Int
      BY <3>1, HeaderTyped
    <3>3. QED
      BY <3>1, <3>2
  <2>2. PICK o \in Int : o = d.header.nlines + 1
    BY <2>0
  <2>3. PICK h \in ChunkHeaders : h = [d.header EXCEPT !.nlines = o]
    BY <2>0, HeaderTyped
  <2>4. [d EXCEPT !.header = h, !.changed = i] \in States
    BY <2>0, <2>1, SplitStateTyped DEF States
  <2>5. added = [d EXCEPT !.header = h, !.changed = i]
    BY <2>1, <2>2, <2>3 DEF SplitStates
  <2>6. QED
    BY <2>4, <2>5
<1> HIDE DEF context, removed, added
<1>8. QED
  BY <1>1, <1>3, <1>5, <1>6, <1>7 DEF States

\* The state of a split at first, and the view it makes at the end.
SplitStart(view0, chunk) ==
  [parts |-> <<>>, header |-> [view0[chunk] EXCEPT !.olines = 0, !.nlines = 0],
   from |-> chunk + 1, changed |-> 0, unchanged |-> 0]
PartLines(view0, p) == <<p.header>> \o SubSeq(view0, p.from, p.to)
LastPart(view0, state) == [header |-> state.header, from |-> state.from, to |-> Len(view0)]
SplitResult(view0, chunk, state) ==
  IF state.parts = <<>> THEN view0
  ELSE SubSeq(view0, 1, chunk - 1)
         \o FlattenSeq([k \in DOMAIN state.parts |-> PartLines(view0, state.parts[k])])
         \o PartLines(view0, LastPart(view0, state))

SplitCourse(view0, chunk, n, h) ==
  /\ h[0] = SplitStart(view0, chunk)
  /\ \A k \in 0 .. n : h[k] \in SplitStates(Len(view0))
  /\ \A k \in 1 .. n : /\ chunk + k \in 1 .. Len(view0)
                       /\ First(view0[chunk + k]) \notin {"@", "\\"}
                       /\ h[k] = SplitStep(view0, h[k - 1], chunk + k)

\* Splitting a chunk is some rounds of steps.
LEMMA SplitBySteps ==
  ASSUME NEW view0 \in Seq(Line), NEW chunk \in 1 .. Len(view0), view0[chunk].kind = "chunk"
  PROVE  \E n \in Nat : \E h : /\ SplitCourse(view0, chunk, n, h)
                              /\ StageSplitChunk(view0, chunk) = SplitResult(view0, chunk, h[n])
<1> DEFINE Stops == {i \in chunk + 1 .. Len(view0) + 1 :
                       i > Len(view0) \/ First(view0[i]) \in {"@", "\\"}}
           stop == Min(Stops)
           n == stop - chunk - 1
           start == SplitStart(view0, chunk)
           Course(f) == f = [k \in 0 .. n |->
             IF k = 0 THEN SplitStart(view0, chunk) ELSE SplitStep(view0, f[k - 1], chunk + k)]
           chosen == CHOOSE f : Course(f)
           States == SplitStates(Len(view0))
           step == [x \in States \X (1 .. n) |-> SplitStep(view0, x[1], chunk + x[2])]
<1>1. StageSplitChunk(view0, chunk) = SplitResult(view0, chunk, chosen[n])
  BY Zenon DEF StageSplitChunk, SplitResult, SplitStart, PartLines, LastPart
<1>2. /\ n \in Nat
      /\ \A k \in 1 .. n : /\ chunk + k \in 1 .. Len(view0)
                           /\ First(view0[chunk + k]) \notin {"@", "\\"}
  <2>1. Stops \subseteq Nat /\ Len(view0) + 1 \in Stops /\ Stops \subseteq chunk + 1 .. Len(view0) + 1
    OBVIOUS
  <2>2. \A i \in chunk + 1 .. Len(view0) + 1 :
          i \notin Stops => i \in 1 .. Len(view0) /\ First(view0[i]) \notin {"@", "\\"}
    OBVIOUS
  <2> HIDE DEF Stops
  <2>3. stop \in Stops /\ \A i \in Stops : stop <= i
    BY <2>1, LeastOf
  <2>4. stop \in chunk + 1 .. Len(view0) + 1
    BY <2>1, <2>3
  <2> HIDE DEF stop
  <2>5. ASSUME NEW k \in 1 .. n
        PROVE  chunk + k \in 1 .. Len(view0) /\ First(view0[chunk + k]) \notin {"@", "\\"}
    <3>1. chunk + k \in chunk + 1 .. Len(view0) + 1 /\ ~(stop <= chunk + k)
      BY <2>4
    <3>2. chunk + k \notin Stops
      BY <2>3, <3>1
    <3>3. QED
      BY <2>2, <3>1, <3>2
  <2>6. n \in Nat
    BY <2>4
  <2>7. QED
    BY <2>5, <2>6
<1>3. start \in States
  <2>1. view0[chunk] \in ChunkHeaders
    BY KindOfLine
  <2>2. PICK h \in ChunkHeaders : h = [view0[chunk] EXCEPT !.olines = 0, !.nlines = 0]
    <3>1. PICK l : l = view0[chunk]
      OBVIOUS
    <3>2. PICK zero \in Int : zero = 0
      OBVIOUS
    <3>3. PICK h : h = [l EXCEPT !.olines = zero, !.nlines = zero] /\ h \in ChunkHeaders
      BY <2>1, <3>1, HeaderTyped
    <3>4. QED
      BY <3>1, <3>2, <3>3
  <2>3. <<>> \in Seq(Parts(Len(view0)))
    OBVIOUS
  <2>4. QED
    BY <2>2, <2>3 DEF SplitStates, SplitStart
<1> HIDE DEF n
<1>4. ASSUME NEW s \in States, NEW k \in 1 .. n PROVE SplitStep(view0, s, chunk + k) \in States
  BY <1>2, SplitStepTyped
<1>5. /\ step \in [States \X (1 .. n) -> States]
      /\ \A s \in States, k \in 1 .. n : step[<<s, k>>] = SplitStep(view0, s, chunk + k)
  <2> HIDE DEF States
  <2>1. \A s \in States, k \in 1 .. n : step[<<s, k>>] = SplitStep(view0, s, chunk + k)
    OBVIOUS
  <2>2. ASSUME NEW x \in States \X (1 .. n) PROVE SplitStep(view0, x[1], chunk + x[2]) \in States
    BY <1>4
  <2>3. QED
    BY <2>1, <2>2
<1> HIDE DEF step, States
<1>6. PICK f \in [0 .. n -> States] : f[0] = start /\ \A k \in 1 .. n : f[k] = step[<<f[k - 1], k>>]
  <2>1. HasRounds(n, States, start, step)
    BY <1>2, <1>3, <1>5, RoundsExist
  <2>2. QED
    BY <2>1 DEF HasRounds, Rounds
<1>7. Course(f)
  <2>1. ASSUME NEW k \in 0 .. n
        PROVE  f[k] = IF k = 0 THEN SplitStart(view0, chunk) ELSE SplitStep(view0, f[k - 1], chunk + k)
    <3>1. CASE k = 0
      BY <1>6, <3>1
    <3>2. CASE k # 0
      <4>1. k \in 1 .. n /\ k - 1 \in 0 .. n
        BY <1>2, <3>2
      <4>2. QED
        BY <1>5, <1>6, <3>2, <4>1
    <3>3. QED
      BY <3>1, <3>2
  <2>2. QED
    BY <1>6, <2>1
<1>8. Course(chosen)
  <2> HIDE DEF Course
  <2>1. QED
    BY <1>7
<1>9. PICK h : h = chosen /\ Course(h)
  BY <1>8
<1> HIDE DEF chosen
<1> DEFINE S == {k \in 0 .. n : h[k] \in States}
<1>10. 0 \in S
  BY <1>2, <1>3, <1>9
<1>11. ASSUME NEW k \in 1 .. n, k - 1 \in S PROVE k \in S
  <2>1. k \in 0 .. n /\ k # 0 /\ h[k - 1] \in States
    BY <1>2, <1>11
  <2>2. h[k] = SplitStep(view0, h[k - 1], chunk + k)
    BY <1>9, <2>1
  <2>3. QED
    BY <1>4, <2>1, <2>2
<1>12. \A k \in 0 .. n : h[k] \in States
  <2>1. \A k \in 0 .. n : k \in S
    <3> HIDE DEF S
    <3>1. QED
      BY <1>2, <1>10, <1>11, EveryRound
  <2>2. QED
    BY <2>1
<1>13. SplitCourse(view0, chunk, n, h)
  <2>1. \A k \in 1 .. n : h[k] = SplitStep(view0, h[k - 1], chunk + k)
    BY <1>2, <1>9
  <2>2. h[0] = SplitStart(view0, chunk)
    BY <1>2, <1>9
  <2>3. \A k \in 0 .. n : h[k] \in SplitStates(Len(view0))
    BY <1>12 DEF States
  <2>4. QED
    BY ONLY <1>2, <2>1, <2>2, <2>3 DEF SplitCourse
<1>14. QED
  BY <1>1, <1>2, <1>9, <1>13

\* Its parts are lines.
LEMMA ResultLines ==
  ASSUME NEW view0 \in Seq(Line), NEW chunk \in 1 .. Len(view0), NEW state \in SplitStates(Len(view0))
  PROVE  /\ SplitResult(view0, chunk, state) \in Seq(Line)
         /\ \A k \in DOMAIN state.parts : PartLines(view0, state.parts[k]) \in Seq(Line)
         /\ PartLines(view0, LastPart(view0, state)) \in Seq(Line)
<1> DEFINE Part(p) == PartLines(view0, p)
           parts == [k \in DOMAIN state.parts |-> Part(state.parts[k])]
<1>1. SplitResult(view0, chunk, state)
        = IF state.parts = <<>> THEN view0
          ELSE SubSeq(view0, 1, chunk - 1) \o FlattenSeq(parts) \o Part(LastPart(view0, state))
  BY DEF SplitResult
<1>2. /\ state.parts \in Seq(Parts(Len(view0))) /\ state.header \in ChunkHeaders
       /\ state.from \in Nat \ {0}
  BY SplitStateTyped
<1>3. ASSUME NEW h1 \in ChunkHeaders, NEW from \in Nat \ {0}, NEW to \in 0 .. Len(view0)
       PROVE  <<h1>> \o SubSeq(view0, from, to) \in Seq(Line)
  <2>0. from \in Int /\ to \in Int /\ from >= 1 /\ to <= Len(view0)
    OBVIOUS
  <2>1. PICK lines : lines = SubSeq(view0, from, to) /\ lines \in Seq(Line)
    BY <2>0, ElementsOfSubSeq
  <2>2. h1 \in Line
    BY DEF Line
  <2>3. <<h1>> \in Seq(Line)
    BY <2>2
  <2>4. PICK one : one = <<h1>>
    OBVIOUS
  <2>5. one \in Seq(Line)
    BY <2>3, <2>4
  <2>6. one \o lines \in Seq(Line)
    BY ONLY <2>1, <2>5
  <2>7. QED
    BY <2>1, <2>4, <2>6
<1>4. PICK m \in Nat : m = Len(state.parts)
  BY <1>2
<1>5. DOMAIN state.parts = 1 .. m /\ \A k \in 1 .. m : state.parts[k] \in Parts(Len(view0))
  BY <1>2, <1>4
<1>6. ASSUME NEW p \in Parts(Len(view0)) PROVE Part(p) \in Seq(Line)
  <2>1. p.header \in ChunkHeaders /\ p.from \in Nat \ {0} /\ p.to \in 0 .. Len(view0)
    BY DEF Parts
  <2>2. QED
    BY <1>3, <2>1 DEF PartLines
<1>7. parts \in [1 .. m -> Seq(Line)]
  <2> HIDE DEF Part
  <2>1. QED
    BY <1>5, <1>6
<1> DEFINE lastPart == Part(LastPart(view0, state))
<1>8. lastPart \in Seq(Line)
  <2>1. lastPart = <<state.header>> \o SubSeq(view0, state.from, Len(view0))
    BY DEF PartLines, LastPart
  <2>2. Len(view0) \in 0 .. Len(view0)
    OBVIOUS
  <2>3. <<state.header>> \o SubSeq(view0, state.from, Len(view0)) \in Seq(Line)
    BY <1>2, <1>3, <2>2
  <2> HIDE DEF lastPart
  <2>4. QED
    BY <2>1, <2>3
<1> HIDE DEF parts, lastPart
<1>9. PICK a \in Seq(Line) : a = SubSeq(view0, 1, chunk - 1)
  <2>1. PICK to : to = chunk - 1
    OBVIOUS
  <2>2. to \in Int /\ to <= Len(view0) /\ 1 \in Int /\ 1 >= 1
    BY <2>1
  <2>3. SubSeq(view0, 1, to) \in Seq(Line)
    BY <2>2, ElementsOfSubSeq
  <2>4. QED
    BY <2>1, <2>3
<1>10. PICK b \in Seq(Line) : b = FlattenSeq(parts)
  BY <1>7, FlattenedParts
<1>11. PICK c \in Seq(Line) : c = lastPart
  BY <1>8
<1>12. a \o b \o c \in Seq(Line)
  OBVIOUS
<1>13. SplitResult(view0, chunk, state) \in Seq(Line)
  BY <1>1, <1>9, <1>10, <1>11, <1>12 DEF lastPart
<1>14. \A k \in DOMAIN state.parts : PartLines(view0, state.parts[k]) \in Seq(Line)
  BY <1>5, <1>6
<1>15. QED
  BY <1>8, <1>13, <1>14 DEF lastPart

\* A view whose chunk is split still consists of lines.
LEMMA SplitLines ==
  ASSUME NEW view0 \in Seq(Line), NEW chunk \in 1 .. Len(view0), view0[chunk].kind = "chunk"
  PROVE  StageSplitChunk(view0, chunk) \in Seq(Line)
<1>0. PICK n \in Nat :
        \E h : /\ SplitCourse(view0, chunk, n, h)
              /\ StageSplitChunk(view0, chunk) = SplitResult(view0, chunk, h[n])
  BY SplitBySteps
<1>1. PICK h : /\ SplitCourse(view0, chunk, n, h)
               /\ StageSplitChunk(view0, chunk) = SplitResult(view0, chunk, h[n])
  BY <1>0
<1>2. PICK state \in SplitStates(Len(view0)) : state = h[n]
  BY <1>1 DEF SplitCourse
<1>3. SplitResult(view0, chunk, state) \in Seq(Line)
  BY ResultLines
<1>4. QED
  BY <1>1, <1>2, <1>3

\* What a step of a split makes of its state.
SplitMakes(s, d, t, char, i) ==
  /\ char = " " =>
       /\ t.parts = s.parts /\ t.from = s.from /\ t.changed = s.changed
       /\ t.unchanged = IF s.unchanged < s.changed THEN i ELSE s.unchanged
       /\ t.header.opos = s.header.opos /\ t.header.olines = s.header.olines + 1
       /\ t.header.npos = s.header.npos /\ t.header.nlines = s.header.nlines + 1
  /\ char = "-" =>
       /\ t.parts = d.parts /\ t.from = d.from /\ t.changed = i /\ t.unchanged = d.unchanged
       /\ t.header.opos = d.header.opos /\ t.header.olines = d.header.olines + 1
       /\ t.header.npos = d.header.npos /\ t.header.nlines = d.header.nlines
  /\ char = "+" =>
       /\ t.parts = d.parts /\ t.from = d.from /\ t.changed = i /\ t.unchanged = d.unchanged
       /\ t.header.opos = d.header.opos /\ t.header.olines = d.header.olines
       /\ t.header.npos = d.header.npos /\ t.header.nlines = d.header.nlines + 1
  /\ char \notin {" ", "-", "+"} => t = d

\* A step of a split is one of these, the part before ended first where one ends.
LEMMA SplitStepMakes ==
  ASSUME NEW view0 \in Seq(Line), NEW s \in SplitStates(Len(view0)), NEW i \in 1 .. Len(view0),
         NEW d, d = SplitDone(s, i), NEW t, t = SplitStep(view0, s, i), NEW char, char = First(view0[i])
  PROVE  SplitMakes(s, d, t, char, i)
<1>1. d \in SplitStates(Len(view0)) /\ s \in SplitStates(Len(view0))
  BY SplitDoneTyped
<1>2. d.header \in ChunkHeaders /\ s.header \in ChunkHeaders
  BY <1>1, SplitStateTyped
<1>3. t = CASE char = " " ->
               [s EXCEPT !.header.olines = @ + 1, !.header.nlines = @ + 1,
                         !.unchanged = IF @ < s.changed THEN i ELSE @]
          [] char = "-" -> [d EXCEPT !.header.olines = @ + 1, !.changed = i]
          [] char = "+" -> [d EXCEPT !.header.nlines = @ + 1, !.changed = i]
          [] OTHER -> d
  BY Zenon DEF SplitStep, SplitDone, Cuts
<1>4. CASE char = " "
  <2>1. t = [s EXCEPT !.header.olines = @ + 1, !.header.nlines = @ + 1,
                      !.unchanged = IF @ < s.changed THEN i ELSE @]
    BY <1>3, <1>4
  <2>2. PICK h \in ChunkHeaders : h = [s.header EXCEPT !.olines = @ + 1, !.nlines = @ + 1]
    <3>1. s.header.olines \in Int /\ s.header.nlines \in Int
      BY <1>2, HeaderTyped
    <3>2. PICK a, b \in Int : a = s.header.olines + 1 /\ b = s.header.nlines + 1
      BY <3>1
    <3>3. [s.header EXCEPT !.olines = a, !.nlines = b] \in ChunkHeaders
      BY <1>2, <3>2, HeaderTyped
    <3>4. QED
      BY <3>2, <3>3
  <2>3. PICK u : u = IF s.unchanged < s.changed THEN i ELSE s.unchanged
    OBVIOUS
  <2>4. t = [s EXCEPT !.header = h, !.unchanged = u]
    BY ONLY <1>1, <1>2, <2>1, <2>2, <2>3 DEF SplitStates, ChunkHeaders
  <2>5. /\ t.parts = s.parts /\ t.from = s.from /\ t.changed = s.changed /\ t.unchanged = u /\ t.header = h
    BY ONLY <1>1, <2>4 DEF SplitStates
  <2>6. /\ h.opos = s.header.opos /\ h.olines = s.header.olines + 1
        /\ h.npos = s.header.npos /\ h.nlines = s.header.nlines + 1
    BY ONLY <1>2, <2>2 DEF ChunkHeaders
  <2>7. QED
    BY <1>4, <2>3, <2>5, <2>6 DEF SplitMakes
<1>5. CASE char = "-"
  <2>1. t = [d EXCEPT !.header.olines = @ + 1, !.changed = i]
    BY <1>3, <1>5
  <2>2. QED
    BY ONLY <1>1, <1>2, <1>5, <2>1 DEF SplitStates, ChunkHeaders, SplitMakes
<1>6. CASE char = "+"
  <2>1. t = [d EXCEPT !.header.nlines = @ + 1, !.changed = i]
    BY <1>3, <1>6
  <2>2. QED
    BY ONLY <1>1, <1>2, <1>6, <2>1 DEF SplitStates, ChunkHeaders, SplitMakes
<1>7. CASE char \notin {" ", "-", "+"}
  BY ONLY <1>3, <1>7 DEF SplitMakes
<1>8. QED
  BY ONLY <1>4, <1>5, <1>6, <1>7 DEF SplitMakes

\* A chunk header leads to where it says, and the lines of a path on from there.
LEMMA PartLeads ==
  ASSUME NEW o, NEW n, NEW view0 \in Seq(Line), NEW p, IsPath(o, n, view0, p),
         NEW h \in ChunkHeaders, NEW from \in 1 .. Len(view0) + 1, NEW to \in from - 1 .. Len(view0),
         NEW x \in Places, x.file # {},
         p[from - 1] = PlaceAt(x.file, h.opos, h.npos)
  PROVE  Leads(o, n, x, <<h>> \o SubSeq(view0, from, to), p[to])
<1>1. PICK one, lines, y : /\ one = <<h>> /\ lines = SubSeq(view0, from, to) /\ y = p[from - 1]
  OBVIOUS
<1>2. y \in Places
  <2>1. from - 1 \in 0 .. Len(view0)
    OBVIOUS
  <2>2. QED
    BY <1>1, <2>1 DEF IsPath
<1>3. Moves(o, n, x, h, y)
  BY <1>1 DEF Moves, ChunkHeaders
<1>4. Leads(o, n, x, one, y)
  BY <1>1, <1>2, <1>3, OneLine
<1>5. Leads(o, n, y, lines, p[to])
  BY <1>1, PathOfPart
<1>6. one \in Seq(Line)
  BY <1>1 DEF Line
<1>7. lines \in Seq(Line)
  <2>1. from \in Int /\ to \in Int /\ from >= 1 /\ to <= Len(view0)
    OBVIOUS
  <2>2. QED
    BY <1>1, <2>1, ElementsOfSubSeq
<1>8. Leads(o, n, x, one \o lines, p[to])
  BY <1>4, <1>5, <1>6, <1>7, ThenLines
<1>9. QED
  BY <1>1, <1>8

(***************************************************************************)
(* A split, the lines up to i of the path p behind it: its parts lead      *)
(* through the file of the chunk, and the header of the part it is in      *)
(* counts the lines from where that part begins.                           *)
(***************************************************************************)
InFile(p, file, k) == p[k].inside /\ p[k].file = file
PartsLead(o, n, view0, file, parts) ==
  \A k \in DOMAIN parts : \A x \in Places :
    x.file = file => \E y \in Places : y.file = file /\ Leads(o, n, x, PartLines(view0, parts[k]), y)
Opens(p, file, s) ==
  /\ InFile(p, file, s.from - 1)
  /\ s.header.opos = p[s.from - 1].old
  /\ s.header.npos = p[s.from - 1].new
Counts(p, s, i) ==
  /\ s.header.olines = p[i].old - p[s.from - 1].old
  /\ s.header.nlines = p[i].new - p[s.from - 1].new
Shares(p, file, s, i) ==
  /\ InFile(p, file, s.unchanged - 1)
  /\ p[i].old - p[s.unchanged - 1].old = i - s.unchanged + 1
  /\ p[i].new - p[s.unchanged - 1].new = i - s.unchanged + 1

SplitAt(o, n, view0, chunk, p, file, s, i) ==
  /\ PartsLead(o, n, view0, file, s.parts)
  /\ s.from \in chunk + 1 .. i + 1 /\ s.changed \in 0 .. i /\ s.unchanged \in 0 .. i
  /\ Opens(p, file, s)
  /\ Cuts(s) => p[i].inside /\ s.unchanged > chunk /\ Shares(p, file, s, i)
  /\ p[i].inside => InFile(p, file, i) /\ Counts(p, s, i)

\* Ending a part leaves the split where it is, and with nothing to end.
LEMMA DoneSplits ==
  ASSUME NEW o, NEW n, NEW view0 \in Seq(Line), NEW chunk \in 1 .. Len(view0),
         NEW p, IsPath(o, n, view0, p), NEW file, file # {},
         NEW s \in SplitStates(Len(view0)), NEW i \in chunk + 1 .. Len(view0),
         SplitAt(o, n, view0, chunk, p, file, s, i - 1)
  PROVE  /\ SplitAt(o, n, view0, chunk, p, file, SplitDone(s, i), i - 1)
         /\ ~Cuts(SplitDone(s, i))
<1>1. CASE ~Cuts(s)
  BY <1>1 DEF SplitDone
<1>2. CASE Cuts(s)
  <2> DEFINE part == [header |-> s.header, from |-> s.from, to |-> i - 1]
             shared == i - s.unchanged
             d == SplitDone(s, i)
  <2>1. /\ d.parts = Append(s.parts, part) /\ d.from = s.unchanged /\ d.changed = 0 /\ d.unchanged = 0
        /\ d.header.opos = s.header.opos + s.header.olines - shared /\ d.header.olines = shared
        /\ d.header.npos = s.header.npos + s.header.nlines - shared /\ d.header.nlines = shared
    BY <1>2 DEF SplitDone, NextHeader
  <2>2. /\ p \in [0 .. Len(view0) -> Places]
        /\ \A k \in 0 .. Len(view0) : p[k].old \in Int /\ p[k].new \in Int
    BY DEF IsPath, Places
  <2>3. /\ s.from \in chunk + 1 .. i /\ s.unchanged \in chunk + 1 .. i - 1
        /\ Opens(p, file, s) /\ Shares(p, file, s, i - 1) /\ InFile(p, file, i - 1) /\ Counts(p, s, i - 1)
        /\ PartsLead(o, n, view0, file, s.parts)
    BY <1>2 DEF SplitAt
  <2>4. /\ i - 1 \in 0 .. Len(view0) /\ s.from - 1 \in 0 .. Len(view0) /\ s.unchanged - 1 \in 0 .. Len(view0)
        /\ s.from \in 1 .. Len(view0) + 1 /\ i - 1 \in s.from - 1 .. Len(view0)
        /\ i - 1 - s.unchanged + 1 = shared
    BY <2>3
  <2>5. PartsLead(o, n, view0, file, d.parts)
    <3>1. s.parts \in Seq(Parts(Len(view0))) /\ s.header \in ChunkHeaders
      BY SplitStateTyped
    <3>2. ASSUME NEW x \in Places, x.file = file
          PROVE  \E y \in Places : y.file = file /\ Leads(o, n, x, PartLines(view0, part), y)
      <4>1. p[s.from - 1] = PlaceAt(x.file, s.header.opos, s.header.npos)
        BY <2>2, <2>3, <2>4, <3>2 DEF Opens, InFile, PlaceAt, Places
      <4>2. Leads(o, n, x, <<s.header>> \o SubSeq(view0, s.from, i - 1), p[i - 1])
        BY <2>4, <3>1, <3>2, <4>1, PartLeads
      <4>3. Leads(o, n, x, PartLines(view0, part), p[i - 1])
        BY <4>2 DEF PartLines
      <4>4. QED
        BY <2>2, <2>3, <2>4, <4>3 DEF InFile
    <3> HIDE DEF part, d
    <3>3. PICK l \in Nat : l = Len(s.parts)
      BY <3>1
    <3>4. /\ DOMAIN s.parts = 1 .. l /\ DOMAIN d.parts = 1 .. l + 1 /\ d.parts[l + 1] = part
          /\ \A k \in 1 .. l : d.parts[k] = s.parts[k]
      <4>1. part \in Parts(Len(view0))
        <5>1. s.header \in ChunkHeaders /\ s.from \in Nat \ {0} /\ i - 1 \in 0 .. Len(view0)
          BY <2>4, SplitStateTyped
        <5>2. QED
          BY <5>1 DEF part, Parts
      <4>2. QED
        BY <2>1, <3>1, <3>3, <4>1
    <3>5. \A k \in 1 .. l + 1 : k \in 1 .. l \/ k = l + 1
      OBVIOUS
    <3>6. QED
      BY <2>3, <3>2, <3>4, <3>5 DEF PartsLead
  <2>6. /\ s.header.opos \in Int /\ s.header.olines \in Int /\ s.header.npos \in Int /\ s.header.nlines \in Int
    BY SplitStateTyped, HeaderTyped
  <2>7. Opens(p, file, d)
    <3>1. /\ p[s.from - 1].old \in Int /\ p[s.from - 1].new \in Int /\ p[i - 1].old \in Int /\ p[i - 1].new \in Int
          /\ p[s.unchanged - 1].old \in Int /\ p[s.unchanged - 1].new \in Int /\ shared \in Int
      <4>1. s.unchanged \in Int
        BY <2>3
      <4>2. shared \in Int
        BY <4>1
      <4>3. QED
        BY <2>2, <2>4, <4>2
    <3> HIDE DEF d, shared
    <3>3. /\ s.header.olines = p[i - 1].old - p[s.from - 1].old /\ s.header.opos = p[s.from - 1].old
          /\ s.header.nlines = p[i - 1].new - p[s.from - 1].new /\ s.header.npos = p[s.from - 1].new
          /\ p[i - 1].old - p[s.unchanged - 1].old = shared /\ p[i - 1].new - p[s.unchanged - 1].new = shared
      BY <2>3, <2>4 DEF Opens, Counts, Shares
    <3>4. d.header.opos = p[s.unchanged - 1].old /\ d.header.npos = p[s.unchanged - 1].new
      <4>1. PICK a, b, c : a = p[s.from - 1].old /\ b = p[i - 1].old /\ c = p[s.unchanged - 1].old
        OBVIOUS
      <4>2. PICK u, v, w : u = p[s.from - 1].new /\ v = p[i - 1].new /\ w = p[s.unchanged - 1].new
        OBVIOUS
      <4>3. a \in Int /\ b \in Int /\ c \in Int /\ u \in Int /\ v \in Int /\ w \in Int
        BY <3>1, <4>1, <4>2
      <4>4. a + (b - a) - (b - c) = c /\ u + (v - u) - (v - w) = w
        BY ONLY <4>3
      <4>5. d.header.opos = a + (b - a) - (b - c) /\ d.header.npos = u + (v - u) - (v - w)
        BY ONLY <2>1, <3>3, <4>1, <4>2
      <4>6. QED
        BY <4>1, <4>2, <4>4, <4>5
    <3>2. QED
      BY <2>1, <2>3, <3>4 DEF Opens, Shares
  <2>8. Counts(p, d, i - 1)
    <3> HIDE DEF d
    <3>1. QED
      BY <2>1, <2>3, <2>4 DEF Counts, Shares
  <2>9. ~Cuts(d)
    <3> HIDE DEF d
    <3>1. QED
      BY <2>1 DEF Cuts
  <2> HIDE DEF d
  <2>10. SplitAt(o, n, view0, chunk, p, file, d, i - 1)
    <3>1. d.from \in chunk + 1 .. i - 1 + 1 /\ d.changed \in 0 .. i - 1 /\ d.unchanged \in 0 .. i - 1
      BY <2>1, <2>3
    <3>2. QED
      BY <2>3, <2>5, <2>7, <2>8, <2>9, <3>1 DEF SplitAt
  <2>11. QED
    BY <2>9, <2>10 DEF d
<1>3. QED
  BY <1>1, <1>2

\* Where a line leads, and what a split takes it for.
LEMMA LineMoves ==
  ASSUME NEW o, NEW n, NEW x \in Places, NEW y \in Places, NEW l \in Line, Moves(o, n, x, l, y),
         First(l) \notin {"@", "\\"}
  PROVE  \/ /\ x.inside /\ y.inside /\ y.file = x.file
            /\ \/ First(l) = " " /\ y.old = x.old + 1 /\ y.new = x.new + 1
               \/ First(l) = "-" /\ y.old = x.old + 1 /\ y.new = x.new
               \/ First(l) = "+" /\ y.old = x.old /\ y.new = x.new + 1
         \/ /\ First(l) # " " /\ ~y.inside
<1>1. CASE l.kind \in {"header", "index", "old", "new"}
  BY <1>1 DEF Moves, First
<1>2. CASE l.kind = "ctx"
  <2>1. First(l) = " "
    BY <1>2 DEF First
  <2>2. x.inside /\ y = Behind(x, "ctx")
    BY <1>2 DEF Moves
  <2>3. QED
    BY <2>1, <2>2 DEF Behind, PlaceAt
<1>3. CASE l.kind = "del"
  <2>1. First(l) = "-"
    BY <1>3 DEF First
  <2>2. x.inside /\ y = Behind(x, "del")
    BY <1>3 DEF Moves
  <2>3. QED
    BY <2>1, <2>2 DEF Behind, PlaceAt
<1>4. CASE l.kind = "add"
  <2>1. First(l) = "+"
    BY <1>4 DEF First
  <2>2. x.inside /\ y = Behind(x, "add")
    BY <1>4 DEF Moves
  <2>3. QED
    BY <2>1, <2>2 DEF Behind, PlaceAt
<1>5. l.kind \in {"header", "index", "old", "new", "ctx", "del", "add"}
  BY DEF Moves, First
<1>6. QED
  BY <1>1, <1>2, <1>3, <1>4, <1>5

\* A split goes on along the path.
LEMMA StepSplits ==
  ASSUME NEW o, NEW n, NEW view0 \in Seq(Line), NEW chunk \in 1 .. Len(view0),
         NEW p, IsPath(o, n, view0, p), NEW file, file # {},
         NEW s \in SplitStates(Len(view0)), NEW i \in chunk + 1 .. Len(view0),
         First(view0[i]) \notin {"@", "\\"},
         SplitAt(o, n, view0, chunk, p, file, s, i - 1)
  PROVE  SplitAt(o, n, view0, chunk, p, file, SplitStep(view0, s, i), i)
<1>1. PICK d, t, char : d = SplitDone(s, i) /\ t = SplitStep(view0, s, i) /\ char = First(view0[i])
  OBVIOUS
<1>2. SplitAt(o, n, view0, chunk, p, file, d, i - 1) /\ ~Cuts(d)
  BY <1>1, DoneSplits
<1>3. i \in 1 .. Len(view0) /\ i - 1 \in 0 .. Len(view0) /\ i \in 0 .. Len(view0) /\ i \in Nat /\ chunk \in Nat
  OBVIOUS
<1>4. SplitMakes(s, d, t, char, i)
  BY <1>1, <1>3, SplitStepMakes
<1>5. PICK x, y : x = p[i - 1] /\ y = p[i] /\ x \in Places /\ y \in Places
  BY <1>3 DEF IsPath
<1>6. x.old \in Int /\ x.new \in Int
  BY <1>5 DEF Places
<1>7. \/ /\ x.inside /\ y.inside /\ y.file = x.file
         /\ \/ char = " " /\ y.old = x.old + 1 /\ y.new = x.new + 1
            \/ char = "-" /\ y.old = x.old + 1 /\ y.new = x.new
            \/ char = "+" /\ y.old = x.old /\ y.new = x.new + 1
      \/ /\ char # " " /\ ~y.inside
  <2>1. Moves(o, n, x, view0[i], y) /\ view0[i] \in Line
    BY <1>3, <1>5 DEF IsPath
  <2>2. QED
    BY <1>1, <1>5, <2>1, LineMoves
<1>8. /\ d.from \in chunk + 1 .. i /\ d.changed \in 0 .. i - 1 /\ d.unchanged \in 0 .. i - 1
      /\ s.from \in chunk + 1 .. i /\ s.changed \in 0 .. i - 1 /\ s.unchanged \in 0 .. i - 1
  <2>1. i - 1 + 1 = i
    OBVIOUS
  <2>2. QED
    BY <1>2, <2>1 DEF SplitAt
<1>9. /\ PartsLead(o, n, view0, file, d.parts) /\ PartsLead(o, n, view0, file, s.parts)
      /\ Opens(p, file, d) /\ Opens(p, file, s)
  BY <1>2 DEF SplitAt
<1>10. /\ p[s.from - 1].old \in Int /\ p[s.from - 1].new \in Int
      /\ p[d.from - 1].old \in Int /\ p[d.from - 1].new \in Int
  <2>1. s.from - 1 \in 0 .. Len(view0) /\ d.from - 1 \in 0 .. Len(view0)
    <3>1. \A a \in chunk + 1 .. i : a - 1 \in 0 .. Len(view0)
      BY ONLY <1>3
    <3>2. QED
      BY ONLY <1>8, <3>1
  <2>2. p[s.from - 1] \in Places /\ p[d.from - 1] \in Places
    BY <2>1 DEF IsPath
  <2>3. QED
    BY <2>2 DEF Places
<1>11. \A a, b \in Int : (a - b) + 1 = (a + 1) - b
  OBVIOUS
<1>12. CASE char = " "
  <2>1. x.inside /\ y.inside /\ y.file = x.file /\ y.old = x.old + 1 /\ y.new = x.new + 1
    BY ONLY <1>7, <1>12
  <2>2. InFile(p, file, i - 1) /\ Counts(p, s, i - 1)
    BY <1>5, <2>1 DEF SplitAt
  <2>3. InFile(p, file, i)
    BY <1>5, <2>1, <2>2 DEF InFile
  <2>4. /\ t.parts = s.parts /\ t.from = s.from /\ t.changed = s.changed
        /\ t.unchanged = IF s.unchanged < s.changed THEN i ELSE s.unchanged
        /\ t.header.opos = s.header.opos /\ t.header.olines = s.header.olines + 1
        /\ t.header.npos = s.header.npos /\ t.header.nlines = s.header.nlines + 1
    BY ONLY <1>4, <1>12 DEF SplitMakes
  <2>5. Counts(p, t, i)
    <3>1. PICK z : z = p[s.from - 1] /\ z.old \in Int /\ z.new \in Int
      BY <1>10
    <3>2. s.header.olines = x.old - z.old /\ s.header.nlines = x.new - z.new
      BY <1>5, <2>2, <3>1 DEF Counts
    <3>3. t.header.olines = y.old - z.old /\ t.header.nlines = y.new - z.new
      <4>1. /\ (x.old - z.old) + 1 = (x.old + 1) - z.old
            /\ (x.new - z.new) + 1 = (x.new + 1) - z.new
        BY Zenon, <1>6, <1>11, <3>1
      <4>2. QED
        BY Zenon, <2>4, <2>1, <3>2, <4>1
    <3>4. QED
      BY ONLY <1>5, <2>4, <3>1, <3>3 DEF Counts
  <2>6. Opens(p, file, t)
    BY <1>9, <2>4 DEF Opens
  <2>7. ASSUME Cuts(t) PROVE t.unchanged > chunk /\ Shares(p, file, t, i)
    <3>1. CASE s.unchanged < s.changed
      <4>1. t.unchanged = i /\ i - i + 1 = 1 /\ (x.old + 1) - x.old = 1 /\ (x.new + 1) - x.new = 1
        BY ONLY <1>3, <1>6, <2>4, <3>1
      <4>2. InFile(p, file, t.unchanged - 1) /\ p[t.unchanged - 1] = x /\ p[i] = y
        BY <1>5, <2>2, <4>1
      <4>3. y.old - x.old = i - t.unchanged + 1 /\ y.new - x.new = i - t.unchanged + 1 /\ t.unchanged > chunk
        <5>1. i > chunk
          OBVIOUS
        <5>2. QED
          BY Zenon, <2>1, <4>1, <5>1
      <4>4. QED
        BY ONLY <4>2, <4>3 DEF Shares
    <3>2. CASE ~(s.unchanged < s.changed)
      <4>1. t.unchanged = s.unchanged /\ Cuts(s)
        BY <2>4, <2>7, <3>2 DEF Cuts
      <4>2. s.unchanged > chunk /\ Shares(p, file, s, i - 1)
        BY <4>1 DEF SplitAt
      <4>3. PICK z : z = p[s.unchanged - 1] /\ z \in Places
        <5>1. s.unchanged - 1 \in 0 .. Len(view0)
          BY ONLY <1>3, <1>8, <4>2
        <5>2. QED
          BY <5>1 DEF IsPath
      <4>4. z.old \in Int /\ z.new \in Int /\ s.unchanged \in Int
        <5>1. s.unchanged \in Int
          BY ONLY <1>8
        <5>2. QED
          BY <4>3, <5>1 DEF Places
      <4>5. /\ x.old - z.old = i - 1 - s.unchanged + 1 /\ x.new - z.new = i - 1 - s.unchanged + 1
            /\ InFile(p, file, s.unchanged - 1)
        BY <1>5, <4>2, <4>3 DEF Shares
      <4>6. y.old - z.old = i - s.unchanged + 1 /\ y.new - z.new = i - s.unchanged + 1
        <5>1. (i - 1 - s.unchanged + 1) + 1 = i - s.unchanged + 1
          BY ONLY <1>3, <4>4
        <5>2. QED
          <6>1. /\ (x.old - z.old) + 1 = (x.old + 1) - z.old
                /\ (x.new - z.new) + 1 = (x.new + 1) - z.new
            BY Zenon, <1>6, <1>11, <4>4
          <6>2. QED
            BY Zenon, <2>1, <4>5, <5>1, <6>1
      <4>7. QED
        BY <1>5, <4>1, <4>2, <4>3, <4>5, <4>6 DEF Shares
    <3>3. QED
      BY <3>1, <3>2
  <2>8. t.from \in chunk + 1 .. i + 1 /\ t.changed \in 0 .. i /\ t.unchanged \in 0 .. i
    BY ONLY <1>3, <1>8, <2>4
  <2>9. QED
    BY <1>1, <1>5, <1>9, <2>4, <2>1, <2>3, <2>5, <2>6, <2>7, <2>8 DEF SplitAt
<1>13. CASE char # " "
  <2>1. /\ t.parts = d.parts /\ t.from = d.from /\ t.unchanged = d.unchanged /\ t.changed \in {d.changed, i}
        /\ t.header.opos = d.header.opos /\ t.header.npos = d.header.npos
    BY ONLY <1>4, <1>13 DEF SplitMakes
  <2>2. ~Cuts(t)
    BY ONLY <1>2, <1>3, <1>8, <2>1 DEF Cuts
  <2>3. Opens(p, file, t)
    BY <1>9, <2>1 DEF Opens
  <2>4. ASSUME y.inside PROVE InFile(p, file, i) /\ Counts(p, t, i)
    <3>1. /\ x.inside /\ y.file = x.file
          /\ \/ char = "-" /\ y.old = x.old + 1 /\ y.new = x.new
             \/ char = "+" /\ y.old = x.old /\ y.new = x.new + 1
      BY ONLY <1>7, <1>13, <2>4
    <3>2. InFile(p, file, i - 1) /\ Counts(p, d, i - 1)
      BY <1>2, <1>5, <3>1 DEF SplitAt
    <3>3. InFile(p, file, i)
      BY <1>5, <2>4, <3>1, <3>2 DEF InFile
    <3>4. Counts(p, t, i)
      <4>1. PICK z : z = p[d.from - 1] /\ z.old \in Int /\ z.new \in Int
        BY <1>10
      <4>2. d.header.olines = x.old - z.old /\ d.header.nlines = x.new - z.new
        BY <1>5, <3>2, <4>1 DEF Counts
      <4>3. \/ /\ char = "-" /\ t.header.olines = d.header.olines + 1 /\ t.header.nlines = d.header.nlines
            \/ /\ char = "+" /\ t.header.olines = d.header.olines /\ t.header.nlines = d.header.nlines + 1
        BY ONLY <1>4, <3>1 DEF SplitMakes
      <4>4. t.header.olines = y.old - z.old /\ t.header.nlines = y.new - z.new
        <5>1. /\ (x.old - z.old) + 1 = (x.old + 1) - z.old
              /\ (x.new - z.new) + 1 = (x.new + 1) - z.new
          BY Zenon, <1>6, <1>11, <4>1
        <5>2. QED
          BY Zenon, <3>1, <4>2, <4>3, <5>1
      <4>5. QED
        BY ONLY <1>5, <2>1, <4>1, <4>4 DEF Counts
    <3>5. QED
      BY <3>3, <3>4
  <2>5. t.from \in chunk + 1 .. i + 1 /\ t.changed \in 0 .. i /\ t.unchanged \in 0 .. i
    <3>1. /\ \A a \in chunk + 1 .. i : a \in chunk + 1 .. i + 1
          /\ \A a \in 0 .. i - 1 : a \in 0 .. i
          /\ i \in 0 .. i
      BY ONLY <1>3
    <3>2. QED
      BY ONLY <1>8, <2>1, <3>1
  <2>6. QED
    BY <1>1, <1>5, <1>9, <2>1, <2>2, <2>3, <2>4, <2>5 DEF SplitAt
<1>14. QED
  BY <1>12, <1>13

\* Every split starts on the path, and stays on it.
LEMMA CourseSplits ==
  ASSUME NEW o, NEW n, NEW view0 \in Seq(Line), NEW chunk \in 1 .. Len(view0), view0[chunk].kind = "chunk",
         NEW p, IsPath(o, n, view0, p), NEW rounds \in Nat, NEW h, SplitCourse(view0, chunk, rounds, h)
  PROVE  /\ p[chunk].file # {} /\ p[chunk - 1].file = p[chunk].file
         /\ chunk + rounds \in 1 .. Len(view0)
         /\ SplitAt(o, n, view0, chunk, p, p[chunk].file, h[rounds], chunk + rounds)
<1> DEFINE file == p[chunk].file
           header == view0[chunk]
           Split(s, i) == SplitAt(o, n, view0, chunk, p, file, s, i)
<1>1. /\ chunk \in 0 .. Len(view0) /\ chunk - 1 \in 0 .. Len(view0) /\ chunk \in Nat /\ Len(view0) \in Nat
  OBVIOUS
<1>2. header \in ChunkHeaders /\ header.opos \in Int /\ header.npos \in Int
  BY KindOfLine DEF ChunkHeaders
<1>3. p[chunk - 1].file # {} /\ p[chunk] = PlaceAt(p[chunk - 1].file, header.opos, header.npos)
  <2>1. Moves(o, n, p[chunk - 1], header, p[chunk])
    BY DEF IsPath
  <2>2. QED
    BY <2>1 DEF Moves
<1>4. /\ p[chunk].inside /\ p[chunk].old = header.opos /\ p[chunk].new = header.npos
      /\ file # {} /\ p[chunk - 1].file = file
  BY <1>3 DEF PlaceAt
<1> HIDE DEF file
<1>5. Split(h[0], chunk)
  <2>1. PICK s : s = h[0] /\ s = SplitStart(view0, chunk)
    BY DEF SplitCourse
  <2>2. /\ s.parts = <<>> /\ s.from = chunk + 1 /\ s.changed = 0 /\ s.unchanged = 0
        /\ s.header = [header EXCEPT !.olines = 0, !.nlines = 0]
    BY <2>1 DEF SplitStart
  <2>3. s.header.opos = header.opos /\ s.header.npos = header.npos /\ s.header.olines = 0 /\ s.header.nlines = 0
    BY <1>2, <2>2 DEF ChunkHeaders
  <2>4. DOMAIN s.parts = {}
    BY <2>2
  <2>5. s.from - 1 = chunk /\ s.from \in chunk + 1 .. chunk + 1 /\ 0 \in 0 .. chunk /\ ~Cuts(s)
    BY <1>1, <2>2 DEF Cuts
  <2>6. InFile(p, file, chunk)
    BY <1>4 DEF InFile, file
  <2>7. Opens(p, file, s)
    BY <1>4, <2>3, <2>5, <2>6 DEF Opens
  <2>8. Counts(p, s, chunk)
    <3>1. header.opos - header.opos = 0 /\ header.npos - header.npos = 0
      BY <1>2
    <3>2. QED
      BY <1>4, <2>3, <2>5, <3>1 DEF Counts
  <2>9. QED
    BY <2>1, <2>2, <2>4, <2>5, <2>6, <2>7, <2>8 DEF SplitAt, PartsLead
<1> DEFINE S == {k \in 0 .. rounds : Split(h[k], chunk + k)}
<1>6. 0 \in S
  <2>1. chunk + 0 = chunk
    BY <1>1
  <2>2. QED
    BY <1>5, <2>1
<1>7. ASSUME NEW k \in 1 .. rounds, k - 1 \in S PROVE k \in S
  <2>1. /\ chunk + k \in 1 .. Len(view0) /\ First(view0[chunk + k]) \notin {"@", "\\"}
        /\ h[k] = SplitStep(view0, h[k - 1], chunk + k)
    BY DEF SplitCourse
  <2>2. PICK i : i = chunk + k
    OBVIOUS
  <2>3. i \in chunk + 1 .. Len(view0) /\ i - 1 = chunk + (k - 1) /\ k \in 0 .. rounds /\ k - 1 \in 0 .. rounds
    BY <1>1, <2>1, <2>2
  <2>4. h[k - 1] \in SplitStates(Len(view0))
    BY <2>3 DEF SplitCourse
  <2>5. SplitAt(o, n, view0, chunk, p, file, h[k - 1], i - 1)
    BY <1>7, <2>3
  <2>6. SplitAt(o, n, view0, chunk, p, file, SplitStep(view0, h[k - 1], i), i)
    BY <1>4, <2>1, <2>2, <2>3, <2>4, <2>5, StepSplits
  <2>7. QED
    BY <2>1, <2>2, <2>3, <2>6
<1>8. rounds \in S
  <2> HIDE DEF S
  <2>1. \A k \in 0 .. rounds : k \in S
    BY <1>6, <1>7, EveryRound
  <2>2. QED
    BY <2>1
<1>9. chunk + rounds \in 1 .. Len(view0)
  <2>1. CASE rounds = 0
    BY <2>1
  <2>2. CASE rounds # 0
    <3>1. rounds \in 1 .. rounds
      BY <2>2
    <3>2. QED
      BY <3>1 DEF SplitCourse
  <2>3. QED
    BY <2>1, <2>2
<1>10. QED
  BY <1>4, <1>8, <1>9 DEF file

\* A view whose chunk is split leads where it led.
LEMMA SplitLeads ==
  ASSUME NEW o, NEW n, NEW view0 \in Seq(Line), NEW chunk \in 1 .. Len(view0), view0[chunk].kind = "chunk",
         NEW p, IsPath(o, n, view0, p)
  PROVE  Leads(o, n, p[0], StageSplitChunk(view0, chunk), p[Len(view0)])
<1>1. PICK rounds \in Nat :
        \E h : /\ SplitCourse(view0, chunk, rounds, h)
              /\ StageSplitChunk(view0, chunk) = SplitResult(view0, chunk, h[rounds])
  BY SplitBySteps
<1>2. PICK h : /\ SplitCourse(view0, chunk, rounds, h)
               /\ StageSplitChunk(view0, chunk) = SplitResult(view0, chunk, h[rounds])
  BY <1>1
<1>3. PICK state, file, last :
        state = h[rounds] /\ file = p[chunk].file /\ last = chunk + rounds
  OBVIOUS
<1>4. state \in SplitStates(Len(view0))
  <2>1. rounds \in 0 .. rounds
    OBVIOUS
  <2>2. QED
    BY <1>2, <1>3, <2>1 DEF SplitCourse
<1>5. /\ file # {} /\ p[chunk - 1].file = file /\ last \in 1 .. Len(view0)
      /\ SplitAt(o, n, view0, chunk, p, file, state, last)
  BY <1>2, <1>3, CourseSplits
<1>6. CASE state.parts = <<>>
  BY <1>2, <1>3, <1>6 DEF SplitResult, Leads
<1>7. CASE state.parts # <<>>
  <2> DEFINE parts == [k \in DOMAIN state.parts |-> PartLines(view0, state.parts[k])]
  <2>1. PICK a, b, c : /\ a = SubSeq(view0, 1, chunk - 1) /\ b = FlattenSeq(parts)
                       /\ c = PartLines(view0, LastPart(view0, state))
    OBVIOUS
  <2>2. StageSplitChunk(view0, chunk) = a \o b \o c
    BY <1>2, <1>3, <1>7, <2>1 DEF SplitResult
  <2>3. PICK m \in Nat : m = Len(state.parts) /\ DOMAIN state.parts = 1 .. m
    <3>1. state.parts \in Seq(Parts(Len(view0)))
      BY <1>4, SplitStateTyped
    <3>2. QED
      BY <3>1
  <2>4. parts \in [1 .. m -> Seq(Line)] /\ c \in Seq(Line)
    <3>1. /\ \A k \in 1 .. m : PartLines(view0, state.parts[k]) \in Seq(Line)
          /\ PartLines(view0, LastPart(view0, state)) \in Seq(Line)
      BY <1>4, <2>3, ResultLines
    <3>2. QED
      BY <2>1, <2>3, <3>1
  <2>5. a \in Seq(Line) /\ b \in Seq(Line)
    <3>1. chunk - 1 \in Int /\ chunk - 1 <= Len(view0) /\ 1 \in Int /\ 1 >= 1
      OBVIOUS
    <3>2. a \in Seq(Line)
      BY <2>1, <3>1, ElementsOfSubSeq
    <3> HIDE DEF parts
    <3>3. QED
      BY <2>1, <2>4, <3>2, FlattenedParts
  <2>6. Leads(o, n, p[0], a, p[chunk - 1])
    <3>1. 1 \in 1 .. Len(view0) + 1 /\ chunk - 1 \in 1 - 1 .. Len(view0) /\ 1 - 1 = 0
      OBVIOUS
    <3>2. Leads(o, n, p[1 - 1], SubSeq(view0, 1, chunk - 1), p[chunk - 1])
      BY <3>1, PathOfPart
    <3>3. QED
      BY <2>1, <3>1, <3>2
  <2> DEFINE here == {z \in Places : z.file = file}
             F == [i \in 0 .. m |-> here]
  <2>7. PICK y \in here : Leads(o, n, p[chunk - 1], b, y)
    <3>1. p[chunk - 1] \in here
      <4>1. chunk - 1 \in 0 .. Len(view0)
        OBVIOUS
      <4>2. QED
        BY <1>5, <4>1 DEF IsPath
    <3>2. ASSUME NEW i \in 1 .. m, NEW x \in here PROVE \E z \in here : Leads(o, n, x, parts[i], z)
      <4>1. \E z \in Places : z.file = file /\ Leads(o, n, x, PartLines(view0, state.parts[i]), z)
        BY <1>5, <2>3 DEF SplitAt, PartsLead
      <4>2. QED
        BY <2>3, <4>1
    <3>3. F[0] = here /\ F[m] = here /\ here \subseteq Places /\ \A i \in 1 .. m : F[i - 1] = here /\ F[i] = here
      OBVIOUS
    <3> HIDE DEF here, F, parts
    <3>4. \A x \in F[0] : \E z \in F[m] : Leads(o, n, x, FlattenSeq(parts), z)
      <4>1. \A i \in 1 .. m : \A x \in F[i - 1] : \E z \in F[i] : Leads(o, n, x, parts[i], z)
        BY <3>2, <3>3
      <4>2. F[0] \subseteq Places
        BY <3>3
      <4>3. QED
        BY <2>4, <4>1, <4>2, ThroughParts
    <3>5. QED
      BY <2>1, <3>1, <3>3, <3>4
  <2>8. Leads(o, n, y, c, p[Len(view0)])
    <3>1. state.header \in ChunkHeaders
      BY <1>4, SplitStateTyped
    <3>2. /\ state.from \in chunk + 1 .. last + 1 /\ InFile(p, file, state.from - 1)
          /\ state.header.opos = p[state.from - 1].old /\ state.header.npos = p[state.from - 1].new
      BY <1>5 DEF SplitAt, Opens
    <3>3. /\ state.from \in 1 .. Len(view0) + 1 /\ state.from - 1 \in 0 .. Len(view0)
          /\ Len(view0) \in state.from - 1 .. Len(view0)
      BY <1>5, <3>2
    <3>4. y.file = file /\ y \in Places /\ p[state.from - 1] \in Places
      BY <3>3 DEF IsPath
    <3>5. p[state.from - 1] = PlaceAt(y.file, state.header.opos, state.header.npos)
      BY <3>2, <3>4 DEF InFile, PlaceAt, Places
    <3>6. Leads(o, n, y, <<state.header>> \o SubSeq(view0, state.from, Len(view0)), p[Len(view0)])
      BY <1>5, <3>1, <3>3, <3>4, <3>5, PartLeads
    <3>7. QED
      BY <2>1, <3>6 DEF PartLines, LastPart
  <2>9. Leads(o, n, p[0], a \o b, y) /\ a \o b \in Seq(Line)
    BY <2>5, <2>6, <2>7, ThenLines
  <2>10. Leads(o, n, p[0], a \o b \o c, p[Len(view0)])
    BY <2>4, <2>8, <2>9, ThenLines
  <2>11. QED
    BY <2>2, <2>10
<1>8. QED
  BY <1>6, <1>7

-----------------------------------------------------------------------------
(***************************************************************************)
(* What the line numbers of the view say.                                  *)
(***************************************************************************)
\* In the body of a chunk no other chunk and no file begins.
LEMMA BodyOfOne ==
  ASSUME NEW view0 \in Seq(Line), NEW chunk \in 1 .. Len(view0)
  PROVE  \A i \in chunk + 1 .. BodyEnd(view0, chunk) : view0[i].kind \notin {"chunk", "header"}
<1> DEFINE E == {i \in chunk .. Len(view0) :
                   i = Len(view0) \/ view0[i + 1].kind \in {"chunk", "header"}}
<1>1. PICK end \in chunk .. Len(view0) : end = BodyEnd(view0, chunk) /\ \A i \in E : end <= i
  <2>1. E \subseteq Nat /\ Len(view0) \in E
    OBVIOUS
  <2>2. BodyEnd(view0, chunk) = Min(E)
    BY DEF BodyEnd
  <2> HIDE DEF E
  <2>3. \A i \in E : Min(E) <= i
    BY <2>1, LeastOf
  <2>4. QED
    BY <2>2, <2>3, EndOfBody
<1>2. ASSUME NEW i \in chunk + 1 .. end PROVE view0[i].kind \notin {"chunk", "header"}
  <2>1. i - 1 \in chunk .. Len(view0) /\ ~(end <= i - 1) /\ i - 1 + 1 = i
    OBVIOUS
  <2>2. i - 1 \notin E
    BY <1>1, <2>1
  <2>3. QED
    BY <2>1, <2>2
<1>3. QED
  BY <1>1, <1>2

\* Without a line about a missing end of line, none of the body is one.
LEMMA BodyEnds ==
  ASSUME view \in Seq(Line), NEW chunk \in 1 .. Len(view), ~HasNoeol(chunk)
  PROVE  \A i \in chunk + 1 .. BodyEnd(view, chunk) : view[i].kind # "noeol"
<1>1. PICK end \in chunk .. Len(view) : end = BodyEnd(view, chunk)
  BY EndOfBody
<1>2. PICK s : s = SubSeq(view, chunk + 1, end)
  OBVIOUS
<1>3. /\ s \in Seq(Line)
      /\ Len(s) = IF chunk + 1 <= end THEN end - (chunk + 1) + 1 ELSE 0
      /\ \A i \in 1 .. Len(s) : s[i] = view[chunk + 1 + i - 1]
  <2>1. chunk + 1 \in Int /\ end \in Int /\ chunk + 1 >= 1 /\ end <= Len(view)
    OBVIOUS
  <2>2. QED
    BY <1>2, <2>1, ElementsOfSubSeq
<1>4. PICK S : S = {i \in DOMAIN s : s[i].kind \in {"noeol"}}
  OBVIOUS
<1>5. S = {}
  <2>1. Cardinality(S) = Count(s, {"noeol"})
    BY <1>4 DEF Count
  <2>2. ~(Count(s, {"noeol"}) > 0)
    BY <1>1, <1>2 DEF HasNoeol, BodyOf
  <2>3. Cardinality(S) \in Nat /\ ~(Cardinality(S) > 0)
    BY <1>3, <2>1, <2>2, CountIsNatural
  <2>4. Cardinality(S) = 0
    BY <2>3
  <2>5. S \subseteq 1 .. Len(s) /\ IsFiniteSet(1 .. Len(s))
    <3>1. Len(s) \in Int /\ DOMAIN s = 1 .. Len(s)
      BY <1>3
    <3>2. QED
      BY <1>4, <3>1, FS_Interval
  <2>6. IsFiniteSet(S)
    BY <2>5, FS_Subset
  <2>7. QED
    BY <2>4, <2>6, FS_EmptySet
<1>6. ASSUME NEW i \in chunk + 1 .. end PROVE view[i].kind # "noeol"
  <2>1. i - chunk \in 1 .. Len(s) /\ chunk + 1 + (i - chunk) - 1 = i
    BY <1>3
  <2>2. PICK j \in 1 .. Len(s) : s[j] = view[i]
    BY <1>3, <2>1
  <2>3. j \in DOMAIN s /\ j \notin S
    BY <1>3, <1>5
  <2>4. QED
    BY <1>4, <2>2, <2>3
<1>7. QED
  BY <1>1, <1>6

\* Above the first line there is none of any kind.
LEMMA NoneAbove ==
  ASSUME NEW view0, NEW kind
  PROVE  PrevOfKind(view0, 0, kind) = 0
<1>1. PICK I, J : I = {i \in 1 .. 0 : view0[i].kind = kind} /\ J = {0}
  OBVIOUS
<1>2. {0} \cup I = J /\ J = {0}
  BY <1>1
<1>3. PrevOfKind(view0, 0, kind) = Max({0} \cup I)
  BY <1>1 DEF PrevOfKind
<1>4. J \subseteq 0 .. 0 /\ J # {} /\ 0 \in Nat
  BY <1>2
<1>5. Max(J) \in J
  BY <1>4, GreatestOf
<1>6. QED
  BY <1>2, <1>3, <1>5

\* The line of a kind above a line is the one before, or the line itself.
LEMMA AboveNext ==
  ASSUME NEW view0 \in Seq(Line), NEW line \in 1 .. Len(view0), NEW kind
  PROVE  /\ PrevOfKind(view0, line, kind)
              = IF view0[line].kind = kind THEN line ELSE PrevOfKind(view0, line - 1, kind)
         /\ PrevOfKind(view0, line, kind) \in 0 .. line
         /\ PrevOfKind(view0, line, kind) # 0 => view0[PrevOfKind(view0, line, kind)].kind = kind
<1> DEFINE I(k) == {0} \cup {i \in 1 .. k : view0[i].kind = kind}
<1>1. line \in Nat /\ line - 1 \in Nat
  OBVIOUS
<1>2. \A k \in Nat : PrevOfKind(view0, k, kind) = Max(I(k))
  BY DEF PrevOfKind
<1>3. \A k \in Nat : 0 \in I(k) /\ I(k) \subseteq 0 .. k
  OBVIOUS
<1>4. I(line) = IF view0[line].kind = kind THEN I(line - 1) \cup {line} ELSE I(line - 1)
  <2>1. 1 .. line = (1 .. line - 1) \cup {line}
    OBVIOUS
  <2>2. QED
    BY <2>1
<1>5. line \in I(line) => view0[line].kind = kind
  OBVIOUS
<1>6. \A k \in 1 .. line : k \in I(line) => view0[k].kind = kind
  OBVIOUS
<1> HIDE DEF I
<1>7. ASSUME NEW k \in Nat PROVE Max(I(k)) \in I(k) /\ \A i \in I(k) : i <= Max(I(k))
  BY <1>3, GreatestOf
<1>8. PrevOfKind(view0, line, kind) \in I(line)
  BY <1>1, <1>2, <1>7
<1>9. PrevOfKind(view0, line, kind) \in 0 .. line
  BY <1>1, <1>3, <1>8
<1>10. CASE view0[line].kind = kind
  <2>1. line \in I(line)
    BY <1>4, <1>10
  <2>2. line <= Max(I(line)) /\ Max(I(line)) = PrevOfKind(view0, line, kind)
    BY <1>1, <1>2, <1>7, <2>1
  <2>3. PrevOfKind(view0, line, kind) = line
    BY <1>1, <1>9, <2>2
  <2>4. QED
    BY <1>9, <1>10, <2>3
<1>11. CASE view0[line].kind # kind
  <2>1. PrevOfKind(view0, line, kind) = PrevOfKind(view0, line - 1, kind)
    BY <1>1, <1>2, <1>4, <1>11
  <2>2. PrevOfKind(view0, line, kind) # 0 => view0[PrevOfKind(view0, line, kind)].kind = kind
    BY <1>6, <1>8, <1>9
  <2>3. QED
    BY <1>9, <1>11, <2>1, <2>2
<1>12. QED
  BY <1>10, <1>11

\* The file of the lines below a line.
FilesAbove(view0, line) ==
  LET header == PrevOfKind(view0, line, "header")
  IN  IF header = 0 THEN {} ELSE {view0[header].file}

\* The files a path says it is in are those of the headers above.
LEMMA FileOfPath ==
  ASSUME NEW o, NEW n, NEW view0 \in Seq(Line), NEW p, IsPath(o, n, view0, p), p[0] = Nowhere,
         NEW line \in 0 .. Len(view0)
  PROVE  p[line].file = FilesAbove(view0, line)
<1> DEFINE header(i) == PrevOfKind(view0, i, "header")
           Right(i) == p[i].file = IF header(i) = 0 THEN {} ELSE {view0[header(i)].file}
           S == {i \in 0 .. Len(view0) : Right(i)}
<1>1. Len(view0) \in Nat
  OBVIOUS
<1>2. 0 \in S
  <2>1. header(0) = 0
    BY NoneAbove
  <2>2. p[0].file = {}
    BY DEF Nowhere
  <2>3. QED
    BY <1>1, <2>1, <2>2
<1>3. ASSUME NEW i \in 1 .. Len(view0), i - 1 \in S PROVE i \in S
  <2>1. header(i) = IF view0[i].kind = "header" THEN i ELSE header(i - 1)
    BY AboveNext
  <2>2. Moves(o, n, p[i - 1], view0[i], p[i])
    BY DEF IsPath
  <2>3. Right(i - 1) /\ i # 0 /\ i \in 0 .. Len(view0)
    BY <1>3
  <2> HIDE DEF header
  <2>4. CASE view0[i].kind = "header"
    <3>1. p[i].file = {view0[i].file}
      BY <2>2, <2>4 DEF Moves
    <3>2. QED
      BY <2>1, <2>3, <2>4, <3>1
  <2>5. CASE view0[i].kind # "header"
    <3>1. p[i].file = p[i - 1].file
      BY <2>2, <2>5 DEF Moves, PlaceAt, Behind
    <3>2. QED
      BY <2>1, <2>3, <2>5, <3>1
  <2>6. QED
    BY <2>4, <2>5
<1>4. line \in S
  <2> HIDE DEF S
  <2>1. \A i \in 0 .. Len(view0) : i \in S
    BY <1>1, <1>2, <1>3, EveryRound
  <2>2. QED
    BY <2>1
<1>5. QED
  BY <1>4 DEF FilesAbove

\* The numbers of the lines below i, by what is above it in the chunk.
NumbersAt(view0, p, chunk, i) ==
  /\ InFile(p, p[chunk].file, i)
  /\ p[i].old = view0[chunk].opos + Cardinality({j \in chunk + 1 .. i : view0[j].kind # "add"})
  /\ p[i].new = view0[chunk].npos + Cardinality({j \in chunk + 1 .. i : view0[j].kind # "del"})

\* In the body of a chunk a path counts the lines of both files, from where the header says.
LEMMA NumbersOfPath ==
  ASSUME NEW o, NEW n, NEW view0 \in Seq(Line), NEW p, IsPath(o, n, view0, p),
         NEW chunk \in 1 .. Len(view0), view0[chunk].kind = "chunk", NEW end \in chunk .. Len(view0),
         \A i \in chunk + 1 .. end : view0[i].kind \notin {"chunk", "header", "noeol"}
  PROVE  \A i \in chunk .. end : NumbersAt(view0, p, chunk, i)
<1> DEFINE Others(kind, i) == {j \in chunk + 1 .. i : view0[j].kind # kind}
           Right(i) == /\ InFile(p, p[chunk].file, i)
                       /\ p[i].old = view0[chunk].opos + Cardinality(Others("add", i))
                       /\ p[i].new = view0[chunk].npos + Cardinality(Others("del", i))
           S == {k \in 0 .. end - chunk : Right(chunk + k)}
<1>1. chunk \in Nat /\ end \in Nat /\ end - chunk \in Nat /\ chunk + 0 = chunk
  OBVIOUS
<1>2. ASSUME NEW kind, NEW i \in chunk .. end
      PROVE  /\ IsFiniteSet(Others(kind, i)) /\ Cardinality(Others(kind, i)) \in Nat
             /\ i + 1 \notin Others(kind, i)
  <2>1. Others(kind, i) \subseteq chunk + 1 .. i /\ chunk + 1 \in Int /\ i \in Int
    OBVIOUS
  <2>2. i + 1 \notin Others(kind, i)
    OBVIOUS
  <2> HIDE DEF Others
  <2>3. IsFiniteSet(Others(kind, i))
    BY <2>1, FS_Interval, FS_Subset
  <2>4. QED
    BY <2>2, <2>3, FS_CardinalityType
<1>3. ASSUME NEW kind, NEW i \in chunk .. end - 1
      PROVE  Others(kind, i + 1)
               = IF view0[i + 1].kind # kind THEN Others(kind, i) \cup {i + 1} ELSE Others(kind, i)
  <2>1. chunk + 1 .. i + 1 = (chunk + 1 .. i) \cup {i + 1}
    OBVIOUS
  <2>2. QED
    BY <2>1
<1>4. view0[chunk] \in ChunkHeaders /\ view0[chunk].opos \in Int /\ view0[chunk].npos \in Int
  BY KindOfLine DEF ChunkHeaders
<1>5. Right(chunk)
  <2>1. Moves(o, n, p[chunk - 1], view0[chunk], p[chunk])
    BY DEF IsPath
  <2>2. InFile(p, p[chunk].file, chunk) /\ p[chunk].old = view0[chunk].opos /\ p[chunk].new = view0[chunk].npos
    BY <2>1 DEF Moves, PlaceAt, InFile
  <2>3. \A kind : Others(kind, chunk) = {}
    OBVIOUS
  <2> HIDE DEF Others
  <2>4. \A kind : Cardinality(Others(kind, chunk)) = 0
    BY <2>3, FS_EmptySet
  <2>5. view0[chunk].opos + 0 = view0[chunk].opos /\ view0[chunk].npos + 0 = view0[chunk].npos
    BY <1>4
  <2>6. QED
    BY <2>2, <2>4, <2>5
<1> HIDE DEF Others
<1>6. 0 \in S
  BY <1>1, <1>5
<1>7. ASSUME NEW k \in 1 .. end - chunk, k - 1 \in S PROVE k \in S
  <2>1. PICK i : i = chunk + (k - 1)
    OBVIOUS
  <2>2. i \in chunk .. end - 1 /\ i \in chunk .. end /\ chunk + k = i + 1 /\ k \in 0 .. end - chunk
        /\ i + 1 \in 1 .. Len(view0) /\ i + 1 - 1 = i /\ i + 1 \in chunk + 1 .. end
    BY <1>1, <2>1
  <2>3. Right(i)
    BY <1>7, <2>1
  <2> HIDE DEF S
  <2>4. PICK a, b : a = Cardinality(Others("add", i)) /\ b = Cardinality(Others("del", i))
    OBVIOUS
  <2>5. a \in Nat /\ b \in Nat
    BY <1>2, <2>2, <2>4
  <2>6. /\ Cardinality(Others("add", i + 1)) = IF view0[i + 1].kind # "add" THEN a + 1 ELSE a
        /\ Cardinality(Others("del", i + 1)) = IF view0[i + 1].kind # "del" THEN b + 1 ELSE b
    <3>1. ASSUME NEW kind
          PROVE  Cardinality(Others(kind, i + 1))
                   = IF view0[i + 1].kind # kind THEN Cardinality(Others(kind, i)) + 1 ELSE Cardinality(Others(kind, i))
      <4>1. /\ IsFiniteSet(Others(kind, i)) /\ i + 1 \notin Others(kind, i)
            /\ Others(kind, i + 1)
                 = IF view0[i + 1].kind # kind THEN Others(kind, i) \cup {i + 1} ELSE Others(kind, i)
        BY <1>2, <1>3, <2>2
      <4>2. Cardinality(Others(kind, i) \cup {i + 1}) = Cardinality(Others(kind, i)) + 1
        BY <4>1, FS_AddElement
      <4>3. QED
        BY <4>1, <4>2
    <3>2. QED
      BY <2>4, <3>1
  <2>7. PICK x, y, l : x = p[i] /\ y = p[i + 1] /\ l = view0[i + 1]
    OBVIOUS
  <2>8. x.inside /\ x.file = p[chunk].file /\ x.old = view0[chunk].opos + a /\ x.new = view0[chunk].npos + b
    BY <2>3, <2>4, <2>7 DEF InFile
  <2>9. Moves(o, n, x, l, y)
    BY <2>2, <2>7 DEF IsPath
  <2>10. l.kind \in {"ctx", "del", "add"}
    <3>1. l.kind \notin {"chunk", "header", "noeol"}
      BY <2>2, <2>7
    <3>2. QED
      BY <2>8, <2>9, <3>1 DEF Moves
  <2>11. y = Behind(x, l.kind)
    BY <2>9, <2>10 DEF Moves
  <2>12. /\ y.inside /\ y.file = x.file
         /\ y.old = IF l.kind = "add" THEN x.old ELSE x.old + 1
         /\ y.new = IF l.kind = "del" THEN x.new ELSE x.new + 1
    BY <2>11 DEF Behind, PlaceAt
  <2>13. /\ (view0[chunk].opos + a) + 1 = view0[chunk].opos + (a + 1)
         /\ (view0[chunk].npos + b) + 1 = view0[chunk].npos + (b + 1)
    <3>1. \A u, v \in Int : (u + v) + 1 = u + (v + 1)
      OBVIOUS
    <3>2. a \in Int /\ b \in Int
      BY <2>5
    <3>3. QED
      BY ONLY <1>4, <3>1, <3>2
  <2>14. /\ y.old = view0[chunk].opos + Cardinality(Others("add", i + 1))
         /\ y.new = view0[chunk].npos + Cardinality(Others("del", i + 1))
    BY ONLY <2>6, <2>7, <2>8, <2>12, <2>13
  <2>15. Right(i + 1)
    BY <2>7, <2>8, <2>12, <2>14 DEF InFile
  <2> HIDE DEF Right
  <2>16. QED
    BY <2>2, <2>15 DEF S
<1>8. ASSUME NEW i \in chunk .. end PROVE Right(i)
  <2>1. i - chunk \in 0 .. end - chunk /\ chunk + (i - chunk) = i
    OBVIOUS
  <2>2. i - chunk \in S
    <3> HIDE DEF S
    <3>1. \A k \in 0 .. end - chunk : k \in S
      BY <1>1, <1>6, <1>7, EveryRound
    <3>2. QED
      BY <2>1, <3>1
  <2>3. Right(chunk + (i - chunk))
    BY <2>2
  <2> HIDE DEF Right
  <2>4. QED
    BY <2>1, <2>3
<1>9. QED
  BY <1>8 DEF Others, NumbersAt

-----------------------------------------------------------------------------
(***************************************************************************)
(* The files are files and the view is a view, in whatever order requests, *)
(* slices of the diff and changes by other programs come.                  *)
(***************************************************************************)
Typed ==
  /\ FilesTyped(index) /\ FilesTyped(work)
  /\ view \in Seq(Line)
  /\ rest \in Seq(Line)
  /\ type \in Types \cup {"none"}
  /\ subject \in Names \cup {All}

\* A chunk whose line has not been freed is in the view.
AskedInView == asked.chunk \in {-1} \cup (0 .. Len(view))

\* The view is of the staged or of the unstaged changes.
LEMMA StagedIsBoolean == Staged \in BOOLEAN
BY DEF Staged

\* A request below a chunk header makes selected changes to one file.
LEMMA ChangesAreSelected ==
  ASSUME Typed
  PROVE  OnlySelectedChange
<1>1. view \in Seq(Line) /\ FilesTyped(index) /\ Staged \in BOOLEAN
  BY StagedIsBoolean DEF Typed
<1> DEFINE added(line, update) == Texts(Selected(line, update), "add")
           removed(line, update) == Texts(Selected(line, update), "del")
<1>2. ASSUME NEW line \in DOMAIN view, NEW update \in Updates,
             MayUpdate(line, update), ChunkOf(view, line) # 0
      PROVE  LET f == FileOf(view, ChunkOf(view, line))
                 after == Update(line, update).index
             IN  /\ \A g \in Names \ {f} : after[g] = index[g]
                 /\ LinesOf(index[f]) \ LinesOf(after[f])
                      \subseteq (IF Staged THEN added(line, update) ELSE removed(line, update))
                 /\ LinesOf(after[f]) \ LinesOf(index[f])
                      \subseteq (IF Staged THEN removed(line, update) ELSE added(line, update))
  <2> DEFINE f == FileOf(view, ChunkOf(view, line))
             patch == PatchFor(view, line, Staged, FALSE, update)
             result == GitApply(patch, index[f])
             after == Update(line, update).index
  <2>1. line \in 1 .. Len(view)
    BY <1>1
  <2>2. ChunkOf(view, line) # 0 /\ (update # "normal" => IsChange(view[line]))
    BY <1>2 DEF MayUpdate
  <2>3. after = IF result.ok THEN [index EXCEPT ![f] = result.file] ELSE index
    BY <2>2 DEF Update, UpdateChunk
  <2>4. patch.body \in Seq(Line) /\ patch.reverse = Staged
    BY <1>1, <2>1, LinesOfPatch
  <2>5. \A kind \in {"del", "add"} :
          TextsOf(patch.body, {kind}) \subseteq Texts(Selected(line, update), kind)
    BY <1>1, <2>1, <2>2, PatchOfSelected
  <2> HIDE DEF f, patch, after
  <2>6. CASE result.ok /\ f \in Names
    <3>1. PICK new : new = result.file
      OBVIOUS
    <3>2. after = [index EXCEPT ![f] = new]
      BY <2>3, <2>6, <3>1
    <3>3. index[f] \in Seq(Int)
      BY <1>1, <2>6 DEF FilesTyped
    <3>4. /\ LinesOf(index[f]) \ LinesOf(new)
               \subseteq TextsOf(patch.body, {IF patch.reverse THEN "add" ELSE "del"})
          /\ LinesOf(new) \ LinesOf(index[f])
               \subseteq TextsOf(patch.body, {IF patch.reverse THEN "del" ELSE "add"})
      BY <2>4, <2>6, <3>1, <3>3, OnlyPatchedLines
    <3> HIDE DEF result
    <3>5. after[f] = new /\ \A g \in Names \ {f} : after[g] = index[g]
      BY <1>1, <2>6, <3>2 DEF FilesTyped
    <3>6. CASE Staged
      <4>1. /\ LinesOf(index[f]) \ LinesOf(new) \subseteq TextsOf(patch.body, {"add"})
            /\ LinesOf(new) \ LinesOf(index[f]) \subseteq TextsOf(patch.body, {"del"})
        BY <2>4, <3>4, <3>6
      <4>2. QED
        BY <2>5, <3>5, <3>6, <4>1 DEF f, after
    <3>7. CASE ~Staged
      <4>1. /\ LinesOf(index[f]) \ LinesOf(new) \subseteq TextsOf(patch.body, {"del"})
            /\ LinesOf(new) \ LinesOf(index[f]) \subseteq TextsOf(patch.body, {"add"})
        BY <2>4, <3>4, <3>7
      <4>2. QED
        BY <2>5, <3>5, <3>7, <4>1 DEF f, after
    <3>8. QED
      BY <3>6, <3>7
  <2>7. CASE ~(result.ok /\ f \in Names)
    <3>1. after = index
      BY <1>1, <2>3, <2>7 DEF FilesTyped
    <3>2. QED
      BY <3>1 DEF f, after
  <2>8. QED
    BY <2>6, <2>7
<1>3. QED
  BY <1>2 DEF OnlySelectedChange, LinesOf

\* The first state has these types, and every action keeps them.
LEMMA InitTyped == Init => Typed
<1> SUFFICES ASSUME Init PROVE Typed
  OBVIOUS
<1>1. FilesTyped(index)
  BY FilesAssumption DEF Init, FilesTyped
<1>2. FilesTyped(work)
  <2>1. PICK W : work \in [Names -> W] /\ \A f \in Names : work[f] \in Contents[f]
    BY DEF Init
  <2>2. \A f \in Names : work[f] \in Seq(Int)
    BY <2>1, FilesAssumption
  <2>3. QED
    BY <2>1, <2>2 DEF FilesTyped
<1>3. view \in Seq(Line) /\ rest \in Seq(Line)
  <2>1. <<>> \in Seq(Line)
    OBVIOUS
  <2>2. QED
    BY <2>1 DEF Init
<1>4. QED
  BY <1>1, <1>2, <1>3 DEF Init, Typed

\* What is read again is the diff of files that are files.
LEMMA LoadTyped ==
  ASSUME NEW t \in Types, NEW s \in Names \cup {All}, Load(t, s), FilesTyped(index'), FilesTyped(work')
  PROVE  Typed'
<1>1. PICK state : state = Now'
  OBVIOUS
<1>2. FilesTyped(state.index) /\ FilesTyped(state.work)
  BY <1>1 DEF Now
<1>3. Shown(t, s, state) \in Seq(Line)
  BY <1>2, ShownLines
<1>4. <<>> \in Seq(Line)
  OBVIOUS
<1>5. QED
  BY <1>1, <1>3, <1>4 DEF Load, Typed, FilesTyped

\* A view that is left has no lines.
LEMMA LeaveTyped ==
  ASSUME Typed, Leave, FilesTyped(index'), FilesTyped(work')
  PROVE  Typed'
<1>1. <<>> \in Seq(Line)
  OBVIOUS
<1>2. QED
  BY <1>1 DEF Leave, Typed, FilesTyped

\* Both ways a request may end keep the types.
LEMMA AfterTyped ==
  ASSUME Typed, After, FilesTyped(index'), FilesTyped(work')
  PROVE  Typed'
<1>1. CASE Leave
  BY <1>1, LeaveTyped
<1>2. CASE type # "none" /\ Load(type, subject)
  <2>1. type \in Types /\ subject \in Names \cup {All}
    BY <1>2 DEF Typed
  <2>2. QED
    BY <1>2, <2>1, LoadTyped
<1>3. QED
  BY <1>1, <1>2 DEF After

\* Updating a chunk, all chunks or a file leaves an index.
LEMMA UpdateTyped ==
  ASSUME Typed, NEW line \in 1 .. Len(view), NEW update
  PROVE  FilesTyped(Update(line, update).index)
<1>1. /\ view \in Seq(Line) /\ FilesTyped(index) /\ FilesTyped(work) /\ FilesTyped(Committed)
      /\ subject \in Names \cup {All} /\ Staged \in BOOLEAN
  BY StagedIsBoolean, FilesAssumption DEF Typed, FilesTyped
<1>2. CASE ChunkOf(view, line) # 0
  <2>1. FilesTyped(UpdateChunk(line, update, index).index)
    BY <1>1, ChunkUpdated
  <2>2. QED
    BY <1>2, <2>1 DEF Update
<1>3. CASE ChunkOf(view, line) = 0 /\ subject = All
  <2>1. FilesTyped(UpdateFiles.index)
    BY <1>1, FilesUpdated DEF Results, FilesTyped
  <2>2. QED
    BY <1>3, <2>1 DEF Update
<1>4. CASE ChunkOf(view, line) = 0 /\ subject # All
  <2>1. PICK other : other = (IF Staged THEN Committed ELSE work) /\ FilesTyped(other)
    BY <1>1
  <2>2. subject \in Names /\ other[subject] \in Seq(Int)
    BY <1>1, <1>4, <2>1 DEF FilesTyped
  <2>3. FilesTyped([index EXCEPT ![subject] = other[subject]])
    BY <1>1, <2>2, FileChanged
  <2>4. QED
    BY <1>4, <2>1, <2>3 DEF Update, UpdateFile
<1>5. QED
  BY <1>2, <1>3, <1>4

\* Reverting a chunk leaves a working tree.
LEMMA ChunkReverted ==
  ASSUME Typed, NEW chunk \in 1 .. Len(view)
  PROVE  FilesTyped(RevertChunk(chunk).work)
<1> DEFINE file == FileOf(view, chunk)
           patch == PatchFor(view, chunk, FALSE, TRUE, "normal")
           result == GitApply(patch, work[file])
<1>1. view \in Seq(Line) /\ FilesTyped(work)
  BY DEF Typed
<1>2. patch.body \in Seq(Line)
  BY <1>1, LinesOfPatch
<1>3. RevertChunk(chunk).work = IF result.ok THEN [work EXCEPT ![file] = result.file] ELSE work
  BY DEF RevertChunk
<1> HIDE DEF patch, file
<1>4. ASSUME result.ok PROVE FilesTyped([work EXCEPT ![file] = result.file])
  <2>1. ASSUME file \in Names PROVE result.file \in Seq(Int)
    <3>1. work[file] \in Seq(Int)
      BY <1>1, <2>1 DEF FilesTyped
    <3>2. QED
      BY <1>2, <1>4, <3>1, OnlyPatchedLines
  <2> HIDE DEF result
  <2>2. QED
    BY <1>1, <2>1, FileChanged
<1> HIDE DEF result
<1>5. QED
  BY <1>1, <1>3, <1>4

\* Whatever comes of the answer to a question leaves a working tree.
LEMMA OutcomesTyped ==
  ASSUME Typed, AskedInView, NEW result \in Outcomes
  PROVE  FilesTyped(result.work)
<1>1. view \in Seq(Line) /\ Len(view) \in Nat /\ FilesTyped(index) /\ FilesTyped(work)
  BY DEF Typed
<1>2. ASSUME NEW file PROVE FilesTyped(RevertFile(file).work)
  <2>1. ASSUME file \in Names PROVE index[file] \in Seq(Int)
    BY <1>1, <2>1 DEF FilesTyped
  <2>2. FilesTyped([work EXCEPT ![file] = index[file]])
    BY <1>1, <2>1, FileChanged
  <2>3. QED
    BY <2>2 DEF RevertFile
<1>3. FilesTyped(Refuse.work)
  BY <1>1 DEF Refuse
<1>4. ChunkLines \subseteq 1 .. Len(view)
  BY <1>1 DEF ChunkLines
<1>5. asked.chunk \in {-1} \cup (0 .. Len(view))
  BY DEF AskedInView
<1>6. CASE asked.chunk = 0
  BY <1>2, <1>6 DEF Outcomes
<1>7. CASE asked.chunk > 0
  <2>1. asked.chunk \in 1 .. Len(view) /\ asked.chunk # 0
    BY <1>1, <1>5, <1>7
  <2>2. result = RevertChunk(asked.chunk)
    BY <1>7, <2>1 DEF Outcomes
  <2>3. QED
    BY <2>1, <2>2, ChunkReverted
<1>8. CASE asked.chunk = -1
  <2>1. result \in {RevertChunk(c) : c \in ChunkLines} \cup {Refuse}
    BY <1>8 DEF Outcomes
  <2>2. QED
    BY <1>3, <1>4, <2>1, ChunkReverted
<1>9. QED
  BY <1>1, <1>5, <1>6, <1>7, <1>8

\* What is read is a slice of the output, and not nothing.
LEMMA SliceRead ==
  ASSUME rest \in Seq(Line), ReadLines
  PROVE  \E n \in 1 .. Len(rest) : /\ view' = view \o SubSeq(rest, 1, n)
                                  /\ rest' = SubSeq(rest, n + 1, Len(rest))
<1>1. (IF Slices THEN DOMAIN rest ELSE {Len(rest)}) \subseteq 1 .. Len(rest)
  <2>1. rest # <<>>
    BY DEF ReadLines
  <2>2. Len(rest) \in Nat /\ DOMAIN rest = 1 .. Len(rest) /\ Len(rest) # 0
    BY <2>1
  <2>3. QED
    BY <2>2
<1>2. \E n \in IF Slices THEN DOMAIN rest ELSE {Len(rest)} :
        /\ view' = view \o SubSeq(rest, 1, n)
        /\ rest' = SubSeq(rest, n + 1, Len(rest))
  BY DEF ReadLines
<1>3. QED
  BY <1>1, <1>2

\* Every action keeps the types.
LEMMA NextTyped == Typed /\ AskedInView /\ [Next]_vars => Typed'
<1> SUFFICES ASSUME Typed, AskedInView, [Next]_vars PROVE Typed'
  OBVIOUS
<1>1. /\ view \in Seq(Line) /\ rest \in Seq(Line) /\ FilesTyped(index) /\ FilesTyped(work)
      /\ type \in Types \cup {"none"} /\ subject \in Names \cup {All}
  BY DEF Typed
<1>2. CASE UNCHANGED vars
  BY <1>2 DEF vars, Typed, FilesTyped
<1>3. CASE Idle
  BY <1>3, <1>2 DEF Idle
<1>4. CASE Open
  <2>1. FilesTyped(index') /\ FilesTyped(work')
    BY <1>1, <1>4 DEF Open
  <2>2. QED
    BY <1>4, <2>1, LoadTyped DEF Open
<1>5. CASE Refresh
  <2>1. FilesTyped(index') /\ FilesTyped(work')
    BY <1>1, <1>5 DEF Refresh
  <2>2. QED
    BY <1>1, <1>5, <2>1, LoadTyped DEF Refresh
<1>6. CASE ReadLines
  <2>1. PICK n \in 1 .. Len(rest) : /\ view' = view \o SubSeq(rest, 1, n)
                                   /\ rest' = SubSeq(rest, n + 1, Len(rest))
    BY <1>1, <1>6, SliceRead
  <2>2. n \in Int /\ n <= Len(rest) /\ Len(rest) \in Int /\ n + 1 >= 1
    BY <1>1
  <2>3. SubSeq(rest, 1, n) \in Seq(Line) /\ SubSeq(rest, n + 1, Len(rest)) \in Seq(Line)
    BY <1>1, <2>2, ElementsOfSubSeq
  <2>4. PICK s : s = SubSeq(rest, 1, n)
    OBVIOUS
  <2>5. s \in Seq(Line)
    BY <2>3, <2>4
  <2>6. view \o s \in Seq(Line)
    BY ONLY <1>1, <2>5
  <2>7. view' \in Seq(Line) /\ rest' \in Seq(Line)
    BY <2>1, <2>3, <2>4, <2>6
  <2>8. UNCHANGED <<index, work, type, subject>>
    BY <1>6 DEF ReadLines
  <2>9. QED
    BY <1>1, <2>7, <2>8 DEF Typed, FilesTyped
<1>7. CASE ReadNothing
  BY <1>1, <1>7, LeaveTyped DEF ReadNothing, FilesTyped
<1>8. CASE StageUpdate
  <2>1. PICK line \in DOMAIN view, update \in Updates :
          /\ MayUpdate(line, update)
          /\ index' = Update(line, update).index
          /\ UNCHANGED work
          /\ \/ After
             \/ UNCHANGED <<type, subject, view, rest, base, early>>
    BY <1>8 DEF StageUpdate
  <2>2. line \in 1 .. Len(view)
    BY <1>1, <2>1
  <2>3. FilesTyped(index') /\ FilesTyped(work')
    <3>1. FilesTyped(Update(line, update).index)
      BY <2>2, UpdateTyped
    <3>2. QED
      BY <1>1, <2>1, <3>1
  <2>4. CASE After
    BY <2>1, <2>3, <2>4, AfterTyped DEF MayUpdate
  <2>5. CASE UNCHANGED <<type, subject, view, rest, base, early>>
    BY <1>1, <2>3, <2>5 DEF Typed, FilesTyped
  <2>6. QED
    BY <2>1, <2>4, <2>5
<1>9. CASE StageRevert
  <2>1. PICK result \in Outcomes :
          /\ work' = result.work
          /\ UNCHANGED index
          /\ \/ After
             \/ UNCHANGED <<type, subject, view, rest, base, early>>
    BY <1>9 DEF StageRevert
  <2>2. FilesTyped(index') /\ FilesTyped(work')
    <3>1. FilesTyped(result.work)
      BY OutcomesTyped
    <3>2. QED
      BY <1>1, <2>1, <3>1
  <2>3. CASE After
    BY <2>2, <2>3, AfterTyped
  <2>4. CASE UNCHANGED <<type, subject, view, rest, base, early>>
    BY <1>1, <2>2, <2>4 DEF Typed, FilesTyped
  <2>5. QED
    BY <2>1, <2>3, <2>4
<1>10. CASE SplitChunk
  <2>1. PICK line \in DOMAIN view : /\ ChunkOf(view, line) # 0
                                   /\ view' = StageSplitChunk(view, ChunkOf(view, line))
                                   /\ UNCHANGED <<index, work, type, subject, rest>>
    BY <1>10 DEF SplitChunk
  <2>2. ChunkOf(view, line) \in 1 .. Len(view) /\ view[ChunkOf(view, line)].kind = "chunk"
    BY <1>1, <2>1, ChunkAbove
  <2>3. view' \in Seq(Line)
    BY <1>1, <2>1, <2>2, SplitLines
  <2>4. QED
    BY <1>1, <2>1, <2>3 DEF Typed, FilesTyped
<1>11. CASE Close
  BY <1>1, <1>11, LeaveTyped DEF Close, FilesTyped
<1>12. CASE EditFile
  <2>1. PICK f \in Names : \E c \in Contents[f] : work' = [work EXCEPT ![f] = c]
    BY <1>12 DEF EditFile
  <2>2. PICK c \in Contents[f] : work' = [work EXCEPT ![f] = c]
    BY <2>1
  <2>3. FilesTyped([work EXCEPT ![f] = c])
    BY <1>1, FilesAssumption, FileChanged
  <2>4. UNCHANGED <<index, type, subject, view, rest>>
    BY <1>12 DEF EditFile
  <2>5. QED
    BY <1>1, <2>2, <2>3, <2>4 DEF Typed, FilesTyped
<1>13. CASE AddFile
  <2>1. PICK f \in Names, c \in {Committed, work} : index' = [index EXCEPT ![f] = c[f]]
    BY <1>13 DEF AddFile
  <2>2. c[f] \in Seq(Int)
    BY <1>1, FilesAssumption DEF FilesTyped
  <2>3. FilesTyped([index EXCEPT ![f] = c[f]])
    BY <1>1, <2>2, FileChanged
  <2>4. UNCHANGED <<work, type, subject, view, rest>>
    BY <1>13 DEF AddFile
  <2>5. QED
    BY <1>1, <2>1, <2>3, <2>4 DEF Typed, FilesTyped
<1>14. CASE AskRevert
  BY <1>1, <1>14 DEF AskRevert, Typed, FilesTyped
<1>15. CASE AnswerNo
  BY <1>1, <1>15 DEF AnswerNo, Typed, FilesTyped
<1>16. QED
  BY <1>2, <1>3, <1>4, <1>5, <1>6, <1>7, <1>8, <1>9, <1>10, <1>11, <1>12, <1>13, <1>14, <1>15
  DEF Next

\* While a question waits for its answer, the line of its chunk is in the view or
\* known to be freed.
LEMMA NextAsked == Typed /\ AskedInView /\ [Next]_vars => AskedInView'
<1> SUFFICES ASSUME Typed, AskedInView, [Next]_vars PROVE AskedInView'
  OBVIOUS
<1>1. /\ view \in Seq(Line) /\ rest \in Seq(Line) /\ Len(view) \in Nat
      /\ asked.chunk \in {-1} \cup (0 .. Len(view))
  BY DEF Typed, AskedInView
<1>2. Nobody.chunk = 0
  BY DEF Nobody, Asked
<1>3. Freed(asked).chunk \in {-1, 0}
  BY DEF Freed
<1>4. Len(view') \in Nat
  <2>1. Typed'
    BY NextTyped
  <2>2. QED
    BY <2>1 DEF Typed
<1>5. ASSUME asked' = Nobody \/ asked' = Freed(asked) PROVE AskedInView'
  <2>1. asked'.chunk \in {-1, 0}
    BY <1>2, <1>3, <1>5
  <2>2. QED
    BY <1>4, <2>1 DEF AskedInView
<1>6. ASSUME UNCHANGED <<asked, view>> PROVE AskedInView'
  BY <1>6 DEF AskedInView
<1>7. CASE UNCHANGED vars \/ Idle
  BY <1>6, <1>7 DEF vars, Idle
<1>8. CASE Open \/ StageUpdate \/ SplitChunk \/ Close
  BY <1>5, <1>8 DEF Open, StageUpdate, SplitChunk, Close
<1>9. CASE Refresh
  BY <1>5, <1>9 DEF Refresh
<1>10. CASE ReadLines
  <2>1. PICK n \in 1 .. Len(rest) : view' = view \o SubSeq(rest, 1, n)
    BY <1>1, <1>10, SliceRead
  <2>2. SubSeq(rest, 1, n) \in Seq(Line)
    BY <1>1, ElementsOfSubSeq
  <2>3. Len(view) <= Len(view')
    <3>1. PICK more : more = SubSeq(rest, 1, n)
      OBVIOUS
    <3>2. more \in Seq(Line) /\ view' = view \o more
      BY <2>1, <2>2, <3>1
    <3>3. QED
      BY <1>1, <3>2
  <2>4. CASE asked' = asked
    BY <1>1, <1>4, <2>3, <2>4 DEF AskedInView
  <2>5. QED
    BY <1>5, <1>10, <2>4 DEF ReadLines
<1>11. CASE ReadNothing
  <2>1. view = <<>> /\ view' = <<>> /\ asked' = asked
    BY <1>11 DEF ReadNothing, Leave
  <2>2. QED
    BY <1>6, <2>1
<1>12. CASE AskRevert
  <2>1. PICK line \in DOMAIN view :
          asked' = Asked(ChunkOf(view, line),
                         IF ChunkOf(view, line) # 0 THEN FileOf(view, ChunkOf(view, line)) ELSE subject)
    BY <1>12 DEF AskRevert
  <2>2. line \in 1 .. Len(view)
    BY <1>1
  <2>3. ChunkOf(view, line) \in 0 .. line
    BY <1>1, <2>2, ChunkAbove
  <2>4. asked'.chunk \in 0 .. Len(view)
    BY <1>1, <2>1, <2>2, <2>3 DEF Asked
  <2>5. view' = view
    BY <1>12 DEF AskRevert
  <2>6. QED
    BY <2>4, <2>5 DEF AskedInView
<1>13. CASE StageRevert \/ AnswerNo
  BY <1>5, <1>13 DEF StageRevert, AnswerNo
<1>14. CASE EditFile \/ AddFile
  BY <1>6, <1>14 DEF EditFile, AddFile
<1>15. QED
  BY <1>7, <1>8, <1>9, <1>10, <1>11, <1>12, <1>13, <1>14 DEF Next

(***************************************************************************)
(* The index, the working tree and the view keep their types, and what     *)
(* stage_revert asks about is in the view or known to be freed.            *)
(***************************************************************************)
THEOREM AlwaysTyped == Spec => [](Typed /\ AskedInView)
<1>1. Init => AskedInView
  BY DEF Init, Nobody, Asked, AskedInView
<1>2. QED
  BY <1>1, InitTyped, NextTyped, NextAsked, PTL DEF Spec

(***************************************************************************)
(* In any number of files with any contents, with any context, and however *)
(* requests, slices of the diff, edits and other programs interleave: a    *)
(* request below a chunk header changes one file in the index, takes out   *)
(* only lines that the selected lines of the view remove and puts in only  *)
(* lines that they add (stage_apply_chunk, stage_apply_line,               *)
(* stage_diff_range_write).                                                *)
(***************************************************************************)
THEOREM AlwaysOnlySelected == Spec => []OnlySelectedChange
<1>1. Typed => OnlySelectedChange
  BY ChangesAreSelected
<1>2. QED
  BY <1>1, AlwaysTyped, PTL

-----------------------------------------------------------------------------
(***************************************************************************)
(* The inductive invariant: the view and what is still to be read lead     *)
(* through the files git diff looked at.                                   *)
(***************************************************************************)
Mapped == \E y \in Places : Leads(Old(type, base), New(type, base), Nowhere, view \o rest, y)

\* Without any lines there is nothing to lead astray.
LEMMA NothingMapped ==
  ASSUME NEW o, NEW n
  PROVE  \E y \in Places : Leads(o, n, Nowhere, <<>> \o <<>>, y)
<1>1. Nowhere \in Places
  BY DEF Nowhere, Places
<1>2. <<>> \o <<>> = <<>>
  OBVIOUS
<1>3. Leads(o, n, Nowhere, <<>>, Nowhere)
  BY <1>1, NoLines
<1>4. QED
  BY <1>1, <1>2, <1>3

\* At first there is no view.
LEMMA InitMapped == Init => Mapped
BY NothingMapped DEF Init, Mapped

\* What is read again is of the files as they are.
LEMMA LoadMapped ==
  ASSUME NEW t, NEW s, Load(t, s), FilesTyped(index'), FilesTyped(work')
  PROVE  Mapped'
<1>0. PICK state : state = Now'
  OBVIOUS
<1>1. state = Now' /\ FilesTyped(state.index) /\ FilesTyped(state.work)
  BY <1>0 DEF Now
<1>2. Nowhere \in Places
  BY DEF Nowhere, Places
<1>3. PICK y \in Places : Leads(Old(t, state), New(t, state), Nowhere, Shown(t, s, state), y)
  BY <1>1, <1>2, ShownLeads
<1>4. PICK lines : lines = Shown(t, s, state)
  OBVIOUS
<1>5. lines \in Seq(Line)
  BY <1>1, <1>4, ShownLines
<1>6. <<>> \o lines = lines
  BY <1>5
<1>7. view' = <<>> /\ rest' = lines /\ type' = t /\ base' = state
  BY <1>1, <1>4 DEF Load
<1>8. view' \o rest' = lines
  BY <1>6, <1>7
<1>9. Old(type', base') = Old(t, state) /\ New(type', base') = New(t, state)
  BY <1>7
<1>10. Leads(Old(type', base'), New(type', base'), Nowhere, view' \o rest', y)
  BY <1>3, <1>4, <1>8, <1>9
<1>11. QED
  BY <1>10 DEF Mapped, Old, New

\* A view that is left leads nowhere.
LEMMA LeaveMapped ==
  ASSUME Leave
  PROVE  Mapped'
<1>1. PICK o, n : o = Old(type', base') /\ n = New(type', base')
  OBVIOUS
<1>2. \E y \in Places : Leads(o, n, Nowhere, view' \o rest', y)
  BY NothingMapped DEF Leave
<1>3. QED
  BY <1>1, <1>2 DEF Mapped, Old, New

\* A step that keeps the lines, read or not, keeps where they lead.
LEMMA SameMapped ==
  ASSUME Mapped, type' = type, base' = base, view' \o rest' = view \o rest
  PROVE  Mapped'
<1>1. PICK y \in Places : Leads(Old(type, base), New(type, base), Nowhere, view \o rest, y)
  BY DEF Mapped
<1>2. Leads(Old(type', base'), New(type', base'), Nowhere, view' \o rest', y)
  BY <1>1
<1>3. QED
  BY <1>2 DEF Mapped, Old, New

\* Both ways a request may end give lines that lead through the files.
LEMMA AfterMapped ==
  ASSUME After, FilesTyped(index'), FilesTyped(work')
  PROVE  Mapped'
BY LeaveMapped, LoadMapped DEF After

\* A slice of the output goes to the view, and nothing is lost.
LEMMA ReadMapped ==
  ASSUME Typed, Mapped, ReadLines
  PROVE  Mapped'
<1>1. view \in Seq(Line) /\ rest \in Seq(Line)
  BY DEF Typed
<1>2. PICK n \in 1 .. Len(rest) : /\ view' = view \o SubSeq(rest, 1, n)
                                 /\ rest' = SubSeq(rest, n + 1, Len(rest))
  BY <1>1, SliceRead
<1>3. PICK a, b : a = SubSeq(rest, 1, n) /\ b = SubSeq(rest, n + 1, Len(rest))
  OBVIOUS
<1>4. a \in Seq(Line) /\ b \in Seq(Line) /\ a \o b = rest
  BY <1>1, <1>3, InTwo
<1>5. (view \o a) \o b = view \o (a \o b)
  <2>1. a \in Seq(Line) /\ b \in Seq(Line) /\ view \in Seq(Line)
    BY <1>1, <1>4
  <2>2. QED
    BY ONLY <2>1
<1>6. view' \o rest' = view \o rest
  BY <1>2, <1>3, <1>4, <1>5
<1>7. QED
  BY <1>6, SameMapped DEF ReadLines

\* Splitting a chunk does not change where the view leads.
LEMMA SplitMapped ==
  ASSUME Typed, Mapped, SplitChunk
  PROVE  Mapped'
<1>1. PICK line \in DOMAIN view : /\ ChunkOf(view, line) # 0
                                 /\ view' = StageSplitChunk(view, ChunkOf(view, line))
                                 /\ UNCHANGED <<type, rest, base>>
  BY DEF SplitChunk
<1>2. view \in Seq(Line) /\ rest \in Seq(Line)
  BY DEF Typed
<1>3. PICK chunk, o, n, v : /\ chunk = ChunkOf(view, line) /\ v = StageSplitChunk(view, chunk)
                            /\ o = Old(type, base) /\ n = New(type, base)
  OBVIOUS
<1>4. chunk \in 1 .. Len(view) /\ view[chunk].kind = "chunk"
  BY <1>1, <1>2, <1>3, ChunkAbove
<1>5. PICK z \in Places : Leads(o, n, Nowhere, view \o rest, z)
  BY <1>3 DEF Mapped
<1>6. PICK y \in Places : Leads(o, n, Nowhere, view, y) /\ Leads(o, n, y, rest, z)
  BY <1>2, <1>5, LeadsApart
<1>7. PICK p : IsPath(o, n, view, p) /\ p[0] = Nowhere /\ p[Len(view)] = y
  BY <1>6 DEF Leads
<1>8. Leads(o, n, Nowhere, v, y)
  BY <1>2, <1>3, <1>4, <1>7, SplitLeads
<1>9. v \in Seq(Line)
  BY <1>2, <1>3, <1>4, SplitLines
<1>10. Leads(o, n, Nowhere, v \o rest, z)
  BY <1>2, <1>6, <1>8, <1>9, ThenLines
<1>11. o = Old(type', base') /\ n = New(type', base') /\ view' = v /\ rest' = rest
  BY <1>1, <1>3
<1>12. Leads(Old(type', base'), New(type', base'), Nowhere, view' \o rest', z)
  BY <1>10, <1>11
<1>13. QED
  BY <1>12 DEF Mapped, Old, New

\* Every action keeps this.
LEMMA NextMapped == Typed /\ Typed' /\ Mapped /\ [Next]_vars => Mapped'
<1> SUFFICES ASSUME Typed, Typed', Mapped, [Next]_vars PROVE Mapped'
  OBVIOUS
<1>1. FilesTyped(index') /\ FilesTyped(work')
  BY DEF Typed, FilesTyped
<1>2. CASE UNCHANGED vars
  BY <1>2, SameMapped DEF vars
<1>3. CASE Idle
  BY <1>3, SameMapped DEF Idle, vars
<1>4. CASE Open
  BY <1>1, <1>4, LoadMapped DEF Open
<1>5. CASE Refresh
  BY <1>1, <1>5, LoadMapped DEF Refresh
<1>6. CASE ReadLines
  BY <1>6, ReadMapped
<1>7. CASE ReadNothing
  BY <1>7, LeaveMapped DEF ReadNothing
<1>8. CASE StageUpdate
  <2>1. After \/ UNCHANGED <<type, subject, view, rest, base, early>>
    BY <1>8 DEF StageUpdate
  <2>2. QED
    BY <1>1, <2>1, AfterMapped, SameMapped
<1>9. CASE StageRevert
  <2>1. After \/ UNCHANGED <<type, subject, view, rest, base, early>>
    BY <1>9 DEF StageRevert
  <2>2. QED
    BY <1>1, <2>1, AfterMapped, SameMapped
<1>10. CASE SplitChunk
  BY <1>10, SplitMapped
<1>11. CASE Close
  BY <1>11, LeaveMapped DEF Close
<1>12. CASE EditFile
  BY <1>12, SameMapped DEF EditFile
<1>13. CASE AddFile
  BY <1>13, SameMapped DEF AddFile
<1>14. CASE AskRevert \/ AnswerNo
  BY <1>14, SameMapped DEF AskRevert, AnswerNo
<1>15. QED
  BY <1>2, <1>3, <1>4, <1>5, <1>6, <1>7, <1>8, <1>9, <1>10, <1>11, <1>12, <1>13, <1>14 DEF Next

\* The lines above and below which no chunk begins, to the end of the body of the chunk above.
LEMMA InBodyOfChunk ==
  ASSUME NEW line \in DOMAIN view, view \in Seq(Line), InChunk(line), view[line].kind # "chunk"
  PROVE  LET chunk == ChunkOf(view, line)
         IN  /\ chunk \in 1 .. Len(view) /\ view[chunk].kind = "chunk"
             /\ line \in chunk + 1 .. BodyEnd(view, chunk) /\ line \in 1 .. Len(view)
             /\ BodyEnd(view, chunk) \in chunk .. Len(view)
<1>1. line \in 1 .. Len(view)
  OBVIOUS
<1>2. PICK chunk : chunk = ChunkOf(view, line)
  OBVIOUS
<1>3. chunk \in 1 .. line /\ view[chunk].kind = "chunk" /\ line <= BodyEnd(view, chunk)
  BY <1>1, <1>2, ChunkAbove DEF InChunk
<1>4. chunk # line /\ chunk \in 0 .. Len(view)
  BY <1>1, <1>3
<1>5. PICK end \in chunk .. Len(view) : end = BodyEnd(view, chunk)
  BY <1>4, EndOfBody
<1>6. line \in chunk + 1 .. end /\ chunk \in 1 .. Len(view)
  BY <1>1, <1>3, <1>4, <1>5
<1>7. QED
  BY <1>1, <1>2, <1>3, <1>5, <1>6

\* The line numbers of a view that leads through the files are those of its lines.
LEMMA MappedNumbers == Typed /\ Mapped => LineNumbersRight
<1> SUFFICES ASSUME Typed, Mapped,
                    NEW line \in DOMAIN view, InChunk(line), ~HasNoeol(ChunkOf(view, line)),
                    view[line].kind # "chunk"
             PROVE  LET f == FileOf(view, line)
                        old == DiffGetLineno(view, line, TRUE)
                        new == DiffGetLineno(view, line, FALSE)
                    IN  /\ view[line].kind # "add" => Abs(Old(type, base)[f][old]) = view[line].text
                        /\ view[line].kind # "del" => Abs(New(type, base)[f][new]) = view[line].text
  BY DEF LineNumbersRight
<1>1. view \in Seq(Line) /\ rest \in Seq(Line)
  BY DEF Typed
<1>2. PICK chunk, end, o, n : /\ chunk = ChunkOf(view, line) /\ end = BodyEnd(view, chunk)
                              /\ o = Old(type, base) /\ n = New(type, base)
  OBVIOUS
<1>3. /\ chunk \in 1 .. Len(view) /\ view[chunk].kind = "chunk"
      /\ line \in chunk + 1 .. end /\ line \in 1 .. Len(view) /\ end \in chunk .. Len(view)
  BY <1>1, <1>2, InBodyOfChunk
<1>4. PICK p : IsPath(o, n, view, p) /\ p[0] = Nowhere
  <2>1. PICK z \in Places : Leads(o, n, Nowhere, view \o rest, z)
    BY <1>2 DEF Mapped
  <2>2. PICK y \in Places : Leads(o, n, Nowhere, view, y)
    BY <1>1, <2>1, LeadsApart
  <2>3. QED
    BY <2>2 DEF Leads
<1>5. \A i \in chunk + 1 .. end : view[i].kind \notin {"chunk", "header", "noeol"}
  <2>1. \A i \in chunk + 1 .. end : view[i].kind \notin {"chunk", "header"}
    BY <1>1, <1>2, <1>3, BodyOfOne
  <2>2. \A i \in chunk + 1 .. end : view[i].kind # "noeol"
    BY <1>1, <1>2, <1>3, BodyEnds
  <2>3. QED
    BY <2>1, <2>2
<1>6. /\ line - 1 \in chunk .. end /\ line - 1 \in 0 .. Len(view) /\ line \in chunk .. end
      /\ chunk \in chunk .. end /\ line \in 0 .. Len(view) /\ chunk \in Nat
  BY <1>3
<1>7. PICK x, l, file : x = p[line - 1] /\ l = view[line] /\ file = p[chunk].file
  OBVIOUS
<1>8. /\ x.inside /\ x.file = file /\ p[line].file = file
      /\ x.old = view[chunk].opos + Cardinality({j \in chunk + 1 .. line - 1 : view[j].kind # "add"})
      /\ x.new = view[chunk].npos + Cardinality({j \in chunk + 1 .. line - 1 : view[j].kind # "del"})
  <2>1. NumbersAt(view, p, chunk, line) /\ NumbersAt(view, p, chunk, line - 1)
    BY <1>1, <1>3, <1>4, <1>5, <1>6, NumbersOfPath
  <2>2. QED
    BY <1>7, <2>1 DEF NumbersAt, InFile
<1>9. Moves(o, n, x, l, p[line])
  BY <1>3, <1>4, <1>7 DEF IsPath
<1>10. l.kind \in {"ctx", "del", "add"} /\ Matches(o, n, x, l)
  <2>1. l.kind \notin {"chunk", "header", "noeol"}
    BY <1>3, <1>5, <1>7
  <2>2. QED
    BY <1>8, <1>9, <2>1 DEF Moves
<1>11. PICK header : header = PrevOfKind(view, line, "header")
  OBVIOUS
<1>12. /\ file # {}
       /\ file = IF header = 0 THEN {} ELSE {view[header].file}
  <2>1. Moves(o, n, p[chunk - 1], view[chunk], p[chunk])
    BY <1>3, <1>4 DEF IsPath
  <2>2. file # {}
    BY <1>3, <1>7, <2>1 DEF Moves, PlaceAt
  <2>3. p[line].file = IF header = 0 THEN {} ELSE {view[header].file}
    <3>1. p[line].file = FilesAbove(view, line)
      BY <1>1, <1>4, <1>6, FileOfPath
    <3>2. QED
      BY <1>11, <3>1 DEF FilesAbove
  <2>4. QED
    BY <1>8, <2>2, <2>3
<1>13. header # 0 /\ ~(chunk < header)
  <2>1. header # 0
    BY <1>12
  <2>2. header \in 0 .. line /\ view[header].kind = "header"
    BY <1>1, <1>3, <1>11, <2>1, AboveNext
  <2>3. ASSUME chunk < header PROVE FALSE
    <3>1. header \in chunk + 1 .. end
      BY <1>3, <2>2, <2>3
    <3>2. QED
      BY <1>5, <2>2, <3>1
  <2>4. QED
    BY <2>1, <2>3
<1>14. FileOf(view, line) \in x.file
  BY <1>8, <1>11, <1>12, <1>13 DEF FileOf
<1>15. DiffGetLineno(view, line, TRUE) = x.old
  <2>1. {i \in chunk + 1 .. line - 1 : view[i].kind # "add"} = {j \in chunk + 1 .. line - 1 : view[j].kind # "add"}
    OBVIOUS
  <2>2. QED
    BY <1>2, <1>8, <1>11, <1>13, Zenon DEF DiffGetLineno
<1>16. DiffGetLineno(view, line, FALSE) = x.new
  BY <1>2, <1>8, <1>11, <1>13, Zenon DEF DiffGetLineno
<1>17. QED
  BY <1>2, <1>7, <1>10, <1>14, <1>15, <1>16 DEF Matches

(***************************************************************************)
(* In any number of files with any contents, however often chunks have     *)
(* been split (stage_split_chunk), whatever has been read of the diff and  *)
(* whatever has changed behind it: the number that diff_get_lineno finds   *)
(* for a line of a chunk is where the files that git diff looked at have   *)
(* that line.                                                              *)
(***************************************************************************)
THEOREM AlwaysLineNumbersRight == Spec => []LineNumbersRight
<1>1. Typed /\ Typed' /\ Mapped /\ [Next]_vars => Mapped'
  BY NextMapped
<1>2. QED
  BY <1>1, AlwaysTyped, InitMapped, MappedNumbers, PTL DEF Spec
=============================================================================
