--------------------------- MODULE StatusList_proofs ---------------------------
(***************************************************************************)
(* Proofs about the status view's list, for any number of files and of     *)
(* contents: the cursor finds a file, pressing the key that stages walks   *)
(* through a section, and nothing but what was selected is staged or       *)
(* reverted.                                                               *)
(***************************************************************************)
EXTENDS StatusList, Rounds_proofs

-------------------------------------------------------------------------------
(***************************************************************************)
(* Lines.                                                                  *)
(***************************************************************************)
LEMMA LineIs ==
  ASSUME NEW type, NEW file, NEW old
  PROVE  /\ Line(type, file, old).type = type
         /\ Line(type, file, old).file = file
         /\ Line(type, file, old).old = old
BY DEF Line

LEMMA LineTyped ==
  ASSUME NEW type \in Sections \cup {"header", "none"}, NEW file \in {NoFile} \cup Files, NEW old \in Versions
  PROVE  Line(type, file, old) \in Lines
BY DEF Line, Lines

LEMMA EntryIs ==
  ASSUME NEW r \in Repositories, NEW section \in Sections, NEW f \in Files
  PROVE  /\ Entry(r, section, f) \in Lines
         /\ Entry(r, section, f).type = section
         /\ Entry(r, section, f).file = f /\ f # NoFile
         /\ section = "staged" => Entry(r, section, f).old = r.head[f]
         /\ section # "staged" => Entry(r, section, f).old = Absent
<1>1. r.head[f] \in Versions /\ Absent \in Versions
  BY StatusAssumption DEF Repositories
<1>2. f # NoFile
  BY StatusAssumption DEF Files, NoFile
<1>3. QED
  BY <1>1, <1>2, LineIs, LineTyped DEF Entry

\* The lines that status_run has added for the first n files.
Course(added, r, section) ==
  /\ \A n \in 0 .. NFiles : added[n] \in Seq(Lines)
  /\ added[0] = <<>>
  /\ \A n \in Files : added[n] = IF Has(r, section, n) THEN Append(added[n - 1], Entry(r, section, n))
                                 ELSE added[n - 1]
HasCourse(r, section) == \E added : Course(added, r, section) /\ FileLines(r, section) = added[NFiles]

LEMMA CourseOfFileLines ==
  ASSUME NEW r \in Repositories, NEW section \in Sections
  PROVE  HasCourse(r, section)
<1> DEFINE Next1(s, n) == IF Has(r, section, n) THEN Append(s, Entry(r, section, n)) ELSE s
           Run(f) == f = [n \in 0 .. NFiles |-> IF n = 0 THEN <<>>
                            ELSE IF Has(r, section, n) THEN Append(f[n - 1], Entry(r, section, n)) ELSE f[n - 1]]
           step == [x \in Seq(Lines) \X (1 .. NFiles) |-> Next1(x[1], x[2])]
           chosen == CHOOSE added : Run(added)
<1>1. FileLines(r, section) = chosen[NFiles]
  BY Zenon DEF FileLines
<1>2. \A s \in Seq(Lines), n \in 1 .. NFiles : Next1(s, n) \in Seq(Lines)
  <2>1. ASSUME NEW s \in Seq(Lines), NEW n \in 1 .. NFiles PROVE Next1(s, n) \in Seq(Lines)
    <3>1. Entry(r, section, n) \in Lines
      BY EntryIs DEF Files
    <3>2. QED
      BY <3>1
  <2>2. QED
    BY <2>1
<1> HIDE DEF Next1
<1>3. step \in [Seq(Lines) \X (1 .. NFiles) -> Seq(Lines)]
  BY <1>2
<1>4. \A s \in Seq(Lines), n \in 1 .. NFiles : step[<<s, n>>] = Next1(s, n)
  OBVIOUS
<1> HIDE DEF step
<1>5. PICK f \in [0 .. NFiles -> Seq(Lines)] :
         f[0] = <<>> /\ \A i \in 1 .. NFiles : f[i] = step[<<f[i - 1], i>>]
  <2>1. PICK T : T = Seq(Lines)
    OBVIOUS
  <2>2. PICK s : s = step
    OBVIOUS
  <2>3. PICK first : first = <<>> /\ first \in T
    <3>1. <<>> \in Seq(Lines)
      OBVIOUS
    <3>2. QED
      BY <2>1, <3>1
  <2>4. s \in [T \X (1 .. NFiles) -> T] /\ first \in T /\ NFiles \in Nat
    BY <1>3, <2>1, <2>2, <2>3, StatusAssumption
  <2>5. HasRounds(NFiles, T, first, s)
    BY <2>4, RoundsExist
  <2>6. QED
    BY <2>1, <2>2, <2>3, <2>5 DEF HasRounds, Rounds
<1>6. \A i \in 1 .. NFiles : f[i] = Next1(f[i - 1], i)
  <2>1. ASSUME NEW i \in 1 .. NFiles PROVE f[i - 1] \in Seq(Lines)
    <3>1. i - 1 \in 0 .. NFiles
      BY StatusAssumption
    <3>2. QED
      BY <1>5, <3>1
  <2>2. QED
    BY <1>4, <1>5, <2>1
<1>7. Run(f)
  <2>1. \A i \in 0 .. NFiles : f[i] = IF i = 0 THEN <<>> ELSE Next1(f[i - 1], i)
    <3>1. ASSUME NEW i \in 0 .. NFiles, i # 0 PROVE i \in 1 .. NFiles
      BY <3>1, StatusAssumption
    <3>2. ASSUME NEW i \in 0 .. NFiles, i # 0 PROVE f[i] = Next1(f[i - 1], i)
      BY <1>6, <3>1, <3>2
    <3>3. QED
      BY <1>5, <3>2
  <2>2. QED
    BY <1>5, <2>1 DEF Next1
<1>8. Run(chosen)
  <2> HIDE DEF Run
  <2>1. QED
    BY <1>7
<1>9. chosen[0] = <<>> /\ \A i \in 1 .. NFiles : chosen[i] = Next1(chosen[i - 1], i)
  <2>1. PICK g : g = chosen
    OBVIOUS
  <2>2. \A i \in 0 .. NFiles : g[i] = IF i = 0 THEN <<>> ELSE Next1(g[i - 1], i)
    BY <1>8, <2>1 DEF Next1
  <2>3. 0 \in 0 .. NFiles
    BY StatusAssumption
  <2>4. g[0] = <<>>
    BY <2>2, <2>3
  <2>5. ASSUME NEW i \in 1 .. NFiles PROVE g[i] = Next1(g[i - 1], i)
    <3>1. i \in 0 .. NFiles /\ i # 0
      BY StatusAssumption
    <3>2. QED
      BY <2>2, <3>1
  <2>6. QED
    BY <2>1, <2>4, <2>5
<1> HIDE DEF chosen
<1>10. \A i \in 0 .. NFiles : chosen[i] \in Seq(Lines)
  <2> DEFINE S == {i \in 0 .. NFiles : chosen[i] \in Seq(Lines)}
  <2>1. 0 \in S
    <3>1. <<>> \in Seq(Lines) /\ 0 \in 0 .. NFiles
      BY StatusAssumption
    <3>2. QED
      BY <1>9, <3>1
  <2>2. ASSUME NEW i \in 1 .. NFiles, i - 1 \in S PROVE i \in S
    BY <1>2, <1>9, <2>2
  <2> HIDE DEF S
  <2>3. \A i \in 0 .. NFiles : i \in S
    BY <2>1, <2>2, EveryRound, StatusAssumption
  <2>4. QED
    BY <2>3 DEF S
<1>11. Course(chosen, r, section)
  BY <1>9, <1>10 DEF Course, Files, Next1
<1>12. QED
  BY <1>1, <1>11 DEF HasCourse

\* What status_run adds: the files that git reports, and no others.
Reports(s, r, section) ==
  /\ s \in Seq(Lines)
  /\ \A i \in 1 .. Len(s) : \E f \in Files : Has(r, section, f) /\ s[i] = Entry(r, section, f)
  /\ \A f \in Files : Has(r, section, f) => \E i \in 1 .. Len(s) : s[i].file = f

LEMMA FileLinesReport ==
  ASSUME NEW r \in Repositories, NEW section \in Sections
  PROVE  Reports(FileLines(r, section), r, section)
<1>1. PICK added : Course(added, r, section) /\ FileLines(r, section) = added[NFiles]
  BY CourseOfFileLines DEF HasCourse
<1> DEFINE Done(n) == /\ \A i \in 1 .. Len(added[n]) :
                            \E f \in Files : Has(r, section, f) /\ added[n][i] = Entry(r, section, f)
                      /\ \A f \in 1 .. n : Has(r, section, f) => \E i \in 1 .. Len(added[n]) : added[n][i].file = f
           S == {n \in 0 .. NFiles : Done(n)}
<1>2. 0 \in S
  BY <1>1, StatusAssumption DEF Course
<1>3. ASSUME NEW n \in 1 .. NFiles, n - 1 \in S PROVE n \in S
  <2>1. PICK s \in Seq(Lines) : s = added[n - 1]
    <3>1. n - 1 \in 0 .. NFiles
      BY StatusAssumption
    <3>2. QED
      BY <1>1, <3>1 DEF Course
  <2>2. PICK t : t = added[n]
    OBVIOUS
  <2>3. PICK e \in Lines : e = Entry(r, section, n) /\ e.file = n
    BY EntryIs DEF Files
  <2>4. t = IF Has(r, section, n) THEN Append(s, e) ELSE s
    BY <1>1, <2>1, <2>2, <2>3 DEF Course, Files
  <2>5. /\ \A i \in 1 .. Len(s) : \E f \in Files : Has(r, section, f) /\ s[i] = Entry(r, section, f)
        /\ \A f \in 1 .. n - 1 : Has(r, section, f) => \E i \in 1 .. Len(s) : s[i].file = f
    BY <1>3, <2>1
  <2>6. ASSUME NEW i \in 1 .. Len(t)
        PROVE  \E f \in Files : Has(r, section, f) /\ t[i] = Entry(r, section, f)
    <3>1. CASE Has(r, section, n) /\ i = Len(t)
      BY <2>3, <2>4, <3>1 DEF Files
    <3>2. CASE ~(Has(r, section, n) /\ i = Len(t))
      <4>1. i \in 1 .. Len(s) /\ t[i] = s[i]
        BY <2>4, <3>2
      <4>2. QED
        BY <2>5, <4>1
    <3>3. QED
      BY <3>1, <3>2
  <2>7. ASSUME NEW f \in 1 .. n, Has(r, section, f)
        PROVE  \E i \in 1 .. Len(t) : t[i].file = f
    <3>1. CASE f = n
      <4>1. Len(t) \in 1 .. Len(t) /\ t[Len(t)] = e
        BY <2>4, <2>7, <3>1
      <4>2. QED
        BY <2>3, <3>1, <4>1
    <3>2. CASE f # n
      <4>1. PICK i \in 1 .. Len(s) : s[i].file = f
        <5>1. f \in 1 .. n - 1
          BY <3>2
        <5>2. QED
          BY <2>5, <2>7, <5>1
      <4>2. i \in 1 .. Len(t) /\ t[i] = s[i]
        BY <2>4
      <4>3. QED
        BY <4>1, <4>2
    <3>3. QED
      BY <3>1, <3>2
  <2>8. QED
    BY <2>2, <2>6, <2>7
<1>4. NFiles \in S
  <2> HIDE DEF S
  <2>1. \A i \in 0 .. NFiles : i \in S
    BY <1>2, <1>3, EveryRound, StatusAssumption
  <2>2. QED
    BY <2>1, StatusAssumption
<1>5. added[NFiles] \in Seq(Lines)
  BY <1>1, StatusAssumption DEF Course
<1>6. QED
  BY <1>1, <1>4, <1>5 DEF Reports, Files

\* t is s without its line p.
Without(s, t, p) ==
  /\ p \in 1 .. Len(s) /\ Len(t) = Len(s) - 1
  /\ \A i \in 1 .. Len(t) : t[i] = IF i < p THEN s[i] ELSE s[i + 1]

\* From r to q the section loses the file f and keeps the others.
Loses(r, q, section, f) ==
  /\ Has(r, section, f) /\ ~Has(q, section, f)
  /\ \A g \in Files \ {f} : /\ Has(q, section, g) <=> Has(r, section, g)
                            /\ Entry(q, section, g) = Entry(r, section, g)
LosesLine(s, t, f) == \E p \in 1 .. Len(s) : s[p].file = f /\ Without(s, t, p)

\* ... and what status_run adds loses one line.
LEMMA FileLinesLose ==
  ASSUME NEW r \in Repositories, NEW q \in Repositories, NEW section \in Sections, NEW f \in Files,
         Loses(r, q, section, f)
  PROVE  LosesLine(FileLines(r, section), FileLines(q, section), f)
<1>1. PICK a : Course(a, r, section) /\ FileLines(r, section) = a[NFiles]
  BY CourseOfFileLines DEF HasCourse
<1>2. PICK b : Course(b, q, section) /\ FileLines(q, section) = b[NFiles]
  BY CourseOfFileLines DEF HasCourse
<1> DEFINE Done(n) == IF n < f THEN b[n] = a[n] ELSE LosesLine(a[n], b[n], f)
           S == {n \in 0 .. NFiles : Done(n)}
<1>3. 0 \in S
  BY <1>1, <1>2, StatusAssumption DEF Course, Files
<1>4. ASSUME NEW n \in 1 .. NFiles, n - 1 \in S PROVE n \in S
  <2>1. PICK s \in Seq(Lines), t \in Seq(Lines) : s = a[n - 1] /\ t = b[n - 1]
    <3>1. n - 1 \in 0 .. NFiles
      BY StatusAssumption
    <3>2. QED
      BY <1>1, <1>2, <3>1 DEF Course
  <2>2. PICK x, y : x = a[n] /\ y = b[n]
    OBVIOUS
  <2>3. PICK e \in Lines, d \in Lines : e = Entry(r, section, n) /\ e.file = n /\ d = Entry(q, section, n)
    BY EntryIs DEF Files
  <2>4. /\ x = IF Has(r, section, n) THEN Append(s, e) ELSE s
        /\ y = IF Has(q, section, n) THEN Append(t, d) ELSE t
    BY <1>1, <1>2, <2>1, <2>2, <2>3 DEF Course, Files
  <2>5. n \in Files /\ f \in 1 .. NFiles
    BY DEF Files
  <2>6. CASE n < f
    <3>1. t = s
      BY <1>4, <2>1, <2>5, <2>6
    <3>2. n \in Files \ {f}
      BY <2>5, <2>6
    <3>3. (Has(q, section, n) <=> Has(r, section, n)) /\ Entry(q, section, n) = Entry(r, section, n)
      BY <3>2, Zenon DEF Loses
    <3>4. d = e
      BY <2>3, <3>3
    <3>5. x = y
      BY <2>4, <3>1, <3>3, <3>4
    <3>6. Done(n)
      BY <2>2, <2>6, <3>5
    <3>7. QED
      BY <3>6
  <2>7. CASE n = f
    <3>1. t = s
      BY <1>4, <2>1, <2>5, <2>7
    <3>2. x = Append(s, e) /\ y = s
      BY <2>4, <2>7, <3>1 DEF Loses
    <3>3. Len(x) \in 1 .. Len(x) /\ x[Len(x)] = e /\ Without(x, y, Len(x))
      BY <3>2 DEF Without
    <3>4. LosesLine(x, y, f)
      BY <2>3, <2>7, <3>3 DEF LosesLine
    <3>5. QED
      BY <2>2, <2>7, <3>4
  <2>8. CASE n > f
    <3>1. (Has(q, section, n) <=> Has(r, section, n)) /\ d = e
      <4>1. n \in Files \ {f}
        BY <2>5, <2>8
      <4>2. (Has(q, section, n) <=> Has(r, section, n)) /\ Entry(q, section, n) = Entry(r, section, n)
        BY <4>1, Zenon DEF Loses
      <4>3. d = e
        BY <2>3, <4>2
      <4>4. QED
        BY <4>2, <4>3
    <3>2. LosesLine(s, t, f)
      <4>1. ~(n - 1 < f)
        BY <2>5, <2>8
      <4>2. QED
        BY <1>4, <2>1, <4>1
    <3>3. PICK p \in 1 .. Len(s) : s[p].file = f /\ Without(s, t, p)
      BY <3>2 DEF LosesLine
    <3>4. CASE ~Has(r, section, n)
      <4>1. x = s /\ y = t
        BY <2>4, <3>1, <3>4
      <4>2. LosesLine(a[n], b[n], f) /\ ~(n < f)
        BY <2>2, <2>5, <2>8, <3>2, <4>1
      <4>3. QED
        BY <4>2
    <3>5. CASE Has(r, section, n)
      <4>1. x = Append(s, e) /\ y = Append(t, e)
        BY <2>4, <3>1, <3>5
      <4>2. p \in 1 .. Len(x) /\ x[p] = s[p] /\ Len(y) = Len(x) - 1
        <5>1. Len(t) = Len(s) - 1
          BY <3>3 DEF Without
        <5>2. Len(x) = Len(s) + 1 /\ Len(y) = Len(t) + 1
          BY <4>1
        <5>3. x[p] = s[p]
          BY <4>1
        <5>4. QED
          BY <5>1, <5>2, <5>3
      <4>3. \A i \in 1 .. Len(y) : y[i] = IF i < p THEN x[i] ELSE x[i + 1]
        <5>1. ASSUME NEW i \in 1 .. Len(y) PROVE y[i] = IF i < p THEN x[i] ELSE x[i + 1]
          <6>1. CASE i = Len(y)
            BY <3>3, <4>1, <6>1 DEF Without
          <6>2. CASE i # Len(y)
            <7>1. i \in 1 .. Len(t) /\ y[i] = t[i]
              BY <4>1, <6>2
            <7>2. i \in 1 .. Len(s) /\ i + 1 \in 1 .. Len(s) /\ x[i] = s[i] /\ x[i + 1] = s[i + 1]
              BY <3>3, <4>1, <7>1 DEF Without
            <7>3. t[i] = IF i < p THEN s[i] ELSE s[i + 1]
              BY <3>3, <7>1 DEF Without
            <7>4. QED
              BY <7>1, <7>2, <7>3
          <6>3. QED
            BY <6>1, <6>2
        <5>2. QED
          BY <5>1
      <4>4. LosesLine(x, y, f)
        BY <3>3, <4>2, <4>3 DEF LosesLine, Without
      <4>5. QED
        BY <2>2, <2>5, <2>8, <4>4
    <3>6. QED
      BY <3>4, <3>5
  <2>9. QED
    BY <2>5, <2>6, <2>7, <2>8
<1>5. NFiles \in S
  <2> HIDE DEF S
  <2>1. \A i \in 0 .. NFiles : i \in S
    BY <1>3, <1>4, EveryRound, StatusAssumption
  <2>2. QED
    BY <2>1, StatusAssumption
<1>6. ~(NFiles < f)
  BY StatusAssumption DEF Files
<1>7. QED
  BY <1>1, <1>2, <1>5, <1>6

\* Nothing changes in what status_run adds if nothing does for git.
Same(r, q, section) ==
  \A g \in Files : /\ Has(q, section, g) <=> Has(r, section, g)
                   /\ Entry(q, section, g) = Entry(r, section, g)

LEMMA FileLinesSame ==
  ASSUME NEW r \in Repositories, NEW q \in Repositories, NEW section \in Sections, Same(r, q, section)
  PROVE  FileLines(q, section) = FileLines(r, section)
<1>1. PICK a : Course(a, r, section) /\ FileLines(r, section) = a[NFiles]
  BY CourseOfFileLines DEF HasCourse
<1>2. PICK b : Course(b, q, section) /\ FileLines(q, section) = b[NFiles]
  BY CourseOfFileLines DEF HasCourse
<1> DEFINE S == {n \in 0 .. NFiles : b[n] = a[n]}
<1>3. 0 \in S
  BY <1>1, <1>2, StatusAssumption DEF Course
<1>4. ASSUME NEW n \in 1 .. NFiles, n - 1 \in S PROVE n \in S
  <2>1. PICK x, y : x = a[n - 1] /\ y = b[n - 1] /\ x = y
    BY <1>4
  <2>2. /\ a[n] = IF Has(r, section, n) THEN Append(x, Entry(r, section, n)) ELSE x
        /\ b[n] = IF Has(q, section, n) THEN Append(y, Entry(q, section, n)) ELSE y
    BY <1>1, <1>2, <2>1 DEF Course, Files
  <2>3. (Has(q, section, n) <=> Has(r, section, n)) /\ Entry(q, section, n) = Entry(r, section, n)
    BY DEF Same, Files
  <2>4. a[n] = b[n]
    BY <2>1, <2>2, <2>3
  <2>5. QED
    BY <2>4
<1>5. NFiles \in S
  <2> HIDE DEF S
  <2>1. \A i \in 0 .. NFiles : i \in S
    BY <1>3, <1>4, EveryRound, StatusAssumption
  <2>2. QED
    BY <2>1, StatusAssumption
<1>6. QED
  BY <1>1, <1>2, <1>5

-------------------------------------------------------------------------------
(***************************************************************************)
(* The list.                                                               *)
(***************************************************************************)
\* The lines of a list are those of one repository, by section.
Tells(l, r) ==
  /\ l \in Seq(Lines) /\ Len(l) >= 1 /\ l[1].file = NoFile
  /\ \A i \in 1 .. Len(l) : l[i].file # NoFile =>
       /\ l[i].type \in Sections /\ l[i].file \in Files
       /\ Has(r, l[i].type, l[i].file)
       /\ l[i] = Entry(r, l[i].type, l[i].file)
  /\ \A i \in 2 .. Len(l) : l[i].file # NoFile => l[i].type = l[i - 1].type

\* A section begins with its name; below it are its files, or a line without one.
Shown(files) == IF files = <<>> THEN 1 ELSE Len(files)
Shows(s, files, section) ==
  /\ s \in Seq(Lines) /\ Len(s) = Shown(files) + 1
  /\ s[1].type = section /\ s[1].file = NoFile
  /\ \A i \in 1 .. Len(files) : s[i + 1] = files[i]
  /\ files = <<>> => s[2].file = NoFile

LEMMA SectionShows ==
  ASSUME NEW r \in Repositories, NEW section \in Sections
  PROVE  Shows(Section(r, section), FileLines(r, section), section)
<1>1. PICK files \in Seq(Lines) : files = FileLines(r, section)
  BY FileLinesReport DEF Reports
<1>2. PICK first \in Lines : first = Line(section, NoFile, Absent) /\ first.type = section /\ first.file = NoFile
  BY LineIs, LineTyped, StatusAssumption
<1>3. PICK none \in Lines : none = Line("none", NoFile, Absent) /\ none.file = NoFile
  <2>1. "none" \in Sections \cup {"header", "none"} /\ NoFile \in {NoFile} \cup Files /\ Absent \in Versions
    BY StatusAssumption
  <2>2. Line("none", NoFile, Absent) \in Lines
    BY <2>1, LineTyped
  <2>4. Line("none", NoFile, Absent).file = NoFile
    BY DEF Line
  <2>3. QED
    BY <2>2, <2>4
<1>4. PICK s : s = Section(r, section)
  OBVIOUS
<1>5. s = <<first>> \o (IF files = <<>> THEN <<none>> ELSE files)
  BY <1>1, <1>2, <1>3, <1>4 DEF Section
<1>6. CASE files = <<>>
  <2>1. s = <<first, none>>
    <3>1. s = <<first>> \o <<none>>
      BY <1>5, <1>6
    <3>2. Len(s) = 2 /\ s[1] = first /\ s[2] = none /\ s \in Seq(Lines)
      BY <3>1
    <3>3. QED
      BY <3>2
  <2>2. Shows(s, files, section)
    BY <1>2, <1>3, <1>6, <2>1 DEF Shows, Shown
  <2>3. QED
    BY <1>1, <1>4, <2>2
<1>7. CASE files # <<>>
  <2>1. s = <<first>> \o files
    BY <1>5, <1>7
  <2>2. Shows(s, files, section)
    BY <1>2, <1>7, <2>1 DEF Shows, Shown
  <2>3. QED
    BY <1>1, <1>4, <2>2
<1>8. QED
  BY <1>6, <1>7

LEMMA SectionTells ==
  ASSUME NEW r \in Repositories, NEW section \in Sections
  PROVE  Tells(Section(r, section), r)
<1>1. PICK files, s : files = FileLines(r, section) /\ s = Section(r, section)
  OBVIOUS
<1>2. Reports(files, r, section) /\ Shows(s, files, section)
  BY <1>1, FileLinesReport, SectionShows
<1>3. ASSUME NEW i \in 2 .. Len(s), s[i].file # NoFile
      PROVE  /\ s[i].type = section /\ s[i].file \in Files
             /\ Has(r, section, s[i].file) /\ s[i] = Entry(r, section, s[i].file)
  <2>1. files # <<>> /\ i - 1 \in 1 .. Len(files) /\ s[i] = files[i - 1]
    BY <1>2, <1>3 DEF Shows, Shown, Reports
  <2>2. PICK f \in Files : Has(r, section, f) /\ s[i] = Entry(r, section, f)
    BY <1>2, <2>1 DEF Reports
  <2>3. QED
    BY <2>2, EntryIs
<1>4. ASSUME NEW i \in 2 .. Len(s), s[i].file # NoFile PROVE s[i - 1].type = section
  <2>1. CASE i = 2
    BY <1>2, <2>1 DEF Shows
  <2>2. CASE i # 2
    <3>1. files # <<>> /\ i - 2 \in 1 .. Len(files) /\ s[i - 1] = files[i - 2]
      BY <1>2, <1>4, <2>2 DEF Shows, Shown, Reports
    <3>2. PICK f \in Files : s[i - 1] = Entry(r, section, f)
      BY <1>2, <3>1 DEF Reports
    <3>3. QED
      BY <3>2, EntryIs
  <2>3. QED
    BY <2>1, <2>2
<1>5. s \in Seq(Lines) /\ Len(s) >= 1 /\ s[1].file = NoFile
  BY <1>2 DEF Shows, Shown, Reports
<1>6. \A i \in 1 .. Len(s) : s[i].file # NoFile => i \in 2 .. Len(s)
  BY <1>5
<1>7. Tells(s, r)
  BY <1>3, <1>4, <1>5, <1>6 DEF Tells
<1>8. QED
  BY <1>1, <1>7

LEMMA JoinTells ==
  ASSUME NEW r, NEW l, NEW m, Tells(l, r), Tells(m, r)
  PROVE  Tells(l \o m, r)
<1>1. PICK k : k = l \o m
  OBVIOUS
<1>2. l \in Seq(Lines) /\ m \in Seq(Lines) /\ Len(l) >= 1 /\ Len(m) >= 1
  BY DEF Tells
<1>3. /\ k \in Seq(Lines) /\ Len(k) = Len(l) + Len(m)
      /\ \A i \in 1 .. Len(l) : k[i] = l[i]
      /\ \A i \in 1 .. Len(k) : i > Len(l) => i - Len(l) \in 1 .. Len(m) /\ k[i] = m[i - Len(l)]
  BY <1>1, <1>2
<1>4. ASSUME NEW i \in 1 .. Len(k), k[i].file # NoFile
      PROVE  /\ k[i].type \in Sections /\ k[i].file \in Files
             /\ Has(r, k[i].type, k[i].file) /\ k[i] = Entry(r, k[i].type, k[i].file)
  <2>1. CASE i \in 1 .. Len(l)
    BY <1>3, <1>4, <2>1 DEF Tells
  <2>2. CASE i > Len(l)
    <3>1. PICK j \in 1 .. Len(m) : j = i - Len(l) /\ k[i] = m[j]
      BY <1>3, <2>2
    <3>2. QED
      BY <1>4, <3>1 DEF Tells
  <2>3. QED
    BY <1>2, <2>1, <2>2
<1>5. ASSUME NEW i \in 2 .. Len(k), k[i].file # NoFile
      PROVE  k[i].type = k[i - 1].type
  <2>1. CASE i <= Len(l)
    <3>1. i \in 1 .. Len(l) /\ i - 1 \in 1 .. Len(l) /\ i \in 2 .. Len(l)
      BY <1>2, <2>1
    <3>2. QED
      BY <1>3, <1>5, <3>1 DEF Tells
  <2>2. CASE i = Len(l) + 1
    <3>1. k[i] = m[1]
      BY <1>2, <1>3, <2>2
    <3>2. QED
      BY <1>5, <3>1 DEF Tells
  <2>3. CASE i > Len(l) + 1
    <3>1. PICK j : j = i - Len(l)
      OBVIOUS
    <3>2. j \in 1 .. Len(m) /\ k[i] = m[j]
      BY <1>2, <1>3, <2>3, <3>1
    <3>3. i - 1 \in 1 .. Len(k) /\ i - 1 > Len(l) /\ (i - 1) - Len(l) = j - 1
      BY <1>2, <1>3, <2>3, <3>1
    <3>4. j \in 2 .. Len(m)
      BY <1>2, <2>3, <3>1, <3>2
    <3>5. k[i - 1] = m[j - 1]
      BY <1>3, <3>3
    <3>6. QED
      BY <1>5, <3>2, <3>4, <3>5 DEF Tells
  <2>4. QED
    BY <1>2, <1>3, <2>1, <2>2, <2>3
<1>6. k[1].file = NoFile
  BY <1>2, <1>3 DEF Tells
<1>7. Tells(k, r)
  BY <1>2, <1>3, <1>4, <1>5, <1>6 DEF Tells
<1>8. QED
  BY <1>1, <1>7

LEMMA ListedTells ==
  ASSUME NEW r \in Repositories, NEW u \in BOOLEAN
  PROVE  Tells(Listed(r, u), r)
<1>1. PICK a, b, c : a = Section(r, "staged") /\ b = Section(r, "unstaged") /\ c = Section(r, "untracked")
  OBVIOUS
<1>2. Tells(a, r) /\ Tells(b, r) /\ Tells(c, r)
  BY <1>1, SectionTells DEF Sections
<1>3. PICK first \in Lines : first = OnBranch /\ first.file = NoFile
  BY LineIs, LineTyped, StatusAssumption DEF OnBranch
<1>4. Tells(<<first>>, r)
  BY <1>3 DEF Tells
<1>5. CASE u
  <2>1. Listed(r, u) = <<first>> \o <<>> \o c
    BY <1>1, <1>3, <1>5 DEF Listed
  <2>2. <<first>> \o <<>> = <<first>>
    BY <1>3
  <2>3. QED
    BY <1>2, <1>4, <2>1, <2>2, JoinTells
<1>6. CASE ~u
  <2>1. Listed(r, u) = <<first>> \o (a \o b) \o c
    BY <1>1, <1>3, <1>6 DEF Listed
  <2>2. PICK d : d = a \o b /\ Tells(d, r)
    BY <1>2, JoinTells
  <2>3. PICK e : e = <<first>> \o d /\ Tells(e, r)
    BY <1>4, <2>2, JoinTells
  <2>4. QED
    BY <1>2, <2>1, <2>2, <2>3, JoinTells
<1>7. QED
  BY <1>5, <1>6

\* The line under a section's last file is no file, and what is a file is one
\* of those that status_run has added.
LEMMA SectionFiles ==
  ASSUME NEW s, NEW files \in Seq(Lines), NEW section, Shows(s, files, section)
  PROVE  /\ \A k \in 1 .. Len(s) : s[k].file # NoFile => k - 1 \in 1 .. Len(files)
         /\ \A i \in 1 .. Len(files) : i + 1 \in 1 .. Len(s) /\ s[i + 1] = files[i]
         /\ files # <<>> => Len(s) = Len(files) + 1
         /\ Len(s) = Shown(files) + 1 /\ Shown(files) \in Nat
<1>1. Len(s) = Shown(files) + 1 /\ Shown(files) \in Nat
  BY DEF Shows, Shown
<1>2. files # <<>> => Shown(files) = Len(files)
  BY DEF Shown
<1>3. files = <<>> => Shown(files) = 1
  BY DEF Shown
<1>4. ASSUME NEW k \in 1 .. Len(s), s[k].file # NoFile PROVE k - 1 \in 1 .. Len(files)
  <2>1. k # 1
    BY <1>4 DEF Shows
  <2>2. files = <<>> => k # 2
    BY <1>4 DEF Shows
  <2>3. QED
    BY <1>1, <1>2, <1>3, <2>1, <2>2
<1>5. ASSUME NEW i \in 1 .. Len(files) PROVE i + 1 \in 1 .. Len(s) /\ s[i + 1] = files[i]
  <2>1. files # <<>>
    OBVIOUS
  <2>2. QED
    BY <1>1, <1>2, <2>1 DEF Shows
<1>6. QED
  BY <1>1, <1>2, <1>4, <1>5

\* Where in a whole list the files of a section are: from the line after Base.
Base(r, section) ==
  IF section = "staged" THEN 2
  ELSE IF section = "unstaged" THEN 3 + Shown(FileLines(r, "staged"))
  ELSE 4 + Shown(FileLines(r, "staged")) + Shown(FileLines(r, "unstaged"))
Places(l, r, section) ==
  \A i \in 1 .. Len(FileLines(r, section)) :
    /\ i + Base(r, section) \in 1 .. Len(l)
    /\ l[i + Base(r, section)] = FileLines(r, section)[i]
Ends(l, r, section) ==
  \A i \in 1 .. Len(FileLines(r, section)) :
    i + Base(r, section) + 1 \in 1 .. Len(l) /\ l[i + Base(r, section) + 1].file # NoFile
      => i + 1 \in 1 .. Len(FileLines(r, section))

\* a, b and c one after another under a first line.
Joined(l, a, b, c) ==
  /\ l \in Seq(Lines) /\ Len(l) = 1 + Len(a) + Len(b) + Len(c)
  /\ \A i \in 1 .. Len(a) : l[1 + i] = a[i]
  /\ \A i \in 1 .. Len(b) : l[1 + Len(a) + i] = b[i]
  /\ \A i \in 1 .. Len(c) : l[1 + Len(a) + Len(b) + i] = c[i]

LEMMA ListedJoined ==
  ASSUME NEW r \in Repositories, NEW u \in BOOLEAN, ~u
  PROVE  Joined(Listed(r, u), Section(r, "staged"), Section(r, "unstaged"), Section(r, "untracked"))
<1>1. PICK a, b, c : a = Section(r, "staged") /\ b = Section(r, "unstaged") /\ c = Section(r, "untracked")
  OBVIOUS
<1>2. a \in Seq(Lines) /\ b \in Seq(Lines) /\ c \in Seq(Lines)
  BY <1>1, SectionTells DEF Tells, Sections
<1>3. PICK first \in Lines : first = OnBranch
  BY LineTyped, StatusAssumption DEF OnBranch
<1>4. Listed(r, u) = <<first>> \o (a \o b) \o c
  BY <1>1, <1>3 DEF Listed
<1>5. PICK d : d = a \o b /\ d \in Seq(Lines)
  <2>1. a \o b \in Seq(Lines)
    BY <1>2
  <2>2. QED
    BY <2>1
<1>6. PICK e : e = <<first>> \o d /\ e \in Seq(Lines)
  <2>1. <<first>> \o d \in Seq(Lines)
    BY <1>5
  <2>2. QED
    BY <2>1
<1>7. PICK l : l = e \o c /\ l \in Seq(Lines)
  <2>1. e \o c \in Seq(Lines)
    BY <1>2, <1>6
  <2>2. QED
    BY <2>1
<1>8. Len(d) = Len(a) + Len(b) /\ Len(e) = 1 + Len(d) /\ Len(l) = Len(e) + Len(c)
  BY <1>2, <1>5, <1>6, <1>7
<1>9. ASSUME NEW i \in 1 .. Len(a) PROVE l[1 + i] = a[i]
  <2>1. d[i] = a[i]
    BY <1>2, <1>5
  <2>2. e[1 + i] = d[i]
    BY <1>2, <1>6, <1>8
  <2>3. l[1 + i] = e[1 + i]
    BY <1>2, <1>7, <1>8
  <2>4. QED
    BY <2>1, <2>2, <2>3
<1>10. ASSUME NEW i \in 1 .. Len(b) PROVE l[1 + Len(a) + i] = b[i]
  <2>1. d[Len(a) + i] = b[i]
    BY <1>2, <1>5
  <2>2. e[1 + Len(a) + i] = d[Len(a) + i]
    BY <1>2, <1>6, <1>8
  <2>3. l[1 + Len(a) + i] = e[1 + Len(a) + i]
    BY <1>2, <1>7, <1>8
  <2>4. QED
    BY <2>1, <2>2, <2>3
<1>11. ASSUME NEW i \in 1 .. Len(c) PROVE l[1 + Len(a) + Len(b) + i] = c[i]
  <2>1. l[Len(e) + i] = c[i]
    BY <1>2, <1>7
  <2>2. Len(e) + i = 1 + Len(a) + Len(b) + i
    BY <1>2, <1>8
  <2>3. QED
    BY <2>1, <2>2
<1>12. Len(l) = 1 + Len(a) + Len(b) + Len(c)
  BY <1>2, <1>8
<1>13. Joined(l, a, b, c)
  BY <1>7, <1>9, <1>10, <1>11, <1>12 DEF Joined
<1>14. QED
  BY <1>1, <1>4, <1>5, <1>6, <1>7, <1>13

LEMMA ListedPlaces ==
  ASSUME NEW r \in Repositories, NEW u \in BOOLEAN, ~u, NEW section \in Sections
  PROVE  Places(Listed(r, u), r, section) /\ Ends(Listed(r, u), r, section)
<1>1. PICK a, b, c : a = Section(r, "staged") /\ b = Section(r, "unstaged") /\ c = Section(r, "untracked")
  OBVIOUS
<1>2. PICK fa, fb, fc : fa = FileLines(r, "staged") /\ fb = FileLines(r, "unstaged") /\ fc = FileLines(r, "untracked")
  OBVIOUS
<1>3. PICK l : l = Listed(r, u)
  OBVIOUS
<1>4. fa \in Seq(Lines) /\ fb \in Seq(Lines) /\ fc \in Seq(Lines)
  BY <1>2, FileLinesReport DEF Reports, Sections
<1>5. Shows(a, fa, "staged") /\ Shows(b, fb, "unstaged") /\ Shows(c, fc, "untracked")
  BY <1>1, <1>2, SectionShows DEF Sections
<1>6. a \in Seq(Lines) /\ b \in Seq(Lines) /\ c \in Seq(Lines)
  BY <1>5 DEF Shows
<1>7. Joined(l, a, b, c)
  BY <1>1, <1>3, ListedJoined
<1>8. a[1].file = NoFile /\ b[1].file = NoFile /\ c[1].file = NoFile /\ Len(b) >= 1 /\ Len(c) >= 1
  BY <1>4, <1>5 DEF Shows, Shown
<1>9. PICK na \in Nat, nb \in Nat : /\ na = Shown(fa) /\ nb = Shown(fb)
                                    /\ Len(a) = na + 1 /\ Len(b) = nb + 1
  BY <1>4, <1>5, SectionFiles
<1>10. CASE section = "staged"
  <2>1. Base(r, section) = 2
    BY <1>10 DEF Base
  <2>2. ASSUME NEW i \in 1 .. Len(fa)
        PROVE  /\ i + 2 \in 1 .. Len(l) /\ l[i + 2] = fa[i]
               /\ i + 3 \in 1 .. Len(l) /\ l[i + 3].file # NoFile => i + 1 \in 1 .. Len(fa)
    <3>1. i + 1 \in 1 .. Len(a) /\ a[i + 1] = fa[i] /\ Len(a) = Len(fa) + 1
      BY <1>4, <1>5, SectionFiles
    <3>2. i + 2 \in 1 .. Len(l) /\ l[i + 2] = a[i + 1]
      BY <1>6, <1>7, <3>1 DEF Joined
    <3>3. i = Len(fa) => l[i + 3] = b[1]
      BY <1>4, <1>6, <1>7, <1>8, <3>1 DEF Joined
    <3>4. QED
      BY <1>4, <1>8, <3>1, <3>2, <3>3
  <2>3. QED
    BY <1>2, <1>3, <1>10, <2>1, <2>2 DEF Places, Ends
<1>11. CASE section = "unstaged"
  <2>1. Base(r, section) = 3 + na
    BY <1>2, <1>9, <1>11 DEF Base
  <2>2. ASSUME NEW i \in 1 .. Len(fb)
        PROVE  /\ i + (3 + na) \in 1 .. Len(l) /\ l[i + (3 + na)] = fb[i]
               /\ i + (3 + na) + 1 \in 1 .. Len(l) /\ l[i + (3 + na) + 1].file # NoFile => i + 1 \in 1 .. Len(fb)
    <3>1. i + 1 \in 1 .. Len(b) /\ b[i + 1] = fb[i] /\ Len(b) = Len(fb) + 1
      BY <1>4, <1>5, SectionFiles
    <3>2. i + (3 + na) = 1 + Len(a) + (i + 1) /\ i + (3 + na) + 1 = 1 + Len(a) + (i + 2)
      BY <1>9
    <3>6. Len(l) = 1 + Len(a) + Len(b) + Len(c) /\ l[1 + Len(a) + (i + 1)] = b[i + 1]
      BY <1>7, <3>1 DEF Joined
    <3>7. i + (3 + na) \in 1 .. Len(l)
      <4>1. PICK la \in Nat, lb \in Nat, lc \in Nat : la = Len(a) /\ lb = Len(b) /\ lc = Len(c)
        BY <1>6
      <4>2. Len(l) = 1 + la + lb + lc /\ i + (3 + na) = 1 + la + (i + 1) /\ i + 1 \in 1 .. lb
        BY <3>1, <3>2, <3>6, <4>1
      <4>3. 1 + la + (i + 1) \in 1 .. 1 + la + lb + lc
        BY <4>2
      <4>4. QED
        BY <4>2, <4>3
    <3>3. i + (3 + na) \in 1 .. Len(l) /\ l[i + (3 + na)] = b[i + 1]
      BY <3>2, <3>6, <3>7
    <3>4. i = Len(fb) => l[i + (3 + na) + 1] = c[1]
      <4>1. i = Len(fb) => i + (3 + na) + 1 = 1 + Len(a) + Len(b) + 1
        BY <1>4, <1>6, <3>1, <3>2
      <4>2. 1 \in 1 .. Len(c)
        BY <1>6, <1>8
      <4>3. QED
        BY <1>7, <4>1, <4>2 DEF Joined
    <3>5. QED
      BY <1>4, <1>8, <3>1, <3>3, <3>4
  <2>3. QED
    BY <1>2, <1>3, <1>11, <2>1, <2>2 DEF Places, Ends
<1>12. CASE section = "untracked"
  <2>1. Base(r, section) = 4 + na + nb
    BY <1>2, <1>9, <1>12 DEF Base
  <2>2. ASSUME NEW i \in 1 .. Len(fc)
        PROVE  /\ i + (4 + na + nb) \in 1 .. Len(l) /\ l[i + (4 + na + nb)] = fc[i]
               /\ i + (4 + na + nb) + 1 \in 1 .. Len(l) => i + 1 \in 1 .. Len(fc)
    <3>1. i + 1 \in 1 .. Len(c) /\ c[i + 1] = fc[i] /\ Len(c) = Len(fc) + 1
      BY <1>4, <1>5, SectionFiles
    <3>2. i + (4 + na + nb) = 1 + Len(a) + Len(b) + (i + 1)
      <4>1. PICK la \in Nat, lb \in Nat : la = Len(a) /\ lb = Len(b)
        BY <1>6
      <4>2. la = na + 1 /\ lb = nb + 1
        BY <1>9, <4>1
      <4>3. i \in Nat
        OBVIOUS
      <4>4. i + (4 + na + nb) = 1 + la + lb + (i + 1)
        BY <4>2, <4>3
      <4>5. QED
        BY <4>1, <4>4
    <3>3. i + (4 + na + nb) \in 1 .. Len(l) /\ l[i + (4 + na + nb)] = c[i + 1]
      BY <1>6, <1>7, <3>1, <3>2 DEF Joined
    <3>4. Len(l) = 1 + Len(a) + Len(b) + (Len(fc) + 1)
      BY <1>7, <3>1 DEF Joined
    <3>5. i + (4 + na + nb) + 1 \in 1 .. Len(l) => i + 1 \in 1 .. Len(fc)
      <4>1. PICK la \in Nat, lb \in Nat, lc \in Nat : la = Len(a) /\ lb = Len(b) /\ lc = Len(fc)
        BY <1>4, <1>6
      <4>2. la = na + 1 /\ lb = nb + 1 /\ Len(l) = 1 + la + lb + (lc + 1) /\ i \in Nat
        BY <1>9, <3>4, <4>1
      <4>3. i + (4 + na + nb) + 1 <= 1 + la + lb + (lc + 1) => i + 1 \in 1 .. lc
        BY <4>2
      <4>4. i + (4 + na + nb) + 1 \in 1 .. Len(l) => i + (4 + na + nb) + 1 <= Len(l)
        BY <4>2
      <4>5. QED
        BY <4>1, <4>2, <4>3, <4>4
    <3>6. QED
      BY <3>1, <3>3, <3>5
  <2>3. QED
    BY <1>2, <1>3, <1>12, <2>1, <2>2 DEF Places, Ends
<1>13. QED
  BY <1>10, <1>11, <1>12 DEF Sections

-------------------------------------------------------------------------------
(***************************************************************************)
(* The cursor.                                                             *)
(***************************************************************************)
\* status_restore ends in the list, on a file if there is one, and stays if it can.
RestoresWell(l, prev) ==
  /\ Restored(l, prev) \in 1 .. Len(l)
  /\ prev > 1 /\ (\E i \in 1 .. Len(l) : l[i].file # NoFile) => l[Restored(l, prev)].file # NoFile
  /\ prev \in 2 .. Len(l) /\ l[prev].file # NoFile => Restored(l, prev) = prev

LEMMA RestoredWell ==
  ASSUME NEW l \in Seq(Lines), Len(l) >= 1, NEW prev \in Nat \ {0}
  PROVE  RestoresWell(l, prev)
<1> DEFINE from == IF prev > Len(l) THEN Len(l) ELSE prev
           below == {i \in from .. Len(l) : IsFile(l, i)}
           above == {i \in 1 .. from : IsFile(l, i)}
           first == CHOOSE i \in below : \A j \in below : i <= j
           last == CHOOSE i \in above : \A j \in above : i >= j
<1>1. Restored(l, prev) = IF prev = 1 THEN 1 ELSE IF below # {} THEN first ELSE IF above # {} THEN last ELSE 1
  BY Zenon DEF Restored
<1>2. from \in 1 .. Len(l)
  OBVIOUS
<1>3. below \subseteq Nat /\ above \subseteq 0 .. Len(l) /\ below \subseteq 1 .. Len(l) /\ above \subseteq 1 .. Len(l)
  BY <1>2
<1>4. below # {} => first \in below /\ \A j \in below : first <= j
  <2> HIDE DEF below
  <2>1. below # {} => \E i \in below : \A j \in below : i <= j
    BY <1>3, LeastNatural
  <2>2. QED
    BY <2>1
<1>5. above # {} => last \in above
  <2> HIDE DEF above
  <2>1. above # {} => \E i \in above : \A j \in above : i >= j
    <3>1. Len(l) \in Nat
      OBVIOUS
    <3>2. above # {} => \E i \in above : \A j \in above : j <= i
      BY <1>3, <3>1, GreatestNatural
    <3>3. \A i, j \in above : j <= i => i >= j
      BY <1>3
    <3>4. QED
      BY <3>2, <3>3
  <2>2. QED
    BY <2>1
<1>6. \A i \in 1 .. Len(l) : l[i].file # NoFile => i \in below \/ i \in above
  BY <1>2 DEF IsFile
<1>7. (\A i \in below : l[i].file # NoFile) /\ (\A i \in above : l[i].file # NoFile)
  BY DEF IsFile
<1>8. prev \in 2 .. Len(l) /\ l[prev].file # NoFile => prev \in below /\ \A j \in below : prev <= j
  BY DEF IsFile
<1> HIDE DEF below, above, first, last, from
<1>9. Restored(l, prev) \in 1 .. Len(l)
  <2>1. 1 \in 1 .. Len(l)
    OBVIOUS
  <2>2. below # {} => first \in 1 .. Len(l)
    BY <1>3, <1>4
  <2>3. above # {} => last \in 1 .. Len(l)
    BY <1>3, <1>5
  <2>4. QED
    BY <1>1, <2>1, <2>2, <2>3
<1>10. ASSUME prev > 1, NEW i \in 1 .. Len(l), l[i].file # NoFile
       PROVE  l[Restored(l, prev)].file # NoFile
  <2>1. prev # 1 /\ (below # {} \/ above # {})
    BY <1>6, <1>10
  <2>2. CASE below # {}
    BY <1>1, <1>4, <1>7, <2>1, <2>2
  <2>3. CASE below = {}
    BY <1>1, <1>5, <1>7, <2>1, <2>3
  <2>4. QED
    BY <2>2, <2>3
<1>11. ASSUME prev \in 2 .. Len(l), l[prev].file # NoFile PROVE Restored(l, prev) = prev
  <2>1. prev \in below /\ \A j \in below : prev <= j
    BY <1>8, <1>11
  <2>2. first \in below /\ first <= prev
    BY <1>4, <2>1
  <2>3. first = prev
    BY <1>3, <2>1, <2>2
  <2>4. QED
    BY <1>1, <1>11, <2>1, <2>3
<1>12. QED
  BY <1>9, <1>10, <1>11 DEF RestoresWell

\* no_files_staged says whether a list of all sections has a staged file.
NoStagedLine(l) == \A i \in 1 .. Len(l) : l[i].file # NoFile => l[i].type # "staged"
NoneIsStaged(r) == \A f \in Files : ~Has(r, "staged", f)

LEMMA NoStagedLineInList ==
  ASSUME NEW r \in Repositories, NEW u \in BOOLEAN, ~u
  PROVE  NoStagedLine(Listed(r, u)) <=> NoneIsStaged(r)
<1>1. PICK l : l = Listed(r, u)
  OBVIOUS
<1>2. PICK files : files = FileLines(r, "staged")
  OBVIOUS
<1>3. Tells(l, r) /\ Places(l, r, "staged") /\ Reports(files, r, "staged")
  BY <1>1, <1>2, ListedTells, ListedPlaces, FileLinesReport DEF Sections
<1>4. ASSUME NoneIsStaged(r), NEW i \in 1 .. Len(l), l[i].file # NoFile PROVE l[i].type # "staged"
  <2>1. l[i].file \in Files /\ Has(r, l[i].type, l[i].file)
    BY <1>3, <1>4 DEF Tells
  <2>2. QED
    BY <1>4, <2>1 DEF NoneIsStaged
<1>5. ASSUME NoStagedLine(l), NEW f \in Files, Has(r, "staged", f) PROVE FALSE
  <2>1. PICK i \in 1 .. Len(files) : files[i].file = f
    BY <1>3, <1>5 DEF Reports
  <2>2. PICK g \in Files : files[i] = Entry(r, "staged", g)
    BY <1>3 DEF Reports
  <2>3. files[i].type = "staged" /\ files[i].file # NoFile
    BY <2>2, EntryIs DEF Sections
  <2>4. i + 2 \in 1 .. Len(l) /\ l[i + 2] = files[i]
    BY <1>2, <1>3 DEF Places, Base
  <2>5. QED
    BY <1>5, <2>3, <2>4 DEF NoStagedLine
<1>6. NoStagedLine(l) <=> NoneIsStaged(r)
  BY <1>4, <1>5 DEF NoStagedLine, NoneIsStaged
<1>7. QED
  BY <1>1, <1>6

\* If a section loses a file that only it lists, the line below it moves to its
\* place, counted from the beginning of the section.
MovesUp(l, m, j, shift) == \E k \in 2 .. Len(m) : k = j + shift /\ m[k] = l[j + 1]

LEMMA NextMovesUp ==
  ASSUME NEW r \in Repositories, NEW q \in Repositories, NEW u \in BOOLEAN, ~u,
         NEW section \in Sections, NEW f \in Files, Loses(r, q, section, f),
         NEW l, l = Listed(r, u), NEW m, m = Listed(q, u),
         NEW j \in 1 .. Len(l), l[j].file = f, \A i \in 1 .. Len(l) : i # j => l[i].file # f,
         j + 1 \in 1 .. Len(l), l[j + 1].file # NoFile
  PROVE  MovesUp(l, m, j, Base(q, section) - Base(r, section))
<1>1. PICK s, t : s = FileLines(r, section) /\ t = FileLines(q, section)
  OBVIOUS
<1>2. s \in Seq(Lines) /\ t \in Seq(Lines)
  BY <1>1, FileLinesReport DEF Reports
<1>3. PICK p \in 1 .. Len(s) : s[p].file = f /\ Without(s, t, p)
  BY <1>1, FileLinesLose DEF LosesLine
<1>4. Places(l, r, section) /\ Ends(l, r, section) /\ Places(m, q, section)
  BY ListedPlaces
<1>5. PICK x, y : x = Base(r, section) /\ y = Base(q, section)
  OBVIOUS
<1>6. x \in Nat /\ y \in Nat /\ y >= 2
  <2>1. \A files \in Seq(Lines) : Shown(files) \in Nat
    BY DEF Shown
  <2>2. \A z \in Repositories : FileLines(z, "staged") \in Seq(Lines) /\ FileLines(z, "unstaged") \in Seq(Lines)
    BY FileLinesReport DEF Reports, Sections
  <2>3. \A z \in Repositories : Shown(FileLines(z, "staged")) \in Nat /\ Shown(FileLines(z, "unstaged")) \in Nat
    BY <2>1, <2>2
  <2>4. ASSUME NEW z \in Repositories PROVE Base(z, section) \in Nat /\ Base(z, section) >= 2
    <3>1. PICK na \in Nat, nb \in Nat : na = Shown(FileLines(z, "staged")) /\ nb = Shown(FileLines(z, "unstaged"))
      BY <2>3
    <3>2. QED
      BY <3>1 DEF Base
  <2>5. QED
    BY <1>5, <2>4
<1>7. p + x \in 1 .. Len(l) /\ l[p + x] = s[p]
  BY <1>1, <1>4, <1>5 DEF Places
<1>8. p + x = j
  BY <1>3, <1>7
<1>9. p + 1 \in 1 .. Len(s)
  BY <1>1, <1>4, <1>5, <1>8 DEF Ends
<1>10. l[j + 1] = s[p + 1]
  <2>1. l[(p + 1) + x] = s[p + 1]
    BY <1>1, <1>4, <1>5, <1>9 DEF Places
  <2>2. (p + 1) + x = j + 1
    BY <1>6, <1>8
  <2>3. QED
    BY <2>1, <2>2
<1>11. p \in 1 .. Len(t) /\ t[p] = s[p + 1]
  BY <1>2, <1>3, <1>9 DEF Without
<1>12. p + y \in 1 .. Len(m) /\ m[p + y] = t[p]
  BY <1>1, <1>4, <1>5, <1>11 DEF Places
<1>13. p + y = j + (y - x) /\ p + y >= 2
  BY <1>6, <1>8
<1>14. PICK k, shift : k = p + y /\ shift = y - x
  OBVIOUS
<1>15. k \in 2 .. Len(m)
  <2>1. m \in Seq(Lines)
    BY ListedTells DEF Tells
  <2>2. k \in 1 .. Len(m) /\ k >= 2
    BY <1>12, <1>13, <1>14
  <2>3. QED
    BY <2>1, <2>2
<1>16. k = j + shift /\ m[k] = l[j + 1]
  BY <1>10, <1>11, <1>12, <1>13, <1>14
<1>17. MovesUp(l, m, j, shift)
  BY <1>15, <1>16 DEF MovesUp
<1>18. QED
  BY <1>5, <1>14, <1>17

-------------------------------------------------------------------------------
(***************************************************************************)
(* The invariant.                                                          *)
(***************************************************************************)
\* The list is that of some repository, the cursor is in it, and a list of all
\* sections agrees with no_files_staged.
ListOK(l, c, n, u) ==
  /\ \E r \in Repositories : Tells(l, r)
  /\ c \in 1 .. Len(l)
  /\ n \in BOOLEAN /\ u \in BOOLEAN
  /\ ~u => (n <=> NoStagedLine(l))
Askable ==
  {Nobody} \cup {Line("unstaged", f, Absent) : f \in Files} \cup {Line("header", f, Absent) : f \in Files}

IInv ==
  /\ repo \in Repositories
  /\ ListOK(list, cursor, nothing, only)
  /\ asked \in Askable

\* What status_open reads.
LEMMA ReadIsFine ==
  ASSUME NEW r \in Repositories, NEW u \in BOOLEAN, NEW l, l = Listed(r, u),
         NEW c \in 1 .. Len(l), NEW n \in BOOLEAN, ~u => (n <=> NoneIsStaged(r))
  PROVE  ListOK(l, c, n, u)
<1>1. Tells(l, r)
  BY ListedTells
<1>2. ~u => (n <=> NoStagedLine(l))
  BY NoStagedLineInList
<1>3. QED
  BY <1>1, <1>2 DEF ListOK

LEMMA ListIsSeq == IInv => list \in Seq(Lines) /\ Len(list) >= 1 /\ DOMAIN list = 1 .. Len(list) /\ cursor \in Nat \ {0}
<1> SUFFICES ASSUME IInv PROVE list \in Seq(Lines) /\ Len(list) >= 1 /\ DOMAIN list = 1 .. Len(list) /\ cursor \in Nat \ {0}
  OBVIOUS
<1>1. PICK r \in Repositories : Tells(list, r)
  BY DEF IInv, ListOK
<1>2. list \in Seq(Lines) /\ Len(list) >= 1
  BY <1>1 DEF Tells
<1>3. QED
  BY <1>2 DEF IInv, ListOK

\* status_open keeps the invariant whatever it reads, and the cursor finds a file.
ReadWell(r, u, prev) ==
  /\ ListOK(list', cursor', nothing', only')
  /\ list' = Listed(r, u) /\ only' = u
  /\ RestoresWell(list', prev) /\ cursor' = Restored(list', prev)
  /\ list' \in Seq(Lines)

LEMMA NoneStagedIsKnown ==
  ASSUME IInv, NEW r \in Repositories, NEW u \in BOOLEAN
  PROVE  /\ NoneStaged(r, u) \in BOOLEAN
         /\ ~u => (NoneStaged(r, u) <=> NoneIsStaged(r))
<1>1. PICK no \in BOOLEAN : no = nothing
  BY DEF IInv, ListOK
<1>2. CASE u
  BY <1>1, <1>2 DEF NoneStaged
<1>3. CASE ~u
  BY <1>3, Zenon DEF NoneStaged, NoneIsStaged
<1>4. QED
  BY <1>2, <1>3

LEMMA ReadKeeps ==
  ASSUME IInv, NEW r \in Repositories, NEW u \in BOOLEAN, NEW prev \in Nat \ {0}, Read(r, u, prev)
  PROVE  ReadWell(r, u, prev)
<1>1. PICK l : l = list' /\ l = Listed(r, u)
  BY DEF Read
<1>2. Tells(l, r)
  BY <1>1, ListedTells
<1>3. l \in Seq(Lines) /\ Len(l) >= 1
  BY <1>2 DEF Tells
<1>4. RestoresWell(l, prev)
  BY <1>3, RestoredWell
<1>5. PICK c \in 1 .. Len(l) : c = cursor' /\ c = Restored(l, prev)
  BY <1>1, <1>4 DEF Read, RestoresWell
<1>6. PICK n \in BOOLEAN : n = nothing' /\ (~u => (n <=> NoneIsStaged(r)))
  <2>1. nothing' = NoneStaged(r, u)
    BY DEF Read
  <2>2. QED
    BY <2>1, NoneStagedIsKnown
<1>7. ListOK(l, c, n, u)
  BY <1>1, <1>6, ReadIsFine
<1>8. only' = u
  BY DEF Read
<1>9. QED
  BY <1>1, <1>3, <1>4, <1>5, <1>6, <1>7, <1>8 DEF ReadWell

LEMMA IInvInit == Init => IInv
<1> SUFFICES ASSUME Init PROVE IInv
  OBVIOUS
<1>1. PICK r : r = repo
  OBVIOUS
<1>2. r \in Repositories
  <2>1. PICK head \in [Files -> Versions], index \in [Files -> Versions], work \in [Files -> Versions] :
           r = [head |-> head, index |-> index, work |-> work, changes |-> 0]
    BY <1>1 DEF Init
  <2>2. 0 \in 0 .. MaxChanges
    BY StatusAssumption
  <2>3. QED
    BY <2>1, <2>2 DEF Repositories
<1>3. PICK u \in BOOLEAN : u = only
  BY DEF Init
<1>4. PICK l : l = list /\ l = Listed(r, u)
  BY <1>1, <1>3 DEF Init
<1>5. l \in Seq(Lines) /\ Len(l) >= 1
  BY <1>2, <1>4, ListedTells DEF Tells
<1>6. PICK c \in 1 .. Len(l) : c = cursor
  BY <1>5 DEF Init
<1>7. PICK n \in BOOLEAN : n = nothing /\ (~u => (n <=> NoneIsStaged(r)))
  <2>1. nothing = (~u /\ NoneIsStaged(r))
    BY <1>1, <1>3 DEF Init, NoneIsStaged
  <2>2. (~u /\ NoneIsStaged(r)) \in BOOLEAN /\ (~u => ((~u /\ NoneIsStaged(r)) <=> NoneIsStaged(r)))
    BY Zenon
  <2>3. QED
    BY <2>1, <2>2
<1>8. ListOK(l, c, n, u)
  BY <1>2, <1>4, <1>7, ReadIsFine
<1>9. asked \in Askable
  BY DEF Init, Askable
<1>10. QED
  BY <1>1, <1>2, <1>3, <1>4, <1>6, <1>7, <1>8, <1>9 DEF IInv

-------------------------------------------------------------------------------
(***************************************************************************)
(* The actions.                                                            *)
(***************************************************************************)
\* status_exists as it is called for a file or for a whole section.
LEMMA ExistsKeeps ==
  ASSUME IInv, NEW section \in Sections, NEW f \in {NoFile} \cup Files, Exists(section, f)
  PROVE  /\ IInv'
         /\ \/ f # NoFile
            \/ Found(list', section, f) = {}
           => (cursor > 1 /\ (\E i \in DOMAIN list' : IsFile(list', i)) => IsFile(list', cursor'))
<1>1. PICK r \in Repositories, u \in BOOLEAN, prev \in Nat \ {0} : r = repo /\ u = only /\ prev = cursor
  BY ListIsSeq DEF IInv, ListOK
<1>2. PICK l : l = list' /\ l = Listed(r, u)
  BY <1>1 DEF Exists
<1>3. Tells(l, r)
  BY <1>2, ListedTells
<1>4. l \in Seq(Lines) /\ Len(l) >= 1 /\ DOMAIN l = 1 .. Len(l)
  BY <1>3 DEF Tells
<1>5. RestoresWell(l, prev)
  BY <1>4, RestoredWell
<1> DEFINE found == Found(l, section, f)
           first == CHOOSE i \in found : \A j \in found : i <= j
<1>6. cursor' = IF found # {} THEN first ELSE Restored(l, prev)
  <2> DEFINE known == Found(Listed(repo, only), section, f)
  <2>1. cursor' = IF known # {} THEN CHOOSE i \in known : \A j \in known : i <= j ELSE Restored(list', cursor)
    BY Zenon DEF Exists
  <2>2. known = found
    BY <1>1, <1>2
  <2> HIDE DEF known, found
  <2> DEFINE least == CHOOSE i \in known : \A j \in known : i <= j
  <2>3. cursor' = IF known # {} THEN least ELSE Restored(list', cursor)
    BY <2>1, Zenon
  <2>4. least = first
    BY <2>2
  <2> HIDE DEF least, first
  <2>5. QED
    BY <1>1, <1>2, <2>2, <2>3, <2>4
<1>7. found \subseteq 1 .. Len(l) /\ \A i \in found : l[i].file = f
  BY <1>4 DEF Found
<1>8. found # {} => first \in found
  <2> HIDE DEF found
  <2>1. found \subseteq Nat
    BY <1>7
  <2>2. found # {} => \E i \in found : \A j \in found : i <= j
    BY <2>1, LeastNatural
  <2>3. QED
    BY <2>2
<1> HIDE DEF found, first
<1>9. PICK c \in 1 .. Len(l) : /\ c = cursor'
                               /\ found # {} => l[c].file = f
                               /\ found = {} => c = Restored(l, prev)
  BY <1>5, <1>6, <1>7, <1>8 DEF RestoresWell
<1>10. PICK n \in BOOLEAN : n = nothing' /\ (~u => (n <=> NoneIsStaged(r)))
  <2>1. nothing' = NoneStaged(r, u)
    BY <1>1 DEF Exists
  <2>2. QED
    BY <2>1, NoneStagedIsKnown
<1>11. ListOK(l, c, n, u)
  BY <1>2, <1>10, ReadIsFine
<1>12. repo' = repo /\ only' = u /\ asked' = asked
  BY <1>1 DEF Exists
<1>13. IInv'
  BY <1>2, <1>9, <1>10, <1>11, <1>12 DEF IInv
<1>14. ASSUME f # NoFile \/ found = {}, cursor > 1, NEW i \in DOMAIN l, IsFile(l, i)
       PROVE  IsFile(l, c)
  <2>1. i \in 1 .. Len(l) /\ l[i].file # NoFile /\ prev > 1
    BY <1>1, <1>14 DEF IsFile
  <2>2. l[Restored(l, prev)].file # NoFile
    BY <1>5, <2>1 DEF RestoresWell
  <2>3. QED
    BY <1>4, <1>9, <1>14, <2>2 DEF IsFile
<1>15. found = Found(list', section, f)
  BY <1>2 DEF found
<1>16. QED
  BY <1>2, <1>9, <1>13, <1>14, <1>15

\* An index in which the lines l are updated.
LEMMA UpdatedTyped ==
  ASSUME IInv, NEW l, l \subseteq Lines
  PROVE  Updated(l) \in [Files -> Versions]
<1>1. ASSUME NEW f \in Files
      PROVE  LET entries == {e \in l : e.file = f}
             IN  (IF entries = {} THEN repo.index[f]
                  ELSE LET e == CHOOSE e \in entries : TRUE
                       IN  IF e.type = "staged" THEN e.old ELSE repo.work[f]) \in Versions
  <2> DEFINE entries == {e \in l : e.file = f}
             chosen == CHOOSE e \in entries : TRUE
  <2>1. repo.index[f] \in Versions /\ repo.work[f] \in Versions
    BY DEF IInv, Repositories
  <2>2. entries # {} => chosen \in Lines
    <3>1. entries # {} => chosen \in entries
      <4> HIDE DEF entries
      <4>1. QED
        OBVIOUS
    <3>2. QED
      BY <3>1
  <2>3. chosen \in Lines => chosen.old \in Versions
    BY DEF Lines
  <2> HIDE DEF entries, chosen
  <2>4. (IF entries = {} THEN repo.index[f]
         ELSE IF chosen.type = "staged" THEN chosen.old ELSE repo.work[f]) \in Versions
    BY <2>1, <2>2, <2>3
  <2>5. QED
    BY <2>4 DEF entries, chosen
<1>2. QED
  BY <1>1, Zenon DEF Updated

LEMMA UpdatedOne ==
  ASSUME NEW line, NEW f \in Files, line.file = f
  PROVE  Updated({line}) = [g \in Files |-> IF g = f THEN (IF line.type = "staged" THEN line.old ELSE repo.work[f])
                                            ELSE repo.index[g]]
<1> DEFINE entries(g) == {e \in {line} : e.file = g}
           chosen(g) == CHOOSE e \in entries(g) : TRUE
<1>1. Updated({line}) = [g \in Files |-> IF entries(g) = {} THEN repo.index[g]
                           ELSE IF chosen(g).type = "staged" THEN chosen(g).old ELSE repo.work[g]]
  BY Zenon DEF Updated
<1>2. entries(f) = {line}
  OBVIOUS
<1>3. \A g \in Files : g # f => entries(g) = {}
  OBVIOUS
<1>4. chosen(f) = line
  BY <1>2
<1> HIDE DEF entries, chosen
<1>5. ASSUME NEW g \in Files
      PROVE  (IF entries(g) = {} THEN repo.index[g]
              ELSE IF chosen(g).type = "staged" THEN chosen(g).old ELSE repo.work[g])
             = (IF g = f THEN (IF line.type = "staged" THEN line.old ELSE repo.work[f]) ELSE repo.index[g])
  <2>1. CASE g = f
    <3>1. entries(g) # {} /\ chosen(g) = line
      BY <1>2, <1>4, <2>1
    <3>2. QED
      BY <2>1, <3>1
  <2>2. CASE g # f
    BY <1>3, <2>2
  <2>3. QED
    BY <2>1, <2>2
<1>6. QED
  BY <1>1, <1>5, Zenon

\* What Update changes, and what it reads.
Selected == IF list[cursor].file # NoFile THEN {list[cursor]} ELSE {list[j] : j \in Following(list, cursor)}
Moves == IF list[cursor].type # "staged" /\ ~nothing THEN cursor + 1 ELSE cursor

\* The view is closed, or nothing has happened.
Stays ==
  /\ list' = list /\ nothing' = nothing /\ only' = only
  /\ cursor' \in 1 .. Len(list)

LEMMA UpdateReads ==
  ASSUME IInv, Update
  PROVE  /\ repo' \in Repositories
         /\ repo' = [repo EXCEPT !.index = Updated(Selected)]
         /\ Read(repo', only, Moves) \/ (Stays /\ only)
         /\ Moves \in Nat \ {0} /\ Moves >= cursor
         /\ asked' = asked
<1>1. /\ repo' = [repo EXCEPT !.index = Updated(Selected)]
      /\ Read(repo', only, Moves) \/ Close(only, Moves)
      /\ asked' = asked
  BY Zenon DEF Update, Selected, Moves, MovedOn
<1>2. Selected \subseteq Lines
  <2>1. list \in Seq(Lines) /\ cursor \in 1 .. Len(list)
    BY ListIsSeq DEF IInv, ListOK
  <2>2. Following(list, cursor) \subseteq 1 .. Len(list)
    BY <2>1 DEF Following
  <2>3. \A j \in Following(list, cursor) : list[j] \in Lines
    BY <2>1, <2>2
  <2>4. QED
    BY <2>1, <2>3 DEF Selected
<1>3. PICK i : i = Updated(Selected) /\ i \in [Files -> Versions]
  BY <1>2, UpdatedTyped
<1>4. repo' \in Repositories
  BY <1>1, <1>3 DEF IInv, Repositories
<1>5. Moves \in Nat \ {0} /\ Moves >= cursor
  BY ListIsSeq DEF Moves
<1>6. ASSUME Close(only, Moves) PROVE Stays /\ only
  <2>1. /\ only /\ list' = list /\ nothing' = nothing /\ only' = only
        /\ cursor' = IF Moves > Len(list) THEN Len(list) ELSE Moves
    BY <1>6, Zenon DEF Close
  <2>2. Len(list) \in Nat \ {0}
    BY ListIsSeq
  <2> HIDE DEF Moves
  <2>3. QED
    BY <1>5, <2>1, <2>2 DEF Stays
<1>7. QED
  BY <1>1, <1>4, <1>5, <1>6

\* What git checkout makes of the repository, if it makes something.
CheckedOut(f) ==
  IF repo.index[f] = Absent THEN repo ELSE [repo EXCEPT !.work[f] = repo.index[f]]

LEMMA CheckedOutTyped ==
  ASSUME IInv, NEW f \in Files
  PROVE  /\ CheckedOut(f) \in Repositories
         /\ CheckedOut(f).index = repo.index /\ CheckedOut(f).head = repo.head
         /\ \A g \in Files : g # f => CheckedOut(f).work[g] = repo.work[g]
<1>1. PICK r \in Repositories : r = repo
  BY DEF IInv
<1>2. CASE r.index[f] = Absent
  BY <1>1, <1>2 DEF CheckedOut
<1>3. CASE r.index[f] # Absent
  <2>1. CheckedOut(f) = [r EXCEPT !.work = [r.work EXCEPT ![f] = r.index[f]]]
    BY <1>1, <1>3, Zenon DEF CheckedOut
  <2>2. PICK w : w = [r.work EXCEPT ![f] = r.index[f]]
    OBVIOUS
  <2>3. r.work \in [Files -> Versions] /\ r.index[f] \in Versions
    BY DEF Repositories
  <2>4. w \in [Files -> Versions] /\ \A g \in Files : g # f => w[g] = r.work[g]
    BY <2>2, <2>3
  <2>5. PICK q : q = [r EXCEPT !.work = w]
    OBVIOUS
  <2>6. q \in Repositories /\ q.index = r.index /\ q.head = r.head /\ q.work = w
    BY <2>4, <2>5 DEF Repositories
  <2>7. QED
    BY <1>1, <2>1, <2>2, <2>4, <2>5, <2>6
<1>4. QED
  BY <1>2, <1>3

\* The list is read again, from the cursor or the line below it.
Rereads ==
  \E r \in Repositories, u \in BOOLEAN, prev \in Nat \ {0} :
    r = repo' /\ prev >= cursor /\ Read(r, u, prev)
FindsFile == cursor > 1 /\ (\E i \in DOMAIN list' : IsFile(list', i)) => IsFile(list', cursor')

LEMMA RereadsKeep ==
  ASSUME IInv, Rereads, asked' \in Askable
  PROVE  IInv' /\ FindsFile
<1>1. PICK r \in Repositories, u \in BOOLEAN, prev \in Nat \ {0} : r = repo' /\ prev >= cursor /\ Read(r, u, prev)
  BY DEF Rereads
<1>2. ReadWell(r, u, prev)
  BY <1>1, ReadKeeps
<1>3. IInv'
  BY <1>1, <1>2 DEF ReadWell, IInv
<1>4. PICK l, c : l = list' /\ c = cursor'
  OBVIOUS
<1>5. l \in Seq(Lines) /\ DOMAIN l = 1 .. Len(l) /\ RestoresWell(l, prev) /\ c = Restored(l, prev)
  BY <1>2, <1>4 DEF ReadWell
<1>6. ASSUME cursor > 1, NEW i \in DOMAIN l, IsFile(l, i) PROVE IsFile(l, c)
  <2>1. prev > 1
    <3>1. cursor \in Nat
      BY ListIsSeq
    <3>2. QED
      BY <1>1, <1>6, <3>1
  <2>2. i \in 1 .. Len(l) /\ l[i].file # NoFile
    BY <1>5, <1>6 DEF IsFile
  <2>3. l[c].file # NoFile /\ c \in 1 .. Len(l)
    BY <1>5, <2>1, <2>2 DEF RestoresWell
  <2>4. QED
    BY <1>5, <2>3 DEF IsFile
<1>7. FindsFile
  BY <1>4, <1>6 DEF FindsFile
<1>8. QED
  BY <1>3, <1>7

LEMMA StaysKeeps ==
  ASSUME IInv, Stays, repo' \in Repositories, asked' \in Askable
  PROVE  IInv' /\ list' = list
<1>1. ListOK(list, cursor', nothing, only)
  BY DEF IInv, Stays, ListOK
<1>2. QED
  BY <1>1 DEF Stays, IInv

\* What a question is about.
LEMMA AskedIs ==
  ASSUME IInv, asked # Nobody
  PROVE  \E f \in Files : asked.file = f
<1>1. PICK f \in Files, type \in {"unstaged", "header"} : asked = Line(type, f, Absent)
  BY DEF IInv, Askable
<1>2. QED
  BY <1>1, LineIs

\* A checkout makes the status view read its list again, or has failed.
LEMMA CheckOutReads ==
  ASSUME IInv, NEW f \in Files, CheckOut(f)
  PROVE  /\ repo' = CheckedOut(f) /\ repo' \in Repositories
         /\ Read(repo', only, cursor) \/ Stays
<1>1. CASE repo.index[f] = Absent
  <2>1. /\ repo' = repo /\ list' = list /\ cursor' = cursor
        /\ nothing' = nothing /\ only' = only
    BY <1>1, Zenon DEF CheckOut
  <2>2. Stays
    BY <2>1 DEF Stays, IInv, ListOK
  <2>3. repo' = CheckedOut(f)
    BY <1>1, <2>1 DEF CheckedOut
  <2>4. QED
    BY <2>2, <2>3, CheckedOutTyped
<1>2. CASE repo.index[f] # Absent
  <2>1. repo' = CheckedOut(f) /\ Read(repo', only, cursor)
    BY <1>2, Zenon DEF CheckOut, CheckedOut
  <2>2. QED
    BY <2>1, CheckedOutTyped
<1>3. QED
  BY <1>1, <1>2

\* Everything but status_exists that reads the list.
LEMMA OthersReread ==
  ASSUME IInv, Refresh \/ OpenOther \/ Update \/ Revert \/ RevertFreed
  PROVE  /\ Rereads \/ Stays
         /\ Refresh => Rereads
         /\ repo' \in Repositories /\ asked' \in Askable
<1>1. PICK u \in BOOLEAN, prev \in Nat \ {0} : u = only /\ prev = cursor
  BY ListIsSeq DEF IInv, ListOK
<1>2. (~u) \in BOOLEAN /\ prev >= cursor
  BY <1>1
<1>3. CASE Refresh
  <2>1. repo' \in Repositories /\ Read(repo, u, prev) /\ repo' = repo
    BY <1>1, <1>3 DEF Refresh, IInv
  <2>2. asked' \in Askable
    <3>1. CASE Idle
      BY <1>3, <3>1 DEF Refresh, Askable
    <3>2. CASE ~Idle
      <4>1. PICK f \in Files, type \in {"unstaged", "header"} : asked = Line(type, f, Absent)
        BY <3>2 DEF IInv, Askable, Idle
      <4>2. asked' = Freed(asked)
        BY <1>3, <3>2 DEF Refresh
      <4>3. asked' = Line("header", f, Absent)
        BY <4>1, <4>2 DEF Freed, Line
      <4>4. QED
        BY <4>3 DEF Askable
    <3>3. QED
      BY <3>1, <3>2
  <2>3. QED
    BY <1>2, <2>1, <2>2 DEF Rereads
<1>4. CASE OpenOther
  <2>1. repo' \in Repositories /\ Read(repo, ~u, prev) /\ repo' = repo
    BY <1>1, <1>4 DEF OpenOther, IInv
  <2>2. asked' \in Askable
    BY <1>4 DEF OpenOther, IInv
  <2>3. PICK other \in BOOLEAN : other = ~u
    BY <1>2
  <2>4. QED
    BY <1>2, <2>1, <2>2, <2>3 DEF Rereads
<1>5. CASE Update
  <2>1. PICK r \in Repositories, next \in Nat \ {0} : r = repo' /\ next = Moves
    BY <1>5, UpdateReads
  <2>2. Read(r, u, next) \/ Stays
    BY <1>1, <1>5, <2>1, UpdateReads
  <2>3. next >= cursor /\ asked' = asked
    BY <1>5, <2>1, UpdateReads
  <2>4. Refresh => Read(repo, u, prev) /\ repo' = repo
    BY <1>1 DEF Refresh
  <2>5. QED
    BY <1>2, <2>1, <2>2, <2>3, <2>4 DEF Rereads, IInv
<1>6. ASSUME NEW f \in Files, CheckOut(f), asked' = Nobody
      PROVE  (Rereads \/ Stays) /\ repo' \in Repositories /\ asked' \in Askable
  <2>1. PICK r \in Repositories : r = repo'
    BY <1>6, CheckOutReads
  <2>2. Read(r, u, prev) \/ Stays
    BY <1>1, <1>6, <2>1, CheckOutReads
  <2>3. QED
    BY <1>2, <1>6, <2>1, <2>2 DEF Rereads, Askable
<1>7. CASE Revert
  <2>1. asked.file \in Files
    BY <1>7, AskedIs DEF Revert, Idle
  <2>2. CheckOut(asked.file) /\ asked' = Nobody
    BY <1>7 DEF Revert
  <2>3. Refresh => Rereads
    BY <1>1, <1>2 DEF Refresh, Rereads, IInv
  <2>4. QED
    BY <1>6, <2>1, <2>2, <2>3
<1>a. CASE RevertFreed
  <2>1. asked' = Nobody
    BY <1>a DEF RevertFreed
  <2>2. Refresh => Rereads
    BY <1>1, <1>2 DEF Refresh, Rereads, IInv
  <2>3. CASE \E f \in Files : CheckOut(f)
    BY <1>6, <2>1, <2>2, <2>3
  <2>4. CASE UNCHANGED <<repo, list, cursor, nothing, only>>
    BY <2>1, <2>2, <2>4 DEF Stays, IInv, ListOK, Askable
  <2>5. QED
    BY <1>a, <2>3, <2>4 DEF RevertFreed
<1>8. QED
  BY <1>3, <1>4, <1>5, <1>7, <1>a

\* The rest leaves the list as it is.
LEMMA ListStays ==
  ASSUME IInv,
         \/ \E i \in 1 .. (NFiles * 3 + 7) : MoveTo(i)
         \/ AskRevert \/ AnswerNo
         \/ \E f \in Files, v \in Versions : Edit(f, v)
         \/ Commit
  PROVE  IInv' /\ list' = list
<1>1. ListOK(list, cursor, nothing, only)
  BY DEF IInv
<1>2. ASSUME NEW i \in 1 .. (NFiles * 3 + 7), MoveTo(i) PROVE IInv' /\ list' = list
  <2>1. i \in 1 .. Len(list)
    BY <1>2, ListIsSeq DEF MoveTo
  <2>2. list' = list /\ nothing' = nothing /\ only' = only /\ repo' = repo /\ asked' = asked /\ cursor' = i
    BY <1>2 DEF MoveTo
  <2>3. ListOK(list', cursor', nothing', only')
    BY <1>1, <2>1, <2>2 DEF ListOK
  <2>4. QED
    BY <2>2, <2>3 DEF IInv
<1>3. ASSUME list' = list, cursor' = cursor, nothing' = nothing, only' = only
      PROVE  ListOK(list', cursor', nothing', only')
  BY <1>1, <1>3
<1>4. CASE AskRevert
  <2>1. PICK r \in Repositories : Tells(list, r)
    BY <1>1 DEF ListOK
  <2>2. PICK line : line = list[cursor]
    OBVIOUS
  <2>3. line.type = "unstaged" /\ line.file \in Files /\ line = Entry(r, line.type, line.file)
    BY <1>1, <1>4, <2>1, <2>2 DEF AskRevert, ListOK, Tells
  <2>4. line = Line("unstaged", line.file, Absent)
    BY <2>3 DEF Entry
  <2>5. asked' \in Askable
    BY <1>4, <2>2, <2>3, <2>4 DEF AskRevert, Askable
  <2>6. list' = list /\ ListOK(list', cursor', nothing', only') /\ repo' = repo
    BY <1>3, <1>4 DEF AskRevert
  <2>7. QED
    BY <2>5, <2>6 DEF IInv
<1>5. CASE AnswerNo
  <2>1. list' = list /\ ListOK(list', cursor', nothing', only') /\ repo' = repo /\ asked' \in Askable
    BY <1>3, <1>5 DEF AnswerNo, Askable
  <2>2. QED
    BY <2>1 DEF IInv
<1>6. PICK r : r \in Repositories /\ r = repo
  BY DEF IInv
<1>7. ASSUME NEW f \in Files, NEW v \in Versions, Edit(f, v) PROVE IInv' /\ list' = list
  <2>1. PICK w : w = [r.work EXCEPT ![f] = v]
    OBVIOUS
  <2>2. repo' = [r EXCEPT !.work = w, !.changes = r.changes + 1] /\ r.changes < MaxChanges
    BY <1>6, <1>7, <2>1, Zenon DEF Edit
  <2>3. r.changes \in 0 .. MaxChanges /\ r.work \in [Files -> Versions]
    BY <1>6 DEF Repositories
  <2>4. w \in [Files -> Versions]
    BY <2>1, <2>3
  <2>5. repo' \in Repositories
    <3>1. r.changes + 1 \in 0 .. MaxChanges
      BY <2>2, <2>3, StatusAssumption
    <3>2. PICK n \in 0 .. MaxChanges : n = r.changes + 1
      BY <3>1
    <3>3. PICK q : q = [r EXCEPT !.work = w, !.changes = n]
      OBVIOUS
    <3>4. q \in Repositories
      BY <1>6, <2>4, <3>3 DEF Repositories
    <3>5. QED
      BY <2>2, <3>2, <3>3, <3>4
  <2>6. list' = list /\ ListOK(list', cursor', nothing', only') /\ asked' = asked
    BY <1>3, <1>7 DEF Edit
  <2>7. QED
    BY <2>5, <2>6 DEF IInv
<1>8. CASE Commit
  <2>1. repo' = [r EXCEPT !.head = r.index, !.changes = r.changes + 1] /\ r.changes < MaxChanges
    BY <1>6, <1>8, Zenon DEF Commit
  <2>2. r.changes \in 0 .. MaxChanges
    BY <1>6 DEF Repositories
  <2>3. repo' \in Repositories
    <3>1. r.changes + 1 \in 0 .. MaxChanges
      BY <2>1, <2>2, StatusAssumption
    <3>2. PICK n \in 0 .. MaxChanges : n = r.changes + 1
      BY <3>1
    <3>3. PICK h \in [Files -> Versions] : h = r.index
      BY <1>6 DEF Repositories
    <3>4. PICK q : q = [r EXCEPT !.head = h, !.changes = n]
      OBVIOUS
    <3>5. q \in Repositories
      BY <1>6, <3>4 DEF Repositories
    <3>6. QED
      BY <2>1, <3>2, <3>3, <3>4, <3>5
  <2>4. list' = list /\ ListOK(list', cursor', nothing', only') /\ asked' = asked
    BY <1>3, <1>8 DEF Commit
  <2>5. QED
    BY <2>3, <2>4 DEF IInv
<1>9. QED
  BY <1>2, <1>4, <1>5, <1>7, <1>8

\* Every step keeps the invariant, and if it reads the list again the cursor
\* finds a file, but for status_exists that finds a whole section.
LEMMA IInvStep ==
  ASSUME IInv, [Next]_vars
  PROVE  /\ IInv'
         /\ list' # list => FindsFile \/ SelectsSection
<1>1. CASE UNCHANGED vars
  BY <1>1 DEF vars, IInv
<1>2. ASSUME Refresh \/ OpenOther \/ Update \/ Revert \/ RevertFreed
      PROVE  IInv' /\ (list' # list => FindsFile)
  <2>1. (Rereads \/ Stays) /\ repo' \in Repositories /\ asked' \in Askable
    BY <1>2, OthersReread
  <2>2. QED
    BY <2>1, RereadsKeep, StaysKeeps
<1>3. ASSUME NEW section \in Sections, NEW f \in {NoFile} \cup Files, Exists(section, f)
      PROVE  IInv' /\ (list' # list => FindsFile \/ SelectsSection)
  <2>1. IInv' /\ (f # NoFile \/ Found(list', section, f) = {} => FindsFile)
    BY <1>3, ExistsKeeps DEF FindsFile
  <2>2. ASSUME f = NoFile, Found(list', section, f) # {}, ~Refresh, ~Update PROVE SelectsSection
    BY <1>3, <2>2 DEF SelectsSection
  <2>3. QED
    BY <1>2, <2>1, <2>2
<1>4. ASSUME \/ \E i \in 1 .. (NFiles * 3 + 7) : MoveTo(i)
             \/ AskRevert \/ AnswerNo
             \/ \E f \in Files, v \in Versions : Edit(f, v)
             \/ Commit
      PROVE  IInv' /\ list' = list
  BY <1>4, ListStays
<1>5. QED
  BY <1>1, <1>2, <1>3, <1>4 DEF Next

\* The lists that tig shows are well formed whatever happens between two keys.
THEOREM InvariantHolds == Spec => []IInv
<1>1. Init => IInv
  BY IInvInit
<1>2. IInv /\ [Next]_vars => IInv'
  BY IInvStep
<1>3. QED
  BY <1>1, <1>2, PTL DEF Spec

\* The repository, the list and the question are what they are declared to be,
\* and the cursor is on a line of the list: no request and no change by others
\* between two requests leaves it behind the end.
THEOREM TypeCorrect == Spec => []TypeOK
<1>1. IInv => TypeOK
  <2> SUFFICES ASSUME IInv PROVE TypeOK
    OBVIOUS
  <2>1. list \in Seq(Lines) /\ DOMAIN list = 1 .. Len(list)
    BY ListIsSeq
  <2>2. asked \in Lines
    <3>1. \A f \in Files : Line("unstaged", f, Absent) \in Lines
      BY LineTyped, StatusAssumption DEF Sections
    <3>2. Nobody \in Lines /\ \A f \in Files : Line("header", f, Absent) \in Lines
      <4>1. /\ "none" \in Sections \cup {"header", "none"} /\ "header" \in Sections \cup {"header", "none"}
            /\ NoFile \in {NoFile} \cup Files /\ Absent \in Versions
        BY StatusAssumption
      <4>2. QED
        BY <4>1, LineTyped DEF Nobody
    <3>3. QED
      BY <3>1, <3>2 DEF IInv, Askable
  <2>3. QED
    BY <2>1, <2>2 DEF IInv, ListOK, TypeOK
<1>2. QED
  BY <1>1, InvariantHolds, PTL

\* status_restore: when the list is read again, for whatever reason and however
\* it has changed, a cursor that was not on the first line is on a file
\* afterwards if there is one, or on the first line of the section that
\* status_exists has been asked for and has found.
THEOREM CursorFindsFile == Spec => CursorOnFile
<1>1. IInv /\ [Next]_vars =>
        [ (list' # list /\ cursor > 1 /\ \E i \in DOMAIN list' : IsFile(list', i))
          => IsFile(list', cursor') \/ SelectsSection ]_vars
  BY IInvStep DEF FindsFile
<1>2. QED
  BY <1>1, InvariantHolds, PTL DEF Spec, CursorOnFile

\* status_update changes the index for nothing but the selected file, or the
\* files under the selected first line of a section.
LEMMA UpdatesSelected ==
  ASSUME IInv, Update, NEW f \in Files, repo'.index[f] # repo.index[f]
  PROVE  \/ list[cursor].file = f
         \/ /\ list[cursor].file = NoFile
            /\ \E i \in DOMAIN list : list[i].file = f /\ list[i].type = list[cursor].type
<1>1. PICK r \in Repositories : r = repo
  BY DEF IInv
<1>2. repo'.index = Updated(Selected)
  BY <1>1, UpdateReads DEF Repositories
<1>3. PICK e \in Selected : e.file = f
  <2> DEFINE entries(g) == {e \in Selected : e.file = g}
             chosen(g) == CHOOSE e \in entries(g) : TRUE
  <2>1. Updated(Selected) = [g \in Files |-> IF entries(g) = {} THEN repo.index[g]
                              ELSE IF chosen(g).type = "staged" THEN chosen(g).old ELSE repo.work[g]]
    BY Zenon DEF Updated
  <2> HIDE DEF chosen
  <2>2. entries(f) # {}
    BY <1>2, <2>1
  <2>3. QED
    BY <2>2
<1>4. CASE list[cursor].file # NoFile
  BY <1>3, <1>4 DEF Selected
<1>5. CASE list[cursor].file = NoFile
  <2>1. PICK j \in Following(list, cursor) : e = list[j]
    BY <1>3, <1>5 DEF Selected
  <2>2. PICK l \in Seq(Lines), c \in Nat \ {0} : l = list /\ c = cursor /\ c \in 1 .. Len(l)
    BY ListIsSeq DEF IInv, ListOK
  <2>3. j \in 1 .. Len(l) /\ j > c /\ \A k \in (c + 1) .. j : l[k].file # NoFile
    BY <2>1, <2>2 DEF Following
  <2>4. PICK q \in Repositories : Tells(l, q)
    BY <2>2 DEF IInv, ListOK
  <2> DEFINE S == {n \in 0 .. j - c : l[c + n].type = l[c].type}
  <2>5. 0 \in S
    BY <2>3
  <2>6. ASSUME NEW n \in 1 .. j - c, n - 1 \in S PROVE n \in S
    <3>1. PICK k : k = c + n
      OBVIOUS
    <3>2. k \in 2 .. Len(l) /\ k \in (c + 1) .. j
      BY <2>3, <3>1
    <3>3. l[k].type = l[k - 1].type
      BY <2>3, <2>4, <3>2 DEF Tells
    <3>4. k - 1 = c + (n - 1) /\ n \in 0 .. j - c
      BY <3>1
    <3>5. QED
      BY <2>6, <3>1, <3>3, <3>4
  <2>7. j - c \in S
    <3> HIDE DEF S
    <3>1. PICK m \in Nat : m = j - c
      BY <2>3
    <3>2. \A n \in 0 .. m : n \in S
      BY <2>5, <2>6, <3>1, EveryRound
    <3>3. QED
      BY <3>1, <3>2
  <2>8. l[j].type = l[c].type
    BY <2>3, <2>7
  <2>9. QED
    BY <1>3, <1>5, <2>1, <2>2, <2>3, <2>8
<1>6. QED
  BY <1>4, <1>5

\* Whatever happens between two keys, and whether the list is old or not, tig
\* changes the index for nothing but what the cursor is on.
THEOREM SelectedOnly == Spec => OnlyTheSelected
<1>1. IInv /\ [Next]_vars =>
        [ \A f \in Files :
            repo'.index[f] # repo.index[f]
              => \/ list[cursor].file = f
                 \/ /\ list[cursor].file = NoFile
                    /\ \E i \in DOMAIN list : list[i].file = f /\ list[i].type = list[cursor].type ]_vars
  <2> SUFFICES ASSUME IInv, Next, NEW f \in Files, repo'.index[f] # repo.index[f]
               PROVE  \/ list[cursor].file = f
                      \/ /\ list[cursor].file = NoFile
                         /\ \E i \in DOMAIN list : list[i].file = f /\ list[i].type = list[cursor].type
    OBVIOUS
  <2>1. CASE Update
    BY <2>1, UpdatesSelected
  <2>2. repo' # repo
    OBVIOUS
  <2>3. ASSUME NEW g \in Files, CheckOut(g) PROVE FALSE
    <3>1. repo' = CheckedOut(g)
      BY <2>3, CheckOutReads
    <3>2. QED
      BY <3>1, CheckedOutTyped
  <2>4. ~Revert /\ ~RevertFreed
    <3>1. Revert => \E g \in Files : CheckOut(g)
      BY AskedIs DEF Revert, Idle
    <3>2. RevertFreed => \E g \in Files : CheckOut(g)
      BY <2>2 DEF RevertFreed
    <3>3. QED
      BY <2>3, <3>1, <3>2
  <2>5. PICK r \in Repositories : r = repo
    BY DEF IInv
  <2>6. ASSUME NEW g \in Files, NEW v \in Versions, Edit(g, v) PROVE FALSE
    <3>1. PICK w : w = [r.work EXCEPT ![g] = v]
      OBVIOUS
    <3>2. repo' = [r EXCEPT !.work = w, !.changes = r.changes + 1]
      BY <2>5, <2>6, <3>1, Zenon DEF Edit
    <3>3. repo'.index = r.index
      BY <3>2 DEF Repositories
    <3>4. QED
      BY <2>5, <3>3
  <2>7. CASE Commit
    <3>1. repo'.index = r.index
      BY <2>5, <2>7 DEF Commit, Repositories
    <3>2. QED
      BY <2>5, <3>1
  <2>8. QED
    BY <2>1, <2>2, <2>4, <2>6, <2>7 DEF Next, MoveTo, Refresh, OpenOther, Exists, AskRevert, AnswerNo
<1>2. QED
  BY <1>1, InvariantHolds, PTL DEF Spec, OnlyTheSelected

-------------------------------------------------------------------------------
(***************************************************************************)
(* Working through a section.                                              *)
(***************************************************************************)
LEMMA HasIs ==
  ASSUME NEW r, NEW f
  PROVE  /\ Has(r, "staged", f) <=> r.index[f] # r.head[f]
         /\ Has(r, "unstaged", f) <=> r.index[f] # Absent /\ r.work[f] # r.index[f]
         /\ Has(r, "untracked", f) <=> r.index[f] = Absent /\ r.work[f] # Absent
BY DEF Has

\* Staging and unstaging one file: its section loses it, and the staged one
\* gets it if it was another.
TakesFrom(r, q, section, f) ==
  /\ Loses(r, q, section, f)
  /\ section # "staged" => Loses(q, r, "staged", f)
  /\ section = "untracked" => Same(r, q, "unstaged")

LEMMA UpdateTakes ==
  ASSUME NEW r \in Repositories, NEW q \in Repositories, NEW f \in Files, NEW v,
         q.head = r.head, q.work = r.work,
         q.index = [g \in Files |-> IF g = f THEN v ELSE r.index[g]],
         NEW section \in Sections, Has(r, section, f),
         section = "staged" => v = r.head[f],
         section # "staged" => v = r.work[f] /\ ~Has(r, "staged", f)
  PROVE  TakesFrom(r, q, section, f)
<1>1. q.index[f] = v /\ \A g \in Files : g # f => q.index[g] = r.index[g]
  OBVIOUS
<1>2. ASSUME NEW s \in Sections, NEW g \in Files, g # f PROVE Has(q, s, g) <=> Has(r, s, g)
  <2>1. q.index[g] = r.index[g] /\ q.head[g] = r.head[g] /\ q.work[g] = r.work[g]
    BY <1>1, <1>2
  <2>2. QED
    BY <2>1, HasIs DEF Sections
<1>3. \A s \in Sections, g \in Files : Entry(q, s, g) = Entry(r, s, g)
  BY DEF Entry
<1>4. ASSUME NEW s \in Sections, Has(r, s, f), ~Has(q, s, f) PROVE Loses(r, q, s, f)
  BY <1>2, <1>3, <1>4 DEF Loses
<1>5. ASSUME NEW s \in Sections, Has(q, s, f), ~Has(r, s, f) PROVE Loses(q, r, s, f)
  BY <1>2, <1>3, <1>5 DEF Loses
<1>6. ASSUME NEW s \in Sections, ~Has(q, s, f), ~Has(r, s, f) PROVE Same(r, q, s)
  BY <1>2, <1>3, <1>6 DEF Same
<1>7. CASE section = "staged"
  <2>1. ~Has(q, "staged", f)
    BY <1>1, <1>7, HasIs
  <2>2. Loses(r, q, section, f)
    BY <1>4, <1>7, <2>1
  <2>3. QED
    BY <1>7, <2>2 DEF TakesFrom
<1>8. CASE section = "unstaged"
  <2>1. r.index[f] # Absent /\ r.work[f] # r.index[f] /\ r.index[f] = r.head[f] /\ v = r.work[f]
    BY <1>8, HasIs
  <2>2. ~Has(q, "unstaged", f) /\ Has(q, "staged", f)
    BY <1>1, <2>1, HasIs
  <2>3. Loses(r, q, section, f) /\ Loses(q, r, "staged", f)
    BY <1>4, <1>5, <1>8, <2>2 DEF Sections
  <2>4. QED
    BY <1>8, <2>3 DEF TakesFrom
<1>9. CASE section = "untracked"
  <2>1. r.index[f] = Absent /\ r.work[f] # Absent /\ r.index[f] = r.head[f] /\ v = r.work[f]
    BY <1>9, HasIs
  <2>2. ~Has(q, "untracked", f) /\ Has(q, "staged", f) /\ ~Has(q, "unstaged", f) /\ ~Has(r, "unstaged", f)
    BY <1>1, <2>1, HasIs
  <2>3. Loses(r, q, section, f) /\ Loses(q, r, "staged", f) /\ Same(r, q, "unstaged")
    BY <1>4, <1>5, <1>6, <1>9, <2>2 DEF Sections
  <2>4. QED
    BY <1>9, <2>3 DEF TakesFrom
<1>10. QED
  BY <1>7, <1>8, <1>9 DEF Sections

\* How far the file moves the sections below the staged one: its line is new,
\* unless it takes the place of the line that says that there is none.
LEMMA BaseMoves ==
  ASSUME NEW r \in Repositories, NEW q \in Repositories, NEW f \in Files, NEW section \in Sections,
         TakesFrom(r, q, section, f)
  PROVE  Base(q, section) - Base(r, section) = IF section # "staged" /\ ~NoneIsStaged(r) THEN 1 ELSE 0
<1>1. CASE section = "staged"
  BY <1>1 DEF Base
<1>2. CASE section # "staged"
  <2>1. PICK s, t : s = FileLines(q, "staged") /\ t = FileLines(r, "staged")
    OBVIOUS
  <2>2. Reports(s, q, "staged") /\ Reports(t, r, "staged")
    BY <2>1, FileLinesReport DEF Sections
  <2>3. LosesLine(s, t, f)
    BY <1>2, <2>1, FileLinesLose DEF TakesFrom, Sections
  <2>4. s \in Seq(Lines) /\ t \in Seq(Lines) /\ Len(t) = Len(s) - 1
    BY <2>2, <2>3 DEF Reports, LosesLine, Without
  <2>5. Shown(s) = Len(t) + 1
    BY <2>4 DEF Shown
  <2>6. t = <<>> <=> NoneIsStaged(r)
    <3>1. ASSUME t = <<>>, NEW g \in Files, Has(r, "staged", g) PROVE FALSE
      BY <2>2, <3>1 DEF Reports
    <3>2. ASSUME t # <<>> PROVE ~NoneIsStaged(r)
      <4>1. 1 \in 1 .. Len(t)
        BY <2>4, <3>2
      <4>2. \E g \in Files : Has(r, "staged", g)
        BY <2>2, <4>1 DEF Reports
      <4>3. QED
        BY <4>2 DEF NoneIsStaged
    <3>3. QED
      BY <3>1, <3>2 DEF NoneIsStaged
  <2>7. Shown(t) \in Nat /\ Shown(s) \in Nat /\ Shown(s) - Shown(t) = IF ~NoneIsStaged(r) THEN 1 ELSE 0
    <3>1. t = <<>> => Shown(t) = 1 /\ Len(t) = 0
      BY DEF Shown
    <3>2. t # <<>> => Shown(t) = Len(t)
      BY DEF Shown
    <3>3. QED
      BY <2>4, <2>5, <2>6, <3>1, <3>2
  <2>8. CASE section = "unstaged"
    BY <1>2, <2>1, <2>7, <2>8 DEF Base
  <2>9. CASE section = "untracked"
    <3>1. FileLines(q, "unstaged") = FileLines(r, "unstaged")
      BY <2>9, FileLinesSame DEF TakesFrom, Sections
    <3>2. PICK n : n = Shown(FileLines(r, "unstaged")) /\ n \in Nat
      <4>1. FileLines(r, "unstaged") \in Seq(Lines)
        BY FileLinesReport DEF Reports, Sections
      <4>2. QED
        BY <4>1 DEF Shown
    <3>3. /\ Base(q, section) = 4 + Shown(s) + n
          /\ Base(r, section) = 4 + Shown(t) + n
      BY <2>1, <2>9, <3>1, <3>2 DEF Base
    <3>4. PICK x \in Nat, y \in Nat : x = Shown(s) /\ y = Shown(t)
      BY <2>7
    <3>5. (4 + x + n) - (4 + y + n) = x - y
      BY <3>2
    <3>6. QED
      BY <1>2, <2>7, <3>3, <3>4, <3>5
  <2>10. QED
    BY <1>2, <2>8, <2>9 DEF Sections
<1>3. QED
  BY <1>1, <1>2

\* The next file of the section is under the cursor afterwards.
LEMMA UpdateWalks ==
  ASSUME IInv, Update, Fresh, ~only,
         IsFile(list, cursor), IsFile(list, cursor + 1),
         \A i \in DOMAIN list \ {cursor} : list[i].file # list[cursor].file
  PROVE  /\ IsFile(list', cursor')
         /\ list'[cursor'].type = list[cursor].type
         /\ list'[cursor'].file = list[cursor + 1].file
<1>1. PICK r \in Repositories, q \in Repositories : r = repo /\ q = repo'
  BY UpdateReads DEF IInv
<1>2. PICK u \in BOOLEAN, n \in BOOLEAN : u = only /\ n = nothing /\ ~u
  BY DEF IInv, ListOK
<1>3. PICK l, c : l = list /\ c = cursor
  OBVIOUS
<1>4. l = Listed(r, u) /\ l \in Seq(Lines) /\ DOMAIN l = 1 .. Len(l) /\ c \in 1 .. Len(l)
  BY <1>1, <1>2, <1>3, ListIsSeq DEF Fresh, IInv, ListOK
<1>5. Tells(l, r)
  BY <1>2, <1>4, ListedTells
<1>6. /\ l[c].file # NoFile /\ c + 1 \in 1 .. Len(l) /\ l[c + 1].file # NoFile
      /\ \A i \in 1 .. Len(l) : i # c => l[i].file # l[c].file
  BY <1>3, <1>4 DEF IsFile
<1>7. PICK f \in Files, section \in Sections :
         /\ f = l[c].file /\ section = l[c].type
         /\ Has(r, section, f) /\ l[c] = Entry(r, section, f)
  BY <1>4, <1>5, <1>6 DEF Tells
<1>8. l[c + 1].type = section /\ c >= 2
  <2>1. c + 1 \in 2 .. Len(l) /\ (c + 1) - 1 = c
    BY <1>4, <1>6
  <2>2. c # 1
    BY <1>5, <1>6 DEF Tells
  <2>3. PICK k : k = c + 1
    OBVIOUS
  <2>4. l[k].type = l[k - 1].type
    BY <1>5, <1>6, <2>1, <2>3 DEF Tells
  <2>5. c >= 2
    BY <1>4, <2>2
  <2>6. l[c + 1].type = l[c].type
    BY <2>1, <2>3, <2>4
  <2>7. QED
    BY <1>7, <2>5, <2>6
<1>9. section # "staged" => ~Has(r, "staged", f)
  <2>1. SUFFICES ASSUME section # "staged", Has(r, "staged", f) PROVE FALSE
    OBVIOUS
  <2>2. PICK s : s = FileLines(r, "staged")
    OBVIOUS
  <2>3. Reports(s, r, "staged") /\ Places(l, r, "staged")
    BY <1>2, <1>4, <2>2, FileLinesReport, ListedPlaces DEF Sections
  <2>4. PICK i \in 1 .. Len(s) : s[i].file = f
    BY <2>1, <2>3 DEF Reports
  <2>5. PICK g \in Files : s[i] = Entry(r, "staged", g)
    BY <2>3 DEF Reports
  <2>6. s[i].type = "staged"
    BY <2>5, EntryIs DEF Sections
  <2>7. i + 2 \in 1 .. Len(l) /\ l[i + 2] = s[i]
    BY <2>2, <2>3 DEF Places, Base
  <2>8. i + 2 = c
    BY <1>6, <1>7, <2>4, <2>7
  <2>9. QED
    BY <1>7, <2>1, <2>6, <2>7, <2>8
<1>10. PICK v : v = IF section = "staged" THEN l[c].old ELSE r.work[f]
  OBVIOUS
<1>11. q = [r EXCEPT !.index = [g \in Files |-> IF g = f THEN v ELSE r.index[g]]]
  <2>1. Selected = {l[c]}
    BY <1>3, <1>6 DEF Selected
  <2>2. Updated({l[c]}) = [g \in Files |-> IF g = f THEN (IF l[c].type = "staged" THEN l[c].old ELSE repo.work[f])
                                             ELSE repo.index[g]]
    BY <1>7, UpdatedOne
  <2>3. PICK w : w = IF l[c].type = "staged" THEN l[c].old ELSE repo.work[f]
    OBVIOUS
  <2>4. w = v
    BY <1>1, <1>7, <1>10, <2>3
  <2>5. Updated({l[c]}) = [g \in Files |-> IF g = f THEN v ELSE r.index[g]]
    BY <1>1, <2>2, <2>3, <2>4
  <2>6. QED
    BY <1>1, <2>1, <2>5, UpdateReads
<1>12. section = "staged" => v = r.head[f]
  BY <1>7, <1>10, EntryIs
<1>13. TakesFrom(r, q, section, f)
  <2>1. q.head = r.head /\ q.work = r.work /\ q.index = [g \in Files |-> IF g = f THEN v ELSE r.index[g]]
    BY <1>11 DEF Repositories
  <2>2. section # "staged" => v = r.work[f] /\ ~Has(r, "staged", f)
    BY <1>9, <1>10
  <2>3. Has(r, section, f)
    BY <1>7
  <2>4. QED
    BY <1>12, <2>1, <2>2, <2>3, UpdateTakes
<1>14. PICK m : m = Listed(q, u)
  OBVIOUS
<1>15. PICK shift : shift = Base(q, section) - Base(r, section)
  OBVIOUS
<1>16. MovesUp(l, m, c, shift)
  BY <1>2, <1>4, <1>6, <1>7, <1>13, <1>14, <1>15, NextMovesUp DEF TakesFrom
<1>17. PICK k \in 2 .. Len(m) : k = c + shift /\ m[k] = l[c + 1]
  BY <1>16 DEF MovesUp
<1>18. shift = IF section # "staged" /\ ~n THEN 1 ELSE 0
  <2>1. n <=> NoneIsStaged(r)
    <3>1. n <=> NoStagedLine(l)
      BY <1>2, <1>3 DEF IInv, ListOK
    <3>2. QED
      BY <1>2, <1>4, <3>1, NoStagedLineInList
  <2>2. QED
    BY <1>13, <1>15, <2>1, BaseMoves
<1>19. Moves = k
  <2>1. Moves = IF section # "staged" /\ ~n THEN c + 1 ELSE c
    BY <1>2, <1>3, <1>7 DEF Moves
  <2>2. c \in Nat
    BY <1>4
  <2>3. QED
    BY <1>17, <1>18, <2>1, <2>2
<1>20. k \in Nat \ {0} /\ Read(q, u, k)
  <2>1. Moves \in Nat \ {0} /\ Read(q, u, Moves)
    BY <1>1, <1>2, UpdateReads
  <2>2. QED
    BY <1>19, <2>1
<1>21. ReadWell(q, u, k)
  BY <1>20, ReadKeeps
<1>22. list' = m /\ m \in Seq(Lines) /\ RestoresWell(m, k) /\ cursor' = Restored(m, k)
  BY <1>14, <1>21 DEF ReadWell
<1>23. Restored(m, k) = k
  BY <1>6, <1>17, <1>22 DEF RestoresWell
<1>24. IsFile(m, k) /\ m[k].type = section /\ m[k].file = l[c + 1].file
  BY <1>6, <1>8, <1>17, <1>22 DEF IsFile
<1>25. QED
  BY <1>3, <1>7, <1>22, <1>23, <1>24

\* Pressing the key that stages or unstages a file works through the section:
\* whatever lines appear or disappear above the cursor, it is on the section's
\* next file afterwards.
THEOREM UpdateWalksOn == Spec => WalkOn
<1>1. IInv /\ [Next]_vars =>
        [ (/\ Update /\ Fresh /\ ~only
           /\ IsFile(list, cursor) /\ IsFile(list, cursor + 1)
           /\ \A i \in DOMAIN list \ {cursor} : list[i].file # list[cursor].file)
          => /\ IsFile(list', cursor')
             /\ list'[cursor'].type = list[cursor].type
             /\ list'[cursor'].file = list[cursor + 1].file ]_vars
  BY UpdateWalks
<1>2. QED
  BY <1>1, InvariantHolds, PTL DEF Spec, WalkOn

================================================================================
