-------------------------------- MODULE GraphV2 --------------------------------
(***************************************************************************)
(* The graph of the main view (src/graph-v2.c): one row of columns that    *)
(* each wait for a commit, rewritten by every commit that git log lists,   *)
(* and the symbols drawn for it.                                           *)
(*                                                                         *)
(* Columns are counted from 1.  The rows row and next_row have the same    *)
(* columns between two commits (graph_commit_next_row), so next_row is not *)
(* a variable; of the symbols kept in a column only those a later row      *)
(* reads are: boundary (of row) and shift_left (of prev_row).              *)
(***************************************************************************)
EXTENDS Naturals, Integers, Sequences, FiniteSets, Functions

CONSTANTS NCommits, MaxParents,
          NColors      \* GRAPH_COLORS

VARIABLES listed,      \* the last commit that git log listed
          head,        \* HEAD, once changes are drawn above it; else 0
          commit,      \* graph->id
          parents,     \* graph->parents
          row,         \* graph->row: Seq([id, boundary])
          prevRow,     \* graph->prev_row: Seq([id, shiftLeft])
          prevPosition,\* graph->prev_position
          colorOf,     \* graph->colors.id_map
          colorCount,  \* graph->colors.count
          canvas       \* the glyphs of the row that was drawn last

vars == <<listed, head, commit, parents, row, prevRow, prevPosition, colorOf, colorCount, canvas>>

ASSUME ColorsAssumption == NColors \in Nat \ {0}
ASSUME CommitsAssumption == NCommits \in Nat

NoId == 0              \* the id NULL, which a free column has
Commits == 1 .. NCommits
WorkTree == NCommits + 1  \* NULL_ID, which changes that are not committed have
ParentsOf(c) == UNION {Injection(1 .. n, c + 1 .. NCommits) : n \in 0 .. MaxParents}

Least(S) == CHOOSE i \in S : \A j \in S : i <= j
IdsOf(r) == {r[i].id : i \in DOMAIN r} \ {NoId}
Free(r) == {i \in DOMAIN r : r[i].id = NoId}
NoLane == [id |-> NoId, shiftLeft |-> FALSE]
Column(id, boundary) == [id |-> id, boundary |-> boundary]

\* graph_find_column_by_id
FindColumn(r, id) ==
  LET found == {i \in DOMAIN r : r[i].id = id}
  IN IF found # {} THEN Least(found) ELSE Least(Free(r) \cup {Len(r) + 1})

Padded(r, n, column) == [i \in 1 .. n |-> IF i <= Len(r) THEN r[i] ELSE column]

(***************************************************************************)
(* graph_generate_next_row.                                                *)
(***************************************************************************)
\* Mutant: only the first column of the commit.
ClearFirst(r, c) == [i \in DOMAIN r |-> IF r[i].id = c /\ i = FindColumn(r, c) THEN Column(NoId, FALSE) ELSE r[i]]
ClearCommit(r, c) == [i \in DOMAIN r |-> IF r[i].id = c THEN [r[i] EXCEPT !.id = NoId] ELSE r[i]]

\* graph_insert_parents: the first free column, or one more at the end.
InsertParents(r, ps, boundary) ==
  LET after[n \in 0 .. Len(ps)] ==
        IF n = 0 THEN r
        ELSE LET before == after[n - 1]
                 match == FindColumn(before, NoId)
             IN Padded([i \in DOMAIN before |-> IF i = match THEN Column(ps[n], boundary) ELSE before[i]],
                       IF match > Len(before) THEN match ELSE Len(before),
                       Column(ps[n], boundary))
  IN after[Len(ps)]

\* graph_remove_collapsed_columns: a column that waits for the same commit
\* as the one on its left, which is new or has just moved, gives way to the
\* column on its right.
Collapses(i, next, prev, position, ps) ==
  /\ i > 1 /\ i \notin {position, position + 1}
  /\ next[i].id = next[i - 1].id
  /\ ~ (next[i].id \in Range(ps) /\ prev[i].id = NoId)
  /\ next[i - 1].id # prev[i - 1].id \/ prev[i - 1].shiftLeft

RemoveCollapsed(next, prev, position, ps) ==
  LET after[i \in 1 .. Len(next) + 1] ==
        IF i > Len(next) THEN Column(NoId, FALSE)
        ELSE IF Collapses(i, next, prev, position, ps) THEN after[i + 1] ELSE next[i]
  IN [i \in DOMAIN next |-> after[i]]

\* Mutant: the last column is not moved.
FillAllButLast(next) ==
  LET after[i \in 1 .. Len(next)] ==
        IF next[i].id = NoId /\ i + 1 < Len(next) THEN after[i + 1] ELSE next[i]
  IN [i \in DOMAIN next |-> after[i]]

\* graph_fill_empty_columns
FillEmpty(next) ==
  LET after[i \in 1 .. Len(next)] ==
        IF next[i].id = NoId /\ i < Len(next) THEN after[i + 1] ELSE next[i]
  IN [i \in DOMAIN next |-> after[i]]

NextRow(r, prev, c, position, ps, boundary) ==
  LET inserted == InsertParents(ClearCommit(r, c), ps, boundary)
  IN FillEmpty(RemoveCollapsed(inserted, Padded(prev, Len(inserted), NoLane), position, ps))

(***************************************************************************)
(* graph_generate_symbols: what is known of column i while a commit is     *)
(* drawn.  d holds the rows as graph_expand and graph_generate_next_row    *)
(* leave them: prev, row and next, all of the same length.                 *)
(***************************************************************************)
ContinuedDown(above, below, i) == above[i].id = below[i].id /\ ~above[i].shiftLeft

\* continued_right and continued_left look up to the commit or to the edge.
ContinuedRight(r, i, position) ==
  \E j \in i + 1 .. (IF i < position THEN position - 1 ELSE Len(r)) : r[j].id = r[i].id
ContinuedLeft(r, i, position) ==
  \E j \in (IF i < position THEN 1 ELSE position) .. i - 1 : r[j].id # NoId /\ r[j].id = r[i].id

\* A lane moves left when the nearest column on its left that waits for the
\* same commit did not come straight down.
ShiftLeft(d, i) ==
  /\ i <= Len(d.row) /\ d.row[i].id # NoId
  /\ LET same == {j \in 1 .. i - 1 : d.row[j].id = d.row[i].id}
     IN same # {} /\ ~ContinuedDown(d.prev, d.row, CHOOSE j \in same : \A k \in same : k <= j)

NewColumn(d, i) ==
  \/ d.prev[i].id = NoId
  \/ \A j \in i .. Len(d.row) : d.row[i].id # d.prev[j].id

ParentRight(d, i) ==
  /\ i > d.position
  /\ \E j \in i + 1 .. Len(d.next) : d.next[j].id \in Range(d.parents) /\ d.next[j].id # d.row[j].id

Flanked(d, i) ==
  \E j \in (IF i < d.position THEN 1 .. i - 1 ELSE i + 1 .. Len(d.row)) : d.row[j].id = d.commit

Symbol(d, i) ==
  [commit          |-> i = d.position,
   boundary        |-> i = d.position /\ d.next[i].boundary,
   initial         |-> d.parents = <<>>,
   merge           |-> Len(d.parents) > 1,
   continuedDown   |-> d.row[i].id = d.next[i].id,
   continuedUp     |-> ContinuedDown(d.prev, d.row, i),
   continuedRight  |-> ContinuedRight(d.row, i, d.position),
   continuedLeft   |-> ContinuedLeft(d.row, i, d.position),
   continuedUpLeft |-> ContinuedLeft(d.prev, i, Len(d.prev) + 1),
   parentDown      |-> d.next[i].id \in Range(d.parents),
   parentRight     |-> ParentRight(d, i),
   belowCommit     |-> i = d.prevPosition /\ d.row[i].id = d.prev[i].id,
   flanked         |-> Flanked(d, i),
   nextRight       |-> ContinuedRight(d.next, i, 0),
   matchesCommit   |-> d.row[i].id = d.commit,
   shiftLeft       |-> ShiftLeft(d, i),
   continueShift   |-> ShiftLeft(d, i + 1),
   belowShift      |-> d.prev[i].shiftLeft,
   newColumn       |-> NewColumn(d, i),
   empty           |-> d.row[i].id = NoId]

(***************************************************************************)
(* The glyph of a symbol: graph_symbol_to_utf8, _to_ascii and _to_chtype   *)
(* ask the same questions in the same order.                               *)
(***************************************************************************)
FromAbove(s) == s.continuedUp \/ s.newColumn \/ s.belowCommit

MergesHere(s) ==
  /\ ~s.empty /\ FromAbove(s) /\ ~(s.shiftLeft /\ s.continuedUpLeft) /\ ~s.nextRight
  /\ s.merge /\ s.continuedUp /\ s.continuedLeft /\ s.parentDown

CrossMerge(s) == MergesHere(s) /\ s.continuedRight
VerticalMerge(s) == MergesHere(s) /\ s.matchesCommit /\ ~s.continuedRight
CrossOver(s) ==
  /\ ~s.empty /\ s.continuedDown /\ FromAbove(s) /\ ~s.shiftLeft
  /\ (s.parentRight /\ s.merge) \/ s.flanked
\* Mutant: nothing on the right, even of a lane that comes from above.
VerticalBarAlone(s) ==
  /\ ~s.empty /\ ~s.shiftLeft /\ s.continuedDown /\ s.continuedUp
  /\ ~(s.parentRight \/ s.flanked \/ s.continuedRight)
VerticalBar(s) ==
  /\ ~s.empty /\ ~s.shiftLeft /\ s.continuedDown
  /\ s.continuedUp \/ ~(s.parentRight \/ s.flanked \/ s.continuedRight)
TurnLeft(s) ==
  /\ ~(s.matchesCommit /\ s.continuedRight /\ ~s.continuedDown)
  /\ ~s.continueShift /\ FromAbove(s) /\ (s.matchesCommit \/ s.shiftLeft)
MultiBranch(s) ==
  /\ ~s.continuedDown /\ s.continuedRight /\ ~s.belowShift
  /\ FromAbove(s) /\ (s.matchesCommit \/ s.shiftLeft)
HorizontalBar(s) ==
  /\ s.nextRight
  /\ \/ s.shiftLeft
     \/ /\ ~s.continuedDown /\ (s.parentRight \/ s.continuedRight)
        /\ ~(s.continuedUp /\ ~s.continuedUpLeft) /\ ~s.belowCommit
TurnDown(s) == s.continuedDown /\ s.continuedRight
Forks(s) == TurnDown(s) /\ s.continuedUp
TurnDownCrossOver(s) == TurnDown(s) /\ (s.flanked \/ (s.parentRight /\ s.merge))
Merges(s) == ~s.continuedDown /\ s.parentDown /\ ~s.parentRight /\ ~s.continuedRight
MultiMerge(s) == s.parentDown /\ (s.parentRight \/ s.continuedRight)

\* The first of these that applies is drawn.
Questions(s) ==
  << <<"boundary",          s.commit /\ s.boundary>>,
     <<"initial",           s.commit /\ s.initial>>,
     <<"mergeCommit",       s.commit /\ s.merge>>,
     <<"commit",            s.commit>>,
     <<"crossMerge",        CrossMerge(s)>>,
     <<"verticalMerge",     VerticalMerge(s)>>,
     <<"crossOver",         CrossOver(s)>>,
     <<"verticalBar",       VerticalBar(s)>>,
     <<"turnLeft",          TurnLeft(s)>>,
     <<"multiBranch",       MultiBranch(s)>>,
     <<"horizontalBar",     HorizontalBar(s)>>,
     <<"forks",             Forks(s)>>,
     <<"turnDownCrossOver", TurnDownCrossOver(s)>>,
     <<"turnDown",          TurnDown(s)>>,
     <<"merge",             Merges(s)>>,
     <<"multiMerge",        MultiMerge(s)>>,
     <<"blank",             TRUE>> >>

Glyph(s) == LET q == Questions(s) IN q[Least({i \in DOMAIN q : q[i][2]})][1]

(***************************************************************************)
(* The colours: every commit that has a lane keeps the colour it was given *)
(* when its first lane was drawn.  0 stands for the empty id, which        *)
(* get_color uses for a column that waits for nothing.                     *)
(***************************************************************************)
LeastUsed(count) == Least({k \in DOMAIN count : \A l \in DOMAIN count : count[k] <= count[l]})

GetColor(colors, id) ==
  IF id \in DOMAIN colors.of THEN colors
  ELSE LET k == LeastUsed(colors.count)
       IN [of    |-> [j \in DOMAIN colors.of \cup {id} |-> IF j = id THEN k ELSE colors.of[j]],
           count |-> [colors.count EXCEPT ![k] = @ + 1]]

\* Mutant: the colour stays counted.
RemoveColorOnly(colors, id) == [colors EXCEPT !.of = Restrict(@, DOMAIN @ \ {id})]
RemoveColor(colors, id) ==
  IF id \notin DOMAIN colors.of THEN colors
  ELSE [of    |-> Restrict(colors.of, DOMAIN colors.of \ {id}),
        count |-> [colors.count EXCEPT ![colors.of[id]] = @ - 1]]

Colored(d) ==
  LET after[i \in 0 .. Len(d.row)] ==
        IF i = 0 THEN [of |-> colorOf, count |-> colorCount]
        ELSE GetColor(after[i - 1], IF d.row[i].id # NoId THEN d.row[i].id ELSE d.next[i].id)
  IN RemoveColor(after[Len(d.row)], d.commit)

(***************************************************************************)
(* One commit that git log lists: graph_add_commit and then                *)
(* graph_render_parents, which main_read calls once the parents are known. *)
(***************************************************************************)
Init ==
  /\ commit = NoId /\ parents = <<>> /\ listed = 0 /\ head = 0
  /\ row = <<>> /\ prevRow = <<>> /\ prevPosition = 1
  /\ colorOf = [id \in {} |-> 1] /\ colorCount = [k \in 1 .. NColors |-> 0]
  /\ canvas = <<>>

\* The rows while a commit is drawn.  A commit without a parent still takes
\* a column: graph_render_parents adds the parent NULL.
Drawing(c, ps, boundary) ==
  LET position == FindColumn(row, c)
      wanted   == position + (IF ps = <<>> THEN 1 ELSE Len(ps)) - 1
      expanded == Padded(row, IF wanted > Len(row) THEN wanted ELSE Len(row), Column(NoId, boundary))
      next     == NextRow(expanded, prevRow, c, position, ps, boundary)
  IN [commit |-> c, parents |-> ps, position |-> position, prevPosition |-> prevPosition,
      prev |-> Padded(prevRow, Len(next), NoLane),
      row  |-> Padded(expanded, Len(next), Column(NoId, boundary)),
      next |-> next]

\* graph_commit_next_row: what the next commit takes for the row above it.
Above(d) ==
  [i \in DOMAIN d.row |->
     IF d.row[i].id = NoId \/ (i = d.position /\ d.parents # <<>>)
     THEN [id |-> d.next[i].id, shiftLeft |-> FALSE]
     ELSE [id |-> d.row[i].id, shiftLeft |-> ShiftLeft(d, i)]]

\* graph_collapse: the columns up to the last that waits for a commit.
Width(r) == CHOOSE n \in 1 .. Len(r) : /\ n = 1 \/ r[n].id # NoId
                                      /\ \A i \in n + 1 .. Len(r) : r[i].id = NoId

Draw(d) ==
  LET width == Width(d.next)
  IN /\ commit' = d.commit /\ parents' = d.parents
     /\ row' = SubSeq(d.next, 1, width)
     /\ prevRow' = SubSeq(Above(d), 1, width)
     /\ prevPosition' = d.position
     /\ colorOf' = Colored(d).of /\ colorCount' = Colored(d).count
     /\ canvas' = [i \in DOMAIN d.row |-> Glyph(Symbol(d, i))]

\* A commit of git log; boundary commits (--boundary) have their own glyph.
\* When changes were drawn above HEAD, HEAD is the commit that follows.
Commit(c, ps, boundary) ==
  /\ c > listed
  /\ head > listed => c = head /\ WorkTree \notin IdsOf(row)
  /\ listed' = c /\ UNCHANGED head
  /\ Draw(Drawing(c, ps, boundary))

\* main_add_changes_commit: the untracked, unstaged and staged changes are
\* drawn above HEAD as commits with the same id NULL_ID, one the parent of
\* the other and HEAD the parent of the last.
ChangeParents(h, last) == IF last THEN <<h>> ELSE <<WorkTree>>

Change(h, last) ==
  /\ h > listed
  /\ head = 0 \/ (head = h /\ WorkTree \in IdsOf(row))
  /\ head' = h /\ UNCHANGED listed
  /\ Draw(Drawing(WorkTree, ChangeParents(h, last), FALSE))

Next ==
  \/ \E c \in Commits, boundary \in BOOLEAN : \E ps \in ParentsOf(c) : Commit(c, ps, boundary)
  \/ \E h \in Commits, last \in BOOLEAN : Change(h, last)

Spec == Init /\ [][Next]_vars
-------------------------------------------------------------------------------
(***************************************************************************)
(* Properties.                                                             *)
(***************************************************************************)
\* The glyphs with a line to the cell below; the lines below a dot start there.
Dots  == {"boundary", "initial", "mergeCommit", "commit"}
Down  == {"crossMerge", "verticalMerge", "crossOver", "verticalBar", "forks",
          "turnDownCrossOver", "turnDown", "merge", "multiMerge"}

At(glyphs, i) == IF i \in DOMAIN glyphs THEN glyphs[i] ELSE "blank"

\* Types, and what graph_fill_empty_columns and graph_collapse are for: the
\* columns wait for commits without a hole, and prev_row is as long as row,
\* so that neither is indexed past its end.
TypeOK ==
  /\ listed \in 0 .. NCommits /\ head \in 0 .. NCommits
  /\ commit \in 0 .. WorkTree /\ Range(parents) \subseteq 1 .. WorkTree
  /\ \A i \in DOMAIN row : row[i].id \in 0 .. WorkTree /\ row[i].boundary \in BOOLEAN
  /\ \A i \in DOMAIN row : row[i].id = NoId => Len(row) = 1
  /\ Len(prevRow) = Len(row) /\ prevPosition \in Nat \ {0}
  /\ \A i \in DOMAIN prevRow : prevRow[i].id \in 0 .. WorkTree /\ prevRow[i].shiftLeft \in BOOLEAN

\* graph_render_parents keeps a column for every commit that is still to
\* come as a parent and for no other, however columns are inserted, moved
\* and collapsed.
Lanes == INSTANCE GraphLanes WITH awaited <- IdsOf(row)
ImplementsLanes == Lanes!LanesSpec

\* The colours: colors.count says how many ids have a colour, and only a
\* commit that has a column, or the empty id, has one: nothing is left
\* behind in the table by colors_remove_id.
ColorsOfLanes ==
  /\ \A k \in DOMAIN colorCount :
       colorCount[k] = Cardinality({id \in DOMAIN colorOf : colorOf[id] = k})
  /\ DOMAIN colorOf \subseteq IdsOf(row) \cup {NoId}

\* The lanes that end at the commit drawn in a step.
Ending == {i \in DOMAIN row : row[i].id = commit'}

\* For a commit that is still to come a line goes down from the row, in a
\* column that waits for it.
HasLine(id) == \E i \in DOMAIN row' : row'[i].id = id /\ At(canvas', i) \in Down \cup Dots

\* A lane of one column on the right of the commit, which it did not come
\* straight down to: graph_remove_collapsed_columns or graph_fill_empty_columns
\* has moved it.
Moved(id) ==
  \E i \in DOMAIN row :
    /\ {j \in DOMAIN row : row[j].id = id} = {i}
    /\ i > prevPosition'
    /\ prevRow[i].id # id \/ prevRow[i].shiftLeft

\* graph_symbol_to_utf8: the lane of every commit that is still to come is
\* drawn in each row.  A lane that was moved may have a gap, and so may one
\* that begins below a merge at which several lanes end, but not the first
\* parent's.
LanesDrawn ==
  [][\A id \in IdsOf(row') :
       (IF id \in Range(parents') THEN id = Head(parents') \/ Cardinality(Ending) <= 1
        ELSE ~Moved(id))
       => HasLine(id)]_vars

===============================================================================
