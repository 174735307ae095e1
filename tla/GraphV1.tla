-------------------------------- MODULE GraphV1 --------------------------------
(***************************************************************************)
(* The old graph of the main view (src/graph-v1.c): one row that each      *)
(* commit rewrites in place, so that columns keep holes and a merge can    *)
(* write over the columns on its right.  Columns are counted from 1; what  *)
(* colours they get is left out.                                           *)
(***************************************************************************)
EXTENDS Naturals, Sequences, FiniteSets, Functions

VARIABLES row,         \* graph->row: Seq([id, boundary, initial])
          canvas       \* the glyphs of the row that was drawn last

NoId == 0
Column(id, boundary) == [id |-> id, boundary |-> boundary, initial |-> FALSE]
IdsOf(r) == {r[i].id : i \in DOMAIN r} \ {NoId}

\* graph_find_column_by_id: the first column of the commit, or else the last
\* free one, or else one more at the end.
Position(c) ==
  LET found == {i \in DOMAIN row : row[i].id = c}
      free  == {i \in DOMAIN row : row[i].id = NoId}
  IN IF found # {} THEN CHOOSE i \in found : \A j \in found : i <= j
     ELSE IF free # {} THEN CHOOSE i \in free : \A j \in free : j <= i
     ELSE Len(row) + 1

\* graph_render_parents counts the parent "" of a commit that has none.
Width(ps) == IF ps = <<>> THEN 1 ELSE Len(ps)
Parent(ps, k) == IF ps = <<>> THEN NoId ELSE ps[k]

\* Mutant: one column too few for a merge.
ExpandedShort(position, ps, boundary) ==
  LET missing == IF position > Len(row) THEN 1 ELSE 0
  IN row \o [k \in 1 .. missing |-> Column(NoId, boundary)]

\* graph_expand: free columns from the commit on, until its parents fit.
Expanded(position, ps, boundary) ==
  LET missing == position - 1 + Width(ps) - Len(row)
  IN IF missing <= 0 THEN row
     ELSE SubSeq(row, 1, position - 1) \o [k \in 1 .. missing |-> Column(NoId, boundary)]
            \o SubSeq(row, position, Len(row))

\* Mutant: the other columns of the commit stay.
RewrittenLeft(r, position, c, ps, boundary) ==
  [i \in DOMAIN r |->
     IF i >= position /\ i < position + Width(ps)
     THEN Column(Parent(ps, i - position + 1), boundary) ELSE r[i]]

\* graph_insert_parents: on its left a column that waits for one of the
\* parents is marked (every column, if there is no parent: the lookup then
\* answers with the free column), its own columns take the parents, whatever
\* was there, and on its right the other columns of the commit become free.
Rewritten(r, position, c, ps, boundary) ==
  [i \in DOMAIN r |->
     IF i < position
     THEN [r[i] EXCEPT !.initial = @ \/ (r[i].id # NoId /\ (ps = <<>> \/ r[i].id \in Range(ps)))]
     ELSE IF i < position + Width(ps) THEN Column(Parent(ps, i - position + 1), boundary)
     ELSE IF r[i].id = c THEN [r[i] EXCEPT !.id = NoId]
     ELSE r[i]]

\* The symbol of each column, which graph_symbol_to_utf8, _to_ascii and
\* _to_chtype draw alike.
CommitGlyph(column, ps, boundary) ==
  IF boundary \/ column.boundary THEN "boundary"
  ELSE IF ps = <<>> \/ column.initial THEN "initial"
  ELSE IF Len(ps) > 1 THEN "mergeCommit" ELSE "commit"

MergeGlyph(column, i, position, ps) ==
  IF column.id = ps[i - position + 1] THEN "mergeBranch"
  ELSE IF i < position + Len(ps) - 1 THEN "multiMerge" ELSE "merge"

\* A column on the right: lines run through it if the last one ends here.
RightGlyph(r, i, c) ==
  LET through == r[Len(r)].id = c
  IN IF r[i].id = c THEN IF through /\ i # Len(r) THEN "multiBranch" ELSE "turnLeft"
     ELSE IF r[i].id # NoId THEN IF through THEN "crossOver" ELSE "verticalBar"
     ELSE IF through THEN "horizontalBar" ELSE "blank"

Glyph(r, i, position, c, ps, boundary) ==
  IF i < position THEN IF r[i].id # NoId THEN "verticalBar" ELSE "blank"
  ELSE IF i = position THEN CommitGlyph(r[i], ps, boundary)
  ELSE IF i < position + Width(ps) THEN MergeGlyph(r[i], i, position, ps)
  ELSE RightGlyph(r, i, c)

\* graph_collapse
Collapsed(r) ==
  SubSeq(r, 1, CHOOSE n \in 1 .. Len(r) : /\ n = 1 \/ r[n].id # NoId
                                          /\ \A i \in n + 1 .. Len(r) : r[i].id = NoId)

Init == row = <<>> /\ canvas = <<>>

\* graph_add_commit and graph_render_parents
Draw(c, ps, boundary) ==
  LET position == Position(c)
      r        == Expanded(position, ps, boundary)
  IN /\ row' = Collapsed(Rewritten(r, position, c, ps, boundary))
     /\ canvas' = [i \in DOMAIN r |-> Glyph(r, i, position, c, ps, boundary)]
===============================================================================
