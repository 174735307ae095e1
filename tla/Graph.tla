--------------------------------- MODULE Graph ---------------------------------
(***************************************************************************)
(* The two graphs of the main view on the same history: init_graph chooses *)
(* one of them for a view, as the option of the commit title column says.  *)
(***************************************************************************)
EXTENDS GraphV2

VARIABLES oldRow, oldCanvas

Old == INSTANCE GraphV1 WITH row <- oldRow, canvas <- oldCanvas

GraphInit == Init /\ Old!Init

GraphCommit(c, ps, boundary) == Commit(c, ps, boundary) /\ Old!Draw(c, ps, boundary)

GraphChange(h, last) == Change(h, last) /\ Old!Draw(WorkTree, ChangeParents(h, last), FALSE)

GraphNext ==
  \/ \E c \in Commits, boundary \in BOOLEAN : \E ps \in ParentsOf(c) : GraphCommit(c, ps, boundary)
  \/ \E h \in Commits, last \in BOOLEAN : GraphChange(h, last)

GraphSpec == GraphInit /\ [][GraphNext]_<<vars, oldRow, oldCanvas>>
-------------------------------------------------------------------------------
\* The old graph has no column for a commit that the new one does not wait
\* for, so a commit never has a lane below its own row.
OldAwaitsNoOther == Old!IdsOf(oldRow) \subseteq IdsOf(row)

\* graph_insert_parents of the old graph: a lane disappears only where a merge
\* writes its parents over the columns on its right.
OldOverwrittenByMerge ==
  [][LET position == Old!Position(commit')
         exact == (Old!IdsOf(oldRow) \ {commit'}) \cup Range(parents')
     IN exact \ Old!IdsOf(oldRow') \subseteq
          {oldRow[i].id : i \in DOMAIN oldRow \cap position + 1 .. position + Len(parents') - 1}
    ]_<<vars, oldRow, oldCanvas>>
===============================================================================
