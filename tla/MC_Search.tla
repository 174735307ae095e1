------------------------------ MODULE MC_Search -------------------------------
(***************************************************************************)
(* A view whose lines are many more than its window has rows, for the      *)
(* arithmetic of moving and scrolling, and which is searched while it has  *)
(* few.                                                                    *)
(***************************************************************************)
EXTENDS Search

Windows == {1, 2, 4}
PlainReaders == {"adds", "follows"}
===============================================================================
