----------------------------- MODULE MC_Staging -----------------------------
(***************************************************************************)
(* Instances of Staging.  Lines are numbered so that their order is the    *)
(* same in all versions of a file.                                         *)
(***************************************************************************)
EXTENDS Staging

CONSTANTS a, b

TwoFiles == <<a, b>>

TwoHeads == [f \in {a, b} |-> IF f = a THEN <<10, 20, 30, 40, 50>> ELSE <<10, 20>>]

\* Changes in one chunk that can be split, or in two chunks; a file that only
\* has an addition.
TwoContents ==
  [f \in {a, b} |->
    IF f = a THEN {<<11, 20, 30, 41, 42, 50>>, <<20, 30, 40, 50, 51>>}
             ELSE {<<10, 15, 20>>}]

=============================================================================
