------------------------------ MODULE GraphLanes ------------------------------
(***************************************************************************)
(* What the graph of the main view promises, whatever it looks like: below *)
(* every commit there is a lane for each commit that one above named as a  *)
(* parent and that has not been listed since, and for no other.            *)
(***************************************************************************)
EXTENDS Sequences, Functions

VARIABLES commit,      \* the commit that was drawn last
          parents,     \* its parents, in the order in which git names them
          awaited      \* the commits that have a lane below it

lanesVars == <<commit, parents, awaited>>

LanesInit == parents = <<>> /\ awaited = {}

Listed == awaited' = (awaited \ {commit'}) \cup Range(parents')

LanesSpec == LanesInit /\ [][Listed]_lanesVars
===============================================================================
