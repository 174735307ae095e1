------------------------------- MODULE MC_View --------------------------------
(***************************************************************************)
(* A view that is loaded line by line, of at most a few lines.             *)
(***************************************************************************)
EXTENDS View

LowWindows == {1, 2}
EveryReader == OneShots \cup Habits
===============================================================================
