------------------------------ MODULE MC_Display ------------------------------
(***************************************************************************)
(* Instances of the screen: the main view with the views its Enter key     *)
(* opens, one of which (the status view) opens another (the stage view);   *)
(* and the pager and its child, entered with an assertion in between.      *)
(***************************************************************************)
EXTENDS Display, TLC

CONSTANTS main, diff, stage, changes, grep, pager

MainViews == {main, diff, stage, changes}
MainChildren ==
  main :> {diff, stage, changes} @@ diff :> {} @@ stage :> {}
    @@ changes :> {stage}

PagerViews == {pager, diff}
PagerChildren == pager :> {diff} @@ diff :> {}
===============================================================================
