------------------------------ MODULE MC_Refresh ------------------------------
(***************************************************************************)
(* Instances of the refreshing of views: which of them there are, and the  *)
(* kinds of change that matter to these.                                   *)
(***************************************************************************)
EXTENDS Refresh

CONSTANTS main, status, stage, log

MainStatusStage == {main, status, stage}
MainStatus == {main, status}
MainStatusLog == {main, status, log}

OneKind == {"unstaged"}
Untracked == {"untracked"}
HeadOnly == {"head"}
===============================================================================
