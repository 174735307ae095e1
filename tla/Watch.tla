--------------------------------- MODULE Watch --------------------------------
(***************************************************************************)
(* How one view of tig learns that another has seen the repository change: *)
(* the watches of watch.c.  A view registers for the kinds of change that  *)
(* concern it; whoever learns of a change marks the watches of the others; *)
(* a marked view is dirty and is reloaded when the input loop comes by.    *)
(*                                                                         *)
(* The three parts of the index (staged, unstaged, untracked changes) are  *)
(* reported as present or absent, and a view remembers in `state' what it  *)
(* has itself reported: hearing the same from another view does not make   *)
(* it dirty.                                                               *)
(*                                                                         *)
(* An operator marked "Mutant" is the one below it with a plausible bug;   *)
(* nothing uses it but PROJECT.json's mutants.                             *)
(***************************************************************************)
EXTENDS Naturals

CONSTANTS
  Views,       \* the views that have a watch
  IndexKinds,  \* parts of the index, a subset of AllIndexKinds
  RefKinds     \* "head" and "refs", if they matter

AllIndexKinds == {"staged", "unstaged", "untracked"}

ASSUME WatchAssumption ==
  /\ IndexKinds \subseteq AllIndexKinds
  /\ RefKinds \subseteq {"head", "refs"}

Kinds == IndexKinds \cup RefKinds

\* enum watch_trigger: kind k has been seen, and there is something (TRUE) or
\* nothing (FALSE) of it.  WATCH_HEAD and WATCH_REFS have one bit, the rest two.
IndexTriggers == IndexKinds \X BOOLEAN
RefTriggers == RefKinds \X {TRUE}
Triggers == IndexTriggers \cup RefTriggers
TriggersOf(kinds) == {t \in Triggers : t[1] \in kinds}

\* struct watch
Watches == [changed : SUBSET Triggers, triggers : SUBSET Triggers,
            state : SUBSET Triggers]
NoWatch == [changed |-> {}, triggers |-> {}, state |-> {}]

Modes == {"manual", "auto", "after-command", "periodic"}

\* watch_register(v, kinds)
Registered(w, v, kinds) ==
  [u \in Views |->
     IF u = v THEN [changed |-> {}, triggers |-> TriggersOf(kinds), state |-> {}]
     ELSE w[u]]

\* watch_no_refresh
NoRefresh(mode, event) ==
  \/ mode = "manual"
  \/ mode = "after-command" /\ event # "after-command"

\* Mutant: a view also marks itself.
AppliedToAll(w, mode, event, source, changed) ==
  IF NoRefresh(mode, event) THEN w
  ELSE [v \in Views |->
          [w[v] EXCEPT !.changed = @ \cup (changed \cap w[v].triggers)]]

\* watch_apply_changes(source, event, changed).  A source of no view stands for
\* NULL.
Applied(w, mode, event, source, changed) ==
  LET heard(v) == changed \cap w[v].triggers
      after(v) ==
        CASE v = source -> [w[v] EXCEPT !.state = @ \cup heard(v)]
          [] v # source /\ event = "after-command" ->
               [w[v] EXCEPT !.state = {}, !.changed = @ \cup w[v].triggers]
          [] OTHER -> [w[v] EXCEPT !.changed = @ \cup heard(v)]
  IN  IF NoRefresh(mode, event) THEN w ELSE [v \in Views |-> after(v)]

\* What watch_dirty returns ...
Dirty(w, v) == w[v].changed \ (w[v].state \cap IndexTriggers) # {}

\* ... and what it does.
Cleaned(w, v) ==
  [u \in Views |-> IF u = v THEN [w[u] EXCEPT !.changed = {}] ELSE w[u]]
===============================================================================
