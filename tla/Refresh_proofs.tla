----------------------------- MODULE Refresh_proofs -----------------------------
(***************************************************************************)
(* For any choice of the views, the kinds of change and the commands: with *)
(* refresh-mode auto a view that shows something else than the repository  *)
(* holds is marked, and the main and the status view do not disagree       *)
(* unless one of them is marked.                                           *)
(*                                                                         *)
(* The argument is about a program t over an index i.  While a handler     *)
(* runs, some kinds have changed and nobody has been told yet, and a view  *)
(* has lost its mark because it is going to be reloaded: Sound(t, i, Q, U) *)
(* leaves the kinds of Q and the views of U out.  Every step of a handler  *)
(* makes Q or U smaller or leaves them as they are, and what remains at    *)
(* its end is what has been reverted silently.                             *)
(***************************************************************************)
EXTENDS Refresh, TLAPS

\* Changes made in another mode are not told, so a way back to auto would lead
\* to views that are not marked.
AutoIsKept == "auto" \in NewModes => NewModes \cup {InitialMode} \subseteq {"auto", "periodic"}

\* Toggling show-untracked reloads the main view only if it is on the screen.
ToggleIsOutside == MayToggle => "untracked" \notin IndexKinds \ Outside

\* The changes of these kinds are told to all.
Tells(t) == "auto" \in NewModes \/ t.mode = "auto"

\* Kinds that only tig changes.
Tracked == (Kinds \ Outside) \ (IF MayToggle THEN {"untracked"} ELSE {})

Logs == {Main, Log} \cap Views

Registers(t) ==
  \A v \in t.loaded \ {Stage} :
    t.watch[v].triggers =
      TriggersOf(IF v = Main THEN Kinds ELSE IF v = Status THEN IndexKinds ELSE RefKinds)

\* A view says of the index what it shows, if anything.
Says(t) ==
  \A v \in {Main, Status} \cap Views :
    t.watch[v].state \subseteq Reports(IndexKinds, t.shown[v])

Differ(t, k) == (k \in t.shown[Main]) # (k \in t.shown[Status])

\* The main and the status view agree or one is marked.
Agree(t) ==
  {Main, Status} \subseteq t.loaded =>
    \A k \in Listed(t) : Differ(t, k) => IsDirty(t, Main) \/ IsDirty(t, Status)

\* What a view other than the stage view shows is up to date or it is marked.
Noticed(t, i, v, Q) ==
  v \in t.loaded => \A k \in Tracked \ Q : IsStale(t, i, v, k) => IsDirty(t, v)

Typed(t, i) ==
  /\ i \in Indices /\ t \in Tig
  /\ \A v \in Logs : t.behind[v] \subseteq RefKinds
  /\ Registers(t)
  /\ Says(t)
  /\ ~MayToggle => t.untracked
  /\ t.mode \in NewModes \cup {InitialMode}

Sound(t, i, Q, U) ==
  /\ Typed(t, i)
  /\ Tells(t) =>
       /\ U \cap {Main, Status} = {} => Agree(t)
       /\ \A v \in Views \ (U \cup {Stage}) : Noticed(t, i, v, Q)

\* Only the main view has the status view list nothing but untracked files.
OnlyForMain(t) ==
  t.only => {Main, Status} \subseteq Views /\ t.screen.parent[Status] = Main

\* The focus is on a view, and the main view is not the child of another.
ScreenOK(s) ==
  s \in D!Screens /\ D!Current(s) \in Views /\ (Main \in Views => s.child # Main)

Focused(t) == ScreenOK(t.screen)

Silent(t) == IF t.silent THEN IndexKinds \cap {"unstaged"} ELSE {}

IInv ==
  /\ Sound(tig, index, Silent(tig), {})
  /\ OnlyForMain(tig)
  /\ Focused(tig)

-------------------------------------------------------------------------------
(* Views and triggers.                                                     *)

LEMMA ViewsAre ==
  /\ \A v \in Views : v \in {Main, Status, Stage, Log} /\ v # NoView
  /\ \A v \in {Main, Status, Stage, Log} : v \in Views <=> v # NoView
  /\ NoView \notin Views
BY RefreshAssumption

LEMMA KindsAre ==
  /\ IndexKinds \subseteq Kinds /\ RefKinds \subseteq Kinds
  /\ IndexKinds \cap RefKinds = {} /\ Kinds = IndexKinds \cup RefKinds
  /\ NoKind \notin Kinds
BY WatchAssumption DEF Kinds, AllIndexKinds, NoKind

LEMMA TriggersAre ==
  /\ IndexTriggers \subseteq Triggers
  /\ \A k \in IndexKinds, b \in BOOLEAN : <<k, b>> \in IndexTriggers
  /\ \A k \in RefKinds : <<k, TRUE>> \in Triggers /\ <<k, TRUE>> \notin IndexTriggers
  /\ \A kinds : TriggersOf(kinds) \subseteq Triggers
  /\ \A kinds, x : x \in TriggersOf(kinds) <=> x \in Triggers /\ x[1] \in kinds
<1>1. \A k \in RefKinds : k \notin IndexKinds
  BY KindsAre
<1>2. QED
  BY <1>1 DEF Triggers, IndexTriggers, RefTriggers, TriggersOf

LEMMA ReportsAre ==
  ASSUME NEW kinds \in SUBSET IndexKinds, NEW present
  PROVE  /\ Reports(kinds, present) \subseteq IndexTriggers
         /\ \A k \in kinds : <<k, k \in present>> \in Reports(kinds, present)
         /\ \A k : \A b \in BOOLEAN :
              <<k, b>> \in Reports(kinds, present) => k \in kinds /\ b = (k \in present)
<1>1. \A k \in kinds : <<k, k \in present>> \in Reports(kinds, present)
  BY Zenon DEF Reports
<1>2. ASSUME NEW x \in Reports(kinds, present)
      PROVE  \E k \in kinds : x = <<k, k \in present>>
  BY <1>2, Zenon DEF Reports
<1>3. ASSUME NEW k \in kinds
      PROVE  <<k, k \in present>> \in IndexTriggers
  <2> DEFINE b == k \in present
  <2>1. b \in BOOLEAN
    OBVIOUS
  <2> HIDE DEF b
  <2>2. <<k, b>> \in IndexTriggers
    BY <2>1, TriggersAre
  <2>3. QED
    BY <2>2 DEF b
<1>4. ASSUME NEW k, NEW b \in BOOLEAN, <<k, b>> \in Reports(kinds, present)
      PROVE  k \in kinds /\ b = (k \in present)
  <2>1. PICK j \in kinds : <<k, b>> = <<j, j \in present>>
    BY <1>2, <1>4
  <2>2. k = j /\ b = (j \in present)
    BY <2>1
  <2>3. QED
    BY <2>2
<1>5. QED
  BY <1>1, <1>2, <1>3, <1>4, Zenon

\* What a watch that says what is shown does not mask.
LEMMA Heard ==
  ASSUME NEW w, NEW v, NEW shown, w[v].state \subseteq Reports(IndexKinds, shown),
         NEW k \in IndexKinds, NEW b \in BOOLEAN, b # (k \in shown),
         <<k, b>> \in w[v].changed
  PROVE  Dirty(w, v)
<1>1. ASSUME <<k, b>> \in Reports(IndexKinds, shown)
      PROVE  FALSE
  <2>1. \A j : \A c \in BOOLEAN :
          <<j, c>> \in Reports(IndexKinds, shown) => j \in IndexKinds /\ c = (j \in shown)
    BY ReportsAre
  <2>2. b = (k \in shown)
    BY <1>1, <2>1, Zenon
  <2>3. QED
    BY <2>2
<1>2. QED
  BY <1>1 DEF Dirty

LEMMA HeardRefs ==
  ASSUME NEW w, NEW v, NEW k \in RefKinds, <<k, TRUE>> \in w[v].changed
  PROVE  Dirty(w, v)
BY TriggersAre DEF Dirty

LEMMA StaysDirty ==
  ASSUME NEW w, NEW a, NEW v, Dirty(w, v),
         a[v].state = w[v].state, w[v].changed \subseteq a[v].changed
  PROVE  Dirty(a, v)
BY DEF Dirty

LEMMA TellsAll ==
  ASSUME AutoIsKept, NEW t, t.mode \in NewModes \cup {InitialMode}, Tells(t), NEW event
  PROVE  NoRefresh(t.mode, event) = FALSE
<1>1. t.mode \in {"auto", "periodic"}
  BY DEF AutoIsKept, Tells
<1>2. QED
  BY <1>1 DEF NoRefresh

-------------------------------------------------------------------------------
(* Telling the views.                                                      *)

\* Watch a is watch w that has heard of some changes.
Hears(w, a, source, changed, tells) ==
  /\ a \in [Views -> Watches]
  /\ \A v \in Views : a[v].triggers = w[v].triggers
  /\ \A v \in Views \ {source} :
       /\ a[v].state = w[v].state
       /\ w[v].changed \subseteq a[v].changed
       /\ tells => changed \cap w[v].triggers \subseteq a[v].changed
  /\ source \in Views =>
       /\ a[source].changed = w[source].changed
       /\ a[source].state \subseteq w[source].state \cup changed

LEMMA AppliedHears ==
  ASSUME NEW w \in [Views -> Watches], NEW mode, NEW event, NEW source,
         NEW changed \in SUBSET Triggers, event # "after-command",
         NEW a, a = Applied(w, mode, event, source, changed)
  PROVE  Hears(w, a, source, changed, ~NoRefresh(mode, event))
<1> DEFINE heard(v) == changed \cap w[v].triggers
           after(v) ==
             CASE v = source -> [w[v] EXCEPT !.state = @ \cup heard(v)]
               [] v # source /\ event = "after-command" ->
                    [w[v] EXCEPT !.state = {}, !.changed = @ \cup w[v].triggers]
               [] OTHER -> [w[v] EXCEPT !.changed = @ \cup heard(v)]
<1>1. a = IF NoRefresh(mode, event) THEN w ELSE [v \in Views |-> after(v)]
  BY DEF Applied
<1>2. ASSUME NEW v \in Views
      PROVE  /\ after(v) \in Watches /\ after(v).triggers = w[v].triggers
             /\ v # source =>
                  /\ after(v).state = w[v].state
                  /\ w[v].changed \subseteq after(v).changed
                  /\ changed \cap w[v].triggers \subseteq after(v).changed
             /\ v = source =>
                  /\ after(v).changed = w[v].changed
                  /\ after(v).state \subseteq w[v].state \cup changed
  <2>1. w[v] \in Watches
    OBVIOUS
  <2>2. CASE v = source
    BY <2>1, <2>2 DEF Watches
  <2>3. CASE v # source
    BY <2>1, <2>3 DEF Watches
  <2>4. QED
    BY <2>2, <2>3
<1> HIDE DEF after
<1>3. CASE NoRefresh(mode, event)
  BY <1>1, <1>3 DEF Hears
<1>4. CASE ~NoRefresh(mode, event)
  <2>1. a = [v \in Views |-> after(v)]
    BY <1>1, <1>4
  <2>2. QED
    BY <2>1, <1>2 DEF Hears
<1>5. QED
  BY <1>3, <1>4

LEMMA AppliedAfterCommand ==
  ASSUME NEW w \in [Views -> Watches], NEW mode, ~NoRefresh(mode, "after-command"),
         NEW a, a = Applied(w, mode, "after-command", NoView, Triggers)
  PROVE  /\ a \in [Views -> Watches]
         /\ \A v \in Views :
              /\ a[v].triggers = w[v].triggers /\ a[v].state = {}
              /\ w[v].triggers \subseteq a[v].changed
<1> DEFINE event == "after-command"
           heard(v) == Triggers \cap w[v].triggers
           after(v) ==
             CASE v = NoView -> [w[v] EXCEPT !.state = @ \cup heard(v)]
               [] v # NoView /\ event = "after-command" ->
                    [w[v] EXCEPT !.state = {}, !.changed = @ \cup w[v].triggers]
               [] OTHER -> [w[v] EXCEPT !.changed = @ \cup heard(v)]
<1>1. a = [v \in Views |-> after(v)]
  BY DEF Applied
<1>2. ASSUME NEW v \in Views
      PROVE  /\ after(v) \in Watches /\ after(v).triggers = w[v].triggers
             /\ after(v).state = {} /\ w[v].triggers \subseteq after(v).changed
  <2>1. w[v] \in Watches /\ v # NoView
    BY ViewsAre
  <2>2. QED
    BY <2>1 DEF Watches
<1> HIDE DEF after
<1>3. QED
  BY <1>1, <1>2
\* m differs from t in nothing that the views show.
SameViews(t, m) ==
  /\ m.mode = t.mode /\ m.untracked = t.untracked /\ m.loaded = t.loaded
  /\ m.shown = t.shown /\ m.behind = t.behind /\ m.only = t.only

\* ... nor in what is on the screen.
Same(t, m) ==
  SameViews(t, m) /\ m.screen = t.screen /\ m.silent = t.silent

\* The watches of m are those of t, with more marks.
MoreMarked(t, m) ==
  \A v \in Views :
    /\ m.watch[v].triggers = t.watch[v].triggers
    /\ m.watch[v].state = t.watch[v].state
    /\ t.watch[v].changed \subseteq m.watch[v].changed

LEMMA MarkedHears ==
  ASSUME NEW t \in Tig, NEW event, NEW source, NEW changed \in SUBSET Triggers,
         event # "after-command",
         NEW m, m = Marked(t, event, source, changed)
  PROVE  /\ m \in Tig /\ Same(t, m) /\ m.type = t.type
         /\ Hears(t.watch, m.watch, source, changed, ~NoRefresh(t.mode, event))
<1>1. PICK a : a = Applied(t.watch, t.mode, event, source, changed)
  OBVIOUS
<1>2. t.watch \in [Views -> Watches]
  BY DEF Tig
<1>3. Hears(t.watch, a, source, changed, ~NoRefresh(t.mode, event))
  BY <1>1, <1>2, AppliedHears
<1>4. m = [t EXCEPT !.watch = a] /\ a \in [Views -> Watches]
  BY <1>1, <1>3 DEF Marked, Hears
<1>5. m \in Tig /\ Same(t, m) /\ m.type = t.type /\ m.watch = a
  BY <1>4 DEF Tig, Same, SameViews
<1>6. QED
  BY <1>3, <1>5

LEMMA DirtyStays ==
  ASSUME NEW t, NEW m, MoreMarked(t, m), NEW v \in Views, IsDirty(t, v)
  PROVE  IsDirty(m, v)
BY StaysDirty DEF IsDirty, MoreMarked

LEMMA SameStale ==
  ASSUME NEW t, NEW m, SameViews(t, m)
  PROVE  /\ \A i, v, k : IsStale(m, i, v, k) = IsStale(t, i, v, k)
         /\ \A k : Differ(m, k) = Differ(t, k)
         /\ Listed(m) = Listed(t) /\ Tells(m) = Tells(t)
BY DEF SameViews, IsStale, MainHas, Differ, Listed, Tells

\* Marking more views does no harm.
LEMMA MoreMarkedIsSound ==
  ASSUME NEW t, NEW i, NEW Q, NEW U, Sound(t, i, Q, U),
         NEW m \in Tig, SameViews(t, m), MoreMarked(t, m)
  PROVE  Sound(m, i, Q, U)
<1>1. Typed(t, i)
  BY DEF Sound
<1>2. Typed(m, i)
  <2>1. m.loaded \subseteq Views
    BY DEF Tig
  <2>2. Registers(m)
    BY <1>1, <2>1 DEF Typed, Registers, SameViews, MoreMarked
  <2>3. Says(m)
    BY <1>1 DEF Typed, Says, SameViews, MoreMarked
  <2>4. QED
    BY <1>1, <2>2, <2>3 DEF Typed, SameViews
<1>3. ASSUME NEW v \in Views, Noticed(t, i, v, Q)
      PROVE  Noticed(m, i, v, Q)
  <2>1. SUFFICES ASSUME v \in m.loaded, NEW k \in Tracked \ Q, IsStale(m, i, v, k)
                 PROVE  IsDirty(m, v)
    BY DEF Noticed
  <2>2. v \in t.loaded /\ IsStale(t, i, v, k)
    BY <2>1, SameStale DEF SameViews
  <2>3. IsDirty(t, v)
    BY <1>3, <2>2 DEF Noticed
  <2>4. QED
    BY <2>3, DirtyStays
<1>4. ASSUME Agree(t)
      PROVE  Agree(m)
  <2>1. SUFFICES ASSUME {Main, Status} \subseteq m.loaded,
                        NEW k \in Listed(m), Differ(m, k)
                 PROVE  IsDirty(m, Main) \/ IsDirty(m, Status)
    BY DEF Agree
  <2>2. /\ {Main, Status} \subseteq t.loaded /\ k \in Listed(t) /\ Differ(t, k)
        /\ {Main, Status} \subseteq Views
    BY <2>1, SameStale DEF SameViews, Tig
  <2>3. IsDirty(t, Main) \/ IsDirty(t, Status)
    BY <1>4, <2>2 DEF Agree
  <2>4. QED
    BY <2>2, <2>3, DirtyStays
<1>5. Tells(m) = Tells(t)
  BY SameStale
<1>6. QED
  BY <1>2, <1>3, <1>4, <1>5 DEF Sound

LEMMA SoundIsTyped ==
  ASSUME NEW t, NEW i, NEW Q, NEW U, Sound(t, i, Q, U)
  PROVE  t \in Tig /\ i \in Indices /\ Typed(t, i)
BY DEF Sound, Typed

\* Marking views does no harm if no view is the source.
LEMMA MarkedIsSound ==
  ASSUME NEW t, NEW i, NEW Q, NEW U, Sound(t, i, Q, U),
         NEW event, event # "after-command", NEW source, source \notin Views,
         NEW changed \in SUBSET Triggers, NEW m, m = Marked(t, event, source, changed)
  PROVE  /\ Sound(m, i, Q, U) /\ Same(t, m) /\ m.type = t.type
         /\ Hears(t.watch, m.watch, source, changed, ~NoRefresh(t.mode, event))
<1>1. t \in Tig
  BY SoundIsTyped
<1>2. /\ m \in Tig /\ Same(t, m) /\ m.type = t.type
      /\ Hears(t.watch, m.watch, source, changed, ~NoRefresh(t.mode, event))
  BY <1>1, MarkedHears
<1>3. MoreMarked(t, m)
  BY <1>2 DEF Hears, MoreMarked
<1>4. QED
  BY <1>2, <1>3, MoreMarkedIsSound DEF Same
-------------------------------------------------------------------------------
(* Loading a view.                                                         *)

\* o is t with view v loaded, which has registered for some kinds and reported
\* what is present of others.
Reading(t, o, v, kinds, reported, present) ==
  /\ o \in Tig
  /\ o.mode = t.mode /\ o.untracked = t.untracked /\ o.only = t.only
  /\ o.screen = t.screen /\ o.silent = t.silent /\ o.type = t.type
  /\ o.loaded = t.loaded \cup {v}
  /\ o.shown[v] = present /\ o.behind[v] = {}
  /\ o.watch[v].triggers = TriggersOf(kinds)
  /\ o.watch[v].state \subseteq Reports(reported, present)
  /\ \A u \in Views \ {v} :
       /\ o.shown[u] = t.shown[u] /\ o.behind[u] = t.behind[u]
       /\ o.watch[u].triggers = t.watch[u].triggers
       /\ o.watch[u].state = t.watch[u].state
       /\ t.watch[u].changed \subseteq o.watch[u].changed
       /\ ~NoRefresh(t.mode, "load") =>
            Reports(reported, present) \cap t.watch[u].triggers \subseteq o.watch[u].changed

LEMMA ReadByReads ==
  ASSUME NEW t \in Tig, NEW v \in Views, NEW kinds,
         NEW reported \in SUBSET IndexKinds, NEW present \in SUBSET IndexKinds,
         NEW o, o = ReadBy(t, v, kinds, reported, present)
  PROVE  Reading(t, o, v, kinds, reported, present)
<1> DEFINE w == Registered(t.watch, v, kinds)
           shown == [u \in Views |-> IF u = v THEN present ELSE t.shown[u]]
           behind == [u \in Views |-> IF u = v THEN {} ELSE t.behind[u]]
<1>1. PICK begun : begun = [t EXCEPT !.watch = w]
  OBVIOUS
<1>2. PICK m : m = Marked(begun, "load", v, Reports(reported, present))
  OBVIOUS
<1>3. /\ t.watch \in [Views -> Watches]
      /\ t.shown \in [Views -> SUBSET IndexKinds] /\ t.behind \in [Views -> SUBSET Kinds]
  BY DEF Tig
<1>4. /\ w \in [Views -> Watches]
      /\ w[v].triggers = TriggersOf(kinds) /\ w[v].state = {}
      /\ \A u \in Views \ {v} : w[u] = t.watch[u]
  BY <1>3, TriggersAre DEF Registered, Watches
<1>5. begun \in Tig /\ begun.watch = w /\ begun.mode = t.mode
  BY <1>1, <1>4 DEF Tig
<1>6. Reports(reported, present) \in SUBSET Triggers
  BY ReportsAre, TriggersAre
<1>7. /\ m \in Tig /\ Same(begun, m) /\ m.type = begun.type
      /\ Hears(w, m.watch, v, Reports(reported, present), ~NoRefresh(t.mode, "load"))
  BY <1>2, <1>5, <1>6, MarkedHears
<1>8. /\ shown \in [Views -> SUBSET IndexKinds] /\ behind \in [Views -> SUBSET Kinds]
      /\ shown[v] = present /\ behind[v] = {}
      /\ \A u \in Views \ {v} : shown[u] = t.shown[u] /\ behind[u] = t.behind[u]
  BY <1>3
<1>9. /\ m.mode = t.mode /\ m.untracked = t.untracked /\ m.only = t.only
      /\ m.screen = t.screen /\ m.silent = t.silent /\ m.type = t.type
      /\ m.loaded = t.loaded
  BY <1>1, <1>7 DEF Same, SameViews, Tig
<1> DEFINE loaded == m.loaded \cup {v}
<1>10. o = [m EXCEPT !.loaded = loaded, !.shown = shown, !.behind = behind]
  BY <1>1, <1>2 DEF ReadBy
<1>15. loaded \in SUBSET Views
  BY <1>7 DEF Tig
<1> HIDE DEF w, shown, behind, loaded
<1>11. /\ o \in Tig
       /\ o.mode = m.mode /\ o.untracked = m.untracked /\ o.only = m.only
       /\ o.screen = m.screen /\ o.silent = m.silent /\ o.type = m.type
       /\ o.loaded = loaded /\ o.shown = shown /\ o.behind = behind
       /\ o.watch = m.watch
  BY <1>7, <1>8, <1>10, <1>15 DEF Tig
<1>12. /\ o.watch[v].triggers = TriggersOf(kinds)
       /\ o.watch[v].state \subseteq Reports(reported, present)
  BY <1>4, <1>7, <1>11 DEF Hears
<1>13. ASSUME NEW u \in Views \ {v}
       PROVE  /\ o.watch[u].triggers = t.watch[u].triggers
              /\ o.watch[u].state = t.watch[u].state
              /\ t.watch[u].changed \subseteq o.watch[u].changed
              /\ ~NoRefresh(t.mode, "load") =>
                   Reports(reported, present) \cap t.watch[u].triggers
                     \subseteq o.watch[u].changed
  BY <1>4, <1>7, <1>11 DEF Hears
<1>14. QED
  BY <1>8, <1>9, <1>11, <1>12, <1>13 DEF Reading, loaded

\* What view v registers for, reports and shows.
KindsOf(t, v) ==
  IF v = Main THEN Kinds ELSE IF v = Status THEN IndexKinds
  ELSE IF v = Stage THEN {t.type} ELSE RefKinds
ReportedBy(t, v) == IF v = Main THEN IndexKinds ELSE IF v = Status THEN Listed(t) ELSE {}
ShownBy(t, i, v) ==
  {k \in ReportedBy(t, v) : IF v = Main THEN MainHas(i, t, k) ELSE k \in Present(i)}

LEMMA OpenedReads ==
  ASSUME NEW t \in Tig, NEW i \in Indices, NEW v \in Views,
         NEW o, o = Opened(t, i, v)
  PROVE  Reading(t, o, v, KindsOf(t, v), ReportedBy(t, v), ShownBy(t, i, v))
<1>1. /\ ReportedBy(t, v) \in SUBSET IndexKinds
      /\ ShownBy(t, i, v) \in SUBSET IndexKinds
  BY DEF ReportedBy, ShownBy, Listed
<1>2. Present(i) \subseteq IndexKinds
  BY DEF Present
<1>3. ASSUME o = ReadBy(t, v, KindsOf(t, v), ReportedBy(t, v), ShownBy(t, i, v))
      PROVE  Reading(t, o, v, KindsOf(t, v), ReportedBy(t, v), ShownBy(t, i, v))
  BY <1>1, <1>3, ReadByReads
<1>4. CASE v = Main
  <2>1. Present(i) \ (IF t.untracked THEN {} ELSE {"untracked"}) = ShownBy(t, i, v)
    BY <1>2, <1>4 DEF ShownBy, ReportedBy, MainHas
  <2>4. o = MainOpened(t, i)
    BY <1>4, RefreshAssumption DEF Opened
  <2>5. MainOpened(t, i) = ReadBy(t, Main, Kinds, IndexKinds, ShownBy(t, i, v))
    BY <2>1, Zenon DEF MainOpened
  <2>2. o = ReadBy(t, v, KindsOf(t, v), ReportedBy(t, v), ShownBy(t, i, v))
    BY <1>4, <2>4, <2>5 DEF KindsOf, ReportedBy
  <2>3. QED
    BY <1>3, <2>2
<1>5. CASE v = Status
  <2>1. v # Main
    BY <1>5, RefreshAssumption
  <2>2. Listed(t) \cap Present(i) = ShownBy(t, i, v)
    BY <1>5, <2>1 DEF ShownBy, ReportedBy
  <2>5. o = StatusOpened(t, i)
    BY <1>5, RefreshAssumption DEF Opened
  <2>6. StatusOpened(t, i) = ReadBy(t, Status, IndexKinds, Listed(t), ShownBy(t, i, v))
    BY <2>2, Zenon DEF StatusOpened
  <2>3. o = ReadBy(t, v, KindsOf(t, v), ReportedBy(t, v), ShownBy(t, i, v))
    BY <1>5, <2>1, <2>5, <2>6 DEF KindsOf, ReportedBy
  <2>4. QED
    BY <1>3, <2>3
<1>6. CASE v = Log
  <2>1. v # Main /\ v # Status /\ v # Stage
    BY <1>6, RefreshAssumption
  <2>2. ShownBy(t, i, v) = {} /\ ReportedBy(t, v) = {} /\ KindsOf(t, v) = RefKinds
    BY <2>1 DEF ShownBy, ReportedBy, KindsOf
  <2>3. o = ReadBy(t, v, RefKinds, {}, {})
    BY <1>6, <2>1 DEF Opened, LogOpened
  <2>4. QED
    BY <1>3, <2>2, <2>3
<1>7. CASE v = Stage
  <2>1. v # Main /\ v # Status
    BY <1>7, RefreshAssumption
  <2>2. ShownBy(t, i, v) = {} /\ ReportedBy(t, v) = {} /\ KindsOf(t, v) = {t.type}
    BY <1>7, <2>1 DEF ShownBy, ReportedBy, KindsOf
  <2>3. PICK r : r = ReadBy(t, v, {t.type}, {}, {})
    OBVIOUS
  <2>4. Reading(t, r, v, {t.type}, {}, {})
    BY <2>3, ReadByReads
  <2>5. o = [r EXCEPT !.vid = t.selected, !.held = t.type,
                      !.empty = t.type \notin Present(i)]
    <3>1. o = StageOpened(t, i)
      BY <1>7, RefreshAssumption DEF Opened
    <3>2. QED
      BY <1>7, <2>3, <3>1, Zenon DEF StageOpened
  <2>6. /\ t.selected \in IndexKinds \cup {NoKind} /\ t.type \in IndexKinds \cup {NoKind}
        /\ r \in Tig
    BY <2>4 DEF Tig, Reading
  <2>7. o \in Tig
    BY <2>5, <2>6 DEF Tig
  <2>8. QED
    BY <2>2, <2>4, <2>5, <2>6, <2>7 DEF Reading, Tig
<1>8. QED
  BY <1>4, <1>5, <1>6, <1>7, ViewsAre
\* A view that is loaded shows what there is.
LEMMA OpenedIsTyped ==
  ASSUME NEW t, NEW i, Typed(t, i), NEW v \in Views,
         NEW o, Reading(t, o, v, KindsOf(t, v), ReportedBy(t, v), ShownBy(t, i, v))
  PROVE  Typed(o, i)
<1>1. t \in Tig /\ o \in Tig
  BY DEF Typed, Reading
<1>2. Registers(o)
  <2>1. SUFFICES ASSUME NEW u \in o.loaded \ {Stage}
                 PROVE  o.watch[u].triggers =
                          TriggersOf(IF u = Main THEN Kinds
                                     ELSE IF u = Status THEN IndexKinds ELSE RefKinds)
    BY DEF Registers
  <2>2. CASE u = v
    BY <2>1, <2>2 DEF Reading, KindsOf
  <2>3. CASE u # v
    <3>1. u \in t.loaded \ {Stage} /\ u \in Views
      BY <1>1, <2>1, <2>3 DEF Reading, Tig
    <3>2. o.watch[u].triggers = t.watch[u].triggers
      BY <2>3, <3>1 DEF Reading
    <3>3. QED
      BY <3>1, <3>2 DEF Typed, Registers
  <2>4. QED
    BY <2>2, <2>3
<1>3. Says(o)
  <2>1. SUFFICES ASSUME NEW u \in {Main, Status} \cap Views
                 PROVE  o.watch[u].state \subseteq Reports(IndexKinds, o.shown[u])
    BY DEF Says
  <2>2. CASE u = v
    <3>1. /\ o.watch[v].state \subseteq Reports(ReportedBy(t, v), ShownBy(t, i, v))
          /\ o.shown[v] = ShownBy(t, i, v)
      BY DEF Reading
    <3>2. ReportedBy(t, v) \subseteq IndexKinds
      BY DEF ReportedBy, Listed
    <3>3. Reports(ReportedBy(t, v), ShownBy(t, i, v)) \subseteq Reports(IndexKinds, ShownBy(t, i, v))
      BY <3>2, Zenon DEF Reports
    <3>4. QED
      BY <2>2, <3>1, <3>3
  <2>3. CASE u # v
    BY <2>1, <2>3 DEF Reading, Typed, Says
  <2>4. QED
    BY <2>2, <2>3
<1>4. \A u \in Logs : o.behind[u] \subseteq RefKinds
  BY DEF Logs, Typed, Reading
<1>5. QED
  BY <1>1, <1>2, <1>3, <1>4 DEF Typed, Reading

\* What the main or the status view u shows is not what v reports.
LEMMA ReportIsHeard ==
  ASSUME NEW t, NEW i, Typed(t, i), NEW v \in Views,
         NEW o, Reading(t, o, v, KindsOf(t, v), ReportedBy(t, v), ShownBy(t, i, v)),
         ~NoRefresh(t.mode, "load"),
         NEW u \in ({Main, Status} \cap t.loaded) \ {v},
         NEW k \in ReportedBy(t, v), (k \in t.shown[u]) # (k \in ShownBy(t, i, v))
  PROVE  IsDirty(o, u)
<1>1. u \in Views /\ u # Stage /\ t \in Tig
  BY RefreshAssumption DEF Typed, Tig
<1>2. ReportedBy(t, v) \subseteq IndexKinds
  BY DEF ReportedBy, Listed
<1>3. PICK b : b = (k \in ShownBy(t, i, v))
  OBVIOUS
<1>4. b \in BOOLEAN /\ k \in IndexKinds
  BY <1>2, <1>3
<1>5. <<k, b>> \in Reports(ReportedBy(t, v), ShownBy(t, i, v))
  BY <1>2, <1>3, ReportsAre
<1>6. <<k, b>> \in Triggers
  BY <1>4, TriggersAre
<1>7. <<k, b>> \in t.watch[u].triggers
  <2>1. k \in Kinds
    BY <1>4, KindsAre
  <2>2. /\ <<k, b>>[1] = k
        /\ <<k, b>> \in TriggersOf(Kinds) /\ <<k, b>> \in TriggersOf(IndexKinds)
    BY <1>4, <1>6, <2>1, TriggersAre
  <2>3. QED
    BY <1>1, <2>2 DEF Typed, Registers
<1>8. <<k, b>> \in o.watch[u].changed
  BY <1>1, <1>5, <1>7 DEF Reading
<1>9. o.watch[u].state \subseteq Reports(IndexKinds, t.shown[u])
  BY <1>1 DEF Reading, Typed, Says
<1>10. b # (k \in t.shown[u])
  BY <1>3
<1>11. QED
  BY <1>4, <1>8, <1>9, <1>10, Heard DEF IsDirty
LEMMA StaleAre ==
  ASSUME NEW t, NEW i, NEW k
  PROVE  /\ Main \in Views /\ k \in IndexKinds =>
              (IsStale(t, i, Main, k) <=> (k \in t.shown[Main]) # MainHas(i, t, k))
         /\ Main \in Views /\ k \notin IndexKinds =>
              (IsStale(t, i, Main, k) <=> k \in t.behind[Main])
         /\ Status \in Views =>
              (IsStale(t, i, Status, k) <=>
                 k \in Listed(t) /\ (k \in t.shown[Status]) # (k \in Present(i)))
         /\ Log \in Views => (IsStale(t, i, Log, k) <=> k \in t.behind[Log])
<1>1. /\ Status \in Views => Main # Status /\ Log # Status
      /\ Log \in Views => Log # Main /\ Log # Status
      /\ Main \in Views => Main # Status
  BY RefreshAssumption
<1>2. ASSUME Main \in Views, k \in IndexKinds
      PROVE  IsStale(t, i, Main, k) <=> (k \in t.shown[Main]) # MainHas(i, t, k)
  BY <1>1, <1>2 DEF IsStale
<1>3. Main \in Views /\ k \notin IndexKinds =>
        (IsStale(t, i, Main, k) <=> k \in t.behind[Main])
  BY <1>1 DEF IsStale
<1>4. Status \in Views =>
        (IsStale(t, i, Status, k) <=>
           k \in Listed(t) /\ (k \in t.shown[Status]) # (k \in Present(i)))
  BY <1>1 DEF IsStale
<1>5. Log \in Views => (IsStale(t, i, Log, k) <=> k \in t.behind[Log])
  BY <1>1 DEF IsStale
<1>6. QED
  BY <1>2, <1>3, <1>4, <1>5

LEMMA TrackedAreShown ==
  ASSUME NEW t, NEW i, Typed(t, i), NEW k \in Tracked
  PROVE  MainHas(i, t, k) = (k \in Present(i))
BY DEF Typed, Tracked, MainHas

LEMMA OpenedIsNoticed ==
  ASSUME NEW t, NEW i, Typed(t, i), NEW v \in Views \ {Stage},
         NEW o, Reading(t, o, v, KindsOf(t, v), ReportedBy(t, v), ShownBy(t, i, v)),
         NEW Q
  PROVE  Noticed(o, i, v, Q)
<1>1. SUFFICES ASSUME NEW k, IsStale(o, i, v, k)
               PROVE  FALSE
  BY DEF Noticed
<1>2. /\ o.shown[v] = ShownBy(t, i, v) /\ o.behind[v] = {}
      /\ o.only = t.only /\ o.untracked = t.untracked
  BY DEF Reading
<1>3. CASE v = Main
  <2>1. MainHas(i, o, k) = MainHas(i, t, k)
    BY <1>2 DEF MainHas
  <2>2. k \in IndexKinds => (k \in o.shown[v]) = MainHas(i, t, k)
    <3>1. ShownBy(t, i, v) = {j \in IndexKinds : MainHas(i, t, j)}
      BY <1>3 DEF ShownBy, ReportedBy
    <3>2. k \in IndexKinds => (k \in ShownBy(t, i, v) <=> MainHas(i, t, k))
      BY <3>1, Zenon
    <3>3. MainHas(i, t, k) \in BOOLEAN
      BY DEF MainHas
    <3>4. QED
      BY <1>2, <3>2, <3>3
  <2>3. QED
    BY <1>1, <1>2, <1>3, <2>1, <2>2, StaleAre
<1>4. CASE v = Status
  <2>1. v # Main /\ Listed(o) = Listed(t)
    BY <1>2, <1>4, RefreshAssumption DEF Listed
  <2>2. k \in Listed(o) => (k \in o.shown[v]) = (k \in Present(i))
    BY <1>2, <1>4, <2>1 DEF ShownBy, ReportedBy
  <2>3. QED
    BY <1>1, <1>4, <2>2, StaleAre
<1>5. CASE v = Log
  BY <1>1, <1>2, <1>5, StaleAre
<1>6. QED
  BY <1>3, <1>4, <1>5, ViewsAre

\* Loading a view tells the others of all that it reports, and takes the
\* reloaded view off the list of those that have lost their mark; what the main
\* view reports is all that the status view shows.
LEMMA OpenedIsSound ==
  ASSUME AutoIsKept, NEW t, NEW i, NEW Q, NEW U, Sound(t, i, Q, U),
         NEW v \in Views, U \subseteq IF v = Main THEN {Main, Status} ELSE {v},
         NEW o, o = Opened(t, i, v)
  PROVE  /\ Sound(o, i, Q \ ReportedBy(t, v), {})
         /\ o.screen = t.screen /\ o.silent = t.silent /\ o.mode = t.mode
         /\ o.only = t.only /\ o.untracked = t.untracked /\ o.type = t.type
<1>1. t \in Tig /\ i \in Indices /\ Typed(t, i)
  BY SoundIsTyped
<1>2. Reading(t, o, v, KindsOf(t, v), ReportedBy(t, v), ShownBy(t, i, v))
  BY <1>1, OpenedReads
<1>3. Typed(o, i)
  BY <1>1, <1>2, OpenedIsTyped
<1>4. /\ o.screen = t.screen /\ o.silent = t.silent /\ o.mode = t.mode
      /\ o.only = t.only /\ o.untracked = t.untracked /\ o.type = t.type
      /\ o.loaded = t.loaded \cup {v}
      /\ \A u \in Views \ {v} : o.shown[u] = t.shown[u] /\ o.behind[u] = t.behind[u]
  BY <1>2 DEF Reading
<1>5. Listed(o) = Listed(t) /\ Tells(o) = Tells(t) /\ \A k : MainHas(i, o, k) = MainHas(i, t, k)
  BY <1>4 DEF Listed, Tells, MainHas
<1>6. ReportedBy(t, v) \subseteq IndexKinds /\ Listed(t) \subseteq IndexKinds
  BY DEF ReportedBy, Listed
<1>7. t.loaded \subseteq Views /\ o.loaded \subseteq Views
  BY <1>1, <1>2 DEF Tig, Reading
<1>8. ASSUME NEW u \in Views \ {v}, IsDirty(t, u)
      PROVE  IsDirty(o, u)
  BY <1>2, <1>8, StaysDirty DEF IsDirty, Reading
<1>9. ASSUME Tells(t)
      PROVE  ~NoRefresh(t.mode, "load")
  BY <1>1, <1>9, TellsAll DEF Typed
<1>10. ASSUME Tells(t), NEW u \in Views \ {Stage}
       PROVE  Noticed(o, i, u, Q \ ReportedBy(t, v))
  <2>1. CASE u = v
    BY <1>1, <1>2, <1>10, <2>1, OpenedIsNoticed
  <2>2. CASE u # v
    <3>1. SUFFICES ASSUME u \in o.loaded, NEW k \in Tracked \ (Q \ ReportedBy(t, v)),
                          IsStale(o, i, u, k)
                   PROVE  IsDirty(o, u)
      BY DEF Noticed
    <3>2. u \in t.loaded
      BY <1>4, <2>2, <3>1
    <3>3. o.shown[u] = t.shown[u] /\ o.behind[u] = t.behind[u]
      BY <1>4, <1>10, <2>2
    <3>4. IsStale(t, i, u, k)
      BY <1>5, <3>1, <3>3 DEF IsStale
    <3>5. CASE k \in ReportedBy(t, v)
      <4>1. u # Log
        BY <1>1, <1>6, <1>10, <3>4, <3>5, StaleAre, KindsAre DEF Typed, Logs
      <4>2. u \in {Main, Status}
        BY <1>10, <4>1, ViewsAre
      <4>3. v \in {Main, Status}
        BY <3>5 DEF ReportedBy
      <4>4. (k \in ShownBy(t, i, v)) = (k \in Present(i))
        <5>1. k \in ShownBy(t, i, v) <=> IF v = Main THEN MainHas(i, t, k) ELSE k \in Present(i)
          BY <3>5 DEF ShownBy
        <5>2. MainHas(i, t, k) <=> k \in Present(i)
          BY <1>1, <3>1, TrackedAreShown
        <5>3. k \in ShownBy(t, i, v) <=> k \in Present(i)
          BY <5>1, <5>2
        <5>4. QED
          BY <5>3
      <4>5. (k \in t.shown[u]) # (k \in Present(i))
        <5>1. CASE u = Main
          BY <1>1, <1>6, <3>4, <3>5, <5>1, StaleAre, TrackedAreShown
        <5>2. CASE u = Status
          BY <1>10, <3>4, <5>2, StaleAre
        <5>3. QED
          BY <4>2, <5>1, <5>2
      <4>6. (k \in t.shown[u]) # (k \in ShownBy(t, i, v))
        BY <4>4, <4>5
      <4>7. QED
        BY <1>1, <1>2, <1>9, <1>10, <2>2, <3>2, <3>5, <4>2, <4>6, ReportIsHeard
    <3>6. CASE k \notin ReportedBy(t, v)
      <4>1. u \notin U
        <5>1. SUFFICES ASSUME u \in U
                       PROVE  FALSE
          OBVIOUS
        <5>2. v = Main /\ u = Status
          BY <2>2, <5>1
        <5>3. k \in IndexKinds
          BY <1>6, <1>10, <3>4, <5>2, StaleAre
        <5>4. QED
          BY <3>6, <5>2, <5>3 DEF ReportedBy
      <4>2. Noticed(t, i, u, Q)
        BY <1>10, <4>1 DEF Sound
      <4>3. IsDirty(t, u)
        BY <3>1, <3>2, <3>4, <3>6, <4>2 DEF Noticed
      <4>4. QED
        BY <1>8, <1>10, <2>2, <4>3
    <3>7. QED
      BY <3>5, <3>6
  <2>3. QED
    BY <2>1, <2>2
<1>11. ASSUME Tells(t)
       PROVE  Agree(o)
  <2>1. SUFFICES ASSUME {Main, Status} \subseteq o.loaded,
                        NEW k \in Listed(t), Differ(o, k)
                 PROVE  IsDirty(o, Main) \/ IsDirty(o, Status)
    BY <1>5 DEF Agree
  <2>2. {Main, Status} \subseteq Views /\ Main # Status
    BY <1>7, <2>1, RefreshAssumption
  <2>3. o.shown[v] = ShownBy(t, i, v)
    BY <1>2 DEF Reading
  <2>4. CASE v = Main
    <3>1. Status \in ({Main, Status} \cap t.loaded) \ {v}
      BY <1>4, <2>1, <2>2, <2>4
    <3>2. k \in ReportedBy(t, v)
      BY <1>6, <2>4 DEF ReportedBy
    <3>3. (k \in t.shown[Status]) # (k \in ShownBy(t, i, v))
      BY <1>4, <2>1, <2>2, <2>3, <2>4 DEF Differ
    <3>4. QED
      BY <1>1, <1>2, <1>9, <1>11, <3>1, <3>2, <3>3, ReportIsHeard
  <2>5. CASE v = Status
    <3>1. Main \in ({Main, Status} \cap t.loaded) \ {v}
      BY <1>4, <2>1, <2>2, <2>5
    <3>2. k \in ReportedBy(t, v)
      BY <2>2, <2>5 DEF ReportedBy
    <3>3. (k \in t.shown[Main]) # (k \in ShownBy(t, i, v))
      BY <1>4, <2>1, <2>2, <2>3, <2>5 DEF Differ
    <3>4. QED
      BY <1>1, <1>2, <1>9, <1>11, <3>1, <3>2, <3>3, ReportIsHeard
  <2>6. CASE v \notin {Main, Status}
    <3>1. Agree(t)
      BY <1>11, <2>6 DEF Sound
    <3>2. {Main, Status} \subseteq t.loaded /\ Differ(t, k)
      BY <1>4, <2>1, <2>2, <2>6 DEF Differ
    <3>3. IsDirty(t, Main) \/ IsDirty(t, Status)
      BY <2>1, <3>1, <3>2 DEF Agree
    <3>4. QED
      BY <1>8, <2>2, <2>6, <3>3
  <2>7. QED
    BY <2>4, <2>5, <2>6
<1>12. QED
  BY <1>3, <1>4, <1>5, <1>10, <1>11 DEF Sound
-------------------------------------------------------------------------------
(* Reloading.                                                              *)

\* What is on the screen, and what the user has set, is the same.
Kept(t, m) ==
  /\ m.silent = t.silent /\ m.mode = t.mode /\ m.only = t.only
  /\ m.untracked = t.untracked /\ m.type = t.type
  /\ m.screen.base = t.screen.base /\ m.screen.child = t.screen.child
  /\ m.screen.focus = t.screen.focus /\ m.screen.prev = t.screen.prev
  /\ m.screen.parent = t.screen.parent

LEMMA KeptIs ==
  ASSUME NEW t, NEW m, Kept(t, m)
  PROVE  /\ Current(m) = Current(t) /\ Displayed(m) = Displayed(t)
         /\ m \in Tig /\ Focused(t) => Focused(m)
         /\ OnlyForMain(t) => OnlyForMain(m)
         /\ Silent(m) = Silent(t) /\ Tells(m) = Tells(t) /\ Listed(m) = Listed(t)
         /\ \A v : ReportedBy(m, v) = ReportedBy(t, v)
<1>1. m \in Tig => m.screen \in D!Screens
  BY DEF Tig
<1>2. QED
  BY <1>1 DEF Kept, Current, D!Current, Displayed, D!Displayed, Focused, ScreenOK,
              OnlyForMain, Silent, Tells, Listed, ReportedBy

LEMMA KeptKept ==
  ASSUME NEW t, NEW m, NEW o, Kept(t, m), Kept(m, o)
  PROVE  Kept(t, o)
BY DEF Kept

\* Leaving out fewer kinds and views.
LEMMA SoundLess ==
  ASSUME NEW t, NEW i, NEW Q, NEW R, NEW U, NEW W, Sound(t, i, Q, U),
         Q \subseteq R, U \subseteq W
  PROVE  Sound(t, i, R, W)
<1>1. ASSUME NEW v, Noticed(t, i, v, Q)
      PROVE  Noticed(t, i, v, R)
  BY <1>1 DEF Noticed
<1>2. QED
  BY <1>1 DEF Sound

LEMMA StageIsLeftOut ==
  ASSUME NEW t, NEW i, NEW Q, Sound(t, i, Q, {Stage}), Stage \in Views
  PROVE  Sound(t, i, Q, {})
<1>1. {Stage} \cap {Main, Status} = {}
  BY RefreshAssumption
<1>2. QED
  BY <1>1 DEF Sound

\* Only what the views do not show is different.
LEMMA SameIsSound ==
  ASSUME NEW t, NEW i, NEW Q, NEW U, Sound(t, i, Q, U),
         NEW m \in Tig, SameViews(t, m), m.watch = t.watch
  PROVE  Sound(m, i, Q, U)
BY MoreMarkedIsSound DEF MoreMarked

LEMMA CleanedIsSound ==
  ASSUME NEW t, NEW i, NEW Q, Sound(t, i, Q, {}), NEW v \in Views,
         NEW c, c = WatchCleaned(t, v)
  PROVE  /\ Sound(c, i, Q, {v}) /\ Same(t, c) /\ c.type = t.type
         /\ ~IsDirty(t, v) => Sound(c, i, Q, {})
<1>1. PICK w : w = Cleaned(t.watch, v)
  OBVIOUS
<1>2. t \in Tig /\ Typed(t, i)
  BY SoundIsTyped
<1>3. t.watch \in [Views -> Watches] /\ t.loaded \subseteq Views
  BY <1>2 DEF Tig
<1>4. /\ w \in [Views -> Watches]
      /\ \A u \in Views : w[u].triggers = t.watch[u].triggers /\ w[u].state = t.watch[u].state
      /\ \A u \in Views \ {v} : w[u] = t.watch[u]
  BY <1>1, <1>3 DEF Cleaned, Watches
<1>5. c = [t EXCEPT !.watch = w]
  BY <1>1 DEF WatchCleaned
<1>6. c \in Tig /\ Same(t, c) /\ c.type = t.type /\ c.watch = w
  BY <1>2, <1>4, <1>5 DEF Tig, Same, SameViews
<1>7. Typed(c, i)
  <2>1. Registers(c)
    BY <1>2, <1>3, <1>4, <1>6 DEF Typed, Registers, Same, SameViews
  <2>2. Says(c)
    BY <1>2, <1>4, <1>6 DEF Typed, Says, Same, SameViews
  <2>3. QED
    BY <1>2, <1>6, <2>1, <2>2 DEF Typed, Same, SameViews
<1>8. ASSUME NEW u \in Views, IsDirty(t, u), u # v
      PROVE  IsDirty(c, u)
  BY <1>4, <1>6, <1>8 DEF IsDirty, Dirty
<1>9. SameViews(t, c) /\ Tells(c) = Tells(t) /\ Listed(c) = Listed(t)
  BY <1>6, SameStale DEF Same
<1>10. ASSUME Tells(t), NEW u \in Views \ {Stage}, u # v \/ ~IsDirty(t, v)
       PROVE  Noticed(c, i, u, Q)
  <2>1. Noticed(t, i, u, Q)
    BY <1>10 DEF Sound
  <2>2. SUFFICES ASSUME u \in c.loaded, NEW k \in Tracked \ Q, IsStale(c, i, u, k)
                 PROVE  IsDirty(c, u)
    BY DEF Noticed
  <2>3. IsStale(t, i, u, k) /\ u \in t.loaded
    BY <1>9, <2>2, SameStale DEF SameViews
  <2>4. IsDirty(t, u)
    BY <2>1, <2>2, <2>3 DEF Noticed
  <2>5. QED
    BY <1>8, <1>10, <2>4
<1>11. ASSUME Tells(t), v \notin {Main, Status} \/ ~IsDirty(t, v)
       PROVE  Agree(c)
  <2>1. SUFFICES ASSUME {Main, Status} \subseteq c.loaded,
                        NEW k \in Listed(t), Differ(c, k)
                 PROVE  IsDirty(c, Main) \/ IsDirty(c, Status)
    BY <1>9 DEF Agree
  <2>2. {Main, Status} \subseteq t.loaded /\ Differ(t, k) /\ {Main, Status} \subseteq Views
    BY <1>3, <1>9, <2>1, SameStale DEF SameViews
  <2>3. Agree(t)
    BY <1>11 DEF Sound
  <2>4. IsDirty(t, Main) \/ IsDirty(t, Status)
    BY <2>1, <2>2, <2>3 DEF Agree
  <2>5. QED
    BY <1>8, <1>11, <2>2, <2>4
<1>12. QED
  BY <1>6, <1>7, <1>9, <1>10, <1>11 DEF Sound

LEMMA ReloadedIsSound ==
  ASSUME AutoIsKept, NEW t, NEW i, NEW Q, NEW U, Sound(t, i, Q, U),
         NEW v \in Views, U \subseteq IF v = Main THEN {Main, Status} ELSE {v},
         NEW m, m = Reloaded(t, i, v)
  PROVE  Sound(m, i, Q \ ReportedBy(t, v), {}) /\ Kept(t, m)
<1>1. CASE ~CanLoad(t, v)
  <2>1. v = Stage /\ m = t
    BY <1>1 DEF CanLoad, Reloaded
  <2>2. v # Main /\ v # Status /\ ReportedBy(t, v) = {}
    BY <2>1, RefreshAssumption DEF ReportedBy
  <2>3. Q \ ReportedBy(t, v) = Q
    BY <2>2
  <2>4. Sound(t, i, Q, {Stage})
    BY <2>1, <2>2, SoundLess
  <2>5. Sound(t, i, Q, {})
    BY <2>1, <2>4, StageIsLeftOut
  <2>6. QED
    BY <2>1, <2>3, <2>5 DEF Kept
<1>2. CASE CanLoad(t, v)
  <2>1. PICK o : o = Opened(t, i, v)
    OBVIOUS
  <2>2. /\ Sound(o, i, Q \ ReportedBy(t, v), {})
        /\ o.screen = t.screen /\ o.silent = t.silent /\ o.mode = t.mode
        /\ o.only = t.only /\ o.untracked = t.untracked /\ o.type = t.type
    BY <2>1, OpenedIsSound
  <2>3. m = [o EXCEPT !.screen.reading = @ \/ v = Stage]
    BY <1>2, <2>1 DEF Reloaded
  <2>4. o \in Tig
    BY <2>2, SoundIsTyped
  <2>5. o.screen \in D!Screens
    BY <2>4 DEF Tig
  <2>6. PICK r : r = (o.screen.reading \/ v = Stage)
    OBVIOUS
  <2>7. PICK s : s = [o.screen EXCEPT !.reading = r]
    OBVIOUS
  <2>8. s \in D!Screens
    BY <2>5, <2>6, <2>7 DEF D!Screens
  <2>9. m = [o EXCEPT !.screen = s]
    BY <2>3, <2>4, <2>6, <2>7 DEF Tig
  <2>10. /\ m \in Tig /\ SameViews(o, m) /\ m.watch = o.watch
         /\ m.silent = o.silent /\ m.type = o.type /\ m.screen = s
    BY <2>4, <2>8, <2>9 DEF Tig, SameViews
  <2>11. Sound(m, i, Q \ ReportedBy(t, v), {})
    BY <2>2, <2>10, SameIsSound
  <2>12. QED
    BY <2>2, <2>5, <2>7, <2>10, <2>11 DEF Kept, SameViews, D!Screens
<1>3. QED
  BY <1>1, <1>2
LEMMA RefsLoadedIsSound ==
  ASSUME NEW t, NEW i, NEW Q, NEW U, Sound(t, i, Q, U), NEW m, m = RefsLoaded(t)
  PROVE  Sound(m, i, Q, U) /\ Kept(t, m)
<1> DEFINE kinds == t.ahead \cup (RefKinds \cap {"head"})
<1>1. t \in Tig
  BY SoundIsTyped
<1>2. kinds \subseteq RefKinds
  BY <1>1 DEF Tig
<1> HIDE DEF kinds
<1>3. Reports(kinds, RefKinds) \in SUBSET Triggers
  <2>1. ASSUME NEW x \in Reports(kinds, RefKinds)
        PROVE  x \in Triggers
    <3>1. PICK k \in kinds : x = <<k, k \in RefKinds>>
      BY <2>1, Zenon DEF Reports
    <3>2. x = <<k, TRUE>>
      BY <1>2, <3>1
    <3>3. QED
      BY <1>2, <3>2, TriggersAre
  <2>2. QED
    BY <2>1
<1>4. PICK r : r = Marked(t, "load", NoView, Reports(kinds, RefKinds))
  OBVIOUS
<1>5. Sound(r, i, Q, U) /\ Same(t, r) /\ r.type = t.type
  BY <1>3, <1>4, ViewsAre, MarkedIsSound
<1>6. m = [r EXCEPT !.ahead = {}]
  BY <1>4, Zenon DEF RefsLoaded, kinds
<1>7. r \in Tig
  BY <1>5, SoundIsTyped
<1>8. m \in Tig /\ Same(r, m) /\ m.watch = r.watch /\ m.type = r.type
  BY <1>6, <1>7 DEF Tig, Same, SameViews
<1>9. QED
  BY <1>5, <1>8, SameIsSound DEF Kept, Same, SameViews

LEMMA CheckedIsSound ==
  ASSUME NEW t, NEW i, NEW Q, NEW U, Sound(t, i, Q, U), NEW v \in Views,
         NEW m, m = Checked(t, v)
  PROVE  Sound(m, i, Q, U) /\ Same(t, m) /\ m.type = t.type
<1> DEFINE missed == TriggersOf(t.files) \cap (t.watch[v].triggers \ t.watch[v].changed)
           changed == t.watch[v].changed \cup missed
           files == t.files \ {k[1] : k \in missed}
<1>1. t \in Tig
  BY SoundIsTyped
<1>2. t.watch[v] \in Watches
  BY <1>1 DEF Tig
<1>3. changed \in SUBSET Triggers
  BY <1>2, TriggersAre DEF Watches
<1>4. files \in SUBSET RefKinds
  BY <1>1 DEF Tig
<1> HIDE DEF missed
<1>5. PICK r : r = Marked(t, "switch", NoView, changed)
  OBVIOUS
<1>6. m = IF NoRefresh(t.mode, "switch") THEN t ELSE [r EXCEPT !.files = @ \ {k[1] : k \in missed}]
  BY <1>5, Zenon DEF Checked, missed
<1> HIDE DEF changed
<1>7. Sound(r, i, Q, U) /\ Same(t, r) /\ r.type = t.type
  BY <1>3, <1>5, ViewsAre, MarkedIsSound
<1>8. r \in Tig
  BY <1>7, SoundIsTyped
<1>9. r.files \ {k[1] : k \in missed} \in SUBSET RefKinds
  BY <1>8 DEF Tig
<1>10. CASE NoRefresh(t.mode, "switch")
  BY <1>6, <1>10 DEF Same, SameViews
<1>11. CASE ~NoRefresh(t.mode, "switch")
  <2>1. PICK f \in SUBSET RefKinds : f = r.files \ {k[1] : k \in missed}
    BY <1>9
  <2>2. m = [r EXCEPT !.files = f]
    BY <1>6, <1>11, <2>1
  <2>3. m \in Tig /\ Same(r, m) /\ m.watch = r.watch /\ m.type = r.type
    BY <1>8, <2>2 DEF Tig, Same, SameViews
  <2>4. QED
    BY <1>7, <2>3, SameIsSound DEF Same, SameViews
<1>12. QED
  BY <1>10, <1>11

LEMMA PolledIsSound ==
  ASSUME AutoIsKept, NEW t, NEW i, NEW Q, Sound(t, i, Q, {}), NEW v \in Views,
         NEW first, NEW m, m = Polled(t, i, v, first)
  PROVE  Sound(m, i, Q, {}) /\ Kept(t, m)
<1>1. PICK c : c = WatchCleaned(t, v)
  OBVIOUS
<1>2. PICK r : r = IF first THEN RefsLoaded(c) ELSE c
  OBVIOUS
<1>3. /\ Sound(c, i, Q, {v}) /\ Kept(t, c)
      /\ ~IsDirty(t, v) => Sound(c, i, Q, {})
  BY <1>1, CleanedIsSound DEF Same, SameViews, Kept
<1>4. Sound(r, i, Q, {v}) /\ Kept(c, r)
  BY <1>2, <1>3, RefsLoadedIsSound DEF Kept
<1>5. CASE ~IsDirty(t, v)
  <2>1. m = c
    BY <1>1, <1>5 DEF Polled
  <2>2. QED
    BY <1>3, <1>5, <2>1
<1>6. CASE IsDirty(t, v)
  <2>1. m = Reloaded(r, i, v)
    BY <1>1, <1>2, <1>6, Zenon DEF Polled
  <2>2. {v} \subseteq IF v = Main THEN {Main, Status} ELSE {v}
    OBVIOUS
  <2>3. Sound(m, i, Q \ ReportedBy(r, v), {}) /\ Kept(r, m)
    BY <1>4, <2>1, <2>2, ReloadedIsSound
  <2>4. Sound(m, i, Q, {})
    BY <2>3, SoundLess
  <2>5. QED
    BY <1>3, <1>4, <2>3, <2>4, KeptKept
<1>7. QED
  BY <1>5, <1>6

\* Going round the input loop does no harm.
LEMMA InputIsSound ==
  ASSUME AutoIsKept, NEW t, NEW i, NEW Q, Sound(t, i, Q, {}),
         NEW m, m = Input(t, i)
  PROVE  Sound(m, i, Q, {}) /\ Kept(t, m)
<1>1. CASE m = t
  BY <1>1 DEF Kept
<1>2. CASE m # t
  <2> DEFINE base == t.screen.base
             child == t.screen.child
  <2>1. t \in Tig
    BY SoundIsTyped
  <2>2. base \in Views /\ child \in Views \cup {NoView}
    BY <2>1 DEF Tig, D!Screens
  <2>3. PICK once : once = Polled(t, i, base, TRUE)
    OBVIOUS
  <2>4. Sound(once, i, Q, {}) /\ Kept(t, once)
    BY <2>2, <2>3, PolledIsSound
  <2>5. m = IF child = NoView \/ child = base THEN once
            ELSE Polled(once, i, child, ~IsDirty(t, base))
    BY <1>2, <2>3, Zenon DEF Input, PolledAll
  <2>6. CASE child = NoView \/ child = base
    BY <2>4, <2>5, <2>6
  <2>7. CASE ~(child = NoView \/ child = base)
    <3>1. PICK first : first = ~IsDirty(t, base)
      OBVIOUS
    <3>2. m = Polled(once, i, child, first) /\ child \in Views
      BY <2>2, <2>5, <2>7, <3>1
    <3>3. Sound(m, i, Q, {}) /\ Kept(once, m)
      BY <2>4, <3>2, PolledIsSound
    <3>4. QED
      BY <2>4, <3>3, KeptKept
  <2>8. QED
    BY <2>6, <2>7
<1>3. QED
  BY <1>1, <1>2
-------------------------------------------------------------------------------
(* Opening views.                                                          *)

\* m has screen s, and is otherwise as t.
Screened(t, m, s) ==
  /\ m.screen = s
  /\ m.silent = t.silent /\ m.mode = t.mode /\ m.only = t.only
  /\ m.untracked = t.untracked

LEMMA ScreenIsSound ==
  ASSUME NEW t, NEW i, NEW Q, NEW U, Sound(t, i, Q, U), NEW s \in D!Screens,
         NEW m, m = [t EXCEPT !.screen = s]
  PROVE  Sound(m, i, Q, U) /\ Screened(t, m, s) /\ m.type = t.type /\ m.shown = t.shown
<1>1. t \in Tig
  BY SoundIsTyped
<1>2. m \in Tig /\ SameViews(t, m) /\ m.watch = t.watch /\ m.type = t.type
      /\ Screened(t, m, s)
  BY <1>1 DEF Tig, SameViews, Screened
<1>3. QED
  BY <1>2, SameIsSound DEF SameViews

Decides(t, v, anew, outcome) ==
  /\ outcome \in {"loads", "fails", "shows"}
  /\ outcome = "fails" => v = Stage
  /\ anew /\ v # Stage => outcome = "loads"
  /\ outcome = "shows" => IsFresh(t, v, anew) \/ ~IsDirty(Checked(t, v), v)

LEMMA OutcomeIs ==
  ASSUME NEW t, NEW v, NEW anew \in BOOLEAN,
         NEW outcome, outcome = Outcome(t, v, anew)
  PROVE  Decides(t, v, anew, outcome)
BY DEF Outcome, CanLoad, Decides

LEMMA ViewedIsSound ==
  ASSUME AutoIsKept, NEW t, NEW i, NEW Q, NEW U, Sound(t, i, Q, U),
         NEW v \in Views, NEW anew \in BOOLEAN,
         U = {} \/ (U = {v} /\ anew /\ v # Stage),
         NEW s \in D!Screens, NEW m, m = Viewed(t, i, v, anew, s)
  PROVE  Sound(m, i, Q, {}) /\ Screened(t, m, s)
<1> DEFINE fresh == IsFresh(t, v, anew)
           outcome == Outcome(t, v, anew)
<1>1. PICK checked : checked = IF fresh THEN t ELSE WatchCleaned(Checked(t, v), v)
  OBVIOUS
<1>2. PICK opened : opened = IF outcome = "loads" THEN Opened(checked, i, v) ELSE checked
  OBVIOUS
<1>3. m = [opened EXCEPT !.screen = s]
  BY <1>1, <1>2, Zenon DEF Viewed
<1>4. /\ outcome \in {"loads", "fails", "shows"}
      /\ outcome = "fails" => v = Stage
      /\ anew /\ v # Stage => outcome = "loads"
      /\ outcome = "shows" => fresh \/ ~IsDirty(Checked(t, v), v)
  <2>1. PICK o : o = Outcome(t, v, anew)
    OBVIOUS
  <2>2. Decides(t, v, anew, o)
    BY <2>1, OutcomeIs
  <2>3. QED
    BY <2>1, <2>2, Zenon DEF Decides
<1>5. ~fresh => U = {}
  BY DEF IsFresh
<1> HIDE DEF fresh, outcome
<1>6. /\ Sound(checked, i, Q, {v}) /\ outcome # "loads" => Sound(checked, i, Q, {})
      /\ Sound(checked, i, Q, {v})
      /\ Screened(t, checked, t.screen)
  <2>1. CASE fresh
    <3>1. checked = t
      BY <1>1, <2>1
    <3>2. Sound(t, i, Q, {v})
      BY SoundLess
    <3>3. outcome # "loads" => U = {}
      BY <1>4
    <3>4. QED
      BY <3>1, <3>2, <3>3 DEF Screened
  <2>2. CASE ~fresh
    <3>1. PICK c : c = Checked(t, v)
      OBVIOUS
    <3>2. Sound(t, i, Q, {}) /\ checked = WatchCleaned(c, v)
      BY <1>1, <1>5, <2>2, <3>1
    <3>3. Sound(c, i, Q, {}) /\ Same(t, c)
      BY <3>1, <3>2, CheckedIsSound
    <3>4. /\ Sound(checked, i, Q, {v}) /\ Same(c, checked)
          /\ ~IsDirty(c, v) => Sound(checked, i, Q, {})
      BY <3>2, <3>3, CleanedIsSound
    <3>5. outcome = "fails" => Sound(checked, i, Q, {})
      BY <1>4, <3>4, StageIsLeftOut
    <3>6. Screened(t, checked, t.screen)
      BY <3>3, <3>4 DEF Same, SameViews, Screened
    <3>7. QED
      BY <1>4, <2>2, <3>1, <3>4, <3>5, <3>6
  <2>3. QED
    BY <2>1, <2>2
<1>7. Sound(opened, i, Q, {}) /\ Screened(t, opened, t.screen)
  <2>1. CASE outcome = "loads"
    <3>1. opened = Opened(checked, i, v)
      BY <1>2, <2>1
    <3>2. {v} \subseteq IF v = Main THEN {Main, Status} ELSE {v}
      OBVIOUS
    <3>3. /\ Sound(opened, i, Q \ ReportedBy(checked, v), {})
          /\ Screened(checked, opened, checked.screen)
      BY <1>6, <3>1, <3>2, OpenedIsSound DEF Screened
    <3>4. Sound(opened, i, Q, {})
      BY <3>3, SoundLess
    <3>5. QED
      BY <1>6, <3>3, <3>4 DEF Screened
  <2>2. CASE outcome # "loads"
    BY <1>2, <1>6, <2>2
  <2>3. QED
    BY <2>1, <2>2
<1>8. Sound(m, i, Q, {}) /\ Screened(opened, m, s)
  BY <1>3, <1>7, ScreenIsSound
<1>9. QED
  BY <1>7, <1>8 DEF Screened
-------------------------------------------------------------------------------
(* Screens.                                                                *)

\* Screen o is sound, and of the parents that of v alone may differ.
Adopts(s, o, v) ==
  ScreenOK(o) /\ \A u \in Views \ {v} : o.parent[u] = s.parent[u]

LEMMA MaximizedScreen ==
  ASSUME NEW s \in D!Screens, NEW v \in Views, NEW o, o = D!Maximized(s, v)
  PROVE  ScreenOK(o) /\ o.parent = s.parent /\ o.child = NoView /\ o.base = v
<1>1. o \in D!Screens /\ o.parent = s.parent /\ o.child = NoView /\ o.focus = 0 /\ o.base = v
  BY DEF D!Maximized, D!Screens
<1>2. QED
  BY <1>1, ViewsAre DEF ScreenOK, D!Current

LEMMA LoadedScreen ==
  ASSUME NEW s, ScreenOK(s), NEW from \in Views, NEW v \in Views,
         NEW split \in BOOLEAN, split => v # Main,
         NEW outcome, NEW o, o = D!Loaded(s, from, v, split, outcome)
  PROVE  /\ Adopts(s, o, v)
         /\ split /\ outcome # "fails" => o.parent[v] = from
<1> DEFINE linked == IF v # from THEN [s EXCEPT !.prev[v] = from] ELSE s
           begun == IF v = Stage /\ outcome = "loads"
                      THEN [linked EXCEPT !.reading = TRUE] ELSE linked
<1>1. s \in D!Screens
  BY DEF ScreenOK
<1>2. /\ linked \in D!Screens /\ linked.base = s.base /\ linked.child = s.child
      /\ linked.focus = s.focus /\ linked.parent = s.parent
  BY <1>1 DEF D!Screens
<1>3. /\ begun \in D!Screens /\ begun.base = s.base /\ begun.child = s.child
      /\ begun.focus = s.focus /\ begun.parent = s.parent
  BY <1>2 DEF D!Screens
<1>4. o = IF outcome = "fails" THEN linked
          ELSE IF split THEN D!SplitBy(begun, from, v)
          ELSE D!Maximized(begun, v)
  BY DEF D!Loaded
<1> HIDE DEF linked, begun
<1>5. CASE outcome = "fails"
  BY <1>2, <1>4, <1>5 DEF ScreenOK, D!Current, Adopts
<1>6. CASE outcome # "fails" /\ split
  <2>1. o = [begun EXCEPT !.child = v, !.focus = 1, !.parent[v] = from]
    BY <1>4, <1>6 DEF D!SplitBy
  <2>2. PICK p : p = [s.parent EXCEPT ![v] = from]
    OBVIOUS
  <2>3. /\ p \in [Views -> Views \cup {NoView}]
        /\ p[v] = from /\ \A u \in Views \ {v} : p[u] = s.parent[u]
    BY <1>1, <2>2 DEF D!Screens
  <2>4. o = [begun EXCEPT !.child = v, !.focus = 1, !.parent = p]
    BY <1>3, <2>1, <2>2 DEF D!Screens
  <2>5. o \in D!Screens /\ o.child = v /\ o.focus = 1 /\ o.parent = p
    BY <1>3, <2>3, <2>4 DEF D!Screens
  <2>6. v # Main
    BY <1>6
  <2>7. D!Current(o) \in Views
    BY <2>5 DEF D!Current
  <2>8. ScreenOK(o)
    BY <2>5, <2>6, <2>7 DEF ScreenOK
  <2>9. QED
    BY <2>3, <2>5, <2>8 DEF Adopts
<1>7. CASE outcome # "fails" /\ ~split
  BY <1>3, <1>4, <1>7, MaximizedScreen DEF Adopts
<1>8. QED
  BY <1>5, <1>6, <1>7

LEMMA OpenedScreen ==
  ASSUME NEW s, ScreenOK(s), NEW from \in Views, NEW v \in Views,
         NEW split \in BOOLEAN, split => v # Main, NEW reload \in BOOLEAN,
         NEW outcome, NEW o, o = D!Opened(s, from, v, split, reload, outcome)
  PROVE  /\ Adopts(s, o, v)
         /\ split /\ outcome # "fails" /\ v # from /\ from # s.child => o.parent[v] = from
<1> DEFINE opener == IF s.parent[from] # NoView /\ from = s.child THEN s.parent[from] ELSE from
           alone == [s EXCEPT !.parent[v] = NoView]
           orphaned == IF v # s.base THEN alone ELSE s
<1>1. s \in D!Screens
  BY DEF ScreenOK
<1>2. /\ alone \in D!Screens /\ alone.base = s.base /\ alone.child = s.child
      /\ alone.focus = s.focus
      /\ \A u \in Views \ {v} : alone.parent[u] = s.parent[u]
  BY <1>1 DEF D!Screens
<1>3. ScreenOK(alone) /\ ScreenOK(orphaned)
  BY <1>2 DEF ScreenOK, D!Current
<1>4. \A u \in Views \ {v} : orphaned.parent[u] = s.parent[u]
  BY <1>2
<1>5. opener \in Views
  BY <1>1 DEF D!Screens
<1>6. o = IF v = from /\ s.child = NoView /\ ~reload THEN alone
          ELSE D!Loaded(orphaned, opener, v, split, outcome)
  BY DEF D!Opened
<1>7. from # s.child => opener = from
  OBVIOUS
<1> HIDE DEF opener, alone, orphaned
<1>8. CASE v = from /\ s.child = NoView /\ ~reload
  BY <1>2, <1>3, <1>6, <1>8 DEF Adopts
<1>9. CASE ~(v = from /\ s.child = NoView /\ ~reload)
  <2>1. o = D!Loaded(orphaned, opener, v, split, outcome)
    BY <1>6, <1>9
  <2>2. /\ Adopts(orphaned, o, v)
        /\ split /\ outcome # "fails" => o.parent[v] = opener
    BY <1>3, <1>5, <2>1, LoadedScreen
  <2>3. QED
    BY <1>4, <1>7, <2>2 DEF Adopts
<1>10. QED
  BY <1>8, <1>9

\* The Enter key of the main view and of the status view.
LEMMA EnteredScreen ==
  ASSUME NEW s, ScreenOK(s), NEW v \in {Main, Status} \cap Views,
         NEW w \in Views \ {Main}, NEW outcome,
         NEW o, o = D!Entered(s, v, w, outcome)
  PROVE  /\ ScreenOK(o)
         /\ w # Status /\ Status \in Views => o.parent[Status] = s.parent[Status]
         /\ w = Status /\ v = Main /\ outcome # "fails" => o.parent[Status] = Main
<1> DEFINE shown == v \in D!Displayed(s)
           split == \/ shown
                    \/ v = NoView
                    \/ v = Main /\ (w # NoView \/ NoView \notin D!Displayed(s))
           front == v = Main /\ (IF shown THEN s.base # v ELSE split)
           alone == [D!Maximized(s, v) EXCEPT !.parent[v] = NoView]
           from == IF front THEN alone ELSE s
<1>1. PICK p \in BOOLEAN : p = split
  OBVIOUS
<1>14. o = D!Opened(from, v, w, split, FALSE, outcome)
  BY Zenon DEF D!Entered
<1>15. PICK r \in BOOLEAN : r = FALSE
  OBVIOUS
<1>2. o = D!Opened(from, v, w, p, r, outcome)
  BY <1>1, <1>14, <1>15
<1>3. PICK m : m = D!Maximized(s, v)
  OBVIOUS
<1>4. ScreenOK(m) /\ m.parent = s.parent /\ m.child = NoView
  BY <1>3, MaximizedScreen DEF ScreenOK
<1>5. alone = [m EXCEPT !.parent[v] = NoView] /\ m \in D!Screens /\ m.parent \in [Views -> Views \cup {NoView}]
  BY <1>3, <1>4 DEF ScreenOK, D!Screens
<1>6. /\ alone \in D!Screens /\ alone.base = m.base /\ alone.child = NoView
      /\ alone.focus = m.focus
      /\ \A u \in Views \ {v} : alone.parent[u] = s.parent[u]
  BY <1>4, <1>5 DEF D!Screens
<1>7. ScreenOK(alone)
  BY <1>4, <1>6 DEF ScreenOK, D!Current
<1>8. v = Main => split
  BY ViewsAre
<1>9. /\ ScreenOK(from) /\ v = Main => v # from.child
      /\ \A u \in Views \ {Main} : from.parent[u] = s.parent[u]
  BY <1>6, <1>7, ViewsAre DEF ScreenOK
<1>10. ScreenOK(from)
  BY <1>7
<1> HIDE DEF split, from
<1>16. v \in Views /\ w \in Views /\ w # Main
  OBVIOUS
<1>11. /\ Adopts(from, o, w)
       /\ p /\ outcome # "fails" /\ w # v /\ v # from.child => o.parent[w] = v
  BY <1>2, <1>10, <1>16, OpenedScreen
<1>12. Status \in Views => Status # Main
  BY RefreshAssumption
<1>17. w # Status /\ Status \in Views => o.parent[Status] = s.parent[Status]
  BY <1>9, <1>11, <1>12 DEF Adopts
<1>18. ASSUME w = Status, v = Main, outcome # "fails"
       PROVE  o.parent[Status] = Main
  <2>1. p = TRUE
    BY <1>1, <1>8, <1>18
  <2>2. v # from.child
    BY <1>9, <1>10, <1>18
  <2>3. QED
    BY <1>11, <1>16, <1>18, <2>1, <2>2
<1>13. QED
  BY <1>11, <1>17, <1>18 DEF Adopts
-------------------------------------------------------------------------------
(* What the requests consist of.                                           *)

Fine(t, i, Q) == Sound(t, i, Q, {}) /\ OnlyForMain(t) /\ Focused(t)

LEMMA FineLess ==
  ASSUME NEW t, NEW i, NEW Q, NEW R, Fine(t, i, Q), Q \subseteq R
  PROVE  Fine(t, i, R)
BY SoundLess DEF Fine

LEMMA KeptIsFine ==
  ASSUME NEW t, NEW m, NEW i, NEW Q, OnlyForMain(t), Focused(t), Kept(t, m), Sound(m, i, Q, {})
  PROVE  Fine(m, i, Q) /\ Silent(m) = Silent(t)
BY KeptIs, SoundIsTyped DEF Fine

\* What is not on the screen and not in the views differs.
LEMMA SameIsFine ==
  ASSUME NEW t, NEW i, NEW Q, Fine(t, i, Q), NEW m \in Tig, Same(t, m), m.watch = t.watch
  PROVE  Fine(m, i, Q) /\ Silent(m) = Silent(t)
<1>1. Sound(m, i, Q, {})
  BY SameIsSound DEF Fine, Same
<1>2. QED
  BY <1>1 DEF Fine, Same, SameViews, OnlyForMain, Focused, Silent

LEMMA ScreenIsFine ==
  ASSUME NEW t, NEW m, NEW i, NEW Q, NEW s, OnlyForMain(t), Screened(t, m, s), ScreenOK(s),
         Status \in Views => s.parent[Status] = t.screen.parent[Status],
         Sound(m, i, Q, {})
  PROVE  Fine(m, i, Q) /\ Silent(m) = Silent(t)
BY DEF Fine, Screened, OnlyForMain, Focused, Silent

LEMMA ReloadedIsFine ==
  ASSUME AutoIsKept, NEW t, NEW i, NEW Q, Fine(t, i, Q), NEW v \in Views,
         NEW m, m = Reloaded(t, i, v)
  PROVE  Fine(m, i, Q) /\ Silent(m) = Silent(t) /\ Kept(t, m)
<1>1. Sound(m, i, Q \ ReportedBy(t, v), {}) /\ Kept(t, m)
  BY ReloadedIsSound DEF Fine
<1>2. Fine(m, i, Q \ ReportedBy(t, v)) /\ Silent(m) = Silent(t)
  BY <1>1, KeptIsFine DEF Fine
<1>3. QED
  BY <1>1, <1>2, FineLess

LEMMA ClosedIsFine ==
  ASSUME NEW t, NEW i, NEW Q, Fine(t, i, Q), NEW m, m = Closed(t)
  PROVE  Fine(m, i, Q) /\ Silent(m) = Silent(t)
<1> DEFINE v == Current(t)
           prev == t.screen.prev[v]
<1>1. t \in Tig /\ t.screen \in D!Screens /\ v \in Views
  BY SoundIsTyped DEF Fine, Focused, ScreenOK, Current
<1>2. prev \in Views \cup {NoView}
  BY <1>1 DEF D!Screens
<1> HIDE DEF v
<1>3. CASE prev \in {NoView, v}
  <2>1. m = [t EXCEPT !.running = FALSE]
    BY <1>3 DEF Closed, v
  <2>2. m \in Tig /\ Same(t, m) /\ m.watch = t.watch
    BY <1>1, <2>1 DEF Tig, Same, SameViews
  <2>3. QED
    BY <2>2, SameIsFine
<1>4. CASE prev \notin {NoView, v}
  <2>1. PICK stopped : stopped = D!Stopped(t.screen, v)
    OBVIOUS
  <2>2. stopped \in D!Screens /\ stopped.parent = t.screen.parent
    BY <1>1, <2>1 DEF D!Stopped, D!Screens
  <2>3. PICK front : front = D!Maximized(stopped, prev)
    OBVIOUS
  <2>4. ScreenOK(front) /\ front.parent = t.screen.parent
    BY <1>2, <1>4, <2>2, <2>3, MaximizedScreen
  <2>5. PICK s : s = [front EXCEPT !.prev[v] = v]
    OBVIOUS
  <2>6. front \in D!Screens
    BY <2>4 DEF ScreenOK
  <2>7. /\ s \in D!Screens /\ s.parent = front.parent /\ s.base = front.base
        /\ s.child = front.child /\ s.focus = front.focus
    BY <1>1, <2>5, <2>6 DEF D!Screens
  <2>8. ScreenOK(s)
    BY <2>4, <2>7 DEF ScreenOK, D!Current
  <2>9. m = [t EXCEPT !.screen = s]
    BY <1>4, <2>1, <2>3, <2>5, Zenon DEF Closed, v
  <2>10. Sound(m, i, Q, {}) /\ Screened(t, m, s)
    BY <2>7, <2>9, ScreenIsSound DEF Fine
  <2>11. QED
    BY <2>4, <2>7, <2>8, <2>10, ScreenIsFine DEF Fine
<1>5. QED
  BY <1>3, <1>4

\* What the status view's requests end with tells of all changes of the index.
LEMMA StatusAfterIsFine ==
  ASSUME AutoIsKept, NEW t, NEW i, NEW Q, NEW U, Sound(t, i, Q, U),
         OnlyForMain(t), Focused(t), Status \in Views, U \subseteq {Status},
         NEW m, m = StatusAfter(t, i)
  PROVE  Fine(m, i, Q \ IndexKinds) /\ Silent(m) = Silent(t)
<1>1. CASE t.only /\ t.screen.parent[Status] = Main
  <2>1. Main \in Views
    BY <1>1 DEF OnlyForMain
  <2>2. PICK r : r = Reloaded(t, i, Main)
    OBVIOUS
  <2>3. U \subseteq IF Main = Main THEN {Main, Status} ELSE {Main}
    OBVIOUS
  <2>4. Sound(r, i, Q \ IndexKinds, {}) /\ Kept(t, r)
    <3>1. ReportedBy(t, Main) = IndexKinds
      BY DEF ReportedBy
    <3>2. QED
      BY <2>1, <2>2, <2>3, <3>1, ReloadedIsSound
  <2>5. Fine(r, i, Q \ IndexKinds) /\ Silent(r) = Silent(t)
    BY <2>4, KeptIsFine
  <2>6. m = Reloaded(r, i, Status) \/ m = Closed(r)
    BY <1>1, <2>2 DEF StatusAfter
  <2>7. CASE m = Reloaded(r, i, Status)
    <3>1. PICK R : R = Q \ IndexKinds
      OBVIOUS
    <3>2. Fine(r, i, R)
      BY <2>5, <3>1
    <3>3. Fine(m, i, R) /\ Silent(m) = Silent(r)
      BY <2>7, <3>2, ReloadedIsFine
    <3>4. QED
      BY <2>5, <3>1, <3>3
  <2>8. CASE m = Closed(r)
    <3>1. Fine(m, i, Q \ IndexKinds) /\ Silent(m) = Silent(r)
      BY <2>5, <2>8, ClosedIsFine
    <3>2. QED
      BY <2>5, <3>1
  <2>9. QED
    BY <2>6, <2>7, <2>8
<1>2. CASE ~(t.only /\ t.screen.parent[Status] = Main)
  <2>1. ~t.only
    BY <1>2 DEF OnlyForMain
  <2>2. ReportedBy(t, Status) = IndexKinds
    BY <2>1, RefreshAssumption DEF ReportedBy, Listed
  <2>3. m = Reloaded(t, i, Status)
    BY <1>2 DEF StatusAfter
  <2>4. U \subseteq IF Status = Main THEN {Main, Status} ELSE {Status}
    OBVIOUS
  <2>5. Sound(m, i, Q \ IndexKinds, {}) /\ Kept(t, m)
    BY <2>2, <2>3, <2>4, ReloadedIsSound
  <2>6. QED
    BY <2>5, KeptIsFine
<1>3. QED
  BY <1>1, <1>2

LEMMA StageEnteredIsFine ==
  ASSUME AutoIsKept, NEW t, NEW i, NEW Q, Fine(t, i, Q),
         NEW from \in {Main, Status} \cap Views, Stage \in Views,
         NEW k \in IndexKinds, NEW enter \in BOOLEAN,
         NEW m \in StageEntered(t, i, from, k, enter)
  PROVE  Fine(m, i, Q) /\ Silent(m) = Silent(t)
<1>1. PICK typed : typed = [t EXCEPT !.type = k, !.selected = k]
  OBVIOUS
<1>2. t \in Tig
  BY SoundIsTyped DEF Fine
<1>3. typed \in Tig /\ Same(t, typed) /\ typed.watch = t.watch
  BY <1>1, <1>2 DEF Tig, Same, SameViews
<1>4. Fine(typed, i, Q) /\ Silent(typed) = Silent(t)
  BY <1>3, SameIsFine
<1>5. t.screen = typed.screen
  BY <1>3 DEF Same
<1>6. PICK anew \in StageAnew(typed) :
        m = Viewed(typed, i, Stage, anew,
              IF enter THEN D!Entered(t.screen, from, Stage, Outcome(typed, Stage, anew))
              ELSE D!Opened(t.screen, from, Stage, FALSE, FALSE, Outcome(typed, Stage, anew)))
  BY <1>1, Zenon DEF StageEntered
<1>7. anew \in BOOLEAN
  BY DEF StageAnew
<1>8. PICK outcome : outcome = Outcome(typed, Stage, anew)
  OBVIOUS
<1>9. PICK s : s = IF enter THEN D!Entered(t.screen, from, Stage, outcome)
                   ELSE D!Opened(t.screen, from, Stage, FALSE, FALSE, outcome)
  OBVIOUS
<1>10. m = Viewed(typed, i, Stage, anew, s)
  BY <1>6, <1>8, <1>9
<1>11. Stage # Main /\ Stage # Status /\ ScreenOK(t.screen)
  BY RefreshAssumption DEF Fine, Focused
<1>12. ScreenOK(s) /\ (Status \in Views => s.parent[Status] = t.screen.parent[Status])
  <2>1. CASE enter
    BY <1>9, <1>11, <2>1, EnteredScreen
  <2>2. CASE ~enter
    <3>1. PICK no \in BOOLEAN : no = FALSE
      OBVIOUS
    <3>2. s = D!Opened(t.screen, from, Stage, no, no, outcome)
      BY <1>9, <2>2, <3>1
    <3>3. Adopts(t.screen, s, Stage)
      BY <1>11, <3>1, <3>2, OpenedScreen
    <3>4. QED
      BY <1>11, <3>3 DEF Adopts
  <2>3. QED
    BY <2>1, <2>2
<1>13. Sound(m, i, Q, {}) /\ Screened(typed, m, s)
  <2>1. Sound(typed, i, Q, {}) /\ s \in D!Screens
    BY <1>4, <1>12 DEF Fine, ScreenOK
  <2>2. QED
    BY <1>7, <1>10, <2>1, ViewedIsSound
<1>14. QED
  BY <1>4, <1>5, <1>12, <1>13, ScreenIsFine DEF Fine
LEMMA StatusEnteredIsFine ==
  ASSUME AutoIsKept, NEW t, NEW i, NEW Q, Fine(t, i, Q),
         Stage \in Views, Status \in Views, NEW m \in StatusEntered(t, i)
  PROVE  Fine(m, i, Q) /\ Silent(m) = Silent(t)
<1>1. t \in Tig /\ t.shown[Status] \subseteq IndexKinds
  BY SoundIsTyped DEF Fine, Tig
<1>2. PICK nothing : nothing = IF t.screen.child = NoView THEN t
                               ELSE [t EXCEPT !.screen = D!Maximized(t.screen, Status)]
  OBVIOUS
<1>3. CASE m = nothing
  <2>1. CASE t.screen.child = NoView
    BY <1>2, <1>3, <2>1
  <2>2. CASE t.screen.child # NoView
    <3>1. PICK s : s = D!Maximized(t.screen, Status)
      OBVIOUS
    <3>2. ScreenOK(s) /\ s.parent = t.screen.parent
      BY <3>1, MaximizedScreen DEF Fine, Focused, ScreenOK
    <3>3. m = [t EXCEPT !.screen = s]
      BY <1>2, <1>3, <2>2, <3>1
    <3>4. s \in D!Screens /\ Sound(t, i, Q, {})
      BY <3>2 DEF ScreenOK, Fine
    <3>5. Sound(m, i, Q, {}) /\ Screened(t, m, s)
      BY <3>3, <3>4, ScreenIsSound
    <3>6. QED
      BY <3>2, <3>5, ScreenIsFine DEF Fine
  <2>3. QED
    BY <2>1, <2>2
<1>4. CASE m = t
  BY <1>4
<1>5. CASE m # nothing /\ m # t
  <2>1. PICK k \in t.shown[Status] : m \in StageEntered(t, i, Status, k, TRUE)
    BY <1>2, <1>5, Zenon DEF StatusEntered
  <2>2. PICK enter \in BOOLEAN : enter = TRUE
    OBVIOUS
  <2>3. m \in StageEntered(t, i, Status, k, enter) /\ k \in IndexKinds
    BY <1>1, <2>1, <2>2
  <2>4. QED
    BY <2>3, StageEnteredIsFine
<1>6. QED
  BY <1>3, <1>4, <1>5

LEMMA StageAfterIsFine ==
  ASSUME AutoIsKept, NEW t, NEW i, NEW Q, Fine(t, i, Q), Stage \in Views,
         NEW m \in StageAfter(t, i)
  PROVE  Fine(m, i, Q) /\ Silent(m) = Silent(t)
<1> DEFINE parent == t.screen.parent[Stage]
<1>1. PICK refreshed : refreshed = IF parent \in {Main, Status} \ {NoView}
                                     THEN Reloaded(t, i, parent) ELSE t
  OBVIOUS
<1>2. Fine(refreshed, i, Q) /\ Silent(refreshed) = Silent(t)
  <2>1. CASE parent \in {Main, Status} \ {NoView}
    <3>1. parent \in Views /\ refreshed = Reloaded(t, i, parent)
      BY <1>1, <2>1, ViewsAre
    <3>2. QED
      BY <3>1, ReloadedIsFine
  <2>2. CASE parent \notin {Main, Status} \ {NoView}
    BY <1>1, <2>2
  <2>3. QED
    BY <2>1, <2>2
<1>3. PICK gone : gone = [refreshed EXCEPT !.type = NoKind]
  OBVIOUS
<1>4. refreshed \in Tig
  BY <1>2, SoundIsTyped DEF Fine
<1>5. gone \in Tig /\ Same(refreshed, gone) /\ gone.watch = refreshed.watch
  BY <1>3, <1>4 DEF Tig, Same, SameViews
<1>6. Fine(gone, i, Q) /\ Silent(gone) = Silent(t)
  BY <1>2, <1>5, SameIsFine
<1> DEFINE isGone == IF parent = Status /\ Status \in Displayed(t)
                       THEN StatusEntered(gone, i) ELSE {Closed(gone)}
           remains == IF t.type = "untracked" THEN {Closed(refreshed)}
                      ELSE {Reloaded(refreshed, i, Stage)}
<1>7. m \in isGone \cup remains
  <2> DEFINE listed == parent \in {Main, Status} /\ t.type \in refreshed.shown[parent]
  <2>1. StageAfter(t, i) =
          CASE parent = NoView -> remains
            [] parent # NoView /\ ~listed -> isGone
            [] parent = Status /\ listed -> isGone \cup remains
            [] OTHER -> remains
    BY <1>1, <1>3, Zenon DEF StageAfter
  <2> HIDE DEF parent, isGone, remains, listed
  <2>2. CASE parent = NoView /\ ~(parent = Status /\ listed)
    BY <2>1, <2>2
  <2>3. CASE parent # NoView /\ ~listed
    BY <2>1, <2>3
  <2>4. CASE parent # NoView /\ listed /\ parent = Status
    BY <2>1, <2>4
  <2>5. CASE parent # NoView /\ listed /\ parent # Status
    BY <2>1, <2>5
  <2>6. CASE parent = NoView /\ parent = Status /\ listed
    BY <2>1, <2>6
  <2>7. QED
    BY <2>2, <2>3, <2>4, <2>5, <2>6
<1>8. CASE m \in isGone
  <2>1. CASE parent = Status /\ Status \in Displayed(t)
    <3>1. Status \in Views
      BY <2>1, ViewsAre DEF Displayed, D!Displayed
    <3>2. m \in StatusEntered(gone, i)
      BY <1>8, <2>1
    <3>3. Fine(m, i, Q) /\ Silent(m) = Silent(gone)
      BY <1>6, <3>1, <3>2, StatusEnteredIsFine
    <3>4. QED
      BY <1>6, <3>3
  <2>2. CASE ~(parent = Status /\ Status \in Displayed(t))
    <3>1. m = Closed(gone)
      BY <1>8, <2>2
    <3>2. Fine(m, i, Q) /\ Silent(m) = Silent(gone)
      BY <1>6, <3>1, ClosedIsFine
    <3>3. QED
      BY <1>6, <3>2
  <2>3. QED
    BY <2>1, <2>2
<1>9. CASE m \in remains
  <2>1. CASE m = Closed(refreshed)
    <3>1. Fine(m, i, Q) /\ Silent(m) = Silent(refreshed)
      BY <1>2, <2>1, ClosedIsFine
    <3>2. QED
      BY <1>2, <3>1
  <2>2. CASE m = Reloaded(refreshed, i, Stage)
    <3>1. Fine(m, i, Q) /\ Silent(m) = Silent(refreshed)
      BY <1>2, <2>2, ReloadedIsFine
    <3>2. QED
      BY <1>2, <3>1
  <2>3. QED
    BY <1>9, <2>1, <2>2
<1>10. QED
  BY <1>7, <1>8, <1>9

\* Refreshing the current view, which may have lost its mark.
LEMMA RefreshRequestedIsFine ==
  ASSUME AutoIsKept, NEW t, NEW i, NEW Q, NEW U, Sound(t, i, Q, U),
         OnlyForMain(t), Focused(t), U \subseteq {Current(t)},
         NEW m \in RefreshRequested(t, i)
  PROVE  Fine(m, i, Q) /\ Silent(m) = Silent(t)
<1>1. PICK v : v = Current(t)
  OBVIOUS
<1>2. v \in Views /\ t \in Tig
  BY <1>1, SoundIsTyped DEF Focused, ScreenOK, Current
<1>3. PICK refs : refs = RefsLoaded(t)
  OBVIOUS
<1>4. Sound(refs, i, Q, U) /\ Kept(t, refs)
  BY <1>3, RefsLoadedIsSound
<1>5. OnlyForMain(refs) /\ Focused(refs) /\ Silent(refs) = Silent(t) /\ refs \in Tig
  <2>1. refs \in Tig
    BY <1>4, SoundIsTyped
  <2>2. QED
    BY <1>4, <2>1, KeptIs
<1>6. CASE v = Status
  <2>1. PICK r : r = [t EXCEPT !.ahead = @ \ {"head"}]
    OBVIOUS
  <2>2. v # Stage
    BY <1>2, <1>6, RefreshAssumption
  <2>3. m = StatusAfter(r, i)
    BY <1>1, <1>6, <2>1, <2>2 DEF RefreshRequested
  <2>4. t.ahead \ {"head"} \in SUBSET RefKinds
    BY <1>2 DEF Tig
  <2>5. r \in Tig /\ Same(t, r) /\ r.watch = t.watch
    BY <1>2, <2>1, <2>4 DEF Tig, Same, SameViews
  <2>6. Sound(r, i, Q, U)
    BY <2>5, SameIsSound DEF Same
  <2>7. OnlyForMain(r) /\ Focused(r) /\ Silent(r) = Silent(t)
    BY <2>5 DEF OnlyForMain, Focused, Silent, Same, SameViews
  <2>8. Status \in Views /\ U \subseteq {Status}
    BY <1>1, <1>2, <1>6
  <2>9. Fine(m, i, Q \ IndexKinds) /\ Silent(m) = Silent(r)
    BY <2>3, <2>6, <2>7, <2>8, StatusAfterIsFine
  <2>10. QED
    BY <2>7, <2>9, FineLess
<1>7. CASE v = Stage
  <2>1. v # Status /\ v # Main
    BY <1>2, <1>7, RefreshAssumption
  <2>2. Sound(t, i, Q, {}) /\ Sound(refs, i, Q, {})
    <3>1. U \subseteq {Stage} /\ Stage \in Views
      BY <1>1, <1>2, <1>7
    <3>2. Sound(t, i, Q, {Stage}) /\ Sound(refs, i, Q, {Stage})
      BY <1>4, <3>1, SoundLess
    <3>3. QED
      BY <3>1, <3>2, StageIsLeftOut
  <2>3. CASE v \in t.loaded
    <3>1. m \in StageAfter(refs, i)
      BY <1>1, <1>3, <1>7, <2>1, <2>3 DEF RefreshRequested
    <3>2. Fine(refs, i, Q) /\ Stage \in Views
      BY <1>2, <1>5, <1>7, <2>2 DEF Fine
    <3>3. Fine(m, i, Q) /\ Silent(m) = Silent(refs)
      BY <3>1, <3>2, StageAfterIsFine
    <3>4. QED
      BY <1>5, <3>3
  <2>4. CASE v \notin t.loaded
    <3>1. m = t
      BY <1>1, <1>7, <2>1, <2>4 DEF RefreshRequested
    <3>2. QED
      BY <2>2, <3>1 DEF Fine
  <2>5. QED
    BY <2>3, <2>4
<1>8. CASE v \notin {Status, Stage}
  <2>1. m = Reloaded(refs, i, v)
    BY <1>1, <1>3, <1>8 DEF RefreshRequested
  <2>2. U \subseteq IF v = Main THEN {Main, Status} ELSE {v}
    BY <1>1
  <2>3. Sound(m, i, Q \ ReportedBy(refs, v), {}) /\ Kept(refs, m)
    BY <1>2, <1>4, <2>1, <2>2, ReloadedIsSound
  <2>4. Sound(m, i, Q, {})
    BY <2>3, SoundLess
  <2>5. QED
    BY <1>5, <2>3, <2>4, KeptIsFine
<1>9. QED
  BY <1>6, <1>7, <1>8
-------------------------------------------------------------------------------
(* Changes of the repository.                                              *)

\* The index is j, which differs from i in kinds of R, and so may be the refs.
LEMMA ChangedIsSound ==
  ASSUME NEW t, NEW i, NEW Q, NEW U, Sound(t, i, Q, U), NEW j \in Indices, NEW R,
         \A k \in IndexKinds \ R : k \in Present(j) <=> k \in Present(i),
         NEW m \in Tig, m.watch = t.watch, m.mode = t.mode, m.untracked = t.untracked,
         m.loaded = t.loaded, m.shown = t.shown, m.only = t.only,
         \A v \in Logs : /\ m.behind[v] \subseteq RefKinds
                         /\ v \in t.loaded => m.behind[v] \subseteq t.behind[v] \cup R
  PROVE  Sound(m, j, Q \cup R, U)
<1>1. Typed(t, i)
  BY DEF Sound
<1>2. Typed(m, j)
  BY <1>1 DEF Typed, Registers, Says
<1>3. ASSUME NEW v, IsDirty(t, v)
      PROVE  IsDirty(m, v)
  BY <1>3 DEF IsDirty
<1>4. Listed(m) = Listed(t) /\ Tells(m) = Tells(t) /\ Listed(t) \subseteq IndexKinds
  BY DEF Listed, Tells
<1>5. ASSUME NEW v \in Views \ {Stage}, Noticed(t, i, v, Q)
      PROVE  Noticed(m, j, v, Q \cup R)
  <2>1. SUFFICES ASSUME v \in m.loaded, NEW k \in Tracked \ (Q \cup R), IsStale(m, j, v, k)
                 PROVE  IsStale(t, i, v, k)
    BY <1>3, <1>5 DEF Noticed
  <2>2. k \in IndexKinds => (k \in Present(j) <=> k \in Present(i))
    BY <2>1
  <2>3. CASE v = Status
    BY <1>4, <2>1, <2>2, <2>3, StaleAre
  <2>4. CASE v = Main
    <3>1. k \in IndexKinds => (MainHas(j, m, k) <=> MainHas(i, t, k))
      BY <2>2 DEF MainHas
    <3>2. k \notin IndexKinds => (k \in m.behind[Main] => k \in t.behind[Main])
      BY <2>1, <2>4 DEF Logs
    <3>3. MainHas(j, m, k) \in BOOLEAN /\ MainHas(i, t, k) \in BOOLEAN
      BY DEF MainHas
    <3>4. QED
      BY <2>1, <2>4, <3>1, <3>2, <3>3, StaleAre
  <2>5. CASE v = Log
    <3>1. k \in m.behind[Log] => k \in t.behind[Log]
      BY <2>1, <2>5 DEF Logs
    <3>2. QED
      BY <2>1, <2>5, <3>1, StaleAre
  <2>6. QED
    BY <2>3, <2>4, <2>5, ViewsAre
<1>6. Agree(t) => Agree(m)
  BY <1>3, <1>4 DEF Agree, Differ
<1>7. QED
  BY <1>2, <1>4, <1>5, <1>6 DEF Sound

LEMMA BehindIsSound ==
  ASSUME NEW t, NEW i, NEW Q, NEW U, Sound(t, i, Q, U), NEW j \in Indices, NEW R,
         \A k \in IndexKinds \ R : k \in Present(j) <=> k \in Present(i),
         NEW kinds \in SUBSET Kinds, kinds \cap RefKinds \subseteq R,
         NEW m, m = Behind(t, kinds)
  PROVE  Sound(m, j, Q \cup R, U) /\ Kept(t, m) /\ m.loaded = t.loaded
<1> DEFINE behind == [v \in Views |->
              CASE v \notin t.loaded -> {}
                [] v = Stage -> t.behind[v] \cup (kinds \cap {t.held})
                [] v = Status -> {}
                [] OTHER -> t.behind[v] \cup (kinds \cap RefKinds)]
           ahead == t.ahead \cup (kinds \cap RefKinds)
<1>1. t \in Tig /\ Typed(t, i)
  BY SoundIsTyped
<1>2. t.behind \in [Views -> SUBSET Kinds] /\ ahead \in SUBSET RefKinds
  BY <1>1 DEF Tig
<1>3. behind \in [Views -> SUBSET Kinds]
  <2>1. ASSUME NEW v \in Views
        PROVE  behind[v] \in SUBSET Kinds
    <3>1. t.behind[v] \subseteq Kinds
      BY <1>2
    <3>2. CASE v \in t.loaded /\ v = Stage
      BY <3>1, <3>2, RefreshAssumption
    <3>3. CASE v \in t.loaded /\ v # Stage
      BY <3>1, <3>3
    <3>4. CASE v \notin t.loaded
      <4>1. behind[v] = {} \/ behind[v] = t.behind[v] \cup (kinds \cap {t.held})
        BY <3>4
      <4>2. QED
        BY <3>1, <4>1
    <3>5. QED
      BY <3>2, <3>3, <3>4
  <2>2. QED
    BY <2>1
<1>4. ASSUME NEW v \in Logs
      PROVE  /\ behind[v] \subseteq RefKinds
             /\ v \in t.loaded => behind[v] \subseteq t.behind[v] \cup R
  <2>1. v \in Views /\ v # Stage /\ v # Status /\ t.behind[v] \subseteq RefKinds
    BY <1>1, RefreshAssumption DEF Logs, Typed
  <2>2. behind[v] = IF v \in t.loaded THEN t.behind[v] \cup (kinds \cap RefKinds) ELSE {}
    BY <2>1
  <2>3. QED
    BY <2>1, <2>2
<1>5. m = [t EXCEPT !.behind = behind, !.ahead = ahead]
  BY DEF Behind
<1> HIDE DEF behind, ahead
<1>6. /\ m \in Tig /\ m.behind = behind /\ m.watch = t.watch /\ m.shown = t.shown
      /\ m.loaded = t.loaded /\ Kept(t, m)
  BY <1>1, <1>2, <1>3, <1>5 DEF Tig, Kept
<1>7. Sound(m, j, Q \cup R, U)
  BY <1>4, <1>6, ChangedIsSound DEF Kept
<1>8. QED
  BY <1>6, <1>7

\* What the stage view tells.
LEMMA ToldIsSound ==
  ASSUME AutoIsKept, NEW t, NEW i, NEW Q, Sound(t, i, Q, {}), Stage \in Views,
         NEW m, m = Told(t)
  PROVE  /\ Sound(m, i, Q \ IndexKinds, {}) /\ SameViews(t, m) /\ m.screen = t.screen
         /\ m.type = t.type /\ m.silent = FALSE
<1>1. PICK r : r = Marked(t, "load", Stage, IndexTriggers)
  OBVIOUS
<1>2. t \in Tig /\ Typed(t, i)
  BY SoundIsTyped
<1>3. IndexTriggers \in SUBSET Triggers
  BY TriggersAre
<1>4. /\ r \in Tig /\ Same(t, r) /\ r.type = t.type
      /\ Hears(t.watch, r.watch, Stage, IndexTriggers, ~NoRefresh(t.mode, "load"))
  BY <1>1, <1>2, <1>3, MarkedHears
<1>5. m = [r EXCEPT !.silent = FALSE]
  BY <1>1 DEF Told
<1>6. /\ m \in Tig /\ SameViews(t, m) /\ m.screen = t.screen /\ m.type = t.type
      /\ m.silent = FALSE
      /\ Hears(t.watch, m.watch, Stage, IndexTriggers, ~NoRefresh(t.mode, "load"))
  BY <1>4, <1>5 DEF Tig, Same, SameViews
<1>7. ASSUME NEW v \in Views \ {Stage}
      PROVE  /\ m.watch[v].triggers = t.watch[v].triggers
             /\ m.watch[v].state = t.watch[v].state
             /\ t.watch[v].changed \subseteq m.watch[v].changed
             /\ Tells(t) => IndexTriggers \cap t.watch[v].triggers \subseteq m.watch[v].changed
  BY <1>2, <1>6, TellsAll DEF Hears, Typed
<1>8. {Main, Status} \cap Views \subseteq Views \ {Stage}
  BY RefreshAssumption
<1>9. Typed(m, i)
  <2>1. t.loaded \subseteq Views
    BY <1>2 DEF Tig
  <2>2. Registers(m)
    BY <1>2, <1>6, <1>7, <2>1 DEF Typed, Registers, SameViews
  <2>3. Says(m)
    BY <1>2, <1>6, <1>7, <1>8 DEF Typed, Says, SameViews
  <2>4. QED
    BY <1>2, <1>6, <2>2, <2>3 DEF Typed, SameViews
<1>10. ASSUME NEW v \in Views \ {Stage}, IsDirty(t, v)
       PROVE  IsDirty(m, v)
  BY <1>7, <1>10, StaysDirty DEF IsDirty
<1>11. ASSUME Tells(t), NEW v \in Views \ {Stage}
       PROVE  Noticed(m, i, v, Q \ IndexKinds)
  <2>1. SUFFICES ASSUME v \in m.loaded, NEW k \in Tracked \ (Q \ IndexKinds),
                        IsStale(m, i, v, k)
                 PROVE  IsDirty(m, v)
    BY DEF Noticed
  <2>2. v \in t.loaded /\ IsStale(t, i, v, k)
    BY <1>6, <2>1, SameStale DEF SameViews
  <2>3. CASE k \in IndexKinds
    <3>1. v # Log
      BY <1>2, <1>11, <2>2, <2>3, StaleAre, KindsAre DEF Typed, Logs
    <3>2. v \in {Main, Status} \cap Views
      BY <1>11, <3>1, ViewsAre
    <3>3. PICK b \in BOOLEAN : b # (k \in t.shown[v])
      OBVIOUS
    <3>4. <<k, b>> \in t.watch[v].triggers
      <4>1. <<k, b>> \in Triggers /\ k \in Kinds
        BY <2>3, TriggersAre, KindsAre
      <4>2. <<k, b>>[1] = k
        OBVIOUS
      <4>3. <<k, b>> \in TriggersOf(Kinds) /\ <<k, b>> \in TriggersOf(IndexKinds)
        BY <2>3, <4>1, <4>2, TriggersAre
      <4>4. QED
        BY <1>2, <1>11, <2>2, <3>2, <4>3 DEF Typed, Registers
    <3>5. <<k, b>> \in m.watch[v].changed
      BY <1>7, <1>11, <2>3, <3>4, TriggersAre
    <3>6. m.watch[v].state \subseteq Reports(IndexKinds, t.shown[v])
      BY <1>2, <1>7, <1>11, <3>2 DEF Typed, Says
    <3>7. QED
      BY <2>3, <3>3, <3>5, <3>6, Heard DEF IsDirty
  <2>4. CASE k \notin IndexKinds
    <3>1. Noticed(t, i, v, Q)
      BY <1>11 DEF Sound
    <3>2. IsDirty(t, v)
      BY <2>1, <2>2, <2>4, <3>1 DEF Noticed
    <3>3. QED
      BY <1>10, <1>11, <3>2
  <2>5. QED
    BY <2>3, <2>4
<1>12. ASSUME Tells(t)
       PROVE  Agree(m)
  <2>1. SUFFICES ASSUME {Main, Status} \subseteq m.loaded, NEW k \in Listed(m), Differ(m, k)
                 PROVE  IsDirty(m, Main) \/ IsDirty(m, Status)
    BY DEF Agree
  <2>2. /\ {Main, Status} \subseteq t.loaded /\ k \in Listed(t) /\ Differ(t, k)
        /\ {Main, Status} \subseteq Views \ {Stage}
    BY <1>2, <1>6, <1>8, <2>1, SameStale DEF SameViews, Tig
  <2>3. Agree(t)
    BY <1>12 DEF Sound
  <2>4. IsDirty(t, Main) \/ IsDirty(t, Status)
    BY <2>2, <2>3 DEF Agree
  <2>5. QED
    BY <1>10, <2>2, <2>4
<1>13. Tells(m) = Tells(t)
  BY <1>6, SameStale
<1>14. QED
  BY <1>6, <1>9, <1>11, <1>12, <1>13 DEF Sound
\* After a command all views are marked.
LEMMA CommandedIsSound ==
  ASSUME AutoIsKept, NEW t, NEW i, NEW Q, NEW U, Sound(t, i, Q, U), NEW j \in Indices,
         NEW kinds \in SUBSET Kinds, NEW m, m = Commanded(t, kinds)
  PROVE  /\ Sound(m, j, {}, {}) /\ m.screen = t.screen /\ m.only = t.only
         /\ m.silent \in {t.silent, FALSE}
<1>1. PICK c : c = Behind(t, kinds)
  OBVIOUS
<1>2. Sound(c, j, Q \cup Kinds, U) /\ Kept(t, c) /\ c.loaded = t.loaded
  <2>1. /\ \A k \in IndexKinds \ Kinds : k \in Present(j) <=> k \in Present(i)
        /\ kinds \cap RefKinds \subseteq Kinds
    BY KindsAre
  <2>2. QED
    BY <1>1, <2>1, BehindIsSound
<1>3. c \in Tig /\ Typed(c, j) /\ c.screen = t.screen
  <2>1. c.screen = t.screen
    BY <1>1 DEF Behind
  <2>2. QED
    BY <1>2, <2>1, SoundIsTyped
<1>4. CASE NoRefresh(t.mode, "after-command")
  <2>1. m = c
    BY <1>1, <1>4 DEF Commanded
  <2>2. ~Tells(c)
    BY <1>2, <1>3, <1>4, TellsAll DEF Typed, Kept
  <2>3. QED
    BY <1>2, <1>3, <2>1, <2>2 DEF Sound, Kept
<1>5. CASE ~NoRefresh(t.mode, "after-command")
  <2>1. PICK a : a = Applied(c.watch, c.mode, "after-command", NoView, Triggers)
    OBVIOUS
  <2>2. /\ a \in [Views -> Watches]
        /\ \A v \in Views :
             /\ a[v].triggers = c.watch[v].triggers /\ a[v].state = {}
             /\ c.watch[v].triggers \subseteq a[v].changed
    <3>1. c.watch \in [Views -> Watches] /\ ~NoRefresh(c.mode, "after-command")
      BY <1>2, <1>3, <1>5 DEF Tig, Kept
    <3>2. QED
      BY <2>1, <3>1, AppliedAfterCommand
  <2>3. m = [c EXCEPT !.watch = a, !.files = {}, !.silent = FALSE]
    BY <1>1, <1>3, <1>5, <2>1 DEF Commanded, Marked, Tig
  <2>4. m \in Tig /\ SameViews(c, m) /\ m.watch = a /\ m.screen = c.screen /\ m.silent = FALSE
    BY <1>3, <2>2, <2>3 DEF Tig, SameViews
  <2>5. c.loaded \subseteq Views
    BY <1>3 DEF Tig
  <2>6. Typed(m, j)
    <3>1. Registers(m)
      <4>1. ASSUME NEW v \in m.loaded \ {Stage}
            PROVE  v \in c.loaded \ {Stage} /\ m.watch[v].triggers = c.watch[v].triggers
        BY <2>2, <2>4, <2>5 DEF SameViews
      <4>2. Registers(c)
        BY <1>3 DEF Typed
      <4>3. QED
        BY <4>1, <4>2 DEF Registers
    <3>2. Says(m)
      BY <2>2, <2>4 DEF Says
    <3>3. QED
      BY <1>3, <2>4, <3>1, <3>2 DEF Typed, SameViews
  <2>7. ASSUME NEW v \in c.loaded \ {Stage}, NEW k \in Kinds,
               v = Status => k \in IndexKinds, v = Log => k \in RefKinds
        PROVE  IsDirty(m, v)
    <3>1. /\ c.watch[v].triggers =
               TriggersOf(IF v = Main THEN Kinds ELSE IF v = Status THEN IndexKinds ELSE RefKinds)
          /\ v \in Views
      BY <1>3, <2>5 DEF Typed, Registers
    <3>2. <<k, TRUE>> \in Triggers
      BY TriggersAre, KindsAre
    <3>3. \A kk : k \in kk => <<k, TRUE>> \in TriggersOf(kk)
      BY <3>2, TriggersAre
    <3>4. <<k, TRUE>> \in c.watch[v].triggers
      BY <2>7, <3>1, <3>3, ViewsAre
    <3>5. <<k, TRUE>> \in m.watch[v].changed /\ m.watch[v].state = {}
      BY <2>2, <2>4, <3>1, <3>4
    <3>6. QED
      BY <3>5 DEF IsDirty, Dirty
  <2>8. Listed(m) \subseteq IndexKinds /\ IndexKinds \subseteq Kinds
    BY KindsAre DEF Listed
  <2>9. ASSUME NEW v \in Views \ {Stage}
        PROVE  Noticed(m, j, v, {})
    <3>1. SUFFICES ASSUME v \in m.loaded, NEW k \in Tracked, IsStale(m, j, v, k)
                   PROVE  IsDirty(m, v)
      BY DEF Noticed
    <3>2. v \in c.loaded \ {Stage} /\ k \in Kinds
      BY <2>4, <2>9, <3>1 DEF SameViews, Tracked
    <3>3. v = Status => k \in IndexKinds
      BY <2>8, <2>9, <3>1, StaleAre
    <3>4. v = Log => k \in RefKinds
      BY <2>6, <2>9, <3>1, StaleAre DEF Typed, Logs
    <3>5. QED
      BY <2>7, <3>2, <3>3, <3>4
  <2>10. Agree(m)
    <3>1. SUFFICES ASSUME {Main, Status} \subseteq m.loaded, NEW k \in Listed(m)
                   PROVE  IsDirty(m, Main)
      BY DEF Agree
    <3>2. Main \in c.loaded \ {Stage} /\ Main # Status /\ Main # Log
      BY <2>4, <2>5, <3>1, RefreshAssumption DEF SameViews
    <3>3. QED
      BY <2>7, <2>8, <3>1, <3>2
  <2>11. QED
    BY <1>2, <1>3, <2>4, <2>6, <2>9, <2>10 DEF Sound, Kept, SameViews
<1>6. QED
  BY <1>4, <1>5

-------------------------------------------------------------------------------
(* What the user sets.                                                     *)

\* The status view lists other kinds.
LEMMA OnlyIsSound ==
  ASSUME NEW t, NEW i, NEW Q, Sound(t, i, Q, {}), NEW b \in BOOLEAN,
         NEW m, m = [t EXCEPT !.only = b]
  PROVE  /\ Sound(m, i, Q, {Status}) /\ m.only = b /\ m.screen = t.screen
         /\ m.silent = t.silent
<1>1. t \in Tig /\ Typed(t, i)
  BY SoundIsTyped
<1>2. /\ m \in Tig /\ m.only = b /\ m.screen = t.screen /\ m.silent = t.silent
      /\ m.watch = t.watch /\ m.mode = t.mode /\ m.untracked = t.untracked
      /\ m.loaded = t.loaded /\ m.shown = t.shown /\ m.behind = t.behind
  BY <1>1 DEF Tig
<1>3. Typed(m, i)
  BY <1>1, <1>2 DEF Typed, Registers, Says
<1>4. ASSUME NEW v \in Views \ {Status, Stage}, Noticed(t, i, v, Q)
      PROVE  Noticed(m, i, v, Q)
  BY <1>2, <1>4 DEF Noticed, IsStale, MainHas, IsDirty
<1>5. QED
  BY <1>2, <1>3, <1>4 DEF Sound, Tells

LEMMA ModeIsSound ==
  ASSUME NEW t, NEW i, NEW Q, Sound(t, i, Q, {}), NEW mode \in NewModes,
         NEW m, m = [t EXCEPT !.mode = mode]
  PROVE  Sound(m, i, Q, {}) /\ m.only = t.only /\ m.screen = t.screen /\ m.silent = t.silent
<1>1. t \in Tig /\ Typed(t, i) /\ mode \in Modes
  BY SoundIsTyped, RefreshAssumption
<1>2. /\ m \in Tig /\ m.only = t.only /\ m.screen = t.screen /\ m.silent = t.silent
      /\ m.watch = t.watch /\ m.mode = mode /\ m.untracked = t.untracked
      /\ m.loaded = t.loaded /\ m.shown = t.shown /\ m.behind = t.behind
  BY <1>1 DEF Tig
<1>3. Typed(m, i)
  BY <1>1, <1>2 DEF Typed, Registers, Says
<1>4. Tells(m) => Tells(t)
  BY <1>2 DEF Tells
<1>5. ASSUME NEW v \in Views, Noticed(t, i, v, Q)
      PROVE  Noticed(m, i, v, Q)
  BY <1>2, <1>5 DEF Noticed, IsStale, MainHas, IsDirty, Listed
<1>6. Agree(t) => Agree(m)
  BY <1>2 DEF Agree, Differ, Listed, IsDirty
<1>7. QED
  BY <1>2, <1>3, <1>4, <1>5, <1>6 DEF Sound

LEMMA ToggledIsSound ==
  ASSUME NEW t, NEW i, NEW Q, Sound(t, i, Q, {}), MayToggle,
         NEW m, m = [t EXCEPT !.untracked = ~@]
  PROVE  Sound(m, i, Q, {}) /\ m.only = t.only /\ m.screen = t.screen /\ m.silent = t.silent
<1>1. t \in Tig /\ Typed(t, i)
  BY SoundIsTyped
<1>2. /\ m \in Tig /\ m.only = t.only /\ m.screen = t.screen /\ m.silent = t.silent
      /\ m.watch = t.watch /\ m.mode = t.mode
      /\ m.loaded = t.loaded /\ m.shown = t.shown /\ m.behind = t.behind
  BY <1>1 DEF Tig
<1>3. Typed(m, i)
  BY <1>1, <1>2 DEF Typed, Registers, Says
<1>4. \A k \in Tracked : MainHas(i, m, k) <=> MainHas(i, t, k)
  BY DEF Tracked, MainHas
<1>5. ASSUME NEW v \in Views \ {Stage}, Noticed(t, i, v, Q)
      PROVE  Noticed(m, i, v, Q)
  <2>1. SUFFICES ASSUME v \in m.loaded, NEW k \in Tracked \ Q, IsStale(m, i, v, k)
                 PROVE  IsStale(t, i, v, k)
    BY <1>2, <1>5 DEF Noticed, IsDirty
  <2>2. MainHas(i, m, k) \in BOOLEAN /\ MainHas(i, t, k) \in BOOLEAN
    BY DEF MainHas
  <2>3. MainHas(i, m, k) = MainHas(i, t, k)
    BY <1>4, <2>1, <2>2
  <2>4. QED
    BY <1>2, <2>1, <2>3 DEF IsStale, Listed
<1>6. Agree(t) => Agree(m)
  BY <1>2 DEF Agree, Differ, Listed, IsDirty
<1>7. Tells(m) = Tells(t)
  BY <1>2 DEF Tells
<1>8. QED
  BY <1>2, <1>3, <1>5, <1>6, <1>7 DEF Sound
-------------------------------------------------------------------------------
(* The requests.                                                           *)

LEMMA SwitchedIsSound ==
  ASSUME AutoIsKept, NEW t, NEW i, NEW Q, NEW U, Sound(t, i, Q, U), Focused(t),
         NEW v \in Views, NEW reload \in BOOLEAN, NEW anew \in BOOLEAN,
         U = {} \/ (U = {v} /\ reload /\ anew /\ v # Stage),
         NEW m, m = Switched(t, i, v, reload, anew)
  PROVE  /\ Sound(m, i, Q, {})
         /\ \E s : Screened(t, m, s) /\ Adopts(t.screen, s, v)
<1>1. PICK from : from = Current(t)
  OBVIOUS
<1>2. from \in Views /\ ScreenOK(t.screen)
  BY <1>1 DEF Focused, ScreenOK, Current
<1>3. PICK no \in BOOLEAN : no = FALSE
  OBVIOUS
<1>4. PICK outcome : outcome = Outcome(t, v, anew)
  OBVIOUS
<1>5. PICK s : s = D!Opened(t.screen, from, v, no, reload, outcome)
  OBVIOUS
<1>6. Adopts(t.screen, s, v)
  BY <1>2, <1>3, <1>5, OpenedScreen
<1>7. s \in D!Screens
  BY <1>6 DEF Adopts, ScreenOK
<1>8. m = IF v = from /\ t.screen.child = NoView /\ ~reload THEN [t EXCEPT !.screen = s]
          ELSE Viewed(t, i, v, anew, s)
  <2>1. s = D!Opened(t.screen, from, v, FALSE, reload, outcome)
    BY <1>3, <1>5
  <2>2. QED
    BY <1>1, <1>4, <2>1, Zenon DEF Switched
<1>9. CASE v = from /\ t.screen.child = NoView /\ ~reload
  <2>1. m = [t EXCEPT !.screen = s] /\ Sound(t, i, Q, {})
    BY <1>8, <1>9
  <2>2. Sound(m, i, Q, {}) /\ Screened(t, m, s)
    BY <1>7, <2>1, ScreenIsSound
  <2>3. QED
    BY <1>6, <2>2
<1>10. CASE ~(v = from /\ t.screen.child = NoView /\ ~reload)
  <2>1. m = Viewed(t, i, v, anew, s)
    BY <1>8, <1>10
  <2>2. U = {} \/ (U = {v} /\ anew /\ v # Stage)
    OBVIOUS
  <2>3. Sound(m, i, Q, {}) /\ Screened(t, m, s)
    BY <1>7, <2>1, <2>2, ViewedIsSound
  <2>4. QED
    BY <1>6, <2>3
<1>11. QED
  BY <1>9, <1>10

LEMMA SwitchedIsFine ==
  ASSUME AutoIsKept, NEW t, NEW i, NEW Q, Fine(t, i, Q),
         NEW v \in Views \ {Status}, NEW reload \in BOOLEAN, NEW anew \in BOOLEAN,
         NEW m, m = Switched(t, i, v, reload, anew)
  PROVE  Fine(m, i, Q) /\ Silent(m) = Silent(t)
<1>2. Sound(t, i, Q, {}) /\ Focused(t) /\ OnlyForMain(t)
  BY DEF Fine
<1>3. Sound(m, i, Q, {}) /\ \E s : Screened(t, m, s) /\ Adopts(t.screen, s, v)
  BY <1>2, SwitchedIsSound
<1>4. PICK s : Screened(t, m, s) /\ Adopts(t.screen, s, v)
  BY <1>3
<1>5. QED
  BY <1>2, <1>3, <1>4, ScreenIsFine DEF Adopts

LEMMA StatusSwitchedIsFine ==
  ASSUME AutoIsKept, NEW t, NEW i, NEW Q, Fine(t, i, Q), Status \in Views,
         NEW m, m = Switched([t EXCEPT !.only = FALSE], i, Status, t.only, t.only)
  PROVE  Fine(m, i, Q) /\ Silent(m) = Silent(t)
<1>1. PICK b \in BOOLEAN : b = FALSE
  OBVIOUS
<1>2. PICK all : all = [t EXCEPT !.only = b]
  OBVIOUS
<1>3. PICK only \in BOOLEAN : only = t.only
  BY SoundIsTyped DEF Fine, Tig
<1>4. /\ Sound(all, i, Q, {Status}) /\ all.only = FALSE /\ all.screen = t.screen
      /\ all.silent = t.silent
  BY <1>1, <1>2, OnlyIsSound DEF Fine
<1>5. ~only => Sound(all, i, Q, {})
  <2>1. SUFFICES ASSUME ~only
                 PROVE  Sound(all, i, Q, {})
    OBVIOUS
  <2>2. t \in Tig /\ all \in Tig
    BY <1>4, SoundIsTyped DEF Fine
  <2>3. SameViews(t, all) /\ all.watch = t.watch
    BY <1>1, <1>2, <1>3, <2>1, <2>2 DEF Tig, SameViews
  <2>4. QED
    BY <2>2, <2>3, SameIsSound DEF Fine
<1>6. Focused(all)
  BY <1>4 DEF Fine, Focused
<1>7. m = Switched(all, i, Status, only, only)
  BY <1>1, <1>2, <1>3
<1>8. PICK U : U = IF only THEN {Status} ELSE {}
  OBVIOUS
<1>9. Sound(all, i, Q, U)
  BY <1>4, <1>5, <1>8
<1>10. U = {} \/ (U = {Status} /\ only /\ only /\ Status # Stage)
  BY <1>8, RefreshAssumption
<1>11. Sound(m, i, Q, {}) /\ \E s : Screened(all, m, s) /\ Adopts(all.screen, s, Status)
  BY <1>6, <1>7, <1>9, <1>10, SwitchedIsSound
<1>12. PICK s : Screened(all, m, s) /\ Adopts(all.screen, s, Status)
  BY <1>11
<1>13. QED
  BY <1>4, <1>11, <1>12 DEF Fine, Screened, Adopts, OnlyForMain, Focused, Silent

LEMMA UntrackedEnteredIsFine ==
  ASSUME AutoIsKept, NEW t, NEW i, NEW Q, Fine(t, i, Q), Status \in Views, Main \in Views,
         NEW m, m = UntrackedEntered(t, i)
  PROVE  Fine(m, i, Q) /\ Silent(m) = Silent(t)
<1>1. PICK b \in BOOLEAN : b = TRUE
  OBVIOUS
<1>2. PICK only : only = [t EXCEPT !.only = b]
  OBVIOUS
<1>3. PICK anew \in BOOLEAN : anew = ~t.only
  OBVIOUS
<1>4. /\ Sound(only, i, Q, {Status}) /\ only.only = TRUE /\ only.screen = t.screen
      /\ only.silent = t.silent
  BY <1>1, <1>2, OnlyIsSound DEF Fine
<1>5. ~anew => Sound(only, i, Q, {})
  <2>1. SUFFICES ASSUME ~anew
                 PROVE  Sound(only, i, Q, {})
    OBVIOUS
  <2>2. t \in Tig /\ only \in Tig
    BY <1>4, SoundIsTyped DEF Fine
  <2>3. SameViews(t, only) /\ only.watch = t.watch
    BY <1>1, <1>2, <1>3, <2>1, <2>2 DEF Tig, SameViews
  <2>4. QED
    BY <2>2, <2>3, SameIsSound DEF Fine
<1>6. PICK outcome : outcome = Outcome(only, Status, anew)
  OBVIOUS
<1>7. Status # Stage /\ Status # Main
  BY RefreshAssumption
<1>8. outcome # "fails"
  BY <1>6, <1>7, OutcomeIs DEF Decides
<1>9. PICK s : s = D!Entered(t.screen, Main, Status, outcome)
  OBVIOUS
<1>10. ScreenOK(s) /\ s.parent[Status] = Main
  BY <1>7, <1>8, <1>9, EnteredScreen DEF Fine, Focused
<1>11. m = Viewed(only, i, Status, anew, s)
  <2>1. UntrackedEntered(t, i) = Viewed(only, i, Status, ~t.only, D!Entered(t.screen, Main, Status, Outcome(only, Status, ~t.only)))
    BY <1>1, <1>2 DEF UntrackedEntered
  <2>2. QED
    BY <1>3, <1>6, <1>9, <2>1
<1>12. PICK U : U = IF anew THEN {Status} ELSE {}
  OBVIOUS
<1>13. Sound(only, i, Q, U) /\ s \in D!Screens
  BY <1>4, <1>5, <1>10, <1>12 DEF ScreenOK
<1>14. U = {} \/ (U = {Status} /\ anew /\ Status # Stage)
  BY <1>7, <1>12
<1>15. Sound(m, i, Q, {}) /\ Screened(only, m, s)
  BY <1>11, <1>13, <1>14, ViewedIsSound
<1>16. QED
  BY <1>4, <1>10, <1>15 DEF Fine, Screened, OnlyForMain, Focused, Silent

LEMMA InputIsFine ==
  ASSUME AutoIsKept, NEW t, NEW i, Fine(t, i, Silent(t)), NEW m, m = Input(t, i)
  PROVE  Fine(m, i, Silent(m))
<1>1. PICK Q : Q = Silent(t)
  OBVIOUS
<1>2. Sound(m, i, Q, {}) /\ Kept(t, m)
  BY <1>1, InputIsSound DEF Fine
<1>3. Fine(m, i, Q) /\ Silent(m) = Silent(t)
  BY <1>2, KeptIsFine DEF Fine
<1>4. QED
  BY <1>1, <1>3
-------------------------------------------------------------------------------
(* The steps of tig.                                                       *)

\* Program t over index i as a key may find it.
Well(t, i) == Fine(t, i, Silent(t))

LEMMA IsWell ==
  IInv <=> Well(tig, index)
BY DEF IInv, Well, Fine

\* An outcome o of a request is well, and so is what comes of it when the input
\* loop goes round.
LEMMA AnsweredIsWell ==
  ASSUME AutoIsKept, NEW o, NEW j, Well(o, j),
         tig' = Input(o, j), index' = j
  PROVE  IInv'
<1>1. PICK m : m = Input(o, j)
  OBVIOUS
<1>2. Well(m, j)
  BY <1>1, InputIsFine DEF Well
<1>3. Well(tig', index')
  BY <1>1, <1>2
<1>4. QED
  BY <1>3 DEF IInv, Well, Fine
LEMMA DoneIsWell ==
  ASSUME AutoIsKept, NEW o, NEW j, NEW Q, Fine(o, j, Q), Q \subseteq Silent(o),
         tig' = Input(o, j), index' = j
  PROVE  IInv'
<1>1. PICK R : R = Silent(o)
  OBVIOUS
<1>2. Fine(o, j, R)
  BY <1>1, FineLess
<1>3. QED
  BY <1>1, <1>2, AnsweredIsWell DEF Well

\* What a request that leaves the index alone comes to.
LEMMA RequestIsWell ==
  ASSUME AutoIsKept, IInv, NEW o,
         \A Q : Fine(tig, index, Q) => Fine(o, index, Q) /\ Silent(o) = Silent(tig),
         tig' = Input(o, index), index' = index
  PROVE  IInv'
<1>1. PICK Q : Q = Silent(tig)
  OBVIOUS
<1>2. PICK j : j = index
  OBVIOUS
<1>3. Fine(o, j, Q) /\ Silent(o) = Q
  BY <1>1, <1>2, IsWell DEF Well
<1>4. QED
  BY <1>2, <1>3, DoneIsWell

LEMMA ViewIsWell ==
  ASSUME AutoIsKept, IInv, NEW v \in Views, View(v)
  PROVE  IInv'
<1>1. PICK t : t = tig
  OBVIOUS
<1>2. PICK i : i = index
  OBVIOUS
<1>3. PICK no \in BOOLEAN : no = FALSE
  OBVIOUS
<1>4. PICK o : o = Switched(t, i, v, no, no)
  OBVIOUS
<1>5. v # Status /\ tig' = Input(o, i) /\ index' = index
  BY <1>1, <1>2, <1>3, <1>4 DEF View, Do, Done
<1>6. ASSUME NEW Q, Fine(t, i, Q)
      PROVE  Fine(o, i, Q) /\ Silent(o) = Silent(t)
  <2>1. v \in Views \ {Status}
    BY <1>5
  <2>2. QED
    BY <1>4, <1>6, <2>1, SwitchedIsFine
<1>7. QED
  BY <1>1, <1>2, <1>5, <1>6, RequestIsWell

LEMMA ViewStatusIsWell ==
  ASSUME AutoIsKept, IInv, ViewStatus
  PROVE  IInv'
<1>1. PICK t : t = tig
  OBVIOUS
<1>2. PICK i : i = index
  OBVIOUS
<1>3. PICK o : o = Switched([t EXCEPT !.only = FALSE], i, Status, t.only, t.only)
  OBVIOUS
<1>4. Status \in Views /\ tig' = Input(o, i) /\ index' = index
  BY <1>1, <1>2, <1>3 DEF ViewStatus, Do, Done
<1>5. \A Q : Fine(t, i, Q) => Fine(o, i, Q) /\ Silent(o) = Silent(t)
  BY <1>3, <1>4, StatusSwitchedIsFine
<1>6. QED
  BY <1>1, <1>2, <1>4, <1>5, RequestIsWell

LEMMA ViewStageIsWell ==
  ASSUME AutoIsKept, IInv, ViewStage
  PROVE  IInv'
<1>1. PICK t : t = tig
  OBVIOUS
<1>2. PICK i : i = index
  OBVIOUS
<1>3. PICK anew \in StageAnew(t) : Do(Switched(t, i, Stage, FALSE, anew))
  BY <1>1, <1>2 DEF ViewStage
<1>4. anew \in BOOLEAN
  BY <1>3 DEF StageAnew
<1>9. PICK no \in BOOLEAN : no = FALSE
  OBVIOUS
<1>5. PICK o : o = Switched(t, i, Stage, no, anew)
  OBVIOUS
<1>6. Stage \in Views \ {Status} /\ tig' = Input(o, i) /\ index' = index
  BY <1>2, <1>3, <1>5, <1>9, RefreshAssumption DEF ViewStage, Do, Done
<1>7. ASSUME NEW Q, Fine(t, i, Q)
      PROVE  Fine(o, i, Q) /\ Silent(o) = Silent(t)
  <2>1. Stage \in Views \ {Status}
    BY <1>6
  <2>2. QED
    BY <1>4, <1>5, <1>7, <2>1, SwitchedIsFine
<1>8. QED
  BY <1>1, <1>2, <1>6, <1>7, RequestIsWell

LEMMA SelectIsWell ==
  ASSUME AutoIsKept, IInv, NEW k \in IndexKinds, Select(k)
  PROVE  IInv'
<1>1. PICK t : t = tig
  OBVIOUS
<1>2. PICK i : i = index
  OBVIOUS
<1>3. PICK o : o = [t EXCEPT !.selected = k]
  OBVIOUS
<1>4. tig' = Input(o, i) /\ index' = index
  BY <1>1, <1>2, <1>3 DEF Select, Do, Done
<1>5. ASSUME NEW Q, Fine(t, i, Q)
      PROVE  Fine(o, i, Q) /\ Silent(o) = Silent(t)
  <2>1. t \in Tig
    BY <1>5, SoundIsTyped DEF Fine
  <2>2. o \in Tig /\ Same(t, o) /\ o.watch = t.watch
    BY <1>3, <2>1 DEF Tig, Same, SameViews
  <2>3. QED
    BY <1>5, <2>2, SameIsFine
<1>6. QED
  BY <1>1, <1>2, <1>4, <1>5, RequestIsWell
LEMMA EnterStageIsWell ==
  ASSUME AutoIsKept, IInv, NEW k \in IndexKinds, NEW enter \in BOOLEAN,
         EnterStage(k, enter)
  PROVE  IInv'
<1>1. PICK t : t = tig
  OBVIOUS
<1>2. PICK i : i = index
  OBVIOUS
<1>3. PICK from : from = Current(t)
  OBVIOUS
<1>4. Well(t, i)
  BY <1>1, <1>2, IsWell
<1>5. from \in {Main, Status} \cap Views /\ Stage \in Views
  BY <1>1, <1>3, <1>4 DEF EnterStage, Well, Fine, Focused, ScreenOK, Current
<1>6. PICK o \in StageEntered(t, i, from, k, enter) : tig' = Input(o, i)
  BY <1>1, <1>2, <1>3 DEF EnterStage, Done
<1>7. index' = index
  BY DEF EnterStage
<1>8. ASSUME NEW Q, Fine(t, i, Q)
      PROVE  Fine(o, i, Q) /\ Silent(o) = Silent(t)
  BY <1>5, <1>6, <1>8, StageEnteredIsFine
<1>9. QED
  BY <1>1, <1>2, <1>6, <1>7, <1>8, RequestIsWell

LEMMA EnterUntrackedIsWell ==
  ASSUME AutoIsKept, IInv, EnterUntracked
  PROVE  IInv'
<1>1. PICK t : t = tig
  OBVIOUS
<1>2. PICK i : i = index
  OBVIOUS
<1>3. PICK o : o = UntrackedEntered(t, i)
  OBVIOUS
<1>4. Well(t, i)
  BY <1>1, <1>2, IsWell
<1>5. Status \in Views /\ Main \in Views
  BY <1>1, <1>4 DEF EnterUntracked, Well, Fine, Focused, ScreenOK, Current
<1>6. tig' = Input(o, i) /\ index' = index
  BY <1>1, <1>2, <1>3 DEF EnterUntracked, Do, Done
<1>7. ASSUME NEW Q, Fine(t, i, Q)
      PROVE  Fine(o, i, Q) /\ Silent(o) = Silent(t)
  BY <1>3, <1>5, <1>7, UntrackedEnteredIsFine
<1>8. QED
  BY <1>1, <1>2, <1>6, <1>7, RequestIsWell

\* Only the screen differs, and that in no parent.
LEMMA ScreenIsWell ==
  ASSUME AutoIsKept, IInv, NEW s, ScreenOK(s), s.parent = tig.screen.parent,
         NEW o, o = [tig EXCEPT !.screen = s], tig' = Input(o, index), index' = index
  PROVE  IInv'
<1>1. PICK t : t = tig
  OBVIOUS
<1>2. PICK i : i = index
  OBVIOUS
<1>3. s \in D!Screens
  BY DEF ScreenOK
<1>4. ASSUME NEW Q, Fine(t, i, Q)
      PROVE  Fine(o, i, Q) /\ Silent(o) = Silent(t)
  <2>1. Sound(o, i, Q, {}) /\ Screened(t, o, s)
    BY <1>1, <1>3, <1>4, ScreenIsSound DEF Fine
  <2>2. QED
    BY <1>1, <1>4, <2>1, ScreenIsFine DEF Fine
<1>5. QED
  BY <1>1, <1>2, <1>4, RequestIsWell

LEMMA ScreenIsOK ==
  IInv => ScreenOK(tig.screen) /\ Current(tig) \in Views /\ tig \in Tig
BY SoundIsTyped DEF IInv, Focused, ScreenOK, Current

LEMMA ViewNextIsWell ==
  ASSUME AutoIsKept, IInv, ViewNext
  PROVE  IInv'
<1>1. PICK t : t = tig
  OBVIOUS
<1>2. PICK s : s = [t.screen EXCEPT !.focus = 1 - @]
  OBVIOUS
<1>3. PICK o : o = [t EXCEPT !.screen = s]
  OBVIOUS
<1>4. ScreenOK(t.screen) /\ t.screen.child \in Views /\ t \in Tig
  <2>1. ScreenOK(t.screen) /\ t.screen.child # NoView /\ t \in Tig
    BY <1>1, ScreenIsOK DEF ViewNext
  <2>2. QED
    BY <2>1 DEF ScreenOK, D!Screens
<1>5. /\ s \in D!Screens /\ s.child = t.screen.child /\ s.base = t.screen.base
      /\ s.parent = t.screen.parent
  BY <1>2, <1>4 DEF ScreenOK, D!Screens
<1>6. ScreenOK(s)
  BY <1>4, <1>5 DEF ScreenOK, D!Current, D!Screens
<1>7. o = [t EXCEPT !.screen.focus = 1 - @]
  BY <1>2, <1>3, <1>4 DEF Tig
<1>8. tig' = Input(o, index) /\ index' = index
  BY <1>1, <1>7 DEF ViewNext, Do, Done
<1>9. QED
  BY <1>1, <1>3, <1>5, <1>6, <1>8, ScreenIsWell

LEMMA MaximizeIsWell ==
  ASSUME AutoIsKept, IInv, Maximize
  PROVE  IInv'
<1>1. PICK t : t = tig
  OBVIOUS
<1>2. PICK v : v = Current(t)
  OBVIOUS
<1>3. PICK s : s = D!Maximized(t.screen, v)
  OBVIOUS
<1>4. PICK o : o = [t EXCEPT !.screen = s]
  OBVIOUS
<1>5. ScreenOK(s) /\ s.parent = t.screen.parent
  <2>1. t.screen \in D!Screens /\ v \in Views
    BY <1>1, <1>2, ScreenIsOK DEF ScreenOK
  <2>2. QED
    BY <1>3, <2>1, MaximizedScreen
<1>6. tig' = Input(o, index) /\ index' = index
  BY <1>1, <1>2, <1>3, <1>4 DEF Maximize, Do, Done
<1>7. QED
  BY <1>1, <1>4, <1>5, <1>6, ScreenIsWell

LEMMA CloseIsWell ==
  ASSUME AutoIsKept, IInv, Close
  PROVE  IInv'
<1>1. PICK t : t = tig
  OBVIOUS
<1>2. PICK i : i = index
  OBVIOUS
<1>3. PICK r : r = IF Current(t) = Stage /\ Stage \in t.loaded
                     THEN [t EXCEPT !.type = NoKind] ELSE t
  OBVIOUS
<1>4. PICK o : o = Closed(r)
  OBVIOUS
<1>5. tig' = Input(o, i) /\ index' = index
  BY <1>1, <1>2, <1>3, <1>4 DEF Close, Do, Done
<1>6. ASSUME NEW Q, Fine(t, i, Q)
      PROVE  Fine(o, i, Q) /\ Silent(o) = Silent(t)
  <2>1. t \in Tig
    BY <1>6, SoundIsTyped DEF Fine
  <2>2. r \in Tig /\ Same(t, r) /\ r.watch = t.watch
    BY <1>3, <2>1 DEF Tig, Same, SameViews
  <2>3. Fine(r, i, Q) /\ Silent(r) = Silent(t)
    BY <1>6, <2>2, SameIsFine
  <2>4. Fine(o, i, Q) /\ Silent(o) = Silent(r)
    BY <1>4, <2>3, ClosedIsFine
  <2>5. QED
    BY <2>3, <2>4
<1>7. QED
  BY <1>1, <1>2, <1>5, <1>6, RequestIsWell
LEMMA RefreshKeyIsWell ==
  ASSUME AutoIsKept, IInv, RefreshKey
  PROVE  IInv'
<1>1. PICK t : t = tig
  OBVIOUS
<1>2. PICK i : i = index
  OBVIOUS
<1>3. PICK o \in RefreshRequested(t, i) : tig' = Input(o, i)
  BY <1>1, <1>2 DEF RefreshKey, Done
<1>4. index' = index
  BY DEF RefreshKey
<1>5. ASSUME NEW Q, Fine(t, i, Q)
      PROVE  Fine(o, i, Q) /\ Silent(o) = Silent(t)
  <2>1. PICK U : U = {}
    OBVIOUS
  <2>2. Sound(t, i, Q, U) /\ OnlyForMain(t) /\ Focused(t) /\ U \subseteq {Current(t)}
    BY <1>5, <2>1 DEF Fine
  <2>3. QED
    BY <1>3, <2>2, RefreshRequestedIsFine
<1>6. QED
  BY <1>1, <1>2, <1>3, <1>4, <1>5, RequestIsWell

LEMMA SetModeIsWell ==
  ASSUME AutoIsKept, IInv, NEW mode \in Modes, SetMode(mode)
  PROVE  IInv'
<1>1. PICK t : t = tig
  OBVIOUS
<1>2. PICK i : i = index
  OBVIOUS
<1>3. PICK o : o = [t EXCEPT !.mode = mode]
  OBVIOUS
<1>4. mode \in NewModes /\ tig' = Input(o, i) /\ index' = index
  BY <1>1, <1>2, <1>3 DEF SetMode, Do, Done
<1>5. ASSUME NEW Q, Fine(t, i, Q)
      PROVE  Fine(o, i, Q) /\ Silent(o) = Silent(t)
  <2>1. /\ Sound(o, i, Q, {}) /\ o.only = t.only /\ o.screen = t.screen
        /\ o.silent = t.silent
    BY <1>3, <1>4, <1>5, ModeIsSound DEF Fine
  <2>2. QED
    BY <1>5, <2>1 DEF Fine, OnlyForMain, Focused, Silent
<1>6. QED
  BY <1>1, <1>2, <1>4, <1>5, RequestIsWell

LEMMA ToggleUntrackedIsWell ==
  ASSUME AutoIsKept, IInv, ToggleUntracked
  PROVE  IInv'
<1>1. PICK t : t = tig
  OBVIOUS
<1>2. PICK i : i = index
  OBVIOUS
<1>3. PICK toggled : toggled = [t EXCEPT !.untracked = ~@]
  OBVIOUS
<1>4. PICK once : once = IF Main \in Displayed(t) THEN Reloaded(toggled, i, Main) ELSE toggled
  OBVIOUS
<1>5. PICK o : o = IF Log \in Displayed(t) THEN Reloaded(once, i, Log) ELSE once
  OBVIOUS
<1>6. MayToggle /\ tig' = Input(o, i) /\ index' = index
  BY <1>1, <1>2, <1>3, <1>4, <1>5 DEF ToggleUntracked, Do, Done
<1>7. ASSUME NEW Q, Fine(t, i, Q)
      PROVE  Fine(o, i, Q) /\ Silent(o) = Silent(t)
  <2>1. Sound(t, i, Q, {}) /\ t.screen \in D!Screens
    BY <1>7 DEF Fine, Focused, ScreenOK
  <2>2. ASSUME NEW v \in {Main, Log}, v \in Displayed(t)
        PROVE  v \in Views
    BY <2>2, ViewsAre DEF Displayed, D!Displayed
  <2>3. /\ Sound(toggled, i, Q, {}) /\ toggled.only = t.only
        /\ toggled.screen = t.screen /\ toggled.silent = t.silent
    BY <1>3, <1>6, <2>1, ToggledIsSound
  <2>4. Fine(toggled, i, Q) /\ Silent(toggled) = Silent(t)
    BY <1>7, <2>3 DEF Fine, OnlyForMain, Focused, Silent
  <2>5. Fine(once, i, Q) /\ Silent(once) = Silent(t)
    <3>1. CASE Main \in Displayed(t)
      <4>1. Main \in Views /\ once = Reloaded(toggled, i, Main)
        BY <1>4, <2>2, <3>1
      <4>2. Fine(once, i, Q) /\ Silent(once) = Silent(toggled)
        BY <2>4, <4>1, ReloadedIsFine
      <4>3. QED
        BY <2>4, <4>2
    <3>2. CASE Main \notin Displayed(t)
      BY <1>4, <2>4, <3>2
    <3>3. QED
      BY <3>1, <3>2
  <2>6. CASE Log \in Displayed(t)
    <3>1. Log \in Views /\ o = Reloaded(once, i, Log)
      BY <1>5, <2>2, <2>6
    <3>2. Fine(o, i, Q) /\ Silent(o) = Silent(once)
      BY <2>5, <3>1, ReloadedIsFine
    <3>3. QED
      BY <2>5, <3>2
  <2>7. CASE Log \notin Displayed(t)
    BY <1>5, <2>5, <2>7
  <2>8. QED
    BY <2>6, <2>7
<1>8. QED
  BY <1>1, <1>2, <1>6, <1>7, RequestIsWell

LEMMA PollIsWell ==
  ASSUME AutoIsKept, IInv, Poll
  PROVE  IInv'
<1>1. PICK t : t = tig
  OBVIOUS
<1>2. tig' = Input(t, index) /\ index' = index
  BY <1>1 DEF Poll, Do, Done
<1>3. QED
  BY <1>1, <1>2, RequestIsWell
LEMMA StatusUpdateIsWell ==
  ASSUME AutoIsKept, IInv, NEW k \in IndexKinds, NEW n \in 0 .. MaxChanges,
         NEW reverted \in BOOLEAN, StatusUpdate(k, n, reverted)
  PROVE  IInv'
<1>1. PICK t : t = tig
  OBVIOUS
<1>2. PICK i : i = index
  OBVIOUS
<1>3. PICK j : j = index'
  OBVIOUS
<1>4. PICK Q : Q = Silent(t)
  OBVIOUS
<1>5. PICK touched : touched = Touched(k, reverted)
  OBVIOUS
<1>6. PICK R : R = IndexKinds
  OBVIOUS
<1>7. PICK changed : changed = IF n = 0 THEN t ELSE Behind(t, touched)
  OBVIOUS
<1>8. PICK o : o = StatusAfter(changed, j)
  OBVIOUS
<1>9. tig' = Input(o, j) /\ Status = Current(t) /\ j \in Indices
  BY <1>1, <1>3, <1>5, <1>7, <1>8 DEF StatusUpdate, Done
<1>10. Fine(t, i, Q)
  BY <1>1, <1>2, <1>4, IsWell DEF Well
<1>11. t \in Tig /\ Status \in Views /\ Typed(t, i)
  BY <1>9, <1>10, SoundIsTyped DEF Fine, Focused, ScreenOK, Current
<1>12. Sound(changed, j, Q \cup R, {}) /\ Kept(t, changed)
  <2>1. CASE n = 0
    <3>1. \A v \in Logs : t.behind[v] \subseteq RefKinds
      BY <1>11 DEF Typed
    <3>2. Sound(t, i, Q, {})
      BY <1>10 DEF Fine
    <3>3. Sound(t, j, Q \cup R, {})
      BY <1>6, <1>9, <1>11, <3>1, <3>2, ChangedIsSound
    <3>4. QED
      BY <1>7, <2>1, <3>3 DEF Kept
  <2>2. CASE n # 0
    <3>1. touched \in SUBSET Kinds /\ touched \cap RefKinds \subseteq R
      BY <1>5, <1>6, KindsAre DEF Touched
    <3>2. Sound(t, i, Q, {})
      BY <1>10 DEF Fine
    <3>3. changed = Behind(t, touched)
      BY <1>7, <2>2
    <3>4. QED
      BY <1>6, <1>9, <3>1, <3>2, <3>3, BehindIsSound
  <2>3. QED
    BY <2>1, <2>2
<1>13. OnlyForMain(changed) /\ Focused(changed) /\ Silent(changed) = Q
  <2>1. changed \in Tig
    BY <1>12, SoundIsTyped
  <2>2. QED
    BY <1>4, <1>10, <1>12, <2>1, KeptIs DEF Fine
<1>14. PICK W : W = Q \cup R
  OBVIOUS
<1>15. Fine(o, j, W \ IndexKinds) /\ Silent(o) = Silent(changed)
  <2>1. PICK U : U = {}
    OBVIOUS
  <2>2. Sound(changed, j, W, U) /\ U \subseteq {Status}
    BY <1>12, <1>14, <2>1
  <2>3. QED
    BY <1>8, <1>11, <1>13, <2>2, StatusAfterIsFine
<1>16. W \ IndexKinds \subseteq Silent(o)
  BY <1>6, <1>13, <1>14, <1>15
<1>17. PICK S : S = W \ IndexKinds
  OBVIOUS
<1>18. QED
  BY <1>3, <1>9, <1>15, <1>16, <1>17, DoneIsWell

\* Reverting the last change tells nobody.
LEMMA RevertedIsFine ==
  ASSUME AutoIsKept, NEW t, NEW i, NEW Q, Fine(t, i, Q), Q = Silent(t),
         NEW k \in IndexKinds, k = "unstaged", NEW n \in Nat, n > 0, n <= i[k],
         NEW j \in Indices, \A x \in IndexKinds : j[x] = IF x = k THEN i[x] - n ELSE i[x],
         NEW changed, changed = Behind(t, {k}),
         NEW m, m = [changed EXCEPT !.silent = @ \/ j[k] = 0]
  PROVE  Fine(m, j, Silent(m))
<1>1. PICK R : R = IF j[k] = 0 THEN {k} ELSE {}
  OBVIOUS
<1>2. i \in Indices /\ t \in Tig /\ Sound(t, i, Q, {})
  BY SoundIsTyped DEF Fine
<1>3. ASSUME NEW x \in IndexKinds \ R
      PROVE  x \in Present(j) <=> x \in Present(i)
  <2>1. i[x] \in Nat /\ j[x] \in Nat
    BY <1>2 DEF Indices
  <2>2. CASE x = k
    <3>1. j[x] # 0
      BY <1>1, <1>3, <2>2
    <3>2. j[x] > 0 /\ i[x] > 0
      BY <2>1, <2>2, <3>1
    <3>3. QED
      BY <3>2 DEF Present
  <2>3. CASE x # k
    BY <2>3 DEF Present
  <2>4. QED
    BY <2>2, <2>3
<1>4. PICK kinds : kinds = {k}
  OBVIOUS
<1>5. kinds \in SUBSET Kinds /\ kinds \cap RefKinds \subseteq R /\ changed = Behind(t, kinds)
  BY <1>4, KindsAre
<1>6. Sound(changed, j, Q \cup R, {}) /\ Kept(t, changed)
  BY <1>2, <1>3, <1>5, BehindIsSound
<1>7. PICK W : W = Q \cup R
  OBVIOUS
<1>8. changed \in Tig
  BY <1>6, SoundIsTyped
<1>9. PICK b \in BOOLEAN : b = (changed.silent \/ j[k] = 0)
  OBVIOUS
<1>10. m = [changed EXCEPT !.silent = b]
  BY <1>8, <1>9 DEF Tig
<1>11. /\ m \in Tig /\ SameViews(changed, m) /\ m.watch = changed.watch
       /\ m.screen = changed.screen /\ m.silent = b
  BY <1>8, <1>10 DEF Tig, SameViews
<1>12. Sound(m, j, W, {})
  BY <1>6, <1>7, <1>11, SameIsSound
<1>13. W = Silent(m)
  <2>1. changed.silent = t.silent
    BY <1>6 DEF Kept
  <2>2. CASE j[k] = 0
    BY <1>1, <1>7, <1>9, <1>11, <2>2 DEF Silent
  <2>3. CASE j[k] # 0
    BY <1>1, <1>7, <1>9, <1>11, <2>1, <2>3 DEF Silent
  <2>4. QED
    BY <2>2, <2>3
<1>14. OnlyForMain(changed) /\ Focused(changed)
  BY <1>6, <1>8, KeptIs DEF Fine
<1>15. OnlyForMain(m) /\ Focused(m)
  BY <1>11, <1>14 DEF OnlyForMain, Focused, SameViews
<1>16. QED
  BY <1>12, <1>13, <1>15 DEF Fine
\* Staging tells of all changes of the index.
LEMMA StagedIsFine ==
  ASSUME AutoIsKept, NEW t, NEW i, Well(t, i), Stage \in Views, NEW j \in Indices,
         NEW touched \in SUBSET IndexKinds, NEW changed, changed = Behind(t, touched),
         NEW m, m = Told(changed)
  PROVE  Fine(m, j, {}) /\ Silent(m) = {}
<1>1. PICK Q : Q = Silent(t)
  OBVIOUS
<1>2. PICK R : R = IndexKinds
  OBVIOUS
<1>3. PICK W : W = Q \cup R
  OBVIOUS
<1>4. Sound(t, i, Q, {}) /\ OnlyForMain(t) /\ Focused(t)
  BY <1>1 DEF Well, Fine
<1>5. touched \in SUBSET Kinds /\ touched \cap RefKinds \subseteq R
  BY <1>2, KindsAre
<1>6. Sound(changed, j, Q \cup R, {}) /\ Kept(t, changed)
  BY <1>2, <1>4, <1>5, BehindIsSound
<1>7. Sound(changed, j, W, {})
  BY <1>3, <1>6
<1>8. /\ Sound(m, j, W \ IndexKinds, {}) /\ SameViews(changed, m)
      /\ m.screen = changed.screen /\ m.silent = FALSE
  BY <1>7, ToldIsSound
<1>9. W \ IndexKinds = {}
  BY <1>1, <1>2, <1>3 DEF Silent
<1>10. changed \in Tig
  BY <1>6, SoundIsTyped
<1>11. OnlyForMain(changed) /\ Focused(changed)
  BY <1>4, <1>6, <1>10, KeptIs
<1>12. OnlyForMain(m) /\ Focused(m)
  BY <1>8, <1>11 DEF OnlyForMain, Focused, SameViews
<1>13. QED
  BY <1>8, <1>9, <1>12 DEF Fine, Silent

LEMMA StageUpdateIsWell ==
  ASSUME AutoIsKept, IInv, NEW k \in IndexKinds, NEW n \in 0 .. MaxChanges,
         NEW reverted \in BOOLEAN, StageUpdate(k, n, reverted)
  PROVE  IInv'
<1>1. PICK t : t = tig
  OBVIOUS
<1>2. PICK i : i = index
  OBVIOUS
<1>3. PICK j : j = index'
  OBVIOUS
<1>4. PICK touched : touched = Touched(k, reverted)
  OBVIOUS
<1>5. PICK changed : changed = Behind(t, touched)
  OBVIOUS
<1>6. PICK told : told = IF reverted THEN [changed EXCEPT !.silent = @ \/ j[k] = 0]
                         ELSE Told(changed)
  OBVIOUS
<1>7. PICK o \in StageAfter(told, j) : tig' = Input(o, j)
  BY <1>1, <1>3, <1>4, <1>5, <1>6 DEF StageUpdate, Done
<1>8. Well(t, i) /\ j \in Indices
  BY <1>1, <1>2, <1>3, IsWell DEF StageUpdate
<1>9. Stage \in Views
  BY <1>1, <1>8 DEF StageUpdate, Well, Fine, Focused, ScreenOK, Current
<1>10. PICK Q : Q = Silent(told)
  OBVIOUS
<1>11. Fine(told, j, Q)
  <2>1. CASE reverted
    <3>1. k = "unstaged" /\ n > 0 /\ n <= i[k] /\ n \in Nat
      BY <1>2, <2>1, RefreshAssumption DEF StageUpdate
    <3>2. \A x \in IndexKinds : j[x] = IF x = k THEN i[x] - n ELSE i[x]
      <4>1. j = [x \in IndexKinds |-> CASE x = k -> i[x] - n
                                        [] x = Target(k) /\ ~reverted -> i[x] + n
                                        [] OTHER -> i[x]]
        BY <1>2, <1>3 DEF StageUpdate, Moved
      <4>2. QED
        BY <2>1, <4>1
    <3>3. touched = {k}
      BY <1>4, <2>1 DEF Touched
    <3>4. told = [changed EXCEPT !.silent = @ \/ j[k] = 0]
      BY <1>6, <2>1
    <3>5. PICK S : S = Silent(t)
      OBVIOUS
    <3>6. Fine(t, i, S)
      BY <1>8, <3>5 DEF Well
    <3>7. changed = Behind(t, {k})
      BY <1>5, <3>3
    <3>8. Fine(told, j, Silent(told))
      BY <1>8, <3>1, <3>2, <3>4, <3>5, <3>6, <3>7, RevertedIsFine
    <3>9. QED
      BY <1>10, <3>8
  <2>2. CASE ~reverted
    <3>1. touched \in SUBSET IndexKinds /\ told = Told(changed)
      BY <1>4, <1>6, <2>2 DEF Touched
    <3>2. Fine(told, j, {}) /\ Silent(told) = {}
      BY <1>5, <1>8, <1>9, <3>1, StagedIsFine
    <3>3. QED
      BY <1>10, <3>2
  <2>3. QED
    BY <2>1, <2>2
<1>12. Fine(o, j, Q) /\ Silent(o) = Silent(told)
  BY <1>7, <1>9, <1>11, StageAfterIsFine
<1>13. QED
  BY <1>3, <1>7, <1>10, <1>12, DoneIsWell
LEMMA RunCommandIsWell ==
  ASSUME AutoIsKept, IInv, NEW kinds \in SUBSET Kinds, RunCommand(kinds)
  PROVE  IInv'
<1>1. PICK t : t = tig
  OBVIOUS
<1>2. PICK i : i = index
  OBVIOUS
<1>3. PICK j : j = index'
  OBVIOUS
<1>4. PICK v : v = Current(t)
  OBVIOUS
<1>5. PICK done : done = Commanded(t, kinds)
  OBVIOUS
<1>6. PICK told : told = WatchCleaned(done, v)
  OBVIOUS
<1>7. PICK o : /\ IF IsDirty(done, v) THEN o \in RefreshRequested(told, j) ELSE o = told
               /\ tig' = Input(o, j)
  BY <1>1, <1>3, <1>4, <1>5, <1>6 DEF RunCommand, Done
<1>8. j \in Indices /\ Well(t, i)
  BY <1>1, <1>2, <1>3, IsWell DEF RunCommand, Changed
<1>9. v \in Views
  BY <1>4, <1>8 DEF Well, Fine, Focused, ScreenOK, Current
<1>10. PICK Q : Q = Silent(t)
  OBVIOUS
<1>11. PICK none : none = {}
  OBVIOUS
<1>12. Sound(t, i, Q, {}) /\ OnlyForMain(t) /\ Focused(t)
  BY <1>8, <1>10 DEF Well, Fine
<1>13. Sound(done, j, none, {}) /\ done.screen = t.screen /\ done.only = t.only
  BY <1>5, <1>8, <1>11, <1>12, CommandedIsSound
<1>14. /\ Sound(told, j, none, {v}) /\ Same(done, told)
       /\ ~IsDirty(done, v) => Sound(told, j, none, {})
  BY <1>6, <1>9, <1>13, CleanedIsSound
<1>15. OnlyForMain(told) /\ Focused(told) /\ {v} \subseteq {Current(told)}
  BY <1>4, <1>12, <1>13, <1>14 DEF OnlyForMain, Focused, Same, SameViews, Current
<1>16. Fine(o, j, none)
  <2>1. CASE IsDirty(done, v)
    <3>1. PICK U : U = {v}
      OBVIOUS
    <3>2. Sound(told, j, none, U) /\ U \subseteq {Current(told)}
      BY <1>14, <1>15, <3>1
    <3>3. o \in RefreshRequested(told, j)
      BY <1>7, <2>1
    <3>4. QED
      BY <1>15, <3>2, <3>3, RefreshRequestedIsFine
  <2>2. CASE ~IsDirty(done, v)
    BY <1>7, <1>14, <1>15, <2>2 DEF Fine
  <2>3. QED
    BY <2>1, <2>2
<1>17. none \subseteq Silent(o)
  BY <1>11
<1>18. QED
  BY <1>3, <1>7, <1>16, <1>17, DoneIsWell

\* What others may change is of no account.
LEMMA OutsideIsLeftOut ==
  ASSUME NEW t, NEW i, NEW Q, NEW R, NEW U, Sound(t, i, Q \cup R, U), R \cap Tracked = {}
  PROVE  Sound(t, i, Q, U)
<1>1. \A v : Noticed(t, i, v, Q \cup R) => Noticed(t, i, v, Q)
  BY DEF Noticed
<1>2. QED
  BY <1>1 DEF Sound

LEMMA OutsideChangeIsWell ==
  ASSUME AutoIsKept, IInv, NEW kinds \in SUBSET Kinds, OutsideChange(kinds)
  PROVE  IInv'
<1>1. PICK t : t = tig
  OBVIOUS
<1>2. PICK i : i = index
  OBVIOUS
<1>3. PICK j : j = index'
  OBVIOUS
<1>4. PICK m : m = Behind(t, kinds)
  OBVIOUS
<1>5. PICK Q : Q = Silent(t)
  OBVIOUS
<1>6. tig' = m /\ j \in Indices /\ \A k \in IndexKinds \ kinds : j[k] = i[k]
  BY <1>1, <1>2, <1>3, <1>4 DEF OutsideChange, Changed
<1>7. Sound(t, i, Q, {}) /\ OnlyForMain(t) /\ Focused(t)
  BY <1>1, <1>2, <1>5, IsWell DEF Well, Fine
<1>8. \A k \in IndexKinds \ kinds : k \in Present(j) <=> k \in Present(i)
  BY <1>6 DEF Present
<1>9. kinds \cap RefKinds \subseteq kinds
  OBVIOUS
<1>10. Sound(m, j, Q \cup kinds, {}) /\ Kept(t, m)
  BY <1>4, <1>6, <1>7, <1>8, <1>9, BehindIsSound
<1>11. kinds \cap Tracked = {}
  BY DEF OutsideChange, Tracked
<1>12. PICK U : U = {}
  OBVIOUS
<1>13. Sound(m, j, Q \cup kinds, U)
  BY <1>10, <1>12
<1>14. Sound(m, j, Q, U)
  BY <1>11, <1>13, OutsideIsLeftOut
<1>15. Fine(m, j, Q) /\ Silent(m) = Silent(t)
  BY <1>7, <1>10, <1>12, <1>14, KeptIsFine
<1>16. Well(m, j)
  BY <1>5, <1>15 DEF Well
<1>17. Well(tig', index')
  BY <1>3, <1>6, <1>16
<1>18. QED
  BY <1>17 DEF IInv, Well, Fine
LEMMA StageReadIsWell ==
  ASSUME IInv, StageRead
  PROVE  IInv'
<1>1. PICK t : t = tig
  OBVIOUS
<1>2. PICK i : i = index
  OBVIOUS
<1>3. PICK no \in BOOLEAN : no = FALSE
  OBVIOUS
<1>4. PICK s : s = [t.screen EXCEPT !.reading = no]
  OBVIOUS
<1>5. PICK m : m = [t EXCEPT !.screen = s]
  OBVIOUS
<1>6. ScreenOK(t.screen) /\ t \in Tig
  BY <1>1, ScreenIsOK
<1>7. tig' = m /\ index' = i
  BY <1>1, <1>2, <1>3, <1>4, <1>5, <1>6 DEF StageRead, Tig
<1>8. /\ s \in D!Screens /\ s.child = t.screen.child /\ s.base = t.screen.base
      /\ s.parent = t.screen.parent /\ s.focus = t.screen.focus
  BY <1>4, <1>6 DEF ScreenOK, D!Screens
<1>9. ScreenOK(s)
  BY <1>6, <1>8 DEF ScreenOK, D!Current
<1>10. PICK Q : Q = Silent(t)
  OBVIOUS
<1>11. Fine(t, i, Q)
  BY <1>1, <1>2, <1>10, IsWell DEF Well
<1>12. Sound(m, i, Q, {}) /\ Screened(t, m, s)
  BY <1>5, <1>8, <1>11, ScreenIsSound DEF Fine
<1>13. Fine(m, i, Q) /\ Silent(m) = Silent(t)
  BY <1>8, <1>9, <1>11, <1>12, ScreenIsFine DEF Fine
<1>14. Well(tig', index')
  BY <1>7, <1>10, <1>13 DEF Well
<1>15. QED
  BY <1>14 DEF IInv, Well, Fine

\* A view may lose its lines.
LEMMA UnloadedIsSound ==
  ASSUME NEW t, NEW i, NEW Q, NEW U, Sound(t, i, Q, U),
         NEW m \in Tig, m.watch = t.watch, m.mode = t.mode, m.untracked = t.untracked,
         m.loaded \subseteq t.loaded, m.shown = t.shown, m.behind = t.behind, m.only = t.only
  PROVE  Sound(m, i, Q, U)
<1>1. Typed(m, i)
  BY DEF Sound, Typed, Registers, Says
<1>2. /\ \A k : Differ(m, k) = Differ(t, k)
      /\ \A v : IsDirty(m, v) = IsDirty(t, v)
      /\ Listed(m) = Listed(t) /\ Tells(m) = Tells(t)
  BY DEF Differ, IsDirty, Listed, Tells
<1>3. \A v, k : IsStale(m, i, v, k) = IsStale(t, i, v, k)
  BY DEF IsStale, MainHas, Listed
<1>4. Agree(t) => Agree(m)
  BY <1>2 DEF Agree
<1>5. \A v : Noticed(t, i, v, Q) => Noticed(m, i, v, Q)
  BY <1>2, <1>3 DEF Noticed
<1>6. QED
  BY <1>1, <1>2, <1>4, <1>5 DEF Sound

LEMMA StageReadNothingIsWell ==
  ASSUME AutoIsKept, IInv, NEW lines \in {0, 1}, StageReadNothing(lines)
  PROVE  IInv'
<1>1. PICK t : t = tig
  OBVIOUS
<1>2. PICK i : i = index
  OBVIOUS
<1>3. PICK told : told = Told(t)
  OBVIOUS
<1>4. PICK prev : prev = t.screen.prev[Stage]
  OBVIOUS
<1>5. PICK front : front = D!Maximized(t.screen, prev)
  OBVIOUS
<1>6. PICK no \in BOOLEAN : no = FALSE
  OBVIOUS
<1>7. PICK s : s = [front EXCEPT !.reading = no]
  OBVIOUS
<1>8. PICK loaded : loaded = IF lines = 0 THEN told.loaded \ {Stage} ELSE told.loaded
  OBVIOUS
<1>9. PICK m : m = [told EXCEPT !.type = NoKind, !.loaded = loaded, !.screen = s]
  OBVIOUS
<1>10. PICK Q : Q = Silent(t)
  OBVIOUS
<1>11. Fine(t, i, Q) /\ t \in Tig
  BY <1>1, <1>2, <1>10, IsWell, ScreenIsOK DEF Well
<1>12. t.screen \in D!Screens /\ Stage \in Views /\ prev \in Views
  <2>1. t.screen \in D!Screens /\ Stage \in Views /\ prev # NoView
    BY <1>1, <1>4, ScreenIsOK DEF StageReadNothing, ScreenOK
  <2>2. QED
    BY <1>4, <2>1 DEF D!Screens
<1>13. ScreenOK(front) /\ front.parent = t.screen.parent
  BY <1>5, <1>12, MaximizedScreen
<1>14. /\ s \in D!Screens /\ s.child = front.child /\ s.base = front.base
       /\ s.parent = front.parent /\ s.focus = front.focus
  BY <1>7, <1>13 DEF ScreenOK, D!Screens
<1>15. ScreenOK(s)
  BY <1>13, <1>14 DEF ScreenOK, D!Current
<1>16. /\ Sound(told, i, Q \ IndexKinds, {}) /\ SameViews(t, told)
       /\ told.screen = t.screen /\ told.silent = FALSE
  BY <1>3, <1>11, <1>12, ToldIsSound DEF Fine
<1>17. PICK R : R = Q \ IndexKinds
  OBVIOUS
<1>18. R = {}
  BY <1>10, <1>17 DEF Silent
<1>19. told \in Tig
  BY <1>16, SoundIsTyped
<1>20. tig' = m /\ index' = i
  <2>1. tig' = [told EXCEPT !.type = NoKind,
                            !.loaded = IF lines = 0 THEN @ \ {Stage} ELSE @,
                            !.screen = [front EXCEPT !.reading = FALSE]]
    BY <1>1, <1>3, <1>4, <1>5 DEF StageReadNothing
  <2>2. QED
    BY <1>2, <1>6, <1>7, <1>8, <1>9, <1>19, <2>1 DEF StageReadNothing, Tig
<1>21. loaded \in SUBSET Views /\ loaded \subseteq told.loaded
  BY <1>8, <1>19 DEF Tig
<1>22. /\ m \in Tig /\ m.watch = told.watch /\ m.mode = told.mode
       /\ m.untracked = told.untracked /\ m.loaded \subseteq told.loaded
       /\ m.shown = told.shown /\ m.behind = told.behind /\ m.only = told.only
       /\ m.screen = s /\ m.silent = FALSE
  BY <1>9, <1>14, <1>16, <1>19, <1>21 DEF Tig
<1>23. PICK U : U = {}
  OBVIOUS
<1>24. Sound(m, i, R, U)
  BY <1>16, <1>17, <1>22, <1>23, UnloadedIsSound
<1>25. OnlyForMain(m)
  BY <1>11, <1>13, <1>14, <1>16, <1>22 DEF Fine, OnlyForMain, SameViews
<1>26. Focused(m)
  BY <1>15, <1>22 DEF Focused
<1>27. Silent(m) = R
  BY <1>18, <1>22 DEF Silent
<1>28. Well(m, i)
  BY <1>23, <1>24, <1>25, <1>26, <1>27 DEF Well, Fine
<1>29. Well(tig', index')
  BY <1>20, <1>28
<1>30. QED
  BY <1>29 DEF IInv, Well, Fine
-------------------------------------------------------------------------------
(* The invariant and the theorems.                                         *)

LEMMA InitIsWell ==
  ASSUME AutoIsKept, Init
  PROVE  IInv
<1> DEFINE screen(v) == [reading |-> FALSE, child |-> NoView,
                         prev |-> [w \in Views |-> NoView],
                         parent |-> [w \in Views |-> NoView], base |-> v, focus |-> 0]
           empty(v, files) ==
             [screen |-> screen(v), watch |-> [w \in Views |-> NoWatch],
              mode |-> InitialMode, untracked |-> TRUE, loaded |-> {},
              shown |-> [w \in Views |-> {}], behind |-> [w \in Views |-> {}],
              only |-> FALSE, type |-> NoKind, selected |-> NoKind,
              vid |-> NoKind, held |-> NoKind, empty |-> TRUE,
              ahead |-> {}, files |-> files, running |-> TRUE, silent |-> FALSE]
<1>1. PICK v \in First, files \in SUBSET RefKinds :
        index \in Indices /\ tig = Opened(empty(v, files), index, v)
  BY DEF Init
<1>2. PICK i : i = index
  OBVIOUS
<1>3. PICK s : s = screen(v)
  OBVIOUS
<1>4. v \in Views /\ ScreenOK(s)
  BY <1>1, <1>3, RefreshAssumption, ViewsAre DEF ScreenOK, D!Screens, D!Current
<1>5. PICK watch : watch = [w \in Views |-> NoWatch]
  OBVIOUS
<1>6. watch \in [Views -> Watches] /\ \A w \in Views : watch[w].state = {}
  BY <1>5 DEF Watches, NoWatch
<1>7. PICK none : none = [w \in Views |-> {}]
  OBVIOUS
<1>8. none \in [Views -> SUBSET IndexKinds] /\ none \in [Views -> SUBSET Kinds]
  BY <1>7
<1>9. PICK t : t = empty(v, files)
  OBVIOUS
<1>10. t = [screen |-> s, watch |-> watch,
            mode |-> InitialMode, untracked |-> TRUE, loaded |-> {},
            shown |-> none, behind |-> none,
            only |-> FALSE, type |-> NoKind, selected |-> NoKind,
            vid |-> NoKind, held |-> NoKind, empty |-> TRUE,
            ahead |-> {}, files |-> files, running |-> TRUE, silent |-> FALSE]
  BY <1>3, <1>5, <1>7, <1>9
<1> HIDE DEF screen, empty
<1>11. s \in D!Screens
  BY <1>4 DEF ScreenOK
<1>12. /\ t \in Tig /\ t.screen = s /\ t.watch = watch /\ t.mode = InitialMode
       /\ t.untracked = TRUE /\ t.loaded = {} /\ t.behind = none
       /\ t.only = FALSE /\ t.silent = FALSE
  BY <1>6, <1>8, <1>10, <1>11, RefreshAssumption DEF Tig
<1>13. PICK Q : Q = {}
  OBVIOUS
<1>14. PICK U : U = {}
  OBVIOUS
<1>15. Sound(t, i, Q, U)
  <2>1. \A w \in Logs : t.behind[w] \subseteq RefKinds
    BY <1>7, <1>12 DEF Logs
  <2>2. Typed(t, i)
    BY <1>1, <1>2, <1>6, <1>12, <2>1 DEF Typed, Registers, Says
  <2>3. \A w : Noticed(t, i, w, Q)
    BY <1>12 DEF Noticed
  <2>4. Agree(t)
    BY <1>12 DEF Agree
  <2>5. QED
    BY <2>2, <2>3, <2>4 DEF Sound
<1>16. PICK o : o = Opened(t, i, v)
  OBVIOUS
<1>17. U \subseteq IF v = Main THEN {Main, Status} ELSE {v}
  BY <1>14
<1>18. /\ Sound(o, i, Q \ ReportedBy(t, v), {})
       /\ o.screen = t.screen /\ o.silent = t.silent /\ o.only = t.only
  BY <1>4, <1>15, <1>16, <1>17, OpenedIsSound
<1>19. Q \ ReportedBy(t, v) = Silent(o)
  BY <1>12, <1>13, <1>18 DEF Silent
<1>20. OnlyForMain(o) /\ Focused(o)
  BY <1>4, <1>12, <1>18 DEF OnlyForMain, Focused
<1>21. tig = o
  BY <1>1, <1>2, <1>9, <1>16
<1>22. QED
  BY <1>2, <1>18, <1>19, <1>20, <1>21, IsWell DEF Well, Fine

LEMMA StepIsWell ==
  ASSUME AutoIsKept, IInv, [Next]_vars
  PROVE  IInv'
<1>1. CASE Navigate
  <2>1. ASSUME NEW v \in Views, View(v)
        PROVE  IInv'
    BY <2>1, ViewIsWell
  <2>2. CASE ViewStatus
    BY <2>2, ViewStatusIsWell
  <2>3. CASE ViewStage
    BY <2>3, ViewStageIsWell
  <2>4. ASSUME NEW k \in IndexKinds, Select(k)
        PROVE  IInv'
    BY <2>4, SelectIsWell
  <2>5. ASSUME NEW k \in IndexKinds, NEW enter \in BOOLEAN, EnterStage(k, enter)
        PROVE  IInv'
    BY <2>5, EnterStageIsWell
  <2>6. CASE EnterUntracked
    BY <2>6, EnterUntrackedIsWell
  <2>7. CASE ViewNext
    BY <2>7, ViewNextIsWell
  <2>8. CASE Maximize
    BY <2>8, MaximizeIsWell
  <2>9. CASE Close
    BY <2>9, CloseIsWell
  <2>10. QED
    BY <1>1, <2>1, <2>2, <2>3, <2>4, <2>5, <2>6, <2>7, <2>8, <2>9 DEF Navigate
<1>2. CASE Change
  <2>1. CASE RefreshKey
    BY <2>1, RefreshKeyIsWell
  <2>2. ASSUME NEW k \in IndexKinds, NEW n \in 0 .. MaxChanges, NEW reverted \in BOOLEAN,
               StatusUpdate(k, n, reverted) \/ StageUpdate(k, n, reverted)
        PROVE  IInv'
    BY <2>2, StatusUpdateIsWell, StageUpdateIsWell
  <2>3. ASSUME NEW kinds \in SUBSET Kinds, RunCommand(kinds)
        PROVE  IInv'
    BY <2>3, RunCommandIsWell
  <2>4. ASSUME NEW kinds \in SUBSET Kinds, OutsideChange(kinds)
        PROVE  IInv'
    BY <2>4, OutsideChangeIsWell
  <2>5. ASSUME NEW m \in Modes, SetMode(m)
        PROVE  IInv'
    BY <2>5, SetModeIsWell
  <2>6. CASE ToggleUntracked
    BY <2>6, ToggleUntrackedIsWell
  <2>7. Update => \E k \in IndexKinds, n \in 0 .. MaxChanges : \E reverted \in BOOLEAN :
                    StatusUpdate(k, n, reverted) \/ StageUpdate(k, n, reverted)
    BY DEF Update
  <2>8. QED
    BY <1>2, <2>1, <2>2, <2>3, <2>4, <2>5, <2>6, <2>7 DEF Change
<1>3. CASE Background
  <2>1. CASE Poll
    BY <2>1, PollIsWell
  <2>2. CASE StageRead
    BY <2>2, StageReadIsWell
  <2>3. ASSUME NEW lines \in {0, 1}, StageReadNothing(lines)
        PROVE  IInv'
    BY <2>3, StageReadNothingIsWell
  <2>4. QED
    BY <1>3, <2>1, <2>2, <2>3 DEF Background
<1>4. CASE UNCHANGED vars
  BY <1>4 DEF vars, IInv, OnlyForMain, Focused, Silent
<1>5. QED
  BY <1>1, <1>2, <1>3, <1>4 DEF Next, Terminated
LEMMA IInvHolds ==
  ASSUME AutoIsKept
  PROVE  Spec => []IInv
<1>1. Init => IInv
  BY InitIsWell
<1>2. IInv /\ [Next]_vars => IInv'
  BY StepIsWell
<1>3. QED
  BY <1>1, <1>2, PTL DEF Spec

\* The repository and the program are always what they are declared to be: a
\* request handler leaves a view, a watch or the screen in no other state.
THEOREM RefreshKeepsTypes ==
  ASSUME AutoIsKept
  PROVE  Spec => []TypeOK
<1>1. IInv => TypeOK
  BY SoundIsTyped DEF IInv, TypeOK
<1>2. QED
  BY <1>1, IInvHolds, PTL

\* With refresh-mode auto every change that tig makes, by itself or by a command
\* it runs, reaches every view but the stage view: one that shows something
\* else than the repository holds is marked, so that it is reloaded when it is
\* looked at.  Not so while the last change has been reverted in the stage view
\* and no view has been told.
THEOREM StaleViewsAreMarked ==
  ASSUME AutoIsKept, ToggleIsOutside
  PROVE  Spec => []StaleIsMarked
<1>1. Kinds \ Outside \subseteq Tracked
  <2>1. "untracked" \notin RefKinds
    BY WatchAssumption
  <2>2. MayToggle => "untracked" \notin Kinds \ Outside
    BY <2>1 DEF ToggleIsOutside, Kinds
  <2>3. QED
    BY <2>2 DEF Tracked
<1>2. IInv => StaleIsMarked
  <2>1. SUFFICES ASSUME IInv, tig.mode = "auto", ~tig.silent, NEW v \in Views \ {Stage},
                        v \in tig.loaded, ~IsDirty(tig, v),
                        NEW k \in Kinds \ Outside, IsStale(tig, index, v, k)
                 PROVE  FALSE
    BY Zenon DEF StaleIsMarked, Unnoticed
  <2>2. Silent(tig) = {} /\ Tells(tig)
    BY <2>1 DEF Silent, Tells
  <2>3. Noticed(tig, index, v, Silent(tig))
    BY <2>1, <2>2 DEF IInv, Sound
  <2>4. k \in Tracked \ Silent(tig)
    BY <1>1, <2>2
  <2>5. QED
    BY <2>1, <2>3, <2>4 DEF Noticed
<1>3. QED
  BY <1>2, IInvHolds, PTL

\* With refresh-mode auto the main view and the status view agree on what there
\* is to commit, of all that the status view lists, unless one of them is marked:
\* whoever loads a view, reports a change or takes a mark away in between.
THEOREM ViewsAgree ==
  ASSUME AutoIsKept
  PROVE  Spec => []ViewsAgreeOrMarked
<1>1. IInv => ViewsAgreeOrMarked
  <2>1. SUFFICES ASSUME IInv, tig.mode = "auto", {Main, Status} \subseteq tig.loaded
                 PROVE  \A k \in Listed(tig) :
                          Differ(tig, k) => IsDirty(tig, Main) \/ IsDirty(tig, Status)
    BY DEF ViewsAgreeOrMarked, Differ
  <2>2. Agree(tig)
    BY <2>1 DEF IInv, Sound, Tells
  <2>3. QED
    BY <2>1, <2>2 DEF Agree
<1>2. QED
  BY <1>1, IInvHolds, PTL
===============================================================================
