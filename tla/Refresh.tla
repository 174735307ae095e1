-------------------------------- MODULE Refresh -------------------------------
(***************************************************************************)
(* The main, status, stage and log views over one repository: what each    *)
(* read when it was last loaded, who marks whose watch, and the reloading  *)
(* that the marks lead to.  See the open functions and request handlers of *)
(* main.c, status.c, stage.c and log.c, load_view in view.c, and get_input *)
(* in display.c.                                                           *)
(*                                                                         *)
(* The index is a number of changes of each kind, a change being what can  *)
(* be staged at once; a view shows whether there are any and is `behind'   *)
(* in the kinds that have changed since it read them.  Screens are those   *)
(* of the module Display.                                                  *)
(*                                                                         *)
(* An operator marked "Mutant" is the one below it with a plausible bug;   *)
(* nothing uses it but PROJECT.json's mutants.                             *)
(***************************************************************************)
EXTENDS Watch

CONSTANTS
  Main, Status, Stage, Log,  \* the views (those that are not modelled: NoView)
  NoView,         \* NULL
  First,          \* the views tig may have been started with
  MaxChanges,     \* bound: changes of one kind
  InitialMode,    \* opt_refresh_mode when tig starts
  NewModes,       \* the modes the user may switch to
  MayToggle,      \* the user may toggle show-untracked
  MayRevert,      \* the user may revert changes
  Commands,       \* kinds changed by the commands that the user runs from tig
  Outside         \* parts of the index that other processes change

ASSUME RefreshAssumption ==
  /\ Views = {Main, Status, Stage, Log} \ {NoView}
  /\ Main \in Views => Main \notin {Status, Stage, Log}
  /\ Status \in Views => Status \notin {Stage, Log}
  /\ Stage \in Views => Stage # Log
  /\ First \subseteq Views
  /\ MaxChanges \in Nat
  /\ InitialMode \in Modes /\ NewModes \subseteq Modes
  /\ MayToggle \in BOOLEAN /\ MayRevert \in BOOLEAN
  /\ Commands \subseteq Kinds /\ Outside \subseteq IndexKinds

VARIABLES
  index,  \* the index: [IndexKinds -> 0 .. MaxChanges]
  tig     \* the program, see Tig

vars == <<index, tig>>

D == INSTANCE Display WITH
       Children <- [v \in Views |-> {}], FocusChild <- TRUE, MayFail <- {},
       Diff <- NoView, Grep <- NoView, Pager <- NoView,
       screen <- tig.screen, status <- "running"

Indices == [IndexKinds -> 0 .. MaxChanges]
NoKind == "none"

Tig ==
  [screen : D!Screens,
   watch : [Views -> Watches],
   mode : Modes,
   untracked : BOOLEAN,               \* opt_show_untracked
   loaded : SUBSET Views,             \* the views with lines
   shown : [Views -> SUBSET IndexKinds],  \* kinds a view lists as present
   behind : [Views -> SUBSET Kinds],
   only : BOOLEAN,                    \* show_untracked_only
   type : IndexKinds \cup {NoKind},   \* stage_line_type
   selected : IndexKinds \cup {NoKind},  \* argv_env.status: the line selected last
   vid : IndexKinds \cup {NoKind},    \* what it was when the stage view was loaded
   held : IndexKinds \cup {NoKind},   \* the kind whose diff the stage view holds
   empty : BOOLEAN,                   \* ... and there is none
   ahead : SUBSET RefKinds,  \* the repository differs from tig's table of refs
   files : SUBSET RefKinds,  \* the handlers of watch.c will find a change
   running : BOOLEAN,
   silent : BOOLEAN]         \* history: all is reverted, and no view has been told

Displayed(t) == D!Displayed(t.screen)
Current(t) == D!Current(t.screen)
IsDirty(t, v) == Dirty(t.watch, v)
WatchCleaned(t, v) == [t EXCEPT !.watch = Cleaned(t.watch, v)]

Present(i) == {k \in IndexKinds : i[k] > 0}

-------------------------------------------------------------------------------
(* Loading a view.                                                         *)

Marked(t, event, source, changed) ==
  [t EXCEPT !.watch = Applied(t.watch, t.mode, event, source, changed)]

\* watch_apply(WATCH_INDEX) by the stage view
Told(t) == [Marked(t, "load", Stage, IndexTriggers) EXCEPT !.silent = FALSE]

Reports(kinds, present) == {<<k, k \in present>> : k \in kinds}

\* A view v that registers for some kinds and reports what it reads of others.
ReadBy(t, v, kinds, reported, present) ==
  LET begun == [t EXCEPT !.watch = Registered(t.watch, v, kinds)]
  IN  [Marked(begun, "load", v, Reports(reported, present))
         EXCEPT !.loaded = @ \cup {v},
                !.shown = [u \in Views |-> IF u = v THEN present ELSE t.shown[u]],
                !.behind = [u \in Views |-> IF u = v THEN {} ELSE t.behind[u]]]

\* Mutant: the main view does not watch the index.
MainOpenedUnwatching(t, i) ==
  LET present == Present(i) \ (IF t.untracked THEN {} ELSE {"untracked"})
  IN  ReadBy(t, Main, RefKinds, IndexKinds, present)

\* main_open and main_check_index, with show-changes on
MainOpened(t, i) ==
  LET present == Present(i) \ (IF t.untracked THEN {} ELSE {"untracked"})
  IN  ReadBy(t, Main, Kinds, IndexKinds, present)

\* The kinds that the status view lists.
Listed(t) == IF t.only THEN IndexKinds \cap {"untracked"} ELSE IndexKinds

\* status_open
StatusOpened(t, i) ==
  ReadBy(t, Status, IndexKinds, Listed(t), Listed(t) \cap Present(i))

\* stage_open
StageOpened(t, i) ==
  [ReadBy(t, Stage, {t.type}, {}, {})
     EXCEPT !.vid = t.selected, !.held = t.type,
            !.empty = t.type \notin Present(i)]

\* Mutant: the log view does not watch HEAD.
LogOpenedHeadless(t) == ReadBy(t, Log, RefKinds \ {"head"}, {}, {})

\* log_open
LogOpened(t) == ReadBy(t, Log, RefKinds, {}, {})

CanLoad(t, v) == v = Stage => t.type # NoKind

\* view->ops->open
Opened(t, i, v) ==
  CASE v = Main -> MainOpened(t, i)
    [] v = Status -> StatusOpened(t, i)
    [] v = Stage -> StageOpened(t, i)
    [] v = Log -> LogOpened(t)

\* refresh_view(v)
Reloaded(t, i, v) ==
  IF ~CanLoad(t, v) THEN t
  ELSE [Opened(t, i, v) EXCEPT !.screen.reading = @ \/ v = Stage]

\* load_refs(true), which takes any HEAD for a new one (see Refdb)
RefsLoaded(t) ==
  [Marked(t, "load", NoView, Reports(t.ahead \cup (RefKinds \cap {"head"}), RefKinds))
     EXCEPT !.ahead = {}]

\* watch_update_single(v, WATCH_EVENT_SWITCH_VIEW): the files that v's triggers
\* depend on are checked, and all that v has missed is told to every view.
Checked(t, v) ==
  LET missed == TriggersOf(t.files) \cap (t.watch[v].triggers \ t.watch[v].changed)
      changed == t.watch[v].changed \cup missed
  IN  IF NoRefresh(t.mode, "switch") THEN t
      ELSE [Marked(t, "switch", NoView, changed)
              EXCEPT !.files = @ \ {k[1] : k \in missed}]

\* load_view(v) looks whether v is up to date, unless it is to be loaded `anew'.
IsFresh(t, v, anew) == anew \/ v \notin t.loaded \/ NoRefresh(t.mode, "switch")

Outcome(t, v, anew) ==
  IF \/ anew \/ v \notin t.loaded
     \/ ~IsFresh(t, v, anew) /\ IsDirty(Checked(t, v), v)
    THEN IF CanLoad(t, v) THEN "loads" ELSE "fails"
    ELSE "shows"

\* load_view(v), of which the screen is known.
Viewed(t, i, v, anew, screen) ==
  LET checked == IF IsFresh(t, v, anew) THEN t
                 ELSE WatchCleaned(Checked(t, v), v)
      opened == IF Outcome(t, v, anew) = "loads" THEN Opened(checked, i, v)
                ELSE checked
  IN  [opened EXCEPT !.screen = screen]

\* REQ_VIEW_MAIN and the like: open_view from the current view.
Switched(t, i, v, reload, anew) ==
  LET from == Current(t)
      already == v = from /\ t.screen.child = NoView /\ ~reload
      screen == D!Opened(t.screen, from, v, FALSE, reload, Outcome(t, v, anew))
  IN  IF already THEN [t EXCEPT !.screen = screen] ELSE Viewed(t, i, v, anew, screen)

\* The stage view is loaded anew if its name is not that of the selected line,
\* which may differ in the file if it does not in the kind.
StageAnew(t) == IF t.selected = t.vid THEN BOOLEAN ELSE {TRUE}

\* open_stage_view from a selected line of kind k in view `from', by Enter or
\* (~enter) by REQ_VIEW_STAGE.
StageEntered(t, i, from, k, enter) ==
  LET typed == [t EXCEPT !.type = k, !.selected = k]
      screen(anew) ==
        IF enter THEN D!Entered(t.screen, from, Stage, Outcome(typed, Stage, anew))
        ELSE D!Opened(t.screen, from, Stage, FALSE, FALSE, Outcome(typed, Stage, anew))
  IN  {Viewed(typed, i, Stage, anew, screen(anew)) : anew \in StageAnew(typed)}

\* The main view's Enter key on its untracked changes: open_status_view, which
\* lists nothing else then.
UntrackedEntered(t, i) ==
  LET only == [t EXCEPT !.only = TRUE]
      anew == ~t.only
  IN  Viewed(only, i, Status, anew,
             D!Entered(t.screen, Main, Status, Outcome(only, Status, anew)))

\* REQ_VIEW_CLOSE, which leaves tig with the last view.
Closed(t) ==
  LET v == Current(t)
      prev == t.screen.prev[v]
  IN  IF prev \in {NoView, v} THEN [t EXCEPT !.running = FALSE]
      ELSE [t EXCEPT !.screen = [D!Maximized(D!Stopped(t.screen, v), prev)
                                   EXCEPT !.prev[v] = v]]

-------------------------------------------------------------------------------
(* What the views' request handlers end with.                              *)

\* main_status_exists: the main view is reloaded before it is asked.
MainHas(i, t, k) == k \in Present(i) /\ (k = "untracked" => t.untracked)

\* status_request
StatusAfter(t, i) ==
  LET refreshed == Reloaded(t, i, Main)
  IN  IF t.only /\ t.screen.parent[Status] = Main
        THEN IF MainHas(i, t, "untracked") THEN Reloaded(refreshed, i, Status)
             ELSE Closed(refreshed)
        ELSE Reloaded(t, i, Status)

\* status_enter for the line the cursor is on, whichever it is.  A directory
\* and the title of the untracked files leave the screen as it is.
StatusEntered(t, i) ==
  LET nothing == IF t.screen.child = NoView THEN t
                 ELSE [t EXCEPT !.screen = D!Maximized(t.screen, Status)]
      refused == IF "untracked" \in t.shown[Status] THEN {t} ELSE {}
  IN  {nothing} \cup refused \cup UNION {StageEntered(t, i, Status, k, TRUE) : k \in t.shown[Status]}

\* stage_exists and what follows it in stage_request.  One file's changes may
\* be gone when others of the kind remain.
StageAfter(t, i) ==
  LET parent == t.screen.parent[Stage]
      refreshed == IF parent \in {Main, Status} \ {NoView}
                     THEN Reloaded(t, i, parent) ELSE t
      listed == parent \in {Main, Status} /\ t.type \in refreshed.shown[parent]
      gone == [refreshed EXCEPT !.type = NoKind]
      isGone == IF parent = Status /\ Status \in Displayed(t)
                  THEN StatusEntered(gone, i) ELSE {Closed(gone)}
      remains == IF t.type = "untracked" THEN {Closed(refreshed)}
                 ELSE {Reloaded(refreshed, i, Stage)}
  IN  CASE parent = NoView -> remains
        [] parent # NoView /\ ~listed -> isGone
        [] parent = Status /\ listed -> isGone \cup remains
        [] OTHER -> remains

\* REQ_REFRESH in the current view
RefreshRequested(t, i) ==
  LET v == Current(t)
  IN  CASE v = Status -> {StatusAfter([t EXCEPT !.ahead = @ \ {"head"}], i)}
        [] v = Stage /\ v \in t.loaded -> StageAfter(RefsLoaded(t), i)
        [] v = Stage /\ v \notin t.loaded -> {t}
        [] OTHER -> {Reloaded(RefsLoaded(t), i, v)}

\* get_input looks at the views on the screen in turn: the dirty ones are
\* reloaded, the first after the refs.
Polled(t, i, v, first) ==
  LET cleaned == WatchCleaned(t, v)
      refs == IF first THEN RefsLoaded(cleaned) ELSE cleaned
  IN  IF IsDirty(t, v) THEN Reloaded(refs, i, v) ELSE cleaned

PolledAll(t, i) ==
  LET base == t.screen.base
      once == Polled(t, i, base, TRUE)
      child == t.screen.child
  IN  IF child = NoView \/ child = base THEN once
      ELSE Polled(once, i, child, ~IsDirty(t, base))

\* Before each key it waits for, get_input goes round once.
Input(t, i) == IF t.running /\ t.mode # "manual" THEN PolledAll(t, i) ELSE t

-------------------------------------------------------------------------------
(* User requests, each up to when the next key may come.                   *)

\* Kinds of the repository change: the views that show them fall behind.
Behind(t, kinds) ==
  [t EXCEPT !.behind = [v \in Views |->
              CASE v \notin t.loaded -> {}
                [] v = Stage -> t.behind[v] \cup (kinds \cap {t.held})
                [] v = Status -> {}
                [] OTHER -> t.behind[v] \cup (kinds \cap RefKinds)],
            !.ahead = @ \cup (kinds \cap RefKinds)]

Done(outcomes, i) == tig' \in {Input(t, i) : t \in outcomes}

Do(t) == tig.running /\ Done({t}, index) /\ UNCHANGED index

View(v) ==
  /\ v \notin {Status, Stage}
  /\ Do(Switched(tig, index, v, FALSE, FALSE))

ViewStatus ==
  /\ Status \in Views
  /\ Do(Switched([tig EXCEPT !.only = FALSE], index, Status, tig.only, tig.only))

ViewStage ==
  /\ Stage \in Views
  /\ Current(tig) # Status
  /\ \E anew \in StageAnew(tig) : Do(Switched(tig, index, Stage, FALSE, anew))

\* The cursor comes to a line of changes (status_select, main_select).
Select(k) ==
  /\ Current(tig) \in {Main, Status}
  /\ k \in tig.shown[Current(tig)]
  /\ Do([tig EXCEPT !.selected = k])

EnterStage(k, enter) ==
  LET from == Current(tig)
  IN  /\ tig.running
      /\ Stage \in Views
      /\ from \in {Main, Status}
      /\ k \in tig.shown[from]
      /\ from = Main => k # "untracked"
      /\ Done(StageEntered(tig, index, from, k, enter), index)
      /\ UNCHANGED index

EnterUntracked ==
  /\ Status \in Views
  /\ Current(tig) = Main
  /\ "untracked" \in tig.shown[Main]
  /\ Do(UntrackedEntered(tig, index))

ViewNext ==
  /\ tig.screen.child # NoView
  /\ Do([tig EXCEPT !.screen.focus = 1 - @])

Maximize ==
  /\ tig.screen.child # NoView
  /\ Do([tig EXCEPT !.screen = D!Maximized(tig.screen, Current(tig))])

Close ==
  Do(Closed(IF Current(tig) = Stage /\ Stage \in tig.loaded
              THEN [tig EXCEPT !.type = NoKind] ELSE tig))

RefreshKey ==
  /\ tig.running
  /\ Done(RefreshRequested(tig, index), index)
  /\ UNCHANGED index

\* Where a change goes when it is staged or unstaged.
Target(k) == IF k = "staged" THEN "unstaged" ELSE "staged"

\* n changes go from k to its target, or nowhere.
Moved(k, n, reverted) ==
  [j \in IndexKinds |->
     CASE j = k -> index[j] - n
       [] j = Target(k) /\ ~reverted -> index[j] + n
       [] OTHER -> index[j]]

Touched(k, reverted) == ({k} \cup (IF reverted THEN {} ELSE {Target(k)})) \cap IndexKinds

\* REQ_STATUS_UPDATE and REQ_STATUS_REVERT in the status view; what it lists may
\* no longer be there.
StatusUpdate(k, n, reverted) ==
  /\ tig.running
  /\ Current(tig) = Status
  /\ k \in tig.shown[Status]
  /\ reverted => k = "unstaged"
  /\ n <= index[k]
  /\ index' = Moved(k, n, reverted)
  /\ index' \in Indices
  /\ LET changed == IF n = 0 THEN tig ELSE Behind(tig, Touched(k, reverted))
     IN  Done({StatusAfter(changed, index')}, index')

\* Mutant: the other views are not told.
StageUpdateSilent(k, n, reverted) ==
  /\ tig.running
  /\ Current(tig) = Stage /\ Stage \in tig.loaded
  /\ IF tig.type = NoKind THEN k = "unstaged" ELSE k = tig.type
  /\ reverted => k = "unstaged" /\ tig.type = k
  /\ n > 0 /\ n <= index[k]
  /\ index' = Moved(k, n, reverted)
  /\ index' \in Indices
  /\ Done(StageAfter(Behind(tig, Touched(k, reverted)), index'), index')

\* Staging and reverting in the stage view, of one chunk or of all.  Without a
\* type (the view has been closed and is shown again) a chunk is staged.
StageUpdate(k, n, reverted) ==
  LET changed == Behind(tig, Touched(k, reverted))
      told == IF reverted THEN [changed EXCEPT !.silent = @ \/ index'[k] = 0]
              ELSE Told(changed)
  IN  /\ tig.running
      /\ Current(tig) = Stage /\ Stage \in tig.loaded
      /\ IF tig.type = NoKind THEN k = "unstaged" ELSE k = tig.type
      /\ reverted => k = "unstaged" /\ tig.type = k
      /\ n > 0 /\ n <= index[k]
      /\ index' = Moved(k, n, reverted)
      /\ index' \in Indices
      /\ Done(StageAfter(told, index'), index')

Update ==
  \E k \in IndexKinds, n \in 0 .. MaxChanges,
     reverted \in (IF MayRevert THEN BOOLEAN ELSE {FALSE}) :
    StatusUpdate(k, n, reverted) \/ StageUpdate(k, n, reverted)

\* Some kinds of the repository are changed by a git command.
Changed(kinds) ==
  /\ index' \in Indices
  /\ \A k \in IndexKinds \ kinds : index'[k] = index[k]
  /\ \A k \in IndexKinds \cap kinds : index'[k] # index[k]

\* watch_update(WATCH_EVENT_AFTER_COMMAND): the handlers take the files as they
\* are now for granted.
Commanded(t, kinds) ==
  LET changed == Behind(t, kinds)
  IN  IF NoRefresh(t.mode, "after-command") THEN changed
      ELSE [Marked(changed, "after-command", NoView, Triggers)
              EXCEPT !.files = {}, !.silent = FALSE]

\* open_external_viewer marks all views; a run request then refreshes the
\* current view.
RunCommand(kinds) ==
  LET done == Commanded(tig, kinds)
      told == WatchCleaned(done, Current(tig))
  IN  /\ kinds # {} /\ kinds \subseteq Commands
      /\ tig.running
      /\ Changed(kinds)
      /\ Done(IF IsDirty(done, Current(tig)) THEN RefreshRequested(told, index')
              ELSE {told}, index')

\* The user sets refresh-mode or toggles show-untracked; the latter reloads the
\* log-like views on the screen (prompt_update_display).
SetMode(m) ==
  /\ m \in NewModes
  /\ Do([tig EXCEPT !.mode = m])

ToggleUntracked ==
  LET toggled == [tig EXCEPT !.untracked = ~@]
      once == IF Main \in Displayed(tig) THEN Reloaded(toggled, index, Main) ELSE toggled
  IN  /\ MayToggle
      /\ Do(IF Log \in Displayed(tig) THEN Reloaded(once, index, Log) ELSE once)

-------------------------------------------------------------------------------
(* The input loop, and the world.                                          *)

Poll ==
  /\ tig.running /\ tig.mode # "manual"
  /\ \E v \in Displayed(tig) : tig.watch[v].changed # {}
  /\ Do(tig)

\* stage_read at the end of the diff.  If there is none the previous view comes
\* back; the stage view then has no line, or an empty one.
StageRead ==
  /\ tig.running /\ tig.screen.reading
  /\ \/ ~tig.empty \/ tig.screen.prev[Stage] = NoView \/ tig.type = NoKind
  /\ tig' = [tig EXCEPT !.screen.reading = FALSE]
  /\ UNCHANGED index

StageReadNothing(lines) ==
  LET prev == tig.screen.prev[Stage]
  IN  /\ Stage \in Views
      /\ tig.running /\ tig.screen.reading
      /\ tig.empty /\ prev # NoView /\ tig.type # NoKind
      /\ tig' = [Told(tig) EXCEPT !.type = NoKind,
                                  !.loaded = IF lines = 0 THEN @ \ {Stage} ELSE @,
                                  !.screen = [D!Maximized(tig.screen, prev)
                                                EXCEPT !.reading = FALSE]]
      /\ UNCHANGED index

OutsideChange(kinds) ==
  /\ kinds # {} /\ kinds \subseteq Outside
  /\ tig.running
  /\ Changed(kinds)
  /\ tig' = Behind(tig, kinds)

-------------------------------------------------------------------------------
Navigate ==
  \/ \E v \in Views : View(v)
  \/ ViewStatus
  \/ ViewStage
  \/ \E k \in IndexKinds : Select(k)
  \/ \E k \in IndexKinds, enter \in BOOLEAN : EnterStage(k, enter)
  \/ EnterUntracked
  \/ ViewNext
  \/ Maximize
  \/ Close

Change ==
  \/ RefreshKey
  \/ Update
  \/ \E kinds \in SUBSET Kinds : RunCommand(kinds) \/ OutsideChange(kinds)
  \/ \E m \in Modes : SetMode(m)
  \/ ToggleUntracked

Background ==
  \/ Poll
  \/ StageRead
  \/ \E lines \in {0, 1} : StageReadNothing(lines)

Terminated == ~tig.running /\ UNCHANGED vars

\* A handler that looks at its two files for the first time reports a change if
\* the second is the newer one.
Init ==
  /\ index \in Indices
  /\ \E v \in First, files \in SUBSET RefKinds :
       LET screen == [reading |-> FALSE, child |-> NoView,
                      prev |-> [w \in Views |-> NoView],
                      parent |-> [w \in Views |-> NoView], base |-> v, focus |-> 0]
           empty == [screen |-> screen, watch |-> [w \in Views |-> NoWatch],
                     mode |-> InitialMode, untracked |-> TRUE, loaded |-> {},
                     shown |-> [w \in Views |-> {}], behind |-> [w \in Views |-> {}],
                     only |-> FALSE, type |-> NoKind, selected |-> NoKind,
                     vid |-> NoKind, held |-> NoKind, empty |-> TRUE,
                     ahead |-> {}, files |-> files, running |-> TRUE, silent |-> FALSE]
       IN  tig = Opened(empty, index, v)

Next == Navigate \/ Change \/ Background \/ Terminated

Spec == Init /\ [][Next]_vars

\* The input loop goes round, and git's output comes to its end.
FairSpec == Spec /\ WF_vars(Background)

-------------------------------------------------------------------------------
(* Properties.                                                             *)

TypeOK == index \in Indices /\ tig \in Tig

\* What view v of t shows of kind k is not what the repository holds.
IsStale(t, i, v, k) ==
  CASE v = Main /\ k \in IndexKinds -> (k \in t.shown[Main]) # MainHas(i, t, k)
    [] v = Status ->
         k \in Listed(t) /\ (k \in t.shown[Status]) # (k \in Present(i))
    [] OTHER -> k \in t.behind[v]

Unnoticed(v) ==
  /\ v \in tig.loaded /\ ~IsDirty(tig, v)
  /\ \E k \in Kinds \ Outside : IsStale(tig, index, v, k)

\* With refresh-mode at "auto" every change that tig itself makes reaches every
\* view: one that shows something else is marked, even if it is hidden.  That
\* the last change is reverted in the stage view is told when a diff that it
\* reads turns out to be empty, so not if the user leaves the view before.
StaleIsMarked == tig.mode = "auto" /\ ~tig.silent => \A v \in Views \ {Stage} : ~Unnoticed(v)

\* "views are refreshed when a modification is detected in another view"
\* (doc/tigrc.5.adoc): the main and status views never disagree on what there is
\* to commit, unless one of them is about to be reloaded.
ViewsAgreeOrMarked ==
  (tig.mode = "auto" /\ {Main, Status} \subseteq tig.loaded) =>
    \A k \in Listed(tig) :
      (k \in tig.shown[Main]) # (k \in tig.shown[Status]) =>
        IsDirty(tig, Main) \/ IsDirty(tig, Status)

\* Refreshing comes to an end: once nobody presses a key and the repository is
\* left alone, the views on the screen stop marking each other, and update_views
\* in display.c lets get_input wait.
RefreshingSettles ==
  \/ []<><<~Background>>_vars
  \/ <>[](tig.running => \A v \in Displayed(tig) : tig.watch[v].changed = {})
===============================================================================
