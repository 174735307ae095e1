-------------------------------- MODULE Polling --------------------------------
(***************************************************************************)
(* How tig notices what others do to the repository: the handlers of       *)
(* watch.c, which compare the times of files, and the presence of changes, *)
(* with those of their last look; watch_periodic, which has them look, and *)
(* get_input in display.c, which waits for it.  One view is on the screen. *)
(*                                                                         *)
(* Time is counted in seconds, as stat and time() do.  git diff works when *)
(* a handler runs it: there is no falling back on the time of the index.   *)
(*                                                                         *)
(* An operator marked "Mutant" is the one below it with a plausible bug;   *)
(* nothing uses it but PROJECT.json's mutants.                             *)
(***************************************************************************)
EXTENDS Watch, FiniteSets

CONSTANTS
  RefViews,     \* the views that draw refs (main, log, refs, reflog)
  IndexViews,   \* the views of the index (status); a view may be both
  PollModes,    \* the refresh-modes tig may be started with
  Branches,     \* names of branches
  Nested,       \* ... those with a slash: git keeps them in a directory below
  Interval,     \* opt_refresh_interval
  NoView,       \* NULL
  MaxTime,      \* bound: the last second
  MaxChanges    \* bound: changes that others make

ASSUME PollingAssumption ==
  /\ Views = RefViews \cup IndexViews
  /\ PollModes \subseteq Modes
  /\ Nested \subseteq Branches
  /\ IndexKinds \subseteq {"unstaged"}
  /\ NoView \notin Views
  /\ Interval \in Nat \ {0} /\ MaxTime \in Nat \ {0, 1} /\ MaxChanges \in Nat

VARIABLES
  now,   \* the time
  repo,  \* the repository, see Repositories
  tig    \* the program, see Tig

vars == <<now, repo, tig>>

Time == 1 .. MaxTime
Never == 0
NoBranch == "none"
HeadFile == "HEAD"
HeadsDir == "refs/heads"
Files == {HeadFile, HeadsDir} \cup Branches

Repositories ==
  [mtime : [Files -> Time], branch : Branches, unstaged : BOOLEAN, changes : 0 .. MaxChanges]

Tig ==
  [mode : PollModes,
   watch : [Views -> Watches],
   view : Views,                \* the one on the screen
   loaded : SUBSET Views,
   ahead : SUBSET RefKinds,     \* the table of refs is behind
   head : Branches,             \* get_ref_head()
   diff : BOOLEAN,              \* watch_index_handler: diff.unstaged ...
   looked : BOOLEAN,            \* ... and whether last_modified is set
   headSeen : {Never} \cup Time,  \* last_modified of watch_head_handler
   refsSeen : {Never} \cup Time,  \* ... and of watch_refs_handler
   update : {Never} \cup Time,    \* last_update of watch_periodic
   wake : Nat,                    \* when wgetch times out, or Never
   untold : [Views -> [Kinds -> {Never} \cup Time]]]  \* history: since when a
                                  \* change that a handler can see is kept from v

KindsOf(v) ==
  (IF v \in RefViews THEN RefKinds ELSE {}) \cup (IF v \in IndexViews THEN IndexKinds ELSE {})

IsDirty(t, v) == Dirty(t.watch, v)

\* watch_apply_changes, and who has been told.
Marked(t, event, source, changed) ==
  [t EXCEPT !.watch = Applied(@, t.mode, event, source, changed),
            !.untold = [v \in Views |-> [k \in Kinds |->
               IF v # source /\ ~NoRefresh(t.mode, event)
                  /\ (event = "after-command" \/ TriggersOf({k}) \cap changed # {})
               THEN Never ELSE @[v][k]]]]

-------------------------------------------------------------------------------
(* The handlers.  Each is given the program t and what has changed so far, *)
(* and returns both.                                                       *)

Newer(file, seen) == repo.mtime[file] > seen
Latest(file, seen) == IF Newer(file, seen) THEN repo.mtime[file] ELSE seen

\* check_file_mtime, which only sets the time at its first look.
Found(file, seen) == seen # Never /\ Newer(file, seen)

\* watch_index_handler, when index_diff succeeds.
IndexLooked(c, event) ==
  LET differs == repo.unstaged # c.t.diff
      found == differs /\ c.t.looked
  IN  IF event = "switch" THEN c
      ELSE [t |-> [c.t EXCEPT !.diff = repo.unstaged, !.looked = TRUE],
            changed |-> c.changed \cup (IF found THEN TriggersOf(IndexKinds) ELSE {})]

\* watch_head_handler: one time for two files.
HeadLooked(c, event) ==
  LET seen == c.t.headSeen
      here == Latest(HeadFile, seen)
      moved == Found(HeadFile, seen)
      grown == Found(c.t.head, here)
  IN  [t |-> [c.t EXCEPT !.headSeen = IF moved THEN here ELSE Latest(c.t.head, here)],
       changed |-> c.changed \cup (IF moved \/ grown THEN TriggersOf({"head"}) ELSE {})]

\* watch_refs_handler
RefsLooked(c, event) ==
  LET found == Found(HeadsDir, c.t.refsSeen)
  IN  [t |-> [c.t EXCEPT !.refsSeen = IF found THEN now ELSE Latest(HeadsDir, @)],
       changed |-> c.changed \cup (IF found THEN TriggersOf({"refs"}) ELSE {})]

\* A handler for some kinds is asked if one of the triggers is among those, and
\* there is something it can add.
Asked(c, triggers, kinds) ==
  triggers \cap TriggersOf(kinds) # {} /\ ~(TriggersOf(kinds) \subseteq c.changed)

\* watch_update_event, but for WATCH_EVENT_AFTER_COMMAND
LookedAt(t, event, triggers, changed) ==
  LET c0 == [t |-> t, changed |-> changed]
      c1 == IF Asked(c0, triggers, IndexKinds) THEN IndexLooked(c0, event) ELSE c0
      c2 == IF Asked(c1, triggers, {"head"}) THEN HeadLooked(c1, event) ELSE c1
      c3 == IF Asked(c2, triggers, RefKinds) THEN RefsLooked(c2, event) ELSE c2
  IN  IF NoRefresh(t.mode, event) THEN [t |-> t, changed |-> {}]
      ELSE [t |-> Marked(c3.t, event, NoView, c3.changed), changed |-> c3.changed]

\* watch_unchanged_triggers
Unmarked(t, v) == t.watch[v].triggers \ t.watch[v].changed

\* watch_update(WATCH_EVENT_PERIODIC)
Updated(t) == LookedAt(t, "periodic", UNION {Unmarked(t, v) : v \in Views}, {}).t

\* Mutant: only the view that is switched to is told.
SingleAlone(t, v) ==
  LET all == LookedAt(t, "switch", Unmarked(t, v), t.watch[v].changed)
  IN  [all EXCEPT
         !.t.watch = [u \in Views |-> IF u = v THEN all.t.watch[u] ELSE t.watch[u]],
         !.t.untold = [u \in Views |-> IF u = v THEN all.t.untold[u] ELSE t.untold[u]]]

\* watch_update_single(v, WATCH_EVENT_SWITCH_VIEW)
Single(t, v) == LookedAt(t, "switch", Unmarked(t, v), t.watch[v].changed)

\* watch_update(WATCH_EVENT_AFTER_COMMAND)
Commanded(t) ==
  IF NoRefresh(t.mode, "after-command") THEN t
  ELSE Marked([t EXCEPT !.looked = TRUE, !.headSeen = now, !.refsSeen = now],
              "after-command", NoView, TriggersOf(RefKinds))

-------------------------------------------------------------------------------
(* Views.                                                                  *)

\* view->ops->open.  Refs are drawn from the table, whatever it holds.
Opened(t, v) ==
  LET there == {<<k, repo.unstaged>> : k \in KindsOf(v) \cap IndexKinds}
      read == [t EXCEPT
        !.loaded = @ \cup {v},
        !.watch = Registered(@, v, KindsOf(v)),
        !.untold = [u \in Views |-> IF u = v THEN [k \in Kinds |-> Never] ELSE t.untold[u]]]
  IN  Marked(read, "load", v, there)

\* load_refs(true), which takes any HEAD for a new one (see Refdb)
RefsLoaded(t) ==
  [Marked(t, "load", NoView, TriggersOf(t.ahead \cup {"head"}))
     EXCEPT !.head = repo.branch, !.ahead = {}]

\* load_view(v) when the user switches to v
Switched(t, v) ==
  LET single == Single(t, v)
      checked == [single.t EXCEPT !.watch = IF single.changed = {} THEN @ ELSE Cleaned(@, v)]
      reload == v \notin t.loaded \/ (single.changed # {} /\ IsDirty(single.t, v))
  IN  IF v \notin t.loaded THEN [Opened(t, v) EXCEPT !.view = v]
      ELSE IF reload THEN [Opened(checked, v) EXCEPT !.view = v]
      ELSE [checked EXCEPT !.view = v]

-------------------------------------------------------------------------------
(* The input loop.                                                         *)

\* Mutant: an update waits until more than the interval has passed.
PeriodicLate(t) ==
  LET due == t.update = Never \/ t.update + Interval < now
      updated == IF due THEN [Updated(t) EXCEPT !.update = now] ELSE t
  IN  [updated EXCEPT !.wake = now + (now - updated.update + Interval)]

\* watch_periodic: the delay grows with the time since the last update.
Periodic(t) ==
  LET due == t.update = Never \/ t.update + Interval <= now
      updated == IF due THEN [Updated(t) EXCEPT !.update = now] ELSE t
  IN  [updated EXCEPT !.wake = now + (now - updated.update + Interval)]

\* Once round the loop of get_input, up to where it waits.
Looped(t) ==
  LET polled == IF t.mode = "periodic" THEN Periodic(t) ELSE [t EXCEPT !.wake = Never]
      v == t.view
      clean == [polled EXCEPT !.watch = Cleaned(@, v)]
      done == IF IsDirty(polled, v) THEN Opened(RefsLoaded(clean), v) ELSE clean
  IN  IF t.mode = "manual" THEN t
      ELSE [done EXCEPT !.wake = IF done.watch[v].changed # {} THEN now ELSE @]

-------------------------------------------------------------------------------
(* The user, time, and the others.                                         *)

\* The loop has come round with nothing to read: the user may press a key that
\* concerns no other view, the time has come, or a view was marked meanwhile.
Key == tig' = Looped(tig) /\ UNCHANGED <<now, repo>>

Switch(v) == tig' = Looped(Switched(tig, v)) /\ UNCHANGED <<now, repo>>

\* REQ_REFRESH in a view of refs: main_request
Refresh ==
  /\ tig.view \in RefViews
  /\ tig' = Looped(Opened(RefsLoaded(tig), tig.view))
  /\ UNCHANGED <<now, repo>>

\* A command that changes nothing is run: exec_run_request refreshes the view as
\* REQ_REFRESH does, the editor (open_external_viewer with do_refresh) without
\* loading the refs.
Command(editor) ==
  LET done == Commanded(tig)
      v == tig.view
      clean == [done EXCEPT !.watch = Cleaned(@, v)]
      refs == IF editor \/ v \notin RefViews THEN clean ELSE RefsLoaded(clean)
  IN  /\ tig' = Looped(IF IsDirty(done, v) THEN Opened(refs, v) ELSE clean)
      /\ UNCHANGED <<now, repo>>

\* wgetch returns in time.
Tick ==
  /\ now < MaxTime
  /\ tig.wake = Never \/ now < tig.wake
  /\ now' = now + 1
  /\ UNCHANGED <<repo, tig>>

\* A handler that has looked before, and not in this second, can see that a file
\* has changed.
Visible(seen) == seen # Never /\ seen < now

\* Others change kinds of the repository; the handlers can see some of these.
Fallen(t, kinds, visible) ==
  [t EXCEPT
     !.ahead = @ \cup (kinds \cap RefKinds),
     !.untold = [v \in Views |-> [k \in Kinds |->
        IF /\ v \in t.loaded /\ k \in kinds \cap visible \cap KindsOf(v)
           /\ TriggersOf({k}) \cap t.watch[v].changed = {}
        THEN IF @[v][k] = Never THEN now ELSE @[v][k]
        ELSE @[v][k]]]]

Touched(files) == [f \in Files |-> IF f \in files THEN now ELSE repo.mtime[f]]

Others ==
  /\ repo.changes < MaxChanges
  /\ UNCHANGED now

\* git checkout of another branch
Checkout(b) ==
  /\ Others
  /\ b # repo.branch
  /\ repo' = [repo EXCEPT !.mtime = Touched({HeadFile}), !.branch = b, !.changes = @ + 1]
  /\ tig' = Fallen(tig, {"head"}, IF Visible(tig.headSeen) THEN {"head"} ELSE {})

\* git commit, which replaces the file of the branch in its directory
Commit ==
  LET b == repo.branch
      dir == IF b \in Nested THEN {} ELSE {HeadsDir}
  IN  /\ Others
      /\ repo' = [repo EXCEPT !.mtime = Touched({b} \cup dir), !.changes = @ + 1]
      /\ tig' = Fallen(tig, {"head", "refs"},
                       (IF Visible(tig.headSeen) /\ tig.head = b THEN {"head"} ELSE {})
                       \cup (IF Visible(tig.refsSeen) /\ dir # {} THEN {"refs"} ELSE {}))

\* Files are changed, or changed back.
Edit ==
  /\ Others
  /\ repo' = [repo EXCEPT !.unstaged = ~@, !.changes = @ + 1]
  /\ tig' = IF tig.looked /\ tig.diff # repo'.unstaged THEN Fallen(tig, IndexKinds, IndexKinds)
            ELSE Fallen([tig EXCEPT !.untold = [v \in Views |-> [@[v] EXCEPT !["unstaged"] = Never]]], IndexKinds, {})

Init ==
  /\ now = 2
  /\ \E b \in Branches :
       repo = [mtime |-> [f \in Files |-> 1], branch |-> b, unstaged |-> FALSE, changes |-> 0]
  /\ \E mode \in PollModes, v \in Views :
       LET start == [mode |-> mode, watch |-> [u \in Views |-> NoWatch], view |-> v,
                     loaded |-> {}, ahead |-> {},
                     head |-> repo.branch, diff |-> FALSE, looked |-> FALSE,
                     headSeen |-> Never, refsSeen |-> Never, update |-> Never,
                     wake |-> Never, untold |-> [u \in Views |-> [k \in Kinds |-> Never]]]
       IN  tig = Looped(Opened(start, v))

Next ==
  \/ Key \/ Refresh \/ Tick
  \/ \E editor \in BOOLEAN : Command(editor)
  \/ \E v \in Views \ {tig.view} : Switch(v)
  \/ Commit \/ Edit \/ \E b \in Branches : Checkout(b)

Spec == Init /\ [][Next]_vars

-------------------------------------------------------------------------------
(* Properties.                                                             *)

TypeOK == now \in Time /\ repo \in Repositories /\ tig \in Tig

\* The next look of the handlers finds kind k changed.
WillBeFound(t, k) ==
  CASE k = "head" -> Found(HeadFile, t.headSeen) \/ Found(t.head, t.headSeen)
    [] k = "refs" -> Found(HeadsDir, t.refsSeen)
    [] OTHER -> t.looked /\ t.diff # repo.unstaged

\* No look of a handler for one view uses up a change that another view has not
\* been told of.
NothingUsedUp ==
  \A v \in Views, k \in Kinds : tig.untold[v][k] # Never => WillBeFound(tig, k)

\* With refresh-mode periodic every view is told of a change that a handler can
\* see within three intervals, however the user times the keys: each look starts
\* a new wait, but a key makes the time to the next one longer than the interval.
ToldInTime ==
  tig.mode = "periodic" =>
    \A v \in Views, k \in Kinds :
      tig.untold[v][k] # Never => now - tig.untold[v][k] <= 3 * Interval - 2
===============================================================================
