------------------------------- MODULE Display --------------------------------
(***************************************************************************)
(* Which views are on tig's screen and how the user travels between them:  *)
(* opening a view, splitting the screen for a child, maximizing, changing  *)
(* the focus, walking the parent from the child, closing.  See "View       *)
(* opening" in view.c and view_driver in tig.c.                            *)
(*                                                                         *)
(* Two links run from view to view.  `prev' is where closing a view leads; *)
(* a view whose prev is the view itself is closed.  `parent' is the view   *)
(* whose lines the up and down keys walk while the child is watched.  Both *)
(* survive the view's leaving the screen.                                  *)
(*                                                                         *)
(* An operator marked "Mutant" is the one below it with a plausible bug;   *)
(* nothing uses it but PROJECT.json's mutants.                             *)
(***************************************************************************)
EXTENDS Integers

CONSTANTS
  Views,      \* the views that may be opened
  NoView,     \* NULL
  Children,   \* which views' Enter key opens which views in a split
  FocusChild, \* opt_focus_child
  MayFail,    \* the views whose open() may fail
  Main, Diff, Stage, Status, Grep, Pager  \* the views with code of their own

ASSUME DisplayAssumption ==
  /\ NoView \notin Views
  /\ Children \in [Views -> SUBSET Views]
  /\ FocusChild \in BOOLEAN
  /\ MayFail \subseteq Views

VARIABLES
  screen,   \* [base, child: display[0] and display[1]; focus: current_view;
            \*  prev, parent: the links; reading: stage_view is loading]
  status    \* "running", "quit" or "aborted" by an assert()

screenVars == <<screen, status>>

Screens ==
  [base : Views, child : Views \cup {NoView}, focus : {0, 1},
   prev : [Views -> Views \cup {NoView}], parent : [Views -> Views \cup {NoView}],
   reading : BOOLEAN]

Displayed(s) == {s.base, s.child} \ {NoView}
Current(s) == IF s.focus = 0 THEN s.base ELSE s.child

\* The view given on the command line has been opened.
ScreenInit ==
  /\ \E v \in Views :
       screen = [base |-> v, child |-> NoView, focus |-> 0,
                 prev |-> [w \in Views |-> NoView],
                 parent |-> [w \in Views |-> NoView], reading |-> v = Stage]
  /\ status = "running"

-------------------------------------------------------------------------------
(* What the functions of view.c do to the screen.                          *)

\* maximize_view
Maximized(s, v) == [s EXCEPT !.base = v, !.child = NoView, !.focus = 0]

\* split_view(from, v)
SplitBy(s, from, v) ==
  [s EXCEPT !.child = v,
            !.focus = IF FocusChild THEN 1 ELSE 0,
            !.parent[v] = from]

\* load_view(v, from).  The outcome is "loads" or "fails" when the view's
\* open() is called, and "shows" when the view is up to date.
Loaded(s, from, v, split, outcome) ==
  LET linked == IF v # from THEN [s EXCEPT !.prev[v] = from] ELSE s
      begun == IF v = Stage /\ outcome = "loads"
                 THEN [linked EXCEPT !.reading = TRUE] ELSE linked
  IN  IF outcome = "fails" THEN linked
      ELSE IF split THEN SplitBy(begun, from, v)
      ELSE Maximized(begun, v)

\* Mutant: a child is made a previous view.
OpenedFromChild(s, from, v, split, reload, outcome) ==
  LET orphaned == IF v # s.base THEN [s EXCEPT !.parent[v] = NoView] ELSE s
  IN  IF v = from /\ s.child = NoView /\ ~reload
        THEN [s EXCEPT !.parent[v] = NoView]
        ELSE Loaded(orphaned, from, v, split, outcome)

\* open_view(from, v): opening the only view on the screen from itself cuts it
\* loose from its parent, and a child is never made a previous view.
Opened(s, from, v, split, reload, outcome) ==
  LET isChild == s.parent[from] # NoView /\ from = s.child
      opener == IF isChild THEN s.parent[from] ELSE from
      orphaned == IF v # s.base THEN [s EXCEPT !.parent[v] = NoView] ELSE s
  IN  IF v = from /\ s.child = NoView /\ ~reload
        THEN [s EXCEPT !.parent[v] = NoView]
        ELSE Loaded(orphaned, opener, v, split, outcome)

\* Mutant: a split of the screen whether v is on it or not.
EnteredSplitting(s, v, w, outcome) == Opened(s, v, w, TRUE, FALSE, outcome)

\* The Enter key of view v opens w: in a split when v is on the screen.  The
\* main view first takes the whole screen if it is a child, or if it is hidden
\* and is going to split (main_request); the grep view always splits.
Entered(s, v, w, outcome) ==
  LET shown == v \in Displayed(s)
      split == \/ shown
               \/ v = Grep
               \/ v = Main /\ (w # Diff \/ Diff \notin Displayed(s))
      front == v = Main /\ (IF shown THEN s.base # v ELSE split)
      alone == [Maximized(s, v) EXCEPT !.parent[v] = NoView]
  IN  Opened(IF front THEN alone ELSE s, v, w, split, FALSE, outcome)

\* The assertions that v is on the screen when its Enter key, having led to
\* screen s, goes on to scroll it or, if it opened a view, to update its title
\* (pager_request).
EnterAsserts(s, v, opened) ==
  v = Pager =>
    /\ v = Current(s) \/ ~FocusChild => v \in Displayed(s)
    /\ opened => v \in Displayed(s)

\* end_update(v, true)
Stopped(s, v) == IF v = Stage THEN [s EXCEPT !.reading = FALSE] ELSE s

-------------------------------------------------------------------------------
(* User requests (view_driver).                                            *)

Outcomes(v) == {"loads", "shows"} \cup (IF v \in MayFail THEN {"fails"} ELSE {})

Show(s) ==
  /\ status = "running"
  /\ screen' = s
  /\ UNCHANGED status

ShowIf(asserts, s) ==
  /\ status = "running"
  /\ screen' = s
  /\ status' = IF asserts THEN status ELSE "aborted"

\* REQ_VIEW_MAIN and the like, and requests that open a view anew.
OpenView(v, reload, outcome) ==
  Show(Opened(screen, Current(screen), v, FALSE, reload, outcome))

\* REQ_ENTER in the view that has the focus.
Enter(v, outcome) ==
  LET from == Current(screen)
      after == Entered(screen, from, v, outcome)
  IN  /\ v \in Children[from]
      /\ ShowIf(EnterAsserts(after, from, TRUE), after)

\* status_enter, on a line that names no file: the status view takes the whole
\* screen.
EnterNothing ==
  /\ Current(screen) = Status
  /\ screen.child # NoView
  /\ Show(Maximized(screen, Status))

\* REQ_VIEW_DIFF in the main view: as Enter, without a split.
ViewDiff(v, outcome) ==
  LET from == Current(screen)
      alone == [Maximized(screen, Main) EXCEPT !.parent[Main] = NoView]
  IN  /\ from = Main
      /\ v \in Children[Main]
      /\ Show(Opened(IF screen.base # Main THEN alone ELSE screen,
                     Main, v, FALSE, FALSE, outcome))

\* REQ_NEXT and REQ_PREVIOUS in a view with a parent: the parent's cursor is
\* moved and its Enter key pressed, whether it is on the screen or not.  The
\* line it comes to has a view to open ...
WalkParent(v, outcome) ==
  LET child == Current(screen)
      from == screen.parent[child]
      after == Entered(Stopped(screen, child), from, v, outcome)
  IN  /\ from # NoView
      /\ v \in Children[from]
      /\ ShowIf(EnterAsserts(after, from, TRUE), after)

\* ... or has not.
WalkParentOnly ==
  LET child == Current(screen)
      from == screen.parent[child]
  IN  /\ from # NoView
      /\ ShowIf(EnterAsserts(screen, from, FALSE), Stopped(screen, child))

\* ... or has not, and the parent is the status view.
WalkToNothing ==
  LET child == Current(screen)
  IN  /\ screen.parent[child] = Status /\ Status # NoView
      /\ screen.child # NoView
      /\ Show(Maximized(Stopped(screen, child), Status))

\* REQ_VIEW_NEXT, and a click in the other view.
ViewNext ==
  /\ screen.child # NoView
  /\ Show([screen EXCEPT !.focus = 1 - @])

\* REQ_MAXIMIZE
Maximize ==
  /\ screen.child # NoView
  /\ Show(Maximized(screen, Current(screen)))

\* REQ_REFRESH of the stage view, and a refresh by the input loop.
RefreshStage ==
  /\ Stage \in Displayed(screen)
  /\ Show([screen EXCEPT !.reading = TRUE])

\* REQ_VIEW_CLOSE leads to the previous view of the one that is closed ...
CanGoBack(v) == screen.prev[v] \notin {NoView, v}

\* Mutant: the view is not marked as closed.
CloseUnmarked ==
  LET v == Current(screen)
  IN  /\ CanGoBack(v)
      /\ Show(Maximized(Stopped(screen, v), screen.prev[v]))

Close ==
  LET v == Current(screen)
  IN  /\ CanGoBack(v)
      /\ Show([Maximized(Stopped(screen, v), screen.prev[v])
                 EXCEPT !.prev[v] = v])

\* ... or quits; REQ_QUIT quits at once.
CloseLast ==
  /\ status = "running"
  /\ ~CanGoBack(Current(screen))
  /\ status' = "quit"
  /\ UNCHANGED screen

Quit ==
  /\ status = "running"
  /\ status' = "quit"
  /\ UNCHANGED screen

-------------------------------------------------------------------------------
(* The stage view's reading, in the background.                            *)

StageRead ==
  /\ screen.reading
  /\ Show([screen EXCEPT !.reading = FALSE])

\* stage_read: there is nothing left to stage, and the previous view comes
\* back, whatever is on the screen.
StageReadNothing ==
  /\ screen.reading
  /\ screen.prev[Stage] # NoView
  /\ Show([Maximized(screen, screen.prev[Stage]) EXCEPT !.reading = FALSE])

-------------------------------------------------------------------------------
Opening ==
  \E v \in Views : \E outcome \in Outcomes(v) :
    \/ \E reload \in BOOLEAN : OpenView(v, reload, outcome)
    \/ Enter(v, outcome)
    \/ ViewDiff(v, outcome)
    \/ WalkParent(v, outcome)

\* The process is gone.
Terminated == status # "running" /\ UNCHANGED screenVars

ScreenNext ==
  \/ Opening
  \/ EnterNothing
  \/ WalkParentOnly
  \/ WalkToNothing
  \/ ViewNext
  \/ Maximize
  \/ RefreshStage
  \/ Close
  \/ CloseLast
  \/ Quit
  \/ StageRead
  \/ StageReadNothing
  \/ Terminated

ScreenSpec == ScreenInit /\ [][ScreenNext]_screenVars

\* The user keeps pressing the key that closes views.
ClosingSpec == ScreenSpec /\ WF_screenVars(Close \/ CloseLast)

-------------------------------------------------------------------------------
(* Properties.                                                             *)

ScreenOK ==
  /\ screen \in Screens
  /\ status \in {"running", "quit", "aborted"}

\* The view that has the focus is on the screen: the main loop dereferences
\* display[current_view] after every request.
FocusIsDisplayed == Current(screen) \in Displayed(screen)

\* A split shows two views (view.h: OPEN_SPLIT, "Split current view").
SplitShowsTwoViews == screen.child # screen.base

\* Closing the child of a split leads to view v, and the up and down keys walk
\* the lines of v and of no other view, if any.
ChildLinksTo(v) ==
  /\ screen.prev[screen.child] = v
  /\ screen.parent[screen.child] \in {v, NoView}

\* The links of a child lead to the view above it and not out of the screen:
\* "don't use a child view as previous view" (open_view).  There is one
\* exception, two splits after each other.  When a child (the status view) is opened once more
\* from the view above it and fails to load, it stays on the screen without a
\* parent; the view its Enter key then opens takes its place and links to it.
ChildBelongsToBase ==
  screen.child # NoView =>
    \/ ChildLinksTo(screen.base)
    \/ \E v \in Children[screen.base] :
         /\ screen.parent[v] = NoView
         /\ screen.child \in Children[v]
         /\ ChildLinksTo(v)

\* "If it is the last open view it will quit" (doc/manual.adoc): views link to
\* each other in circles, but whoever keeps closing views and opens no more
\* comes to the last one.
ClosingQuits == []<><<Opening>>_screenVars \/ <>(status # "running")

\* assert(view_is_displayed(view)) in scroll_view and update_view_title.
EnterNeverAsserts == status # "aborted"
===============================================================================
